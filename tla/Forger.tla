-------------------------------- MODULE Forger ------------------------------
(***************************************************************************)
(* The forger of one node (framework/src/node/forger): when a slot of one  *)
(* of its delegates comes it builds a block on its tip, writes down that   *)
(* it did, and hands the block to the processor, which broadcasts it and   *)
(* applies it. Meanwhile blocks arrive, the synchronizer moves the node to *)
(* other chains, delegates are switched on and off, and the node crashes.  *)
(*                                                                         *)
(* The two tables the forger keeps in its own database are all that stops  *)
(* a delegate from signing headers that contradict each other and from     *)
(* revealing the wrong layer of its hash onion.                            *)
(*                                                                         *)
(* A chain is the sequence of its blocks above the genesis block; a chain  *)
(* also stands for the id of its last block. Time is left out: a slot of   *)
(* any delegate may come at any moment.                                    *)
(***************************************************************************)
EXTENDS Integers, SequencesExt

CONSTANTS
  Forgers,          \* forging.delegates of the configuration, in its order
  OnionCount,       \* hashOnion.count: layers of an onion above the first
  Overlap,          \* TRUE: a status update may run while a block is forged
  FirstPrevoted,    \* heights prevoted along the chain at the start, by height
  LongestChain,     \* bound on the length of a chain
  MaxPrevoted,      \* bound on the heights that get prevoted
  Stated,           \* heights an operator states to overwrite the record
  Budgets           \* bounds: how many blocks are forged, crashes and
                    \* status updates happen; a behaviour takes one of them

ASSUME ForgerAssumption ==
  /\ Overlap \in BOOLEAN
  /\ {OnionCount, LongestChain, MaxPrevoted} \cup Stated \subseteq Nat
  /\ Budgets \subseteq [forged : Nat, restarts : Nat, updates : Nat]
  /\ FirstPrevoted \in Seq(Nat)
  /\ \A h \in DOMAIN FirstPrevoted :
       FirstPrevoted[h] <= h /\ \A g \in 1..h : FirstPrevoted[g] <= FirstPrevoted[h]

Delegate == ToSet(Forgers)
NoInfo == [height |-> -1]
Stranger == "stranger"

VARIABLES
  forged,           \* db: previouslyForgedMap, delegate -> info or NoInfo
  used,             \* db: usedHashOnions, the list
  registered,       \* db: delegate -> version of its registered onion, or 0
  onion,            \* configuration: delegate -> version of its onion
  enabled,          \* _keypairs: the delegates that forge
  job,              \* the block that is being forged
  update,           \* the status update that is being carried out
  chain,            \* the node's chain
  finalized,        \* bft.finalizedHeight
  syncFrom,         \* the chain a running synchronization left, or Idle
  broadcast,        \* history: chains whose last block this node broadcast
  failed,           \* history: those the node did not make its own tip
  lost,             \* history: delegates with a used onion without its block,
                    \* or with a new onion in use that was not registered
  overwritten,      \* history: delegates whose info an operator replaced
  left              \* what is left of the budget

forgerDb == <<forged, used, registered>>
forgerVars == <<forged, used, registered, onion, enabled, job, update, chain,
          finalized, syncFrom, broadcast, failed, lost, overwritten, left>>

Idle == [pc |-> "idle"]

-----------------------------------------------------------------------------
(* Chains and headers. *)

Genesis == [gen |-> Stranger, mhpf |-> 0, mhp |-> 0, next |-> 0,
            version |-> 0, seed |-> 0]

TipOf(c) == IF c = <<>> THEN Genesis ELSE Last(c)

\* bft.getMaxHeightPrevoted: what the votes in the chain prevote. Of a block,
\* next is that height once the block is applied.
MaxHeightPrevoted(c) == TipOf(c).next

\* The heights a chain may prevote once another block is applied.
NextPrevoted(c) ==
  {h \in {MaxHeightPrevoted(c), MaxHeightPrevoted(c) + 1} : 
     h <= Len(c) + 1 /\ h <= MaxPrevoted}

\* isDifferentChain: the tip of c outranks the tip of d.
Outranks(c, d) ==
  \/ TipOf(c).mhp > TipOf(d).mhp
  \/ TipOf(c).mhp = TipOf(d).mhp /\ Len(c) > Len(d)

StrangersBlock(c, next) ==
  [gen |-> Stranger, mhpf |-> 0, mhp |-> MaxHeightPrevoted(c), next |-> next,
   version |-> 0, seed |-> 0]

\* The chains one block of another node makes of c, and two blocks.
Extended(c) == {Append(c, StrangersBlock(c, next)) : next \in NextPrevoted(c)}
ExtendedTwice(c) == UNION {Extended(d) : d \in Extended(c)}

Header(c) ==
  [id |-> c, gen |-> Last(c).gen, height |-> Len(c), mhpf |-> Last(c).mhpf,
   mhp |-> Last(c).mhp]

Ledger == INSTANCE VotingLedger WITH
  Validator <- Delegate, Participant <- Delegate,
  ActiveFrom <- [d \in Delegate |-> 1], Threshold <- 1

FirstChain ==
  [h \in DOMAIN FirstPrevoted |->
     [Genesis EXCEPT !.mhp = IF h = 1 THEN 0 ELSE FirstPrevoted[h - 1],
                     !.next = FirstPrevoted[h]]]

\* The delegates of this node that forged above a height.
OwnersOf(c, from) == {c[h].gen : h \in (from + 1)..Len(c)} \ {Stranger}

-----------------------------------------------------------------------------
(* Hash onions. A use is the layer revealed (count) at a height.           *)

UsesOf(d, list) == {i \in DOMAIN list : list[i].address = d}

\* The first of the greatest heights, as the reduce with < finds it.
Highest(list, places) ==
  CHOOSE i \in places :
    \A j \in places : \/ list[j].height < list[i].height
                      \/ list[j].height = list[i].height /\ i <= j

\* _getNextHashOnion: the layer after the one used highest below the height.
\* Past the last layer a random onion starts (version 0).
NextHashOnion(list, d, height) ==
  LET below == {i \in UsesOf(d, list) : list[i].height < height}
      next  == list[Highest(list, below)].count + 1
  IN  IF below = {} THEN [version |-> onion[d], count |-> 0]
      ELSE IF next > OnionCount THEN [version |-> 0, count |-> 0]
      ELSE [version |-> onion[d], count |-> next]

\* The list with the new use in the place of the same layer's, or at its end.
Recorded(list, use) ==
  LET same == {i \in DOMAIN list :
                 list[i].address = use.address /\ list[i].count = use.count}
  IN  IF same = {} THEN Append(list, use)
      ELSE [list EXCEPT ![CHOOSE i \in same : \A j \in same : i <= j] = use]

\* The entries of a list at some of its places, in their order.
EntriesAt(list, places) ==
  [i \in 1..Cardinality(places) |->
     list[CHOOSE p \in places : Cardinality({q \in places : q < p}) = i - 1]]

\* _filterUsedHashOnions: of each address the greatest height, and what was
\* pushed out of that place by a later entry, if it is not final. An entry
\* that comes after a greater height is dropped.
PushedOut(list, i) ==
  LET before(k) == {j \in 1..(k - 1) : list[j].address = list[i].address}
      rises(k)  == \A j \in before(k) : list[j].height < list[k].height
  IN  /\ rises(i)
      /\ \E k \in (i + 1)..Len(list) :
           list[k].address = list[i].address /\ rises(k)

RisesTo(list, i) ==
  \A j \in 1..(i - 1) :
    list[j].address = list[i].address => list[j].height < list[i].height

FilterUsedHashOnions(list, finalizedHeight) ==
  LET others == {i \in DOMAIN list : PushedOut(list, i) /\ list[i].height > finalizedHeight}
      tops   == {i \in DOMAIN list : RisesTo(list, i) /\ ~PushedOut(list, i)}
  IN  EntriesAt(list, others) \o EntriesAt(list, tops)

-----------------------------------------------------------------------------
(* forge. Each await that another task can come between is a step.         *)

Info(height, mhp, mhpf) == [height |-> height, mhp |-> mhp, mhpf |-> mhpf]
ZeroInfo == Info(0, 0, 0)

NotProcessing == job.pc # "processing"

\* The delegate's slot came, it is enabled, and the node is not synchronizing:
\* previousBlock is the tip before the transactions are selected.
ForgeBegin(d) ==
  /\ job = Idle
  /\ syncFrom = Idle
  /\ d \in enabled
  /\ Len(chain) < LongestChain
  /\ left.forged > 0
  /\ Overlap \/ update = Idle
  /\ job' = [pc |-> "begun", d |-> d, on |-> chain]
  /\ left' = [left EXCEPT !.forged = @ - 1]
  /\ UNCHANGED <<forgerDb, onion, enabled, update, chain, finalized, syncFrom,
                 broadcast, failed, lost, overwritten>>

\* Mutant: the last block on the chain instead of the record.
LastOnChain(d) ==
  LET own == {h \in DOMAIN chain : chain[h].gen = d}
  IN  IF own = {} THEN 0 ELSE CHOOSE h \in own : \A g \in own : g <= h

MaxHeightPreviouslyForged(d) == IF forged[d] = NoInfo THEN 0 ELSE forged[d].height

\* The used onions and the map of forged heights are read, the header made
\* and signed. The prevoted height is that of the chain at this moment.
Create ==
  /\ job.pc = "begun"
  /\ LET d      == job.d
         height == Len(job.on) + 1
         layer  == NextHashOnion(used, d, height)
         use    == [address |-> d, count |-> layer.count, height |-> height]
     IN  \E next \in NextPrevoted(job.on) :
           job' = [pc    |-> "created", d |-> d, on |-> job.on,
                   map   |-> forged,
                   list  |-> FilterUsedHashOnions(Recorded(used, use), finalized),
                   block |-> [gen |-> d, mhpf |-> MaxHeightPreviouslyForged(d),
                              mhp |-> MaxHeightPrevoted(chain), next |-> next,
                              version |-> layer.version, seed |-> layer.count]]
  /\ UNCHANGED <<forgerDb, onion, enabled, update, chain, finalized, syncFrom,
                 broadcast, failed, lost, overwritten, left>>

\* Mutant: the record is written whatever its height.
SaveRecordAlways ==
  /\ job.pc = "created"
  /\ forged' = [job.map EXCEPT ![job.d] =
                  Info(Len(job.on) + 1, job.block.mhp, job.block.mhpf)]
  /\ job' = [job EXCEPT !.pc = "recorded"]
  /\ UNCHANGED <<used, registered, onion, enabled, update, chain, finalized,
                 syncFrom, broadcast, failed, lost, overwritten, left>>

\* saveMaxHeightPreviouslyForged: the whole map read earlier is written, with
\* the new height if it is greater.
SaveRecord ==
  /\ job.pc = "created"
  /\ LET height == Len(job.on) + 1
         before == IF job.map[job.d] = NoInfo THEN 0 ELSE job.map[job.d].height
     IN  forged' = IF height <= before THEN forged
                   ELSE [job.map EXCEPT ![job.d] =
                           Info(height, job.block.mhp, job.block.mhpf)]
  /\ job' = [job EXCEPT !.pc = "recorded"]
  /\ UNCHANGED <<used, registered, onion, enabled, update, chain, finalized,
                 syncFrom, broadcast, failed, lost, overwritten, left>>

SaveOnion ==
  /\ job.pc = "recorded"
  /\ used' = job.list
  /\ job' = [job EXCEPT !.pc = "kept"]
  /\ UNCHANGED <<forged, registered, onion, enabled, update, chain, finalized,
                 syncFrom, broadcast, failed, lost, overwritten, left>>

Forged == Append(job.on, job.block)

\* The processor takes the block only on the tip it was built on, and the
\* header is verified before it is broadcast.
IsValidOnTip == chain = job.on /\ job.block.mhp = MaxHeightPrevoted(chain)

Broadcast ==
  /\ job.pc = "kept"
  /\ IsValidOnTip
  /\ broadcast' = broadcast \cup {Forged}
  /\ job' = [job EXCEPT !.pc = "processing"]
  /\ UNCHANGED <<forgerDb, onion, enabled, update, chain, finalized, syncFrom,
                 failed, lost, overwritten, left>>

DiscardBlock ==
  /\ job.pc = "kept"
  /\ ~IsValidOnTip
  /\ job' = Idle
  /\ lost' = lost \cup {job.d}
  /\ UNCHANGED <<forgerDb, onion, enabled, update, chain, finalized, syncFrom,
                 broadcast, failed, overwritten, left>>

\* The block is applied and saved: it is the tip.
Adopt ==
  /\ job.pc = "processing"
  /\ chain' = Forged
  /\ job' = Idle
  /\ UNCHANGED <<forgerDb, onion, enabled, update, finalized, syncFrom, broadcast,
                 failed, lost, overwritten, left>>

\* Applying the block throws: it is broadcast and not on the chain.
ApplyFails ==
  /\ job.pc = "processing"
  /\ failed' = failed \cup {Forged}
  /\ lost' = lost \cup {job.d}
  /\ job' = Idle
  /\ UNCHANGED <<forgerDb, onion, enabled, update, chain, finalized, syncFrom,
                 broadcast, overwritten, left>>

-----------------------------------------------------------------------------
(* updateForgingStatus: the action of the API and its two awaits.          *)

\* Nothing forged after this info could have been forgotten: the tip has
\* passed it.
IsSyncedWithNetwork(info) ==
  IF chain = <<>> THEN info.height <= 0 /\ info.mhp <= 0
  ELSE \/ info.mhp < TipOf(chain).mhp
       \/ info.mhp = TipOf(chain).mhp /\ info.height < Len(chain)

Disable(d) ==
  /\ d \in enabled
  /\ enabled' = enabled \ {d}
  /\ UNCHANGED <<forgerDb, onion, job, update, chain, finalized, syncFrom, broadcast,
                 failed, lost, overwritten, left>>

\* What an operator may state: nothing forged yet, what the node has stored,
\* or with overwrite the info of another node.
Input(d, overwrite) ==
  IF overwrite THEN {Info(height, 0, 0) : height \in Stated}
               ELSE {ZeroInfo} \cup ({forged[d]} \ {NoInfo})

IsNotContradicted(d, info) ==
  IF forged[d] = NoInfo THEN info = ZeroInfo ELSE info = forged[d]

EnableBegin(d, overwrite) ==
  /\ update = Idle
  /\ left.updates > 0
  /\ Overlap \/ job = Idle
  /\ \E info \in Input(d, overwrite) :
       /\ IsSyncedWithNetwork(info)
       /\ overwrite \/ IsNotContradicted(d, info)
       /\ update' = [pc |-> "read", d |-> d, info |-> info, map |-> forged,
                     overwrite |-> overwrite]
       /\ overwritten' = IF overwrite THEN overwritten \cup {d} ELSE overwritten
  /\ left' = [left EXCEPT !.updates = @ - 1]
  /\ UNCHANGED <<forgerDb, onion, enabled, job, chain, finalized, syncFrom,
                 broadcast, failed, lost>>

\* Mutant: whatever was stated is written.
EnableEndAlways ==
  /\ update.pc = "read"
  /\ forged' = [update.map EXCEPT ![update.d] = ZeroInfo]
  /\ enabled' = enabled \cup {update.d}
  /\ update' = Idle
  /\ UNCHANGED <<used, registered, onion, job, chain, finalized, syncFrom,
                 broadcast, failed, lost, overwritten, left>>

\* The map as it was read is written back with the delegate's info.
EnableEnd ==
  /\ update.pc = "read"
  /\ forged' = IF update.map[update.d] = NoInfo \/ update.overwrite
                 THEN [update.map EXCEPT ![update.d] = update.info]
                 ELSE forged
  /\ enabled' = enabled \cup {update.d}
  /\ update' = Idle
  /\ UNCHANGED <<used, registered, onion, job, chain, finalized, syncFrom,
                 broadcast, failed, lost, overwritten, left>>

-----------------------------------------------------------------------------
(* The rest of the node: blocks of others and the synchronizer.            *)

\* A block on the tip; it may be one this node broadcast and did not keep.
ReceiveBlock ==
  /\ NotProcessing
  /\ syncFrom = Idle
  /\ Len(chain) < LongestChain
  /\ chain' \in Extended(chain) \cup
       {c \in broadcast : chain = SubSeq(c, 1, Len(c) - 1)}
  /\ UNCHANGED <<forgerDb, onion, enabled, job, update, finalized, syncFrom,
                 broadcast, failed, lost, overwritten, left>>

Finalize ==
  /\ NotProcessing
  /\ syncFrom = Idle
  /\ finalized < TipOf(chain).mhp
  /\ finalized' = TipOf(chain).mhp
  /\ UNCHANGED <<forgerDb, onion, enabled, job, update, chain, syncFrom, broadcast,
                 failed, lost, overwritten, left>>

\* Mutant: blocks below the finalized height are reverted too.
SyncBeginBelowFinal ==
  /\ NotProcessing
  /\ syncFrom = Idle
  /\ \E common \in 0..(Len(chain) - 1) :
       /\ chain' = SubSeq(chain, 1, common)
       /\ syncFrom' = [pc |-> "reverted", old |-> chain, common |-> common]
       /\ lost' = lost \cup OwnersOf(chain, common)
  /\ UNCHANGED <<forgerDb, onion, enabled, job, update, finalized, broadcast, failed,
                 overwritten, left>>

\* The synchronizer reverts to a common block; it has checked that the tip of
\* the other chain is preferred to the node's own.
SyncBegin ==
  /\ NotProcessing
  /\ syncFrom = Idle
  /\ \E common \in finalized..(Len(chain) - 1) :
       /\ chain' = SubSeq(chain, 1, common)
       /\ syncFrom' = [pc |-> "reverted", old |-> chain, common |-> common]
       /\ lost' = lost \cup OwnersOf(chain, common)
  /\ UNCHANGED <<forgerDb, onion, enabled, job, update, finalized, broadcast, failed,
                 overwritten, left>>

OtherChains(old, common) ==
  LET base == SubSeq(old, 1, common)
      known == {c \in broadcast : /\ Len(c) > common
                                  /\ SubSeq(c, 1, common) = base}
  IN  {c \in known \cup UNION {Extended(b) \cup ExtendedTwice(b) : b \in {base} \cup known} :
         /\ Len(c) <= LongestChain
         /\ Outranks(c, old)}

\* The other chain is applied; a block forged meanwhile was in its way.
SyncDone ==
  /\ NotProcessing
  /\ syncFrom.pc = "reverted"
  /\ Len(chain) = syncFrom.common
  /\ chain' \in OtherChains(syncFrom.old, syncFrom.common)
  /\ syncFrom' = Idle
  /\ UNCHANGED <<forgerDb, onion, enabled, job, update, finalized, broadcast, failed,
                 lost, overwritten, left>>

\* A block of the other chain fails: what is above the common block is deleted
\* and the old chain restored.
SyncFails ==
  /\ NotProcessing
  /\ syncFrom.pc = "reverted"
  /\ chain' = syncFrom.old
  /\ lost' = lost \cup OwnersOf(chain, syncFrom.common)
  /\ syncFrom' = Idle
  /\ UNCHANGED <<forgerDb, onion, enabled, job, update, finalized, broadcast, failed,
                 overwritten, left>>

-----------------------------------------------------------------------------
(* A crash, the restart and loadDelegates.                                 *)

HighestCount(d, list) ==
  LET counts == {list[i].count : i \in UsesOf(d, list)}
  IN  CHOOSE c \in counts \cup {-1} : \A b \in counts \cup {-1} : b <= c

\* Mutant: the used layers are dropped on every start.
KeptNone(version, list) == <<>>

\* The used layers of an onion that is no longer the configured one are
\* dropped.
KeptUses(version, list) ==
  EntriesAt(list, {i \in DOMAIN list :
                     registered[list[i].address] \in {0, version[list[i].address]}})

\* Loading stops at the first delegate whose onion is used up, after its key
\* was taken.
Loaded(list) ==
  {d \in Delegate :
     \E i \in DOMAIN Forgers :
       /\ Forgers[i] = d
       /\ \A j \in 1..(i - 1) : HighestCount(Forgers[j], list) < OnionCount}

LoadDelegates(force, version) ==
  IF force
    THEN LET list == KeptUses(version, used)
         IN  /\ enabled' = Loaded(list)
             /\ IF \E d \in Delegate : HighestCount(d, list) >= OnionCount
                  THEN UNCHANGED <<used, registered>>
                  ELSE used' = list /\ registered' = version
    ELSE enabled' = {} /\ UNCHANGED <<used, registered>>

\* The restart puts back the chain an interrupted synchronization left, if
\* nothing better is there.
RestoredChains ==
  IF syncFrom = Idle THEN {chain}
  ELSE {syncFrom.old} \cup {c \in {chain} : Outranks(c, syncFrom.old)}

\* force: forging.force of the configuration. The operator may have put new
\* onions into it, as the warning of loadDelegates asks.
Restart(force, renew) ==
  /\ left.restarts > 0
  /\ left' = [left EXCEPT !.restarts = @ - 1]
  /\ onion' = IF renew THEN [d \in Delegate |-> onion[d] + 1] ELSE onion
  /\ LoadDelegates(force, onion')
  /\ job' = Idle
  /\ update' = Idle
  /\ syncFrom' = Idle
  /\ chain' \in RestoredChains
  /\ failed' = IF job.pc = "processing" THEN failed \cup {Forged} ELSE failed
  /\ lost' = lost
       \cup (IF job.pc \in {"kept", "processing"} THEN {job.d} ELSE {})
       \cup (IF syncFrom = Idle THEN {} ELSE OwnersOf(chain, syncFrom.common))
       \cup (IF renew /\ ~force THEN Delegate ELSE {})
  /\ UNCHANGED <<forged, finalized, broadcast, overwritten>>

-----------------------------------------------------------------------------
ForgerInit ==
  /\ forged = [d \in Delegate |-> NoInfo]
  /\ used = <<>>
  /\ onion = [d \in Delegate |-> 1]
  /\ \/ enabled = Delegate /\ registered = onion
     \/ enabled = {} /\ registered = [d \in Delegate |-> 0]
  /\ job = Idle
  /\ update = Idle
  /\ chain = FirstChain
  /\ finalized = 0
  /\ syncFrom = Idle
  /\ broadcast = {}
  /\ failed = {}
  /\ lost = {}
  /\ overwritten = {}
  /\ left \in Budgets

ForgerNext ==
  \/ \E d \in Delegate : ForgeBegin(d) \/ Disable(d)
  \/ Create \/ SaveRecord \/ SaveOnion
  \/ Broadcast \/ DiscardBlock \/ Adopt \/ ApplyFails
  \/ \E d \in Delegate, overwrite \in BOOLEAN : EnableBegin(d, overwrite)
  \/ EnableEnd
  \/ ReceiveBlock \/ Finalize
  \/ SyncBegin \/ SyncDone \/ SyncFails
  \/ \E force, renew \in BOOLEAN : Restart(force, renew)

ForgerSpec == ForgerInit /\ [][ForgerNext]_forgerVars

-----------------------------------------------------------------------------
\* The record holds what its schema says, the keys are of the configured
\* delegates, and the finalized height is never above the tip.
ForgerTypeOK ==
  /\ forged \in [Delegate -> {NoInfo} \cup [height : Nat, mhp : Nat, mhpf : Nat]]
  /\ enabled \subseteq Delegate
  /\ job.pc \in {"idle", "begun", "created", "recorded", "kept", "processing"}
  /\ finalized \in 0..Len(chain)
  /\ failed \subseteq broadcast

\* The record is written before the block goes out: whatever happens
\* afterwards, the stored height is at least that of every block of the
\* delegate that others may have seen, unless an operator replaced it
\* (forger.ts:708, data_access.ts saveMaxHeightPreviouslyForged).
RecordCoversBroadcast ==
  \A c \in broadcast :
    Last(c).gen \in overwritten
    \/ /\ forged[Last(c).gen] # NoInfo
       /\ forged[Last(c).gen].height >= Len(c)

\* Two headers a delegate sent out contradict each other only if the node
\* failed or crashed between sending one of them and making it its tip: no
\* switch of chains, no restart and no status update makes an honest delegate
\* punishable.
OnlyFailedContradict ==
  \A c, d \in broadcast :
    ( /\ Last(c).gen = Last(d).gen
      /\ Last(c).gen \notin overwritten
      /\ Ledger!Contradicting(Header(c), Header(d)) )
    => failed \cap {c, d} # {}

\* As long as none of a delegate's blocks was lost, and a new onion came with
\* a start that registers it, each of them reveals the layer after the one
\* before it: isValidSeedReveal holds and its reward is not taken away
\* (_getNextHashOnion, _filterUsedHashOnions).
SeedsFollow ==
  \A i, j \in DOMAIN chain :
    ( /\ i < j
      /\ chain[i].gen = chain[j].gen
      /\ chain[i].gen \notin lost \cup {Stranger}
      /\ \A k \in (i + 1)..(j - 1) : chain[k].gen # chain[i].gen
      /\ chain[i].version = chain[j].version
      /\ chain[i].version # 0 )
    => chain[j].seed = chain[i].seed + 1

\* The stored height of a delegate only grows, as the comment at
\* data_access.ts:278 says, except where an operator overwrites it.
RecordNeverFalls ==
  [][\A d \in Delegate \ overwritten' :
       forged[d] # NoInfo =>
         forged'[d] # NoInfo /\ forged'[d].height >= forged[d].height]_forgerVars

\* A layer already revealed on the chain is not revealed again further up.
NoLayerTwice ==
  \A i, j \in DOMAIN chain :
    ( /\ i < j
      /\ chain[i].gen = chain[j].gen
      /\ chain[i].gen # Stranger
      /\ chain[i].version = chain[j].version
      /\ chain[i].version # 0 )
    => chain[i].seed # chain[j].seed

\* A forger is honest as far as its record goes: it covers every block sent out,
\* and only a block that failed may be contradicted.
ForgerHonest == ForgerTypeOK /\ RecordCoversBroadcast /\ OnlyFailedContradict
=============================================================================
