----------------------------- MODULE Synchronizer ---------------------------
(***************************************************************************)
(* framework/src/node/synchronizer: how a node leaves its chain for        *)
(* another. The blocks above the common block are moved to a table of      *)
(* temporary blocks, the blocks of the peer are applied, and if that fails *)
(* the old chain is restored from the table; after a crash the table is    *)
(* looked at on startup.                                                   *)
(*                                                                         *)
(* Every step is one job of the processor, which other jobs may come       *)
(* before, or one wait for the network. The processor is taken as          *)
(* ChainStore describes it (NodeProofs shows that it may be). A block      *)
(* has one more field than in Processor: applies, whether it is valid once *)
(* it is executed on its parent.                                           *)
(***************************************************************************)
EXTENDS ForkChoice, Sequences, FiniteSets

CONSTANTS
  Block,            \* the blocks in circulation
  GenesisBlock,     \* the block of height 0
  None,             \* no block
  MaxQueued,        \* bound on the block jobs that wait for the processor
  MaxCrashes        \* bound on the restarts

\* Ids are hashes: no two blocks have the same. A block in circulation came
\* from some chain, so the blocks below it are in circulation too, and one that
\* can be executed does not claim a lower maxHeightPrevoted than its parent,
\* as the voting ledger then refuses it (verifyBlockHeaders; the model is of a
\* chain past the first three rounds, see VotingChain).
ASSUME SynchronizerAssumption ==
  /\ None \notin Block
  /\ GenesisBlock \notin Block
  /\ GenesisBlock.height = 0 /\ GenesisBlock.mhp \in Nat
  /\ MaxQueued \in Nat \ {0} /\ MaxCrashes \in Nat
  /\ \A b \in Block :
       /\ b.height \in Nat \ {0} /\ b.mhp \in Nat /\ b.precommitted \in Nat
       /\ b.applies \in BOOLEAN
       /\ b.id # GenesisBlock.id
       /\ \/ b.height = 1 /\ b.prev = GenesisBlock.id
          \/ \E p \in Block : p.id = b.prev /\ p.height = b.height - 1
  /\ \A b, c \in Block : b.id = c.id => b = c
  /\ \A b, p \in Block : b.prev = p.id /\ b.applies => p.mhp <= b.mhp

VARIABLES
  chain,            \* blocks by height, above the genesis block
  finalized,        \* finalized height
  temp,             \* table of temporary blocks, keyed by height
  queued,           \* blocks received that wait for the processor's mutex
  pc,               \* where the run of the synchronizer stands
  mechanism,        \* "block", "fast", or "startup" for synchronizer.init
  target,           \* the received block that asked for the run
  peerTip,          \* tip of the chain of the peer that is asked
  common,           \* height of the last common block
  lastFetched,      \* id of the last block the peer sent
  toApply,          \* blocks still to be applied
  stopping,         \* mechanism._stop
  crashes,          \* restarts so far
  oldTip            \* history: the tip this run started from, None when the
                    \* table was not empty then or another job added a block

storeVars == <<chain, finalized, temp>>
runVars == <<mechanism, target, peerTip, common, lastFetched>>
vars == <<chain, finalized, temp, queued, pc, mechanism, target, peerTip,
          common, lastFetched, toApply, stopping, crashes, oldTip>>

Store == INSTANCE ChainStore

Tip == Store!Tip

-----------------------------------------------------------------------------
IsParent(p, b) == p.id = b.prev

\* A block and its ancestors above the genesis block: the least set that has
\* the block, and with a block the one below it.
Branch ==
  [b \in Block |->
    {c \in Block :
      \A S \in SUBSET Block :
        /\ b \in S
        /\ \A x \in S, p \in Block : IsParent(p, x) => p \in S
        => c \in S}]

BlockAt(b, height) == CHOOSE c \in Branch[b] : c.height = height

\* The blocks of b's branch from height from to height upto.
Segment(b, from, upto) == [i \in 1..(upto - from + 1) |-> BlockAt(b, from + i - 1)]

OnBranch(b, height) ==
  height # 0 => height <= b.height /\ chain[height] = BlockAt(b, height)

\* forkChoice of a block against the tip; a tip without receivedAt is never
\* replaced by a tie break.
StatusAgainst(last, block) == ForkStatus(last, 0, block, GenesisTime)

Preferred(block, last) == StatusAgainst(last, block) = "DIFFERENT_CHAIN"

HighestTemp == CHOOSE b \in temp : \A c \in temp : b.height >= c.height
LowestTemp  == CHOOSE b \in temp : \A c \in temp : b.height <= c.height

\* restoreBlocks: the table in ascending order of height.
TempInOrder ==
  LET heights == {b.height : b \in temp}
      Rank(b) == Cardinality({h \in heights : h <= b.height})
  IN  [i \in 1..Cardinality(temp) |-> CHOOSE b \in temp : Rank(b) = i]

CanApply(block) ==
  /\ block.applies
  /\ block.height = Tip.height + 1
  /\ block.prev = Tip.id

Apply(block, fromTemp) ==
  Store!Append1(block,
    IF block.precommitted > finalized THEN block.precommitted ELSE finalized,
    fromTemp)

\* What a run works with are local variables of its methods.
Forget == target' = None /\ peerTip' = None /\ common' = 0 /\ lastFetched' = None

EndRun ==
  /\ pc' = "idle"
  /\ mechanism' = "block" /\ Forget
  /\ toApply' = <<>>
  /\ oldTip' = None

Init ==
  /\ Store!Init
  /\ queued = <<>>
  /\ pc = "idle" /\ mechanism = "block"
  /\ target = None /\ peerTip = None /\ common = 0 /\ lastFetched = None
  /\ toApply = <<>>
  /\ stopping = FALSE /\ crashes = 0
  /\ oldTip = None

-----------------------------------------------------------------------------
(* Blocks from the network. While the synchronizer is active they are      *)
(* ignored; those that already wait for the processor are still processed. *)

ReceiveBlock(block) ==
  /\ pc = "idle" /\ ~stopping
  /\ Len(queued) < MaxQueued
  /\ queued' = Append(queued, block)
  /\ UNCHANGED <<storeVars, runVars, pc, toApply, stopping, crashes, oldTip>>

ProcessValid ==
  /\ queued # <<>>
  /\ StatusAgainst(Tip, Head(queued)) = "VALID_BLOCK"
  /\ Head(queued).applies
  /\ Apply(Head(queued), FALSE)
  /\ queued' = Tail(queued)
  /\ oldTip' = None
  /\ UNCHANGED <<runVars, pc, toApply, stopping, crashes>>

\* A block of another chain starts a run, unless one is under way.
ProcessOther ==
  /\ queued # <<>>
  /\ ~CanApply(Head(queued))
  /\ IF Preferred(Head(queued), Tip) /\ pc = "idle" /\ ~stopping
       THEN /\ pc' = "choose"
            /\ target' = Head(queued)
       ELSE UNCHANGED <<pc, target>>
  /\ queued' = Tail(queued)
  /\ UNCHANGED <<storeVars, mechanism, peerTip, common, lastFetched, toApply,
                 stopping, crashes, oldTip>>

-----------------------------------------------------------------------------
(* A run. *)

\* The block is invalid, no mechanism suits it, or no peer does.
AbortRun ==
  /\ pc = "choose"
  /\ EndRun
  /\ UNCHANGED <<storeVars, queued, stopping, crashes>>

AnyCommon == 0

LowestCommon == finalized

Begin(chosen, peer, height) ==
  /\ pc = "choose"
  /\ height \in LowestCommon..Len(chain)
  /\ OnBranch(peer, height)
  /\ mechanism' = chosen /\ peerTip' = peer /\ common' = height
  /\ lastFetched' = IF height = 0 THEN GenesisBlock.id ELSE chain[height].id
  /\ pc' = "revert"
  /\ oldTip' = IF temp = {} /\ Tip \in Block THEN Tip ELSE None
  /\ UNCHANGED <<storeVars, target, queued, stopping, crashes>>

\* BlockSynchronizationMechanism: the best peer's tip outranks the node's, or is
\* the same. The common block is the last of some round, not always the highest.
StartBlockSync(peer, height) ==
  /\ Begin("block", peer, height)
  /\ Preferred(peer, Tip) \/ peer = Tip
  /\ toApply' = <<>>

\* FastChainSwitchingMechanism: all blocks are fetched and validated first.
\* After ten failed requests the list ends early. The preference of the received
\* block was found when it was processed, and is not looked at again.
StartFastSwitch(height, upto) ==
  /\ Begin("fast", target, height)
  /\ upto \in (height + 1)..target.height
  /\ toApply' = Segment(target, height + 1, upto)

NoBackup == FALSE

BackupOnRevert == TRUE

\* deleteBlocksAfterHeight, with a backup of every block.
Revert ==
  /\ pc = "revert"
  /\ Len(chain) > common
  /\ Store!RemoveTip(BackupOnRevert)
  /\ UNCHANGED <<runVars, queued, pc, toApply, stopping, crashes, oldTip>>

\* The processor refuses to delete a finalized block: the run ends.
RevertRefused ==
  /\ pc = "revert"
  /\ Len(chain) > common /\ Len(chain) <= finalized
  /\ EndRun
  /\ UNCHANGED <<storeVars, queued, stopping, crashes>>

RevertDone ==
  /\ pc = "revert"
  /\ Len(chain) <= common
  /\ pc' = IF mechanism = "block" THEN "fetch" ELSE "apply"
  /\ UNCHANGED <<storeVars, runVars, queued, toApply, stopping, crashes, oldTip>>

\* The peer sends the next block of its chain (a longer answer is several of
\* these steps).
Fetch ==
  /\ pc = "fetch"
  /\ \E block \in Branch[peerTip] :
       /\ block.prev = lastFetched
       /\ toApply' = <<block>>
       /\ lastFetched' = block.id
  /\ pc' = "apply"
  /\ UNCHANGED <<storeVars, mechanism, target, peerTip, common, queued,
                 stopping, crashes, oldTip>>

\* Ten requests without an answer: the peer is punished, and the run asked
\* for instead is dropped because this one still holds the mutex.
PeerSilent ==
  /\ pc = "fetch"
  /\ EndRun
  /\ UNCHANGED <<storeVars, queued, stopping, crashes>>

ApplyNext ==
  /\ pc = "apply" /\ ~stopping
  /\ toApply # <<>>
  /\ CanApply(Head(toApply))
  /\ Apply(Head(toApply), FALSE)
  /\ toApply' = Tail(toApply)
  /\ UNCHANGED <<runVars, queued, pc, stopping, crashes, oldTip>>

TriesAgain == "apply"

OnFailure == "failed"

ApplyFails ==
  /\ pc = "apply" /\ ~stopping
  /\ toApply # <<>>
  /\ ~CanApply(Head(toApply))
  /\ pc' = OnFailure
  /\ UNCHANGED <<storeVars, runVars, queued, toApply, stopping, crashes, oldTip>>

\* Stopped between two blocks, the loop returns as if it were done.
ApplyStopped ==
  /\ pc = "apply" /\ stopping
  /\ toApply # <<>>
  /\ pc' = "clear"
  /\ UNCHANGED <<storeVars, runVars, queued, toApply, stopping, crashes, oldTip>>

ApplyDone ==
  /\ pc = "apply"
  /\ toApply = <<>>
  /\ pc' = IF mechanism = "block" /\ Tip # target THEN "fetch" ELSE "clear"
  /\ UNCHANGED <<storeVars, runVars, queued, toApply, stopping, crashes, oldTip>>

ClearTable ==
  /\ pc = "clear"
  /\ Store!ClearTemp
  /\ EndRun
  /\ UNCHANGED <<queued, stopping, crashes>>

-----------------------------------------------------------------------------
(* After a block that could not be applied. *)

AlwaysKeepsNew == TRUE

NewTipHasPreference == Preferred(Tip, HighestTemp)

\* _handleBlockProcessingError. The fast switch goes back in any case.
HandleFailure ==
  /\ pc = "failed"
  /\ IF mechanism = "block" /\ temp = {}
       THEN EndRun
       ELSE /\ pc' = IF mechanism = "block" /\ NewTipHasPreference
                       THEN "clear" ELSE "undo"
            /\ UNCHANGED <<runVars, toApply, oldTip>>
  /\ UNCHANGED <<storeVars, queued, stopping, crashes>>

\* A failed restoration: the fast switch clears the table all the same (its
\* finally clause), the other two leave what is left of it.
GiveUpRestoring ==
  IF mechanism = "fast"
    THEN pc' = "clear" /\ UNCHANGED <<runVars, toApply, oldTip>>
    ELSE EndRun

\* deleteBlocksAfterHeight, without backup.
Undo ==
  /\ pc = "undo"
  /\ Len(chain) > common
  /\ Store!RemoveTip(FALSE)
  /\ UNCHANGED <<runVars, queued, pc, toApply, stopping, crashes, oldTip>>

UndoRefused ==
  /\ pc = "undo"
  /\ Len(chain) > common /\ Len(chain) <= finalized
  /\ GiveUpRestoring
  /\ UNCHANGED <<storeVars, queued, stopping, crashes>>

UndoDone ==
  /\ pc = "undo"
  /\ Len(chain) <= common
  /\ pc' = "restore"
  /\ toApply' = TempInOrder
  /\ UNCHANGED <<storeVars, runVars, queued, stopping, crashes, oldTip>>

RestoreNext ==
  /\ pc = "restore"
  /\ toApply # <<>>
  /\ CanApply(Head(toApply))
  /\ Apply(Head(toApply), TRUE)
  /\ toApply' = Tail(toApply)
  /\ UNCHANGED <<runVars, queued, pc, stopping, crashes, oldTip>>

RestoreFails ==
  /\ pc = "restore"
  /\ toApply # <<>>
  /\ ~CanApply(Head(toApply))
  /\ GiveUpRestoring
  /\ UNCHANGED <<storeVars, queued, stopping, crashes>>

RestoreDone ==
  /\ pc = "restore"
  /\ toApply = <<>>
  /\ IF mechanism = "startup"
       THEN EndRun
       ELSE pc' = "clear" /\ UNCHANGED <<runVars, toApply, oldTip>>
  /\ UNCHANGED <<storeVars, queued, stopping, crashes>>

-----------------------------------------------------------------------------
(* Stop, crash and startup. *)

Stop ==
  /\ ~stopping
  /\ stopping' = TRUE
  /\ UNCHANGED <<storeVars, runVars, queued, pc, toApply, crashes, oldTip>>

\* The process ends, at any point, and starts again.
Restart ==
  /\ crashes < MaxCrashes
  /\ crashes' = crashes + 1
  /\ pc' = IF temp = {} THEN "idle" ELSE "startup"
  /\ mechanism' = IF temp = {} THEN "block" ELSE "startup"
  /\ Forget
  /\ queued' = <<>> /\ toApply' = <<>> /\ stopping' = FALSE
  /\ oldTip' = IF temp = {} THEN None ELSE oldTip
  /\ UNCHANGED storeVars

\* restoreBlocksUponStartup.
Startup ==
  /\ pc = "startup"
  /\ IF StatusAgainst(Tip, HighestTemp) \in {"DIFFERENT_CHAIN", "VALID_BLOCK"}
       THEN /\ pc' = "undo"
            /\ common' = LowestTemp.height - 1
            /\ UNCHANGED <<storeVars, mechanism, target, peerTip, lastFetched,
                           toApply, oldTip>>
       ELSE Store!ClearTemp /\ EndRun
  /\ UNCHANGED <<queued, stopping, crashes>>

RunStep ==
  \/ AbortRun
  \/ \E peer \in Block, height \in 0..Len(chain) : StartBlockSync(peer, height)
  \/ \E height \in 0..Len(chain) : \E upto \in {b.height : b \in Block} :
       StartFastSwitch(height, upto)
  \/ Revert \/ RevertRefused \/ RevertDone
  \/ Fetch \/ PeerSilent
  \/ ApplyNext \/ ApplyFails \/ ApplyStopped \/ ApplyDone \/ ClearTable
  \/ HandleFailure \/ Undo \/ UndoRefused \/ UndoDone
  \/ RestoreNext \/ RestoreFails \/ RestoreDone
  \/ Startup

ProcessorStep == ProcessValid \/ ProcessOther

Next ==
  \/ \E block \in Block : ReceiveBlock(block)
  \/ ProcessorStep
  \/ RunStep
  \/ Stop \/ Restart

Spec == Init /\ [][Next]_vars

\* Promises of the run settle: requests to peers time out, and the mutex of
\* the processor is handed on in order.
FairSpec == Spec /\ WF_vars(RunStep) /\ WF_vars(ProcessorStep)

-----------------------------------------------------------------------------
TypeOK ==
  /\ Store!TypeOK
  /\ queued \in Seq(Block) /\ Len(queued) <= MaxQueued
  /\ pc \in {"idle", "choose", "revert", "fetch", "apply", "failed", "undo",
             "restore", "clear", "startup"}
  /\ mechanism \in {"block", "fast", "startup"}
  /\ target \in Block \cup {None} /\ peerTip \in Block \cup {None}
  /\ common \in Nat
  /\ toApply \in Seq(Block)
  /\ stopping \in BOOLEAN /\ crashes \in 0..MaxCrashes
  /\ oldTip \in Block \cup {None}

\* As long as a run, or the recovery of an interrupted one, may still go back,
\* every block of the chain the node left is on the chain or in the table: the
\* node can always rebuild what it had (deleteBlocksAfterHeight with backup,
\* removeFromTempTable in the same batch as the block, restoreBlocksUponStartup).
\* This is not so when another job adds a block while blocks are reverted: that
\* block is reverted next, and its backup replaces the one of the same height.
OldChainRecoverable ==
  oldTip # None =>
    Branch[oldTip] \subseteq {chain[h] : h \in DOMAIN chain} \cup temp

\* A block synchronization, and the recovery on startup after any run, that ends
\* with an empty table leaves a tip the old one does not outrank. The tip a node
\* stands on must not fall: the rule that keeps validators from signing
\* contradicting headers depends on it. This is not so when the tip grew after
\* the received block was found to outrank it and before the run chose a peer:
\* the run ends on the received block, whatever the peer's tip was chosen for.
RecoveredTipNotWorse ==
  [][ /\ pc # "idle" /\ pc' = "idle" /\ oldTip # None /\ temp' = {}
      /\ mechanism # "fast" /\ ~stopping
      /\ mechanism = "block" => Preferred(target, oldTip)
      => ~Preferred(oldTip, Tip') ]_vars

\* Whatever a run reverts, applies and restores, and whatever blocks the
\* processor finalizes in between, no finalized block leaves the chain.
FinalizedForever == Store!FinalizedForever

\* A run ends: a peer that answers wrongly or not at all, a block that does not
\* apply, or a failed restoration cannot keep the synchronizer's mutex locked,
\* which would make the node ignore every block from then on.
SyncEnds == (pc # "idle") ~> (pc = "idle")

\* The test of the fast switch "should retry to request blocks for 10 times then
\* apply penalty and restart", and the log entry "Successfully switched chains.
\* Node is now up to date": a switch that is not stopped ends on the received
\* block.
SwitchedToReceivedBlock ==
  pc = "clear" /\ mechanism = "fast" /\ ~stopping /\ toApply = <<>>
    /\ oldTip # None /\ Tip \notin Branch[oldTip]
  => Tip = target

\* The comment of _handleBlockProcessingError: when the old tip has preference
\* "the temporary chain is restored on top of the current chain and the blocks
\* temp table is cleaned up".
TempChainRestored ==
  [][ mechanism = "block" /\ pc \in {"undo", "restore"} /\ pc' = "idle"
      => temp' = {} ]_vars
=============================================================================
