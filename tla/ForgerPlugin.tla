---------------------------- MODULE ForgerPlugin ----------------------------
(***************************************************************************)
(* The forger plugin (framework-plugins/lisk-framework-forger-plugin): for *)
(* every delegate it keeps the number of blocks and the votes received, in *)
(* a database of its own, and follows the chain of the node: blocks it     *)
(* missed are fetched when the application is ready, then each new and     *)
(* each deleted block is an event.                                         *)
(*                                                                         *)
(* The handlers give way at every access to the database. They are taken   *)
(* one after the other here (Overlap = FALSE); two at once lose updates,   *)
(* as each reads and writes whole records. Rewards and fees go with the    *)
(* number of blocks and are left out, and so are the blocks missed, which  *)
(* no deletion takes back.                                                 *)
(***************************************************************************)
EXTENDS Integers, SequencesExt

CONSTANTS
  Delegate,          \* whose records it keeps
  Forging,           \* those in the list of the node (getForgingStatus)
  Voter,
  Content,           \* blocks: [gen |-> delegate, votes |-> Seq([from, to, amount])]
  Batch,             \* BLOCKS_BATCH_TO_SYNC
  Overlap,           \* whether handlers run while others wait
  EmptiesVotes,      \* whether a voter takes back all it gave
  MaxHeight, MaxStarts   \* bounds of the model

ASSUME ForgerPluginAssumption ==
  /\ Forging \subseteq Delegate
  /\ \A block \in Content :
       /\ block.gen \in Delegate
       /\ block.votes \in Seq([from : Voter, to : Delegate, amount : Int])
  /\ {Batch, MaxHeight, MaxStarts} \subseteq Nat
  /\ {Overlap, EmptiesVotes} \subseteq BOOLEAN

VARIABLES
  nodeChain,   \* the node's blocks above the genesis block
  info,        \* delegate -> [blocks, votes: voter -> amount]
  synced,      \* syncUptoHeight
  mode,        \* "off", "sync" or "on"
  sync,        \* the round of _syncForgerInfo in progress
  handlers,    \* handlers of events in progress
  starts,
  gap          \* history: the chain changed where the plugin does not look

pluginVars == <<nodeChain, info, synced, mode, sync, handlers, starts, gap>>

-----------------------------------------------------------------------------
\* The sum of a sequence of integers.
SumOf(s) ==
  LET upto[n \in 0..Len(s)] == IF n = 0 THEN 0 ELSE upto[n - 1] + s[n]
  IN  upto[Len(s)]

NoInfo == [blocks |-> 0, votes |-> <<>>]
Nothing == [d \in Delegate |-> NoInfo]
NoSync == [pc |-> "none"]

\* _getForgerReceivedVotes: the votes of a block by delegate. Only the votes
\* for the node's own delegates are summed up, under their first sender.
Received(votes) ==
  LET for(d)   == {i \in DOMAIN votes : votes[i].to = d}
      first(d) == CHOOSE i \in for(d) : \A j \in for(d) : i <= j
      last(d)  == CHOOSE i \in for(d) : \A j \in for(d) : j <= i
  IN  [d \in {votes[i].to : i \in DOMAIN votes} |->
         IF d \in Forging
           THEN [from   |-> votes[first(d)].from,
                 amount |-> SumOf([i \in DOMAIN votes |->
                                   IF votes[i].to = d THEN votes[i].amount ELSE 0])]
           ELSE [from |-> votes[last(d)].from, amount |-> votes[last(d)].amount]]

\* A voter leaves the list when its amount becomes zero.
Counted(votes, from, amount) ==
  LET sum == votes[from] + amount
  IN  IF from \notin DOMAIN votes
        THEN [v \in DOMAIN votes \cup {from} |-> IF v = from THEN amount ELSE votes[v]]
      ELSE IF sum = 0 THEN [v \in DOMAIN votes \ {from} |-> votes[v]]
      ELSE [votes EXCEPT ![from] = sum]

\* _addVotesReceived
AddVotes(record, received) ==
  [record EXCEPT !.votes = Counted(@, received.from, received.amount)]

\* (mutant) a block that is deleted takes the voter with it
RevertDropsVoter(record, received) ==
  [record EXCEPT !.votes = [v \in DOMAIN @ \ {received.from} |-> @[v]]]

\* _revertVotesReceived: who is not in the list is passed over.
RevertVotes(record, received) ==
  IF received.from \in DOMAIN record.votes
    THEN [record EXCEPT !.votes = Counted(@, received.from, -received.amount)]
    ELSE record

\* One delegate's record after a block, and after its deletion.
WithBlock(record, d, block) ==
  LET produced == [record EXCEPT !.blocks =
                     IF block.gen = d /\ d \in Forging THEN @ + 1 ELSE @]
  IN  IF d \in DOMAIN Received(block.votes)
        THEN AddVotes(produced, Received(block.votes)[d]) ELSE produced

WithoutBlock(record, d, block) ==
  LET produced == [record EXCEPT !.blocks =
                     IF block.gen = d /\ d \in Forging THEN @ - 1 ELSE @]
  IN  IF d \in DOMAIN Received(block.votes)
        THEN RevertVotes(produced, Received(block.votes)[d]) ELSE produced

\* _addForgerInfo
Added(infos, block) == [d \in Delegate |-> WithBlock(infos[d], d, block)]

-----------------------------------------------------------------------------
(* The node. *)

Idle == handlers = <<>>

Handler(op, block, height) ==
  [op |-> op, block |-> block, height |-> height,
   left |-> {block.gen} \cup DOMAIN Received(block.votes), read |-> <<>>]

\* While the plugin does not listen: a block at a height that it has counted
\* or asked for, and any change behind the last block it has just asked for.
Behind == mode = "sync" /\ sync.pc = "last"
Unnoticed(height) ==
  \/ Behind
  \/ mode = "off" /\ height <= synced
  \/ mode = "sync" /\ sync.pc = "none" /\ height <= synced
  \/ mode = "sync" /\ sync.pc = "blocks" /\ height < sync.needle

\* The DPoS module refuses to take back more votes than were given. All of
\* them may be taken back only where the model says so (EmptiesVotes).
GivenBy(votes, d, v) ==
  SumOf([i \in DOMAIN votes |->
         IF votes[i].to = d /\ votes[i].from = v THEN votes[i].amount ELSE 0])
Given(c, d, v) == SumOf([h \in DOMAIN c |-> GivenBy(c[h].votes, d, v)])
Allowed(block) ==
  \A vote \in ToSet(block.votes) :
    Given(Append(nodeChain, block), vote.to, vote.from) >= IF EmptiesVotes THEN 0 ELSE 1

NodeAdds(block) ==
  /\ Len(nodeChain) < MaxHeight /\ Allowed(block)
  /\ Overlap \/ Idle
  /\ nodeChain' = Append(nodeChain, block)
  /\ handlers' = IF mode = "on" THEN Append(handlers, Handler("new", block, Len(nodeChain) + 1))
                 ELSE handlers
  /\ gap' = (gap \/ Unnoticed(Len(nodeChain) + 1))
  /\ UNCHANGED <<info, synced, mode, sync, starts>>

NodeDeletes ==
  /\ nodeChain # <<>>
  /\ Overlap \/ Idle
  /\ nodeChain' = Front(nodeChain)
  /\ handlers' = IF mode = "on" THEN Append(handlers, Handler("delete", Last(nodeChain), Len(nodeChain)))
                 ELSE handlers
  /\ gap' = (gap \/ Behind)
  /\ UNCHANGED <<info, synced, mode, sync, starts>>

-----------------------------------------------------------------------------
(* load and _syncForgerInfo.                                               *)

Load ==
  /\ mode = "off" /\ starts < MaxStarts
  /\ mode' = "sync" /\ starts' = starts + 1
  /\ sync' = NoSync
  /\ UNCHANGED <<nodeChain, info, synced, handlers, gap>>

AskLastBlock ==
  /\ mode = "sync" /\ sync.pc = "none"
  /\ sync' = [pc |-> "last", last |-> Len(nodeChain)]
  /\ UNCHANGED <<nodeChain, info, synced, mode, handlers, starts, gap>>

\* (mutant) blocks of a longer chain are kept when the chain is shorter
CompareKeeps ==
  /\ mode = "sync" /\ sync.pc = "last"
  /\ IF synced >= sync.last
     THEN /\ mode' = "on"
          /\ sync' = NoSync
     ELSE /\ sync' = [pc |-> "blocks", last |-> sync.last, needle |-> synced + 1, blocks |-> <<>>]
          /\ UNCHANGED mode
  /\ UNCHANGED <<nodeChain, info, synced, handlers, starts, gap>>

\* Nothing to do: the plugin subscribes to the events. Too much: it starts
\* from nothing.
Compare ==
  /\ mode = "sync" /\ sync.pc = "last"
  /\ CASE synced = sync.last ->
            /\ mode' = "on" /\ sync' = NoSync
            /\ UNCHANGED <<info, synced, gap>>
       [] synced > sync.last ->
            /\ info' = Nothing /\ synced' = 0
            /\ sync' = [pc |-> "blocks", last |-> sync.last, needle |-> 1, blocks |-> <<>>]
            /\ gap' = (sync.last > Len(nodeChain))
            /\ UNCHANGED mode
       [] OTHER ->
            /\ sync' = [pc |-> "blocks", last |-> sync.last, needle |-> synced + 1, blocks |-> <<>>]
            /\ UNCHANGED <<info, synced, mode, gap>>
  /\ UNCHANGED <<nodeChain, handlers, starts>>

AskBlocks ==
  /\ mode = "sync" /\ sync.pc = "blocks"
  /\ sync.blocks = <<>> /\ sync.needle <= sync.last
  /\ LET to == IF sync.needle + Batch <= sync.last THEN sync.needle + Batch ELSE sync.last
         there == IF to < Len(nodeChain) THEN to ELSE Len(nodeChain)
     IN  sync' = [sync EXCEPT !.blocks = SubSeq(nodeChain, sync.needle, there),
                              !.needle = to + 1]
  /\ UNCHANGED <<nodeChain, info, synced, mode, handlers, starts, gap>>

\* _updateMissedBlock asks for the block below, after the records are written:
\* when it has left the chain the synchronization breaks off, and the error
\* ends the application.
CountBlock ==
  /\ mode = "sync" /\ sync.pc = "blocks" /\ sync.blocks # <<>>
  /\ info' = Added(info, Head(sync.blocks))
  /\ LET height == sync.needle - Len(sync.blocks)
     IN  IF height - 1 <= Len(nodeChain)
         THEN /\ sync' = [sync EXCEPT !.blocks = Tail(@)]
              /\ UNCHANGED <<mode, gap>>
         ELSE /\ mode' = "off" /\ sync' = NoSync
              /\ gap' = TRUE
  /\ UNCHANGED <<nodeChain, synced, handlers, starts>>

\* The height is saved at the end of the round, and there is another round.
RoundEnds ==
  /\ mode = "sync" /\ sync.pc = "blocks"
  /\ sync.blocks = <<>> /\ sync.needle > sync.last
  /\ synced' = sync.last
  /\ sync' = NoSync
  /\ UNCHANGED <<nodeChain, info, mode, handlers, starts, gap>>

\* unload
Unload ==
  /\ mode = "on" /\ Idle
  /\ mode' = "off"
  /\ UNCHANGED <<nodeChain, info, synced, sync, handlers, starts, gap>>

-----------------------------------------------------------------------------
(* The handlers of app:block:new and app:block:delete.                     *)

\* A record is read, that of the generator first, ...
ReadRecord(i) ==
  /\ i \in DOMAIN handlers /\ handlers[i].read = <<>>
  /\ \E d \in handlers[i].left :
       /\ d = handlers[i].block.gen \/ handlers[i].block.gen \notin handlers[i].left
       /\ handlers' = [handlers EXCEPT ![i].read = <<d, info[d]>>]
  /\ UNCHANGED <<nodeChain, info, synced, mode, sync, starts, gap>>

\* ... and written with the block's share.
WriteRecord(i) ==
  /\ i \in DOMAIN handlers /\ handlers[i].read # <<>>
  /\ LET h == handlers[i]
         d == h.read[1]
     IN  /\ info' = [info EXCEPT ![d] = IF h.op = "new" THEN WithBlock(h.read[2], d, h.block)
                                                        ELSE WithoutBlock(h.read[2], d, h.block)]
         /\ handlers' = [handlers EXCEPT ![i].left = @ \ {d}, ![i].read = <<>>]
  /\ UNCHANGED <<nodeChain, synced, mode, sync, starts, gap>>

\* setForgerSyncInfo: of a deleted block too it is the height of the block.
Handled(i) ==
  /\ i \in DOMAIN handlers /\ handlers[i].left = {}
  /\ synced' = handlers[i].height
  /\ handlers' = RemoveAt(handlers, i)
  /\ UNCHANGED <<nodeChain, info, mode, sync, starts, gap>>

-----------------------------------------------------------------------------
PluginInit ==
  /\ nodeChain = <<>> /\ info = Nothing /\ synced = 0
  /\ mode = "off" /\ sync = NoSync /\ handlers = <<>>
  /\ starts = 0 /\ gap = FALSE

PluginNext ==
  \/ \E block \in Content : NodeAdds(block)
  \/ NodeDeletes
  \/ Load \/ AskLastBlock \/ Compare \/ AskBlocks \/ CountBlock \/ RoundEnds \/ Unload
  \/ \E i \in DOMAIN handlers : ReadRecord(i) \/ WriteRecord(i) \/ Handled(i)

PluginSpec == PluginInit /\ [][PluginNext]_pluginVars

-----------------------------------------------------------------------------
(***************************************************************************)
(* Whatever was added and deleted while the plugin was away, synchronized  *)
(* or listened, and however often it was started: once it listens and has  *)
(* handled its events, the records of the node's delegates say what its    *)
(* chain says, unless the chain changed where the plugin does not look     *)
(* (gap), or a voter takes back all of its votes (EmptiesVotes).           *)
(***************************************************************************)
Totals(c, d) ==
  [blocks |-> Cardinality({h \in DOMAIN c : c[h].gen = d}),
   votes  |-> [v \in {w \in Voter : Given(c, d, w) # 0} |-> Given(c, d, v)]]

TotalsMatchChain ==
  mode = "on" /\ Idle /\ ~gap => \A d \in Forging : info[d] = Totals(nodeChain, d)
=============================================================================
