------------------------------ MODULE Processor -----------------------------
(***************************************************************************)
(* One node's block processing: framework/src/node/processor over          *)
(* elements/lisk-chain (chain, data access, storage) and the finality part *)
(* of elements/lisk-bft.                                                   *)
(*                                                                         *)
(* process, processValidated and deleteLastBlock each hold one mutex for   *)
(* their whole run, so at most one job is under way. A job is split at its *)
(* awaits that change state: the node may crash between any two of them.   *)
(* What survives a crash is what the database batches wrote.               *)
(*                                                                         *)
(* A block is a header (see ForkChoice) with one more field, precommitted: *)
(* the greatest height that has enough precommits in the voting ledger     *)
(* once the block's header is counted (VotingLedger computes it).          *)
(***************************************************************************)
EXTENDS ForkChoice, Sequences

CONSTANTS
  Block,            \* the blocks in circulation
  GenesisBlock,     \* the block of height 0
  None,             \* no block
  Clock,            \* times at which process is called
  Stamps            \* the receivedAt a caller of process leaves on the header
                    \* object: {0} for the callers in src, other times too in
                    \* the integration tests

ASSUME ProcessorAssumption ==
  /\ None \notin Block
  /\ GenesisBlock \notin Block
  /\ GenesisBlock.height = 0
  /\ \A block \in Block : block.height \in Nat \ {0}
  /\ \A block \in Block : block.precommitted \in 0..(block.height - 1)
  /\ \A b1, b2 \in Block : b1.id = b2.id => b1 = b2
  /\ \A block \in Block : block.id # GenesisBlock.id
  /\ Clock \subseteq Nat
  /\ Stamps \subseteq Nat /\ 0 \in Stamps

VARIABLES
  (* the database *)
  chain,            \* blocks by height: headers, height index and payload
  finDB,            \* consensus state, key finalizedHeight
  diff,             \* state diffs: height -> the block whose changes it undoes
  temp,             \* table of temporary blocks, keyed by height
  (* the process *)
  lastBlock,        \* chain._lastBlock
  lastReceivedAt,   \* its header's receivedAt property, 0 when missing
  finMem,           \* finalityManager.finalizedHeight
  stopped,          \* Processor.stop has taken the mutex and keeps it
  pc,               \* where the job that holds the mutex stands
  job               \* its arguments

dbVars == <<chain, finDB, diff, temp>>
tipVars == <<lastBlock, lastReceivedAt>>
vars == <<chain, finDB, diff, temp, lastBlock, lastReceivedAt, finMem,
          stopped, pc, job>>

-----------------------------------------------------------------------------
Tip == IF chain = <<>> THEN GenesisBlock ELSE chain[Len(chain)]

StoredBlocks == {GenesisBlock} \cup {chain[h] : h \in 1..Len(chain)}

PutTemp(table, block) ==
  {b \in table : b.height # block.height} \cup {block}

RemoveTemp(table, block) == {b \in table : b.height # block.height}

\* Mutants of the next operators are named after the bug they stand for.
FinalizedFollowsBlock(current, precommitted) == precommitted

FinalizedOneTooLow(current, precommitted) ==
  IF precommitted > current THEN precommitted ELSE current - 1

\* updateFinalizedHeight: the finalized height only moves up.
FinalizedAfter(current, precommitted) ==
  IF precommitted > current THEN precommitted ELSE current

\* The diffs once a block is saved, once heights below h are cleaned, and
\* once the block at height h is deleted.
AddDiff(diffs, block) ==
  [h \in DOMAIN diffs \cup {block.height} |->
     IF h = block.height THEN block ELSE diffs[h]]

CleansOneTooMany(diffs, height) ==
  [h \in {k \in DOMAIN diffs : k > height + 1} |-> diffs[h]]

CleanDiffs(diffs, height) ==
  [h \in {k \in DOMAIN diffs : k >= height} |-> diffs[h]]

KeepsDiff(diffs, height) == diffs

DropDiff(diffs, height) == [h \in DOMAIN diffs \ {height} |-> diffs[h]]

DeletesFinalizedTip(block) ==
  /\ block.height >= finDB
  /\ block # GenesisBlock

DeletesByDiskHeight(block) ==
  /\ block.height > finDB
  /\ block # GenesisBlock

\* _deleteBlock and removeBlock refuse a finalized tip and the genesis block.
CanDelete(block) ==
  /\ block.height > finMem
  /\ block # GenesisBlock

\* target: the block being applied; previous: the tip a tie break replaced,
\* to be restored when target fails; second: the block below the deleted one.
NoJob ==
  [target |-> None, previous |-> None, second |-> None, receivedAt |-> 0,
   previousReceivedAt |-> 0, saveTempBlock |-> FALSE,
   removeFromTempTable |-> FALSE]

Init ==
  /\ chain = <<>> /\ finDB = 0
  /\ diff = [h \in {0} |-> GenesisBlock]
  /\ temp = {}
  /\ lastBlock = GenesisBlock /\ lastReceivedAt = 0
  /\ finMem = 0
  /\ stopped = FALSE
  /\ pc = "idle" /\ job = NoJob

Idle == pc = "idle" /\ ~stopped

Finish ==
  /\ pc' = "idle"
  /\ job' = NoJob

-----------------------------------------------------------------------------
(* Entry points. A refused block (DISCARD, IDENTICAL_BLOCK,                *)
(* DOUBLE_FORGING, or one that fails _validate) changes nothing, and       *)
(* DIFFERENT_CHAIN only asks the synchronizer to run: no step.             *)

ProcessValidBlock(block, now, stamp) ==
  /\ Idle
  /\ ForkStatus(lastBlock, lastReceivedAt, block, now) = "VALID_BLOCK"
  /\ pc' = "verify"
  /\ job' = [NoJob EXCEPT !.target = block, !.receivedAt = stamp]
  /\ UNCHANGED <<dbVars, tipVars, finMem, stopped>>

ProcessTieBreak(block, now, stamp) ==
  /\ Idle
  /\ ForkStatus(lastBlock, lastReceivedAt, block, now) = "TIE_BREAK"
  /\ pc' = "delete"
  /\ job' = [NoJob EXCEPT !.target = block, !.receivedAt = stamp,
                          !.previous = lastBlock,
                          !.previousReceivedAt = lastReceivedAt]
  /\ UNCHANGED <<dbVars, tipVars, finMem, stopped>>

\* processValidated: the synchronizer applies a block it validated.
ProcessValidated(block, removeFromTempTable) ==
  /\ Idle
  /\ pc' = "verify"
  /\ job' = [NoJob EXCEPT !.target = block,
                          !.removeFromTempTable = removeFromTempTable]
  /\ UNCHANGED <<dbVars, tipVars, finMem, stopped>>

DeleteLastBlock(saveTempBlock) ==
  /\ Idle
  /\ pc' = "delete"
  /\ job' = [NoJob EXCEPT !.saveTempBlock = saveTempBlock]
  /\ UNCHANGED <<dbVars, tipVars, finMem, stopped>>

\* clearTempBlocks runs outside the mutex.
ClearTempBlocks ==
  /\ temp' = {}
  /\ UNCHANGED <<chain, finDB, diff, tipVars, finMem, stopped, pc, job>>

-----------------------------------------------------------------------------
(* _processValidated *)

AnyParent(block, last) == last.height + 1 = block.height

IsConsecutive(block, last) ==
  /\ last.height + 1 = block.height
  /\ block.prev = last.id

\* An error before the block is saved. A tie break then applies the previous
\* tip again; every other job ends, and so does a failed restoration.
Fail ==
  /\ IF job.previous # None
       THEN /\ pc' = "verify"
            /\ job' = [NoJob EXCEPT !.target = job.previous,
                                    !.receivedAt = job.previousReceivedAt]
       ELSE Finish
  /\ UNCHANGED <<dbVars, tipVars, stopped>>

\* verifyBlockHeader, or a beforeBlockApply hook, throws.
VerifyFails ==
  /\ pc = "verify"
  /\ Fail
  /\ UNCHANGED finMem

\* The header checks pass and applyBlockHeader counts its votes: the height
\* they finalize is set in memory at once.
VerifyAndVote ==
  /\ pc = "verify"
  /\ IsConsecutive(job.target, lastBlock)
  /\ finMem' = FinalizedAfter(finMem, job.target.precommitted)
  /\ pc' = "execute"
  /\ UNCHANGED <<dbVars, tipVars, stopped, job>>

\* A transaction, an afterBlockApply hook or the write of the batch fails.
ExecuteFails ==
  /\ pc = "execute"
  /\ Fail
  /\ UNCHANGED finMem

\* Storage.saveBlock, first part: one atomic batch with the block, the state
\* (the finalized height in it), its diff, and the entry of the temp table.
WriteBlock ==
  /\ pc = "execute"
  /\ LET block == job.target IN
       /\ chain' = Append(chain, block)
       /\ finDB' = finMem
       /\ diff' = AddDiff(diff, block)
       /\ temp' = IF job.removeFromTempTable
                    THEN RemoveTemp(temp, block) ELSE temp
  /\ pc' = "written"
  /\ UNCHANGED <<tipVars, finMem, stopped, job>>

\* Storage._cleanUntil outside the batch, then the block becomes the tip.
CleanAndPublish ==
  /\ pc = "written"
  /\ diff' = CleanDiffs(diff, finMem)
  /\ lastBlock' = job.target
  /\ lastReceivedAt' = job.receivedAt
  /\ Finish
  /\ UNCHANGED <<chain, finDB, temp, finMem, stopped>>

-----------------------------------------------------------------------------
(* _deleteBlock *)

\* The tip is finalized, or is the genesis block, or its parent or its diff
\* is missing, or the batch cannot be written: nothing changes. The error of
\* a tie break's deletion is outside its try block, so the job ends.
DeleteFails ==
  /\ pc = "delete"
  /\ Finish
  /\ UNCHANGED <<dbVars, tipVars, finMem, stopped>>

\* Storage.deleteBlock: one atomic batch takes the block and its diff away,
\* undoes the diff, and keeps the block in the temp table if asked to.
DeleteBlock ==
  /\ pc = "delete"
  /\ CanDelete(lastBlock)
  /\ lastBlock.height \in DOMAIN diff
  /\ \E second \in StoredBlocks :
       /\ second.id = lastBlock.prev
       /\ job' = [job EXCEPT !.second = second]
  /\ chain' = SubSeq(chain, 1, lastBlock.height - 1)
  /\ diff' = DropDiff(diff, lastBlock.height)
  /\ temp' = IF job.saveTempBlock THEN PutTemp(temp, lastBlock) ELSE temp
  /\ pc' = "deleted"
  /\ UNCHANGED <<finDB, tipVars, finMem, stopped>>

TipKeptByTieBreak == IF job.target = None THEN job.second ELSE lastBlock

TipAfterDeletion == job.second

\* The cache and _lastBlock follow; a tie break goes on with its block. The
\* new tip was read from the database and carries no receivedAt.
PublishDeletion ==
  /\ pc = "deleted"
  /\ lastBlock' = TipAfterDeletion
  /\ lastReceivedAt' = 0
  /\ IF job.target = None
       THEN Finish
       ELSE pc' = "verify" /\ job' = [job EXCEPT !.second = None]
  /\ UNCHANGED <<dbVars, finMem, stopped>>

-----------------------------------------------------------------------------
\* Processor.stop takes the mutex and never releases it. Jobs that waited for
\* the mutex before it still run; those that come later return at _stop.
Stop ==
  /\ Idle
  /\ stopped' = TRUE
  /\ UNCHANGED <<dbVars, tipVars, finMem, pc, job>>

\* The process ends, at any point, and starts again: processor.init reads
\* the tip and the finalized height from the database.
Restart ==
  /\ lastBlock' = Tip
  /\ lastReceivedAt' = 0
  /\ finMem' = finDB
  /\ stopped' = FALSE
  /\ Finish
  /\ UNCHANGED dbVars

Next ==
  \/ \E block \in Block, now \in Clock, stamp \in Stamps :
       \/ ProcessValidBlock(block, now, stamp)
       \/ ProcessTieBreak(block, now, stamp)
  \/ \E block \in Block, rm \in BOOLEAN : ProcessValidated(block, rm)
  \/ \E save \in BOOLEAN : DeleteLastBlock(save)
  \/ ClearTempBlocks
  \/ VerifyFails \/ VerifyAndVote \/ ExecuteFails \/ WriteBlock
  \/ CleanAndPublish
  \/ DeleteFails \/ DeleteBlock \/ PublishDeletion
  \/ Stop \/ Restart

Spec == Init /\ [][Next]_vars

\* The range delete of _cleanUntil throws: the batch is on disk, the error
\* reaches the caller as if the block had not been saved.
CleanFails ==
  /\ pc = "written"
  /\ Fail
  /\ UNCHANGED finMem

\* Next leaves that error out; this specification has it.
SpecCleanMayFail == Init /\ [][Next \/ CleanFails]_vars

-----------------------------------------------------------------------------
(* Properties *)

Job ==
  [target : Block \cup {None}, previous : Block \cup {None},
   second : Block \cup {GenesisBlock, None}, receivedAt : Nat,
   previousReceivedAt : Nat, saveTempBlock : BOOLEAN,
   removeFromTempTable : BOOLEAN]

TypeOK ==
  /\ chain \in Seq(Block)
  /\ finDB \in Nat
  /\ DOMAIN diff \subseteq Nat
  /\ \A h \in DOMAIN diff : diff[h] \in Block \cup {GenesisBlock}
  /\ temp \subseteq Block
  /\ lastBlock \in Block \cup {GenesisBlock}
  /\ lastReceivedAt \in Nat
  /\ finMem \in Nat
  /\ stopped \in BOOLEAN
  /\ pc \in {"idle", "verify", "execute", "written", "delete", "deleted"}
  /\ job \in Job

\* The stored blocks form one chain from the genesis block.
Linked ==
  \A h \in 1..Len(chain) :
    /\ chain[h].height = h
    /\ chain[h].prev = (IF h = 1 THEN GenesisBlock ELSE chain[h - 1]).id

\* chain.lastBlock is the tip on disk, except while a batch just written has
\* not yet been published; whatever fails or crashes, the two meet again.
MemoryFollowsDisk ==
  CASE pc = "written" -> /\ Tip = job.target
                         /\ IsConsecutive(Tip, lastBlock)
    [] pc = "deleted" -> /\ Tip = job.second
                         /\ IsConsecutive(lastBlock, Tip)
    [] OTHER          -> lastBlock = Tip

\* Every block above the finalized height, as the disk knows it, can still
\* be undone: its own diff is stored. _cleanUntil goes by the height in
\* memory, runs outside the batch and may be cut short by a crash, and yet
\* never takes a diff that is needed after a restart.
UnfinalizedCanBeUndone ==
  \A h \in (finDB + 1)..Len(chain) : h \in DOMAIN diff /\ diff[h] = chain[h]

\* No diff outlives its block: a later block of the same height, after the
\* chain was reverted, never finds the diff of the one it replaces.
NoOrphanDiff == \A h \in DOMAIN diff : h <= Len(chain)

\* The finalized height in memory is never behind the one on disk, and both
\* stay at or below the tip on disk, whichever block raised them.
FinalizedBelowTip == finDB <= finMem /\ finMem <= Len(chain)

\* What holds of the job between its steps: the block that is applied was
\* checked against the tip, and the batch wrote the height in memory.
JobOK ==
  /\ pc \in {"verify", "execute", "written"} => job.target \in Block
  /\ pc = "execute" => IsConsecutive(job.target, lastBlock)
  /\ pc = "written" => finMem = finDB
  /\ pc = "deleted" => job.second \in StoredBlocks

\* The inductive invariant of NodeProofs.
IInv ==
  /\ TypeOK
  /\ Linked
  /\ MemoryFollowsDisk
  /\ UnfinalizedCanBeUndone
  /\ NoOrphanDiff
  /\ FinalizedBelowTip
  /\ JobOK

\* What the database promises: see ChainStore.
Store == INSTANCE ChainStore WITH finalized <- finDB

StoreSpec == Store!Spec

\* A block the running node has announced as final (its finalized height in
\* memory, which node info reports) is not taken off the chain by any job,
\* not even when the block whose votes raised that height failed.
AnnouncedBlocksKept ==
  [][\A h \in 1..finMem : h <= Len(chain') /\ chain'[h] = chain[h]]_vars

\* storage.ts says of _cleanUntil: "This function is out of batch, but even if
\* it fails, it will run again next time": the node goes on as before.
FailedCleanIsHarmless == pc = "idle" => lastBlock = Tip

\* consensus_state_store.ts: the finalized height "cannot be undo". Here for
\* the height the node reports, across restarts.
FinalizedHeightNotUndone == [][finMem' >= finMem]_vars

\* The tip in memory and the blocks on disk are one chain, wherever the node
\* stands between its writes.
TipConsistent == TypeOK /\ Linked /\ MemoryFollowsDisk

\* What is stored beside the blocks is what a fork needs: a diff for each block
\* that may have to be undone, and for no other, and a finalized height that the
\* chain has reached.
StorageKept == UnfinalizedCanBeUndone /\ NoOrphanDiff /\ FinalizedBelowTip
=============================================================================
