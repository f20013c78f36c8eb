----------------------------- MODULE NodeProofs -----------------------------
(***************************************************************************)
(* Proofs about Processor, for any set of blocks and any votes: what the   *)
(* disk and the memory of a node promise while jobs fail and the process   *)
(* crashes, and that Processor implements ChainStore. And about BlockCache,*)
(* for any sizes of the cache: it follows the chain of the database, with  *)
(* enough headers and not too many.                                        *)
(*                                                                         *)
(* The invariant of the cache compares it with the chain as it is while    *)
(* the database is one block ahead, header by header; of the number of the *)
(* headers it says what a refill may find, at most the maximum, or else    *)
(* the refill would add more than the bound allows.                        *)
(***************************************************************************)
EXTENDS Processor, BlockCache, SequenceTheorems, TLAPS

\* On a linked chain the tip's height is the length of the chain.
LEMMA TipHeight ==
  ASSUME TypeOK, Linked
  PROVE  /\ Tip \in Block \cup {GenesisBlock}
         /\ Tip.height = Len(chain)
         /\ chain # <<>> => Tip = chain[Len(chain)] /\ Tip \in Block
<1>1. CASE chain = <<>>
  BY <1>1, ProcessorAssumption DEF Tip
<1>2. CASE chain # <<>>
  BY <1>2 DEF Tip, TypeOK, Linked
<1>. QED  BY <1>1, <1>2

\* Ids tell the blocks and the genesis block apart.
LEMMA IdsUnique ==
  ASSUME NEW a \in Block \cup {GenesisBlock},
         NEW b \in Block \cup {GenesisBlock}, a.id = b.id
  PROVE  a = b
BY ProcessorAssumption

\* A tie break never replaces the genesis block: no other block has its
\* height.
LEMMA TieBreakReplacesBlock ==
  ASSUME TypeOK, NEW block \in Block, NEW at, NEW now,
         ForkStatus(lastBlock, at, block, now) = "TIE_BREAK"
  PROVE  lastBlock \in Block
<1>1. lastBlock.height = block.height
  BY DEF ForkStatus, IsTieBreak, IsDuplicateBlock
<1>. QED  BY <1>1, ProcessorAssumption DEF TypeOK

\* updateFinalizedHeight moves up, to what the block's votes finalize.
LEMMA FinalizedMovesUp ==
  ASSUME NEW m \in Nat, NEW p \in Nat
  PROVE  /\ FinalizedAfter(m, p) \in Nat
         /\ m <= FinalizedAfter(m, p)
         /\ FinalizedAfter(m, p) \in {m, p}
BY DEF FinalizedAfter

\* A finished job and a failed one leave a job of the right type.
LEMMA JobTypes ==
  ASSUME TypeOK
  PROVE  /\ NoJob \in Job
         /\ \A b \in Block, at \in Nat :
              [NoJob EXCEPT !.target = b, !.receivedAt = at] \in Job
         /\ Fail => job' \in Job /\ pc' \in {"idle", "verify"}
<1>1. NoJob \in Job
  BY ProcessorAssumption DEF NoJob, Job
<1>2. \A b \in Block, at \in Nat :
         [NoJob EXCEPT !.target = b, !.receivedAt = at] \in Job
  BY <1>1 DEF NoJob, Job
<1>3. job.previousReceivedAt \in Nat /\ job.previous \in Block \cup {None}
  BY DEF TypeOK, Job
<1>. QED  BY <1>1, <1>2, <1>3 DEF Fail, Finish

-----------------------------------------------------------------------------
\* Every step keeps the types.
LEMMA TypeStep ==
  ASSUME IInv, [Next]_vars
  PROVE  TypeOK'
<1>. USE DEF IInv
<1>1. ASSUME NEW block \in Block, NEW now \in Clock, NEW stamp \in Stamps,
             ProcessValidBlock(block, now, stamp)
      PROVE  TypeOK'
  <2>1. stamp \in Nat
    BY ProcessorAssumption
  <2>2. job' \in Job
    BY <1>1, <2>1, JobTypes DEF ProcessValidBlock
  <2>. QED  BY <1>1, <2>2 DEF ProcessValidBlock, TypeOK, dbVars, tipVars
<1>2. ASSUME NEW block \in Block, NEW now \in Clock, NEW stamp \in Stamps,
             ProcessTieBreak(block, now, stamp)
      PROVE  TypeOK'
  <2>1. stamp \in Nat
    BY ProcessorAssumption
  <2>2. lastBlock \in Block
    BY <1>2, TieBreakReplacesBlock DEF ProcessTieBreak
  <2>3. job' \in Job
    BY <1>2, <2>1, <2>2, ProcessorAssumption
       DEF ProcessTieBreak, NoJob, Job, TypeOK
  <2>. QED  BY <1>2, <2>3 DEF ProcessTieBreak, TypeOK, dbVars, tipVars
<1>3. ASSUME NEW block \in Block, NEW rm \in BOOLEAN,
             ProcessValidated(block, rm)
      PROVE  TypeOK'
  <2>1. job' \in Job
    BY <1>3, ProcessorAssumption DEF ProcessValidated, NoJob, Job
  <2>. QED  BY <1>3, <2>1 DEF ProcessValidated, TypeOK, dbVars, tipVars
<1>4. ASSUME NEW save \in BOOLEAN, DeleteLastBlock(save)
      PROVE  TypeOK'
  <2>1. job' \in Job
    BY <1>4, ProcessorAssumption DEF DeleteLastBlock, NoJob, Job
  <2>. QED  BY <1>4, <2>1 DEF DeleteLastBlock, TypeOK, dbVars, tipVars
<1>5. CASE ClearTempBlocks
  BY <1>5 DEF ClearTempBlocks, TypeOK, tipVars
<1>6. CASE VerifyFails \/ ExecuteFails
  <2>1. Fail /\ finMem' = finMem
    BY <1>6 DEF VerifyFails, ExecuteFails
  <2>2. job' \in Job /\ pc' \in {"idle", "verify"}
    BY <2>1, JobTypes
  <2>. QED  BY <2>1, <2>2 DEF Fail, TypeOK, dbVars, tipVars
<1>7. CASE VerifyAndVote
  <2>1. job.target.precommitted \in Nat
    BY <1>7, ProcessorAssumption DEF VerifyAndVote, JobOK
  <2>2. finMem' \in Nat
    BY <1>7, <2>1, FinalizedMovesUp DEF VerifyAndVote, TypeOK
  <2>. QED  BY <1>7, <2>2 DEF VerifyAndVote, TypeOK, dbVars, tipVars
<1>8. CASE WriteBlock
  <2>1. job.target \in Block
    BY <1>8 DEF WriteBlock, JobOK
  <2>2. chain' \in Seq(Block) /\ temp' \subseteq Block
    BY <1>8, <2>1 DEF WriteBlock, TypeOK, RemoveTemp
  <2>3. DOMAIN diff' = DOMAIN diff \cup {job.target.height}
    BY <1>8 DEF WriteBlock, AddDiff
  <2>4. \A h \in DOMAIN diff' : diff'[h] \in Block \cup {GenesisBlock}
    BY <1>8, <2>1 DEF WriteBlock, TypeOK, AddDiff
  <2>5. DOMAIN diff' \subseteq Nat
    BY <2>1, <2>3, ProcessorAssumption DEF TypeOK
  <2>. QED  BY <1>8, <2>2, <2>4, <2>5 DEF WriteBlock, TypeOK, tipVars
<1>9. CASE CleanAndPublish
  <2>1. job.target \in Block /\ job.receivedAt \in Nat
    BY <1>9 DEF CleanAndPublish, JobOK, TypeOK, Job
  <2>. QED
    BY <1>9, <2>1, JobTypes DEF CleanAndPublish, TypeOK, CleanDiffs, Finish
<1>10. CASE DeleteFails
  BY <1>10, JobTypes DEF DeleteFails, Finish, TypeOK, dbVars, tipVars
<1>11. CASE DeleteBlock
  <2>1. PICK second \in StoredBlocks : job' = [job EXCEPT !.second = second]
    BY <1>11 DEF DeleteBlock
  <2>2. second \in Block \cup {GenesisBlock}
    BY DEF StoredBlocks, TypeOK
  <2>3. job' \in Job
    BY <2>1, <2>2 DEF TypeOK, Job
  <2>4. lastBlock \in Block
    BY <1>11 DEF DeleteBlock, CanDelete, TypeOK
  <2>5. chain' \in Seq(Block)
    <3>1. lastBlock.height = Len(chain)
      BY <1>11, TipHeight DEF DeleteBlock, MemoryFollowsDisk
    <3>. QED  BY <1>11, <3>1 DEF DeleteBlock, TypeOK
  <2>6. temp' \subseteq Block
    BY <1>11, <2>4 DEF DeleteBlock, TypeOK, PutTemp
  <2>. QED
    BY <1>11, <2>3, <2>5, <2>6 DEF DeleteBlock, TypeOK, DropDiff, tipVars
<1>12. CASE PublishDeletion
  <2>1. job.second \in Block \cup {GenesisBlock}
    BY <1>12 DEF PublishDeletion, JobOK, StoredBlocks, TypeOK
  <2>2. job' \in Job /\ pc' \in {"idle", "verify"}
    <3>1. CASE job.target = None
      BY <1>12, <3>1, JobTypes DEF PublishDeletion, Finish
    <3>2. CASE job.target # None
      BY <1>12, <3>2 DEF PublishDeletion, TypeOK, Job
    <3>. QED  BY <3>1, <3>2
  <2>. QED
    BY <1>12, <2>1, <2>2 DEF PublishDeletion, TipAfterDeletion, TypeOK, dbVars
<1>13. CASE Stop
  BY <1>13 DEF Stop, TypeOK, dbVars, tipVars
<1>14. CASE Restart
  BY <1>14, TipHeight, JobTypes DEF Restart, Finish, TypeOK, dbVars
<1>15. CASE UNCHANGED vars
  BY <1>15 DEF vars, TypeOK
<1>. QED
  BY <1>1, <1>2, <1>3, <1>4, <1>5, <1>6, <1>7, <1>8, <1>9, <1>10, <1>11,
     <1>12, <1>13, <1>14, <1>15 DEF Next

-----------------------------------------------------------------------------
(* The steps that leave the chain on disk, its state and its diffs alone.  *)

OnDisk == <<chain, finDB, diff>>

LEMMA DiskUntouched ==
  ASSUME IInv, UNCHANGED OnDisk
  PROVE  /\ Linked' /\ UnfinalizedCanBeUndone' /\ NoOrphanDiff'
         /\ Tip' = Tip /\ StoredBlocks' = StoredBlocks
BY DEF IInv, OnDisk, Linked, UnfinalizedCanBeUndone, NoOrphanDiff, Tip,
       StoredBlocks

\* A failing job never touches disk, tip or finalized height.
LEMMA FailKeeps ==
  ASSUME IInv, Fail, finMem' = finMem, pc \in {"verify", "execute"}
  PROVE  IInv'
<1>1. UNCHANGED OnDisk /\ TypeOK' /\ lastBlock' = lastBlock
  <2>1. job' \in Job /\ pc' \in {"idle", "verify"}
    BY JobTypes DEF IInv
  <2>. QED  BY <2>1 DEF Fail, OnDisk, dbVars, tipVars, IInv, TypeOK
<1>2. pc' = "verify" => job'.target \in Block
  BY ProcessorAssumption DEF Fail, Finish, NoJob, IInv, TypeOK, Job
<1>3. pc' \in {"idle", "verify"}
  BY DEF Fail, Finish
<1>4. MemoryFollowsDisk'
  BY <1>1, <1>3, DiskUntouched DEF IInv, MemoryFollowsDisk
<1>5. FinalizedBelowTip'
  BY <1>1 DEF IInv, FinalizedBelowTip, OnDisk
<1>6. JobOK'
  BY <1>2, <1>3 DEF JobOK
<1>. QED  BY <1>1, <1>4, <1>5, <1>6, DiskUntouched DEF IInv

\* A job that starts, from an idle node, changes nothing but itself.
LEMMA StartKeeps ==
  ASSUME IInv, Idle, TypeOK', UNCHANGED <<dbVars, tipVars, finMem>>,
         \/ pc' = "delete"
         \/ pc' = "verify" /\ job'.target \in Block
  PROVE  IInv'
<1>1. UNCHANGED OnDisk /\ lastBlock' = lastBlock /\ pc = "idle"
  BY DEF OnDisk, dbVars, tipVars, Idle
<1>2. MemoryFollowsDisk'
  BY <1>1, DiskUntouched DEF IInv, MemoryFollowsDisk
<1>3. FinalizedBelowTip'
  BY <1>1 DEF IInv, FinalizedBelowTip, OnDisk
<1>4. JobOK'
  BY DEF JobOK
<1>. QED  BY <1>1, <1>2, <1>3, <1>4, DiskUntouched DEF IInv

\* The batch that writes a block: it links to the tip, its diff is stored,
\* and nothing it finalizes is above its parent.
LEMMA WriteKeeps ==
  ASSUME IInv, WriteBlock, TypeOK'
  PROVE  IInv'
<1>. DEFINE block == job.target
<1>1. /\ block \in Block /\ lastBlock = Tip /\ IsConsecutive(block, Tip)
      /\ Tip.height = Len(chain) /\ block.height = Len(chain) + 1
      /\ block.prev = Tip.id
  BY TipHeight DEF IInv, WriteBlock, JobOK, MemoryFollowsDisk, IsConsecutive
<1>2. chain \in Seq(Block) /\ chain' = Append(chain, block)
  BY DEF WriteBlock, IInv, TypeOK
<1>3. /\ Len(chain') = Len(chain) + 1
      /\ \A h \in 1..Len(chain) : chain'[h] = chain[h]
      /\ chain'[Len(chain) + 1] = block
  BY <1>1, <1>2
<1>4. Tip' = block
  <2>1. chain' # <<>>
    BY <1>1, <1>2
  <2>. QED  BY <1>2, <1>3, <2>1 DEF Tip
<1>5. Linked'
  <2> SUFFICES ASSUME NEW h \in 1..Len(chain')
               PROVE  /\ chain'[h].height = h
                      /\ chain'[h].prev = (IF h = 1 THEN GenesisBlock
                                           ELSE chain'[h - 1]).id
    BY DEF Linked
  <2>1. CASE h \in 1..Len(chain)
    BY <2>1, <1>2, <1>3 DEF IInv, Linked
  <2>2. CASE h = Len(chain) + 1
    <3>1. Tip = IF h = 1 THEN GenesisBlock ELSE chain'[h - 1]
      BY <2>2, <1>2, <1>3, TipHeight DEF Tip
    <3>. QED  BY <3>1, <2>2, <1>1, <1>3
  <2>. QED  BY <2>1, <2>2, <1>2, <1>3
<1>6. MemoryFollowsDisk'
  <2>1. pc' = "written" /\ job' = job /\ lastBlock' = lastBlock
    BY DEF WriteBlock, tipVars
  <2>. QED  BY <2>1, <1>1, <1>4 DEF MemoryFollowsDisk, IsConsecutive
<1>7. /\ DOMAIN diff' = DOMAIN diff \cup {Len(chain) + 1}
      /\ diff'[Len(chain) + 1] = block
      /\ \A h \in DOMAIN diff : h # Len(chain) + 1 => diff'[h] = diff[h]
  BY <1>1 DEF WriteBlock, AddDiff
<1>8. NoOrphanDiff'
  BY <1>2, <1>3, <1>7 DEF IInv, NoOrphanDiff, TypeOK
<1>9. finDB' = finMem /\ finMem' = finMem /\ finDB <= finMem
  BY DEF WriteBlock, IInv, FinalizedBelowTip
<1>10. UnfinalizedCanBeUndone'
  BY <1>2, <1>3, <1>7, <1>9 DEF IInv, UnfinalizedCanBeUndone, TypeOK
<1>11. FinalizedBelowTip'
  BY <1>2, <1>3, <1>9 DEF IInv, FinalizedBelowTip, TypeOK
<1>12. JobOK'
  BY <1>1, <1>9 DEF WriteBlock, JobOK
<1>. QED  BY <1>5, <1>6, <1>8, <1>10, <1>11, <1>12 DEF IInv

\* The batch that deletes the tip: what is left is linked, ends at the block
\* that will become the tip, and holds every finalized block.
LEMMA DeleteKeeps ==
  ASSUME IInv, DeleteBlock, TypeOK'
  PROVE  IInv'
<1>1. /\ lastBlock = Tip /\ lastBlock.height = Len(chain)
      /\ finMem < Len(chain) /\ finMem \in Nat /\ chain # <<>>
  BY TipHeight DEF IInv, DeleteBlock, CanDelete, MemoryFollowsDisk, TypeOK
<1>2. chain \in Seq(Block) /\ chain' = SubSeq(chain, 1, Len(chain) - 1)
  BY <1>1 DEF DeleteBlock, IInv, TypeOK
<1>3. /\ Len(chain') = Len(chain) - 1
      /\ \A h \in 1..(Len(chain) - 1) : chain'[h] = chain[h]
  <2>. DEFINE n == Len(chain) - 1
  <2>1. Len(chain) = n + 1 /\ n \in Nat /\ chain' = SubSeq(chain, 1, n)
    BY <1>1, <1>2, LenProperties
  <2>2. \A i \in 1..n : chain[i] \in Block
    BY <1>2, <2>1
  <2>. HIDE DEF n
  <2>3. /\ Len(SubSeq(chain, 1, n)) = IF 1 <= n THEN n - 1 + 1 ELSE 0
        /\ \A i \in 1..(n - 1 + 1) : SubSeq(chain, 1, n)[i] = chain[1 + i - 1]
    BY <2>1, <2>2, SubSeqProperties
  <2>4. \A i \in 1..n : i \in 1..(n - 1 + 1) /\ 1 + i - 1 = i
    BY <2>1
  <2>5. Len(chain') = n /\ \A i \in 1..n : chain'[i] = chain[i]
    BY <2>1, <2>3, <2>4
  <2>. QED  BY <2>5 DEF n
<1>4. Linked'
  BY <1>2, <1>3 DEF IInv, Linked
<1>5. /\ lastBlock.prev = Tip'.id
      /\ Tip' \in Block \cup {GenesisBlock}
      /\ Tip'.height = Len(chain) - 1
      /\ Tip' \in StoredBlocks'
  <2>1. CASE Len(chain) = 1
    <3>1. chain' = <<>>
      BY <2>1, <1>2
    <3>. QED
      BY <2>1, <3>1, <1>1, ProcessorAssumption
         DEF Tip, IInv, Linked, StoredBlocks
  <2>2. CASE Len(chain) > 1
    <3>0. Len(chain) \in Nat
      BY <1>2, LenProperties
    <3>1. Len(chain') \in 1..Len(chain') /\ chain' # <<>>
      <4>1. Len(chain') \in Nat \ {0}
        BY <2>2, <1>3, <3>0
      <4>2. Len(<<>>) = 0
        OBVIOUS
      <4>. QED  BY <4>1, <4>2
    <3>2. Tip' = chain[Len(chain) - 1] /\ Tip' \in StoredBlocks'
      BY <2>2, <3>1, <1>2, <1>3 DEF Tip, StoredBlocks
    <3>3. Tip = chain[Len(chain)]
      BY <1>1 DEF Tip
    <3>. QED  BY <2>2, <3>2, <3>3, <1>1, <1>2 DEF IInv, Linked, TypeOK
  <2>3. Len(chain) = 1 \/ Len(chain) > 1
    <3>1. Len(chain) \in Nat
      BY <1>2, LenProperties
    <3>2. Len(chain) # 0
      BY <1>1, <3>1
    <3>. QED  BY <3>1, <3>2
  <2>. QED  BY <2>1, <2>2, <2>3
<1>6. PICK second \in StoredBlocks :
         second.id = lastBlock.prev /\ job' = [job EXCEPT !.second = second]
  BY DEF DeleteBlock
<1>7. second = Tip' /\ job'.second = second
  <2>1. second \in Block \cup {GenesisBlock}
    BY DEF StoredBlocks, IInv, TypeOK
  <2>. QED  BY <2>1, <1>5, <1>6, IdsUnique DEF IInv, TypeOK, Job
<1>8. MemoryFollowsDisk'
  <2>1. pc' = "deleted" /\ lastBlock' = lastBlock
    BY DEF DeleteBlock, tipVars
  <2>. QED
    BY <2>1, <1>1, <1>2, <1>5, <1>7 DEF MemoryFollowsDisk, IsConsecutive
<1>9. diff' = [h \in DOMAIN diff \ {Len(chain)} |-> diff[h]]
  BY <1>1 DEF DeleteBlock, DropDiff
<1>10. NoOrphanDiff'
  BY <1>2, <1>3, <1>9 DEF IInv, NoOrphanDiff, TypeOK
<1>11. UnfinalizedCanBeUndone'
  <2>1. finDB' = finDB /\ finDB \in Nat /\ Len(chain) \in Nat
    BY <1>2 DEF DeleteBlock, IInv, TypeOK
  <2>2. \A h \in DOMAIN diff \ {Len(chain)} :
          h \in DOMAIN diff' /\ diff'[h] = diff[h]
    BY <1>9
  <2>. QED  BY <2>1, <2>2, <1>3 DEF IInv, UnfinalizedCanBeUndone
<1>12. FinalizedBelowTip'
  BY <1>1, <1>2, <1>3 DEF IInv, FinalizedBelowTip, TypeOK, DeleteBlock
<1>13. JobOK'
  BY <1>5, <1>7 DEF DeleteBlock, JobOK
<1>. QED  BY <1>4, <1>8, <1>10, <1>11, <1>12, <1>13 DEF IInv

-----------------------------------------------------------------------------
\* The initial state, and every step, satisfies the invariant.
LEMMA InitIInv == Init => IInv
<1> SUFFICES ASSUME Init PROVE IInv
  OBVIOUS
<1>1. TypeOK
  BY ProcessorAssumption, SMTT(30) DEF Init, NoJob, TypeOK, Job
<1>2. Len(chain) = 0 /\ Tip = GenesisBlock
  BY DEF Init, Tip
<1>. QED
  BY <1>1, <1>2 DEF Init, IInv, Linked, MemoryFollowsDisk, NoOrphanDiff,
     UnfinalizedCanBeUndone, FinalizedBelowTip, JobOK

LEMMA StepIInv == IInv /\ [Next]_vars => IInv'
<1> SUFFICES ASSUME IInv, [Next]_vars
             PROVE  IInv'
  OBVIOUS
<1>0. TypeOK'
  BY TypeStep
<1>1. CASE \E block \in Block, now \in Clock, stamp \in Stamps :
             \/ ProcessValidBlock(block, now, stamp)
             \/ ProcessTieBreak(block, now, stamp)
  <2>1. PICK block \in Block, now \in Clock, stamp \in Stamps :
               \/ ProcessValidBlock(block, now, stamp)
               \/ ProcessTieBreak(block, now, stamp)
    BY <1>1
  <2>2. CASE ProcessValidBlock(block, now, stamp)
    <3>1. pc' = "verify" /\ job'.target = block
      BY <2>2 DEF ProcessValidBlock, NoJob
    <3>. QED  BY <2>2, <3>1, <1>0, StartKeeps DEF ProcessValidBlock
  <2>3. CASE ProcessTieBreak(block, now, stamp)
    BY <2>3, <1>0, StartKeeps DEF ProcessTieBreak
  <2>. QED  BY <2>1, <2>2, <2>3
<1>2. CASE \E block \in Block, rm \in BOOLEAN : ProcessValidated(block, rm)
  <2>1. PICK block \in Block, rm \in BOOLEAN : ProcessValidated(block, rm)
    BY <1>2
  <2>2. pc' = "verify" /\ job'.target = block
    BY <2>1 DEF ProcessValidated, NoJob
  <2>. QED  BY <2>1, <2>2, <1>0, StartKeeps DEF ProcessValidated
<1>3. CASE \E save \in BOOLEAN : DeleteLastBlock(save)
  BY <1>3, <1>0, StartKeeps DEF DeleteLastBlock
<1>4. CASE ClearTempBlocks \/ Stop \/ UNCHANGED vars
  <2>1. UNCHANGED OnDisk /\ UNCHANGED <<lastBlock, finMem, pc, job>>
    BY <1>4 DEF ClearTempBlocks, Stop, vars, dbVars, tipVars, OnDisk
  <2>2. MemoryFollowsDisk' /\ FinalizedBelowTip' /\ JobOK'
    BY <2>1, DiskUntouched
       DEF OnDisk, IInv, MemoryFollowsDisk, FinalizedBelowTip, JobOK
  <2>. QED  BY <1>0, <2>1, <2>2, DiskUntouched DEF IInv
<1>5. CASE VerifyFails \/ ExecuteFails
  BY <1>5, FailKeeps DEF VerifyFails, ExecuteFails
<1>6. CASE VerifyAndVote
  <2>1. /\ UNCHANGED OnDisk /\ UNCHANGED <<lastBlock, job>>
        /\ pc = "verify" /\ pc' = "execute"
        /\ IsConsecutive(job.target, lastBlock) /\ job.target \in Block
    BY <1>6 DEF VerifyAndVote, dbVars, tipVars, OnDisk, IInv, JobOK
  <2>2. MemoryFollowsDisk'
    BY <2>1, DiskUntouched DEF IInv, MemoryFollowsDisk
  <2>3. job.target.height = Len(chain) + 1
    BY <2>1, TipHeight DEF IInv, MemoryFollowsDisk, IsConsecutive
  <2>4. job.target.precommitted \in 0..Len(chain)
    <3>1. Len(chain) + 1 - 1 = Len(chain)
      BY LenProperties DEF IInv, TypeOK
    <3>. QED  BY <2>1, <2>3, <3>1, ProcessorAssumption
  <2>5. FinalizedBelowTip'
    <3>1. /\ finMem \in Nat /\ finDB \in Nat /\ Len(chain) \in Nat
          /\ finDB <= finMem /\ finMem <= Len(chain)
      BY LenProperties DEF IInv, FinalizedBelowTip, TypeOK
    <3>2. finMem <= finMem' /\ finMem' \in {finMem, job.target.precommitted}
      <4>1. job.target.precommitted \in Nat
        BY <2>4, <3>1
      <4>2. finMem' = FinalizedAfter(finMem, job.target.precommitted)
        BY <1>6 DEF VerifyAndVote
      <4>. QED  BY <3>1, <4>1, <4>2, FinalizedMovesUp
    <3>3. finDB' = finDB /\ Len(chain') = Len(chain)
      BY <2>1 DEF OnDisk
    <3>. QED  BY <2>4, <3>1, <3>2, <3>3 DEF FinalizedBelowTip
  <2>6. JobOK'
    BY <2>1 DEF JobOK
  <2>. QED  BY <1>0, <2>1, <2>2, <2>5, <2>6, DiskUntouched DEF IInv
<1>7. CASE WriteBlock
  BY <1>0, <1>7, WriteKeeps
<1>8. CASE CleanAndPublish
  <2>1. /\ chain' = chain /\ finDB' = finDB /\ finMem' = finMem
        /\ lastBlock' = job.target /\ pc' = "idle" /\ Tip = job.target
        /\ finMem = finDB /\ finDB \in Nat
    BY <1>8 DEF CleanAndPublish, Finish, IInv, JobOK, MemoryFollowsDisk, TypeOK
  <2>2. Tip' = Tip /\ Linked'
    BY <2>1 DEF Tip, IInv, Linked
  <2>3. /\ DOMAIN diff' = {k \in DOMAIN diff : k >= finDB}
        /\ \A h \in DOMAIN diff' : diff'[h] = diff[h]
    BY <1>8, <2>1 DEF CleanAndPublish, CleanDiffs
  <2>4. NoOrphanDiff'
    BY <2>1, <2>3 DEF IInv, NoOrphanDiff
  <2>5. UnfinalizedCanBeUndone'
    BY <2>1, <2>3 DEF IInv, UnfinalizedCanBeUndone
  <2>6. MemoryFollowsDisk' /\ FinalizedBelowTip' /\ JobOK'
    BY <2>1, <2>2 DEF IInv, MemoryFollowsDisk, FinalizedBelowTip, JobOK
  <2>. QED  BY <1>0, <2>2, <2>4, <2>5, <2>6 DEF IInv
<1>9. CASE DeleteFails
  <2>1. /\ UNCHANGED OnDisk /\ UNCHANGED <<lastBlock, finMem>>
        /\ pc = "delete" /\ pc' = "idle"
    BY <1>9 DEF DeleteFails, Finish, dbVars, tipVars, OnDisk
  <2>2. MemoryFollowsDisk' /\ FinalizedBelowTip' /\ JobOK'
    BY <2>1, DiskUntouched
       DEF OnDisk, IInv, MemoryFollowsDisk, FinalizedBelowTip, JobOK
  <2>. QED  BY <1>0, <2>1, <2>2, DiskUntouched DEF IInv
<1>10. CASE DeleteBlock
  BY <1>0, <1>10, DeleteKeeps
<1>11. CASE PublishDeletion
  <2>0. /\ pc' \in {"idle", "verify"}
        /\ pc' = "verify" => job'.target \in Block
    <3>1. job \in Job
      BY DEF IInv, TypeOK
    <3>2. CASE job.target = None
      BY <1>11, <3>2 DEF PublishDeletion, Finish
    <3>3. CASE job.target # None
      <4>1. pc' = "verify" /\ job' = [job EXCEPT !.second = None]
        BY <1>11, <3>3 DEF PublishDeletion
      <4>2. job'.target = job.target /\ job.target \in Block
        BY <3>1, <3>3, <4>1 DEF Job
      <4>. QED  BY <4>1, <4>2
    <3>. QED  BY <3>2, <3>3
  <2>1. UNCHANGED OnDisk /\ finMem' = finMem /\ lastBlock' = Tip
    BY <1>11 DEF PublishDeletion, TipAfterDeletion, dbVars, OnDisk, IInv,
                 MemoryFollowsDisk
  <2>2. MemoryFollowsDisk' /\ FinalizedBelowTip'
    BY <2>0, <2>1, DiskUntouched
       DEF OnDisk, IInv, MemoryFollowsDisk, FinalizedBelowTip
  <2>3. JobOK'
    BY <2>0 DEF JobOK
  <2>. QED  BY <1>0, <2>1, <2>2, <2>3, DiskUntouched DEF IInv
<1>12. CASE Restart
  <2>1. /\ UNCHANGED OnDisk /\ finMem' = finDB /\ lastBlock' = Tip
        /\ pc' = "idle"
    BY <1>12 DEF Restart, Finish, dbVars, OnDisk
  <2>2. MemoryFollowsDisk' /\ JobOK'
    BY <2>1, DiskUntouched DEF MemoryFollowsDisk, JobOK
  <2>3. FinalizedBelowTip'
    BY <2>1, LenProperties DEF OnDisk, IInv, FinalizedBelowTip, TypeOK
  <2>. QED  BY <1>0, <2>1, <2>2, <2>3, DiskUntouched DEF IInv
<1>. QED
  BY <1>1, <1>2, <1>3, <1>4, <1>5, <1>6, <1>7, <1>8, <1>9, <1>10, <1>11, <1>12
     DEF Next

LEMMA Invariance == Spec => []IInv
BY InitIInv, StepIInv, PTL DEF Spec

-----------------------------------------------------------------------------
\* The chain on disk is linked, and memory meets the disk after every job,
\* failure and restart (saveBlock, removeBlock, init).
THEOREM TipStaysConsistent == Spec => []TipConsistent
<1>1. IInv => TipConsistent
  BY DEF IInv, TipConsistent
<1>. QED  BY <1>1, Invariance, PTL

\* A block above the finalized height can always be undone, no diff is left
\* behind by a block that was deleted, and the finalized height on disk is at
\* most the one in memory, and that one at most the tip's (_cleanUntil,
\* deleteBlock, updateFinalizedHeight against the batches on disk).
THEOREM StorageStaysKept == Spec => []StorageKept
<1>1. IInv => StorageKept
  BY DEF IInv, StorageKept
<1>. QED  BY <1>1, Invariance, PTL

-----------------------------------------------------------------------------
(* Processor implements ChainStore.                                        *)

LEMMA StoreTip == Store!Tip = Tip
BY DEF Store!Tip, Tip

\* The batch that writes a block is the store's append.
LEMMA WriteIsAppend ==
  ASSUME IInv, WriteBlock
  PROVE  Store!Append1(job.target, finMem, job.removeFromTempTable)
<1>1. job.target \in Block /\ IsConsecutive(job.target, Tip)
  BY DEF IInv, WriteBlock, JobOK, MemoryFollowsDisk
<1>2. finDB <= finMem /\ finMem <= Len(chain)
  BY DEF IInv, FinalizedBelowTip
<1>3. job.target.height = Tip.height + 1 /\ job.target.prev = Tip.id
  BY <1>1 DEF IsConsecutive
<1>. QED
  BY <1>2, <1>3, StoreTip
     DEF WriteBlock, Store!Append1, RemoveTemp, Store!RemoveTemp

\* The batch that deletes the tip is the store's removal of the tip.
LEMMA DeleteIsRemoval ==
  ASSUME IInv, DeleteBlock
  PROVE  Store!RemoveTip(job.saveTempBlock)
<1>1. lastBlock = Tip /\ lastBlock.height = Len(chain)
  BY TipHeight DEF IInv, DeleteBlock, MemoryFollowsDisk
<1>2. finDB < Len(chain)
  <2>1. finDB \in Nat /\ finMem \in Nat /\ Len(chain) \in Nat
    BY LenProperties DEF IInv, TypeOK
  <2>2. finDB <= finMem /\ finMem < Len(chain)
    BY <1>1, <2>1 DEF IInv, FinalizedBelowTip, DeleteBlock, CanDelete
  <2>. QED  BY <2>1, <2>2
<1>3. /\ chain' = SubSeq(chain, 1, Len(chain) - 1)
      /\ temp' = IF job.saveTempBlock THEN PutTemp(temp, Tip) ELSE temp
      /\ finDB' = finDB
  BY <1>1 DEF DeleteBlock
<1>. QED
  BY <1>2, <1>3, StoreTip DEF Store!RemoveTip, Store!CanRemoveTip, PutTemp, Store!PutTemp

\* Every other step leaves the store alone, or clears its temp table.
LEMMA StepIsStoreStep ==
  IInv /\ [Next]_vars => [Store!Next]_(Store!vars)
<1> SUFFICES ASSUME IInv, [Next]_vars
             PROVE  Store!Next \/ UNCHANGED Store!vars
  OBVIOUS
<1>1. CASE WriteBlock
  <2>1. job.target \in Block /\ job.removeFromTempTable \in BOOLEAN
    BY <1>1 DEF IInv, WriteBlock, JobOK, TypeOK, Job
  <2>2. finMem \in 0..Len(chain)
    <3>1. finMem \in Nat /\ Len(chain) \in Nat
      BY LenProperties DEF IInv, TypeOK
    <3>. QED  BY <3>1 DEF IInv, FinalizedBelowTip
  <2>. QED  BY <1>1, <2>1, <2>2, WriteIsAppend DEF Store!Next
<1>2. CASE DeleteBlock
  <2>1. job.saveTempBlock \in BOOLEAN
    BY DEF IInv, TypeOK, Job
  <2>. QED  BY <1>2, <2>1, DeleteIsRemoval DEF Store!Next
<1>3. CASE ClearTempBlocks
  BY <1>3 DEF ClearTempBlocks, Store!Next, Store!ClearTemp
<1>4. CASE \/ VerifyFails \/ VerifyAndVote \/ ExecuteFails \/ CleanAndPublish
           \/ DeleteFails \/ PublishDeletion \/ Stop \/ Restart
           \/ UNCHANGED vars
  BY <1>4 DEF VerifyFails, VerifyAndVote, ExecuteFails, CleanAndPublish,
     DeleteFails, PublishDeletion, Stop, Restart, Fail, vars, dbVars, Store!vars
<1>5. ASSUME NEW block \in Block, NEW now \in Clock, NEW stamp \in Stamps,
             \/ ProcessValidBlock(block, now, stamp)
             \/ ProcessTieBreak(block, now, stamp)
      PROVE  UNCHANGED Store!vars
  BY <1>5 DEF ProcessValidBlock, ProcessTieBreak, dbVars, Store!vars
<1>6. ASSUME NEW block \in Block, NEW rm \in BOOLEAN,
             ProcessValidated(block, rm)
      PROVE  UNCHANGED Store!vars
  BY <1>6 DEF ProcessValidated, dbVars, Store!vars
<1>7. ASSUME NEW save \in BOOLEAN, DeleteLastBlock(save)
      PROVE  UNCHANGED Store!vars
  BY <1>7 DEF DeleteLastBlock, dbVars, Store!vars
<1>. QED  BY <1>1, <1>2, <1>3, <1>4, <1>5, <1>6, <1>7 DEF Next

\* The database of a node that processes, fails, crashes and restarts in any
\* order keeps what ChainStore promises (Storage.saveBlock, deleteBlock).
THEOREM ProcessorImplementsStore == Spec => StoreSpec
<1>1. Init => Store!Init
  BY DEF Init, Store!Init
<1>. QED
  BY <1>1, StepIsStoreStep, Invariance, PTL DEF Spec, StoreSpec, Store!Spec

\* A block at or below the finalized height in memory stays on the chain,
\* through every step (_deleteBlock).
THEOREM AnnouncedBlocksStay == Spec => AnnouncedBlocksKept
<1>1. IInv /\ [Next]_vars =>
        [\A h \in 1..finMem : h <= Len(chain') /\ chain'[h] = chain[h]]_vars
  <2> SUFFICES ASSUME IInv, [Next]_vars, NEW h \in 1..finMem
               PROVE  h <= Len(chain') /\ chain'[h] = chain[h]
    OBVIOUS
  <2>1. /\ finMem \in Nat /\ Len(chain) \in Nat /\ finMem <= Len(chain)
        /\ chain \in Seq(Block) /\ h \in 1..Len(chain)
    BY LenProperties DEF IInv, FinalizedBelowTip, TypeOK
  <2>2. CASE WriteBlock
    <3>1. job.target \in Block /\ chain' = Append(chain, job.target)
      BY <2>2 DEF WriteBlock, IInv, JobOK
    <3>. QED  BY <2>1, <3>1
  <2>3. CASE DeleteBlock
    <3>. DEFINE n == Len(chain) - 1
    <3>1. chain' = SubSeq(chain, 1, n) /\ finMem <= n /\ n \in Nat
      BY <2>1, <2>3, TipHeight
         DEF IInv, DeleteBlock, MemoryFollowsDisk, CanDelete
    <3>2. \A i \in 1..n : chain[i] \in Block
      BY <2>1
    <3>3. h \in 1..n
      BY <2>1, <3>1
    <3>. HIDE DEF n
    <3>4. /\ Len(SubSeq(chain, 1, n)) = IF 1 <= n THEN n - 1 + 1 ELSE 0
          /\ \A i \in 1..(n - 1 + 1) : SubSeq(chain, 1, n)[i] = chain[1 + i - 1]
      BY <3>1, <3>2, SubSeqProperties
    <3>5. h \in 1..(n - 1 + 1) /\ 1 + h - 1 = h
      BY <3>1, <3>3
    <3>. QED  BY <3>1, <3>3, <3>4, <3>5
  <2>4. CASE ~WriteBlock /\ ~DeleteBlock
    <3>1. chain' = chain
      BY <2>4 DEF Next, ProcessValidBlock, ProcessTieBreak, ProcessValidated,
         DeleteLastBlock, ClearTempBlocks, VerifyFails, VerifyAndVote,
         ExecuteFails, CleanAndPublish, DeleteFails, PublishDeletion, Stop,
         Restart, Fail, vars, dbVars
    <3>. QED  BY <2>1, <3>1
  <2>. QED  BY <2>2, <2>3, <2>4
<1>. QED  BY <1>1, Invariance, PTL DEF Spec, AnnouncedBlocksKept
-----------------------------------------------------------------------------
(* The cache of headers.                                                   *)

\* The headers of blocks that a chain can have, as in CacheTypeOK.
CacheHeader == {Genesis} \cup [height : 1..MaxHeight, version : Version]

\* The chain as the cache should know it: while a block is added it is still that
\* without the block, while one is removed still that with the block.
Top == IF pending.step = "add" THEN Height - 1
       ELSE IF pending.step = "remove" THEN Height + 1 ELSE Height

Known == [h \in 0..Top |-> IF h = Height + 1 THEN pending.header ELSE Stored(h)]

\* s holds the newest headers of the chain known, which ends with height top.
Mirrors(s, known, top) ==
  /\ s \in Seq(CacheHeader)
  /\ Len(s) <= top + 1
  /\ \A i \in 1..Len(s) : s[i] = known[top - Len(s) + i]

BlocksOK ==
  /\ blocks \in Seq(CacheHeader) /\ Height <= MaxHeight
  /\ \A h \in 1..Height : blocks[h].height = h

PendingOK ==
  /\ pending \in [step : {"none", "add", "remove", "refill"}, header : CacheHeader]
  /\ pending.step = "add" => Height > 0 /\ pending.header = blocks[Height]
  /\ pending.step = "remove" => pending.header.height = Height + 1
  /\ pending.step = "refill" => needsRefill
  /\ pending.step = "none" => pending = NothingPending

\* A cache that wants a refill has not yet been overfilled by one.
NotTooMany ==
  /\ Len(items) <= 2 * MaxCachedItems - MinCachedItems + 1
  /\ needsRefill => Len(items) <= MaxCachedItems

\* Between two blocks the minimum is there, unless the cache reaches down to the
\* second block; one header may be missing before a refill.
Enough ==
  \/ Len(items) >= (IF pending.step = "refill" THEN MinCachedItems - 1 ELSE MinCachedItems)
  \/ Top <= Len(items) + 1

CacheInv ==
  /\ needsRefill \in BOOLEAN
  /\ BlocksOK /\ PendingOK /\ Mirrors(items, Known, Top) /\ NotTooMany /\ Enough

\* A function on an initial segment is a sequence.
LEMMA FunctionIsSeq ==
  ASSUME NEW S, NEW m \in Nat, NEW t \in [1..m -> S]
  PROVE  t \in Seq(S) /\ Len(t) = m
<1>1. t \in Seq(S)
  BY SeqDef
<1>2. Len(t) \in Nat /\ DOMAIN t = 1..Len(t) /\ DOMAIN t = 1..m
  BY <1>1, LenProperties
<1> QED BY <1>1, <1>2

\* A header is added behind the last.
LEMMA MirrorsLonger ==
  ASSUME NEW s, NEW c, NEW n \in Nat, Mirrors(s, c, n), NEW d,
         \A h \in 0..n : d[h] = c[h], d[n + 1] \in CacheHeader
  PROVE  Mirrors(Append(s, d[n + 1]), d, n + 1) /\ Len(Append(s, d[n + 1])) = Len(s) + 1
<1> DEFINE x == d[n + 1]
<1>1. s \in Seq(CacheHeader) /\ Len(s) \in Nat /\ Len(s) <= n + 1
      /\ \A i \in 1..Len(s) : s[i] = c[n - Len(s) + i]
  BY LenProperties DEF Mirrors
<1> HIDE DEF x
<1>2. PICK t : t = Append(s, x)
  OBVIOUS
<1>3. /\ t \in Seq(CacheHeader) /\ Len(t) = Len(s) + 1
      /\ \A i \in 1..Len(s) : t[i] = s[i]
      /\ t[Len(s) + 1] = x
  BY <1>1, <1>2, AppendProperties DEF x
<1>4. ASSUME NEW i \in 1..Len(t) PROVE t[i] = d[n + 1 - Len(t) + i]
  <2>1. CASE i \in 1..Len(s)
    <3>1. n + 1 - Len(t) + i = n - Len(s) + i /\ n - Len(s) + i \in 0..n
      BY <1>1, <1>3, <2>1
    <3> QED BY <1>1, <1>3, <2>1, <3>1
  <2>2. CASE i = Len(s) + 1
    <3>1. n + 1 - Len(t) + i = n + 1
      BY <1>1, <1>3, <2>2
    <3> QED BY <1>3, <2>2, <3>1 DEF x
  <2> QED BY <1>1, <1>3, <2>1, <2>2
<1> QED BY <1>1, <1>2, <1>3, <1>4 DEF Mirrors, x

\* The oldest header is shifted out.
LEMMA MirrorsTail ==
  ASSUME NEW s, NEW c, NEW n \in Nat, Mirrors(s, c, n), s # <<>>
  PROVE  Mirrors(Tail(s), c, n) /\ Len(Tail(s)) = Len(s) - 1
<1>1. s \in Seq(CacheHeader) /\ Len(s) \in Nat /\ Len(s) <= n + 1
      /\ \A i \in 1..Len(s) : s[i] = c[n - Len(s) + i]
  BY LenProperties DEF Mirrors
<1>2. PICK t : t = Tail(s)
  OBVIOUS
<1>3. /\ t \in Seq(CacheHeader) /\ Len(t) = Len(s) - 1 /\ Len(t) \in Nat
      /\ \A i \in 1..Len(t) : t[i] = s[i + 1]
  <2>1. /\ t \in Seq(CacheHeader) /\ Len(t) = Len(s) - 1
        /\ \A i \in 1..Len(t) : t[i] = s[i + 1]
    BY <1>1, <1>2, HeadTailProperties
  <2> QED BY <2>1, LenProperties
<1>4. ASSUME NEW i \in 1..Len(t) PROVE t[i] = c[n - Len(t) + i]
  <2>1. i + 1 \in 1..Len(s) /\ n - Len(t) + i = n - Len(s) + (i + 1)
    BY <1>1, <1>3
  <2> QED BY <1>1, <1>3, <2>1
<1> QED BY <1>1, <1>2, <1>3, <1>4 DEF Mirrors

\* All but the last.
LEMMA FrontIs ==
  ASSUME NEW S, NEW s \in Seq(S), Len(s) # 0
  PROVE  /\ Front(s) \in Seq(S) /\ Len(Front(s)) = Len(s) - 1
         /\ \A i \in 1..(Len(s) - 1) : Front(s)[i] = s[i]
<1>1. Len(s) \in Nat /\ Len(s) >= 1 /\ \A i \in 1..Len(s) : s[i] \in S
  BY LenProperties, ElementOfSeq
<1>2. 1 \in Int /\ Len(s) - 1 \in Int /\ \A i \in 1..(Len(s) - 1) : s[i] \in S
  BY <1>1
<1>3. PICK p : p = SubSeq(s, 1, Len(s) - 1)
  OBVIOUS
<1>4. /\ p \in Seq(S)
      /\ Len(p) = IF 1 <= Len(s) - 1 THEN Len(s) - 1 - 1 + 1 ELSE 0
      /\ \A i \in 1..(Len(s) - 1 - 1 + 1) : p[i] = s[1 + i - 1]
  BY <1>2, <1>3, SubSeqProperties
<1>5. \A k \in Int : k >= 1 => /\ (IF 1 <= k - 1 THEN k - 1 - 1 + 1 ELSE 0) = k - 1
                              /\ k - 1 - 1 + 1 = k - 1
  OBVIOUS
<1>6. Len(p) = Len(s) - 1 /\ 1..(Len(s) - 1) = 1..(Len(s) - 1 - 1 + 1)
  <2>1. Len(s) \in Int /\ Len(s) >= 1
    BY <1>1
  <2>2. /\ (IF 1 <= Len(s) - 1 THEN Len(s) - 1 - 1 + 1 ELSE 0) = Len(s) - 1
        /\ Len(s) - 1 - 1 + 1 = Len(s) - 1
    BY <1>5, <2>1, Zenon
  <2> QED BY <1>4, <2>2, Zenon
<1>7. ASSUME NEW i \in 1..(Len(s) - 1) PROVE p[i] = s[i]
  <2>1. p[i] = s[1 + i - 1] /\ 1 + i - 1 = i
    BY <1>4, <1>6
  <2> QED BY <2>1
<1> QED BY <1>3, <1>4, <1>6, <1>7 DEF Front

\* The newest header is taken away with its block.
LEMMA MirrorsFront ==
  ASSUME NEW s, NEW c, NEW n \in Nat \ {0}, Mirrors(s, c, n), s # <<>>, NEW d,
         \A h \in 0..(n - 1) : d[h] = c[h]
  PROVE  Mirrors(Front(s), d, n - 1) /\ Len(Front(s)) = Len(s) - 1
<1>1. s \in Seq(CacheHeader) /\ Len(s) \in Nat \ {0} /\ Len(s) <= n + 1
      /\ \A i \in 1..Len(s) : s[i] = c[n - Len(s) + i] /\ s[i] \in CacheHeader
  BY EmptySeq, ElementOfSeq DEF Mirrors
<1>2. PICK t : t = Front(s)
  OBVIOUS
<1>6. /\ t \in Seq(CacheHeader) /\ Len(t) = Len(s) - 1
      /\ \A i \in 1..Len(t) : t[i] = s[i]
  BY <1>1, <1>2, FrontIs
<1>7. ASSUME NEW i \in 1..Len(t) PROVE t[i] = d[n - 1 - Len(t) + i]
  <2>1. i \in 1..Len(s) /\ n - 1 - Len(t) + i = n - Len(s) + i /\ n - Len(s) + i \in 0..(n - 1)
    BY <1>1, <1>6
  <2> QED BY <1>1, <1>6, <2>1
<1>8. Len(t) <= n - 1 + 1
  BY <1>1, <1>6
<1> QED BY <1>2, <1>6, <1>7, <1>8 DEF Mirrors

\* The chain from height a up, read from the database.
LEMMA MirrorsRead ==
  ASSUME NEW c, NEW n \in Nat, NEW a \in 0..n, \A h \in 0..n : c[h] \in CacheHeader
  PROVE  LET s == [i \in 1..(n - a + 1) |-> c[a + i - 1]]
         IN  Mirrors(s, c, n) /\ Len(s) = n - a + 1
<1> DEFINE m == n - a + 1
           s == [i \in 1..m |-> c[a + i - 1]]
<1>1. m \in Nat /\ \A i \in 1..m : a + i - 1 \in 0..n /\ n - m + i = a + i - 1
  OBVIOUS
<1>2. s \in [1..m -> CacheHeader]
  BY <1>1
<1> HIDE DEF m
<1>3. s \in Seq(CacheHeader) /\ Len(s) = m
  BY <1>1, <1>2, FunctionIsSeq
<1>4. \A i \in 1..m : s[i] = c[n - m + i]
  BY <1>1
<1> HIDE DEF s
<1>5. Len(s) <= n + 1
  BY <1>3 DEF m
<1>6. Mirrors(s, c, n)
  BY <1>3, <1>4, <1>5 DEF Mirrors
<1> QED BY <1>3, <1>6 DEF s, m

\* Headers from height a on are put before those that are cached.
LEMMA MirrorsRefilled ==
  ASSUME NEW s, NEW c, NEW n \in Nat, Mirrors(s, c, n), \A h \in 0..n : c[h] \in CacheHeader,
         NEW a \in 0..(n - Len(s))
  PROVE  LET t == [i \in 1..(n - Len(s) - a + 1) |-> c[a + i - 1]]
         IN  Mirrors(t \o s, c, n) /\ Len(t \o s) = n - a + 1
<1>1. s \in Seq(CacheHeader) /\ Len(s) \in Nat /\ Len(s) <= n + 1
      /\ \A i \in 1..Len(s) : s[i] = c[n - Len(s) + i]
  BY LenProperties DEF Mirrors
<1> DEFINE m == n - Len(s) - a + 1
           t == [i \in 1..m |-> c[a + i - 1]]
<1>2. m \in Nat /\ \A i \in 1..m : a + i - 1 \in 0..n
  BY <1>1
<1>3. t \in [1..m -> CacheHeader]
  BY <1>2
<1>a. m + Len(s) = n - a + 1 /\ n - a + 1 <= n + 1
  BY <1>1
<1> HIDE DEF m
<1>4. t \in Seq(CacheHeader) /\ Len(t) = m
  BY <1>2, <1>3, FunctionIsSeq
<1>5. \A i \in 1..m : t[i] = c[a + i - 1]
  OBVIOUS
<1> HIDE DEF t
<1>6. PICK u : u = t \o s
  OBVIOUS
<1>7. /\ u \in Seq(CacheHeader) /\ Len(u) = m + Len(s)
      /\ \A i \in 1..(m + Len(s)) : u[i] = IF i <= m THEN t[i] ELSE s[i - m]
  BY <1>1, <1>4, <1>6, ConcatProperties
<1>8. ASSUME NEW i \in 1..Len(u) PROVE u[i] = c[n - Len(u) + i]
  <2>1. n - Len(u) + i = a + i - 1
    BY <1>1, <1>a, <1>7
  <2>2. CASE i <= m
    <3>1. i \in 1..m
      BY <1>1, <1>2, <1>7, <2>2
    <3> QED BY <1>5, <1>7, <2>1, <2>2, <3>1
  <2>3. CASE ~(i <= m)
    <3> DEFINE k == i - m
    <3>a. i \in Int /\ m \in Int /\ i <= m + Len(s) /\ Len(s) \in Int
      BY <1>1, <1>2, <1>7
    <3>1. k \in 1..Len(s) /\ n - Len(s) + k = a + i - 1
      BY <1>a, <3>a, <2>3
    <3> QED BY <1>1, <1>7, <2>1, <2>3, <3>1
  <2> QED BY <2>2, <2>3
<1>9. Mirrors(u, c, n)
  BY <1>7, <1>8, <1>a DEF Mirrors
<1> QED BY <1>6, <1>7, <1>9, <1>a DEF t, m

\* The header of a stored block carries the height it is stored at.
LEMMA StoredIs ==
  ASSUME BlocksOK
  PROVE  Height \in Nat /\ \A h \in 0..Height : Stored(h) \in CacheHeader /\ Stored(h).height = h
<1>1. Height \in Nat /\ blocks \in Seq(CacheHeader)
  BY LenProperties DEF BlocksOK, Height
<1>2. ASSUME NEW h \in 0..Height PROVE Stored(h) \in CacheHeader /\ Stored(h).height = h
  <2>1. CASE h = 0
    BY <2>1 DEF Stored, CacheHeader, Genesis, Header
  <2>2. CASE h \in 1..Height
    <3>1. blocks[h] \in CacheHeader /\ blocks[h].height = h
      BY <1>1, <2>2, ElementOfSeq DEF BlocksOK, Height
    <3> QED BY <2>2, <3>1 DEF Stored
  <2> QED BY <1>1, <2>1, <2>2
<1> QED BY <1>1, <1>2

\* The chain as the cache should know it, header by header.
LEMMA KnownIs ==
  ASSUME BlockCacheAssumption, BlocksOK, PendingOK
  PROVE  /\ Height \in Nat /\ Top \in Nat /\ Top <= Height + 1
         /\ \A h \in 0..Top : /\ Known[h] = IF h = Height + 1 THEN pending.header ELSE Stored(h)
                              /\ Known[h] \in CacheHeader /\ Known[h].height = h
<1>1. Height \in Nat /\ blocks \in Seq(CacheHeader)
  BY LenProperties DEF BlocksOK, Height
<1>2. pending.step \in {"none", "add", "remove", "refill"} /\ pending.header \in CacheHeader
  BY DEF PendingOK
<1>3. Top \in Nat /\ Top <= Height + 1 /\ (Top = Height + 1 => pending.step = "remove")
  BY <1>1, <1>2 DEF Top, PendingOK
<1>4. \A h \in 0..Height : Stored(h) \in CacheHeader /\ Stored(h).height = h
  BY <1>1, StoredIs
<1>5. ASSUME NEW h \in 0..Top
      PROVE  /\ Known[h] = IF h = Height + 1 THEN pending.header ELSE Stored(h)
             /\ Known[h] \in CacheHeader /\ Known[h].height = h
  <2>1. Known[h] = IF h = Height + 1 THEN pending.header ELSE Stored(h)
    BY DEF Known
  <2>2. CASE h = Height + 1
    <3>1. pending.step = "remove"
      BY <1>1, <1>3, <2>2
    <3> QED BY <1>2, <2>1, <2>2, <3>1 DEF PendingOK
  <2>3. CASE h # Height + 1
    <3>1. h \in 0..Height
      BY <1>1, <1>3, <2>3
    <3> QED BY <1>4, <2>1, <2>3, <3>1
  <2> QED BY <2>2, <2>3
<1> QED BY <1>1, <1>3, <1>5

\* The genesis block alone.
LEMMA CacheStarts ==
  ASSUME BlockCacheAssumption, CacheInit
  PROVE  CacheInv
<1>1. /\ blocks = <<>> /\ Height = 0 /\ blocks \in Seq(CacheHeader)
      /\ pending = NothingPending /\ needsRefill = FALSE /\ items = <<Genesis>>
  BY EmptySeq DEF CacheInit, Height
<1>2. Genesis \in CacheHeader
  BY DEF CacheHeader
<1>3. BlocksOK
  BY <1>1 DEF BlocksOK, BlockCacheAssumption
<1>4. PendingOK /\ Top = 0
  BY <1>1, <1>2 DEF PendingOK, NothingPending, Top
<1>5. Known[0] = Genesis
  BY <1>1, <1>4 DEF Known, Stored
<1>6. items \in Seq(CacheHeader) /\ Len(items) = 1 /\ items[1] = Genesis
  BY <1>1, <1>2
<1>7. \A i \in 1..1 : items[i] = Known[0 - 1 + i]
  BY <1>5, <1>6
<1>8. Mirrors(items, Known, Top)
  BY <1>4, <1>6, <1>7 DEF Mirrors
<1>9. NotTooMany /\ Enough
  BY <1>1, <1>4, <1>6 DEF NotTooMany, Enough, BlockCacheAssumption
<1> QED BY <1>1, <1>3, <1>4, <1>8, <1>9 DEF CacheInv

\* chain.saveBlock changes the database first; the cache mirrors the chain below.
LEMMA SaveKeeps ==
  ASSUME BlockCacheAssumption, CacheInv, NEW version \in Version, SaveBlock(version)
  PROVE  CacheInv'
<1> DEFINE header == Header(Height + 1, version)
<1>1. BlocksOK /\ PendingOK /\ Mirrors(items, Known, Top) /\ NotTooMany /\ Enough
      /\ needsRefill \in BOOLEAN
  BY DEF CacheInv
<1>2. /\ pending = NothingPending /\ Height < MaxHeight /\ blocks' = Append(blocks, header)
      /\ pending' = [step |-> "add", header |-> header]
      /\ items' = items /\ needsRefill' = needsRefill
  BY DEF SaveBlock
<1>3. /\ Height \in Nat /\ MaxHeight \in Nat /\ blocks \in Seq(CacheHeader)
      /\ \A h \in 1..Height : blocks[h].height = h
  BY <1>1, KnownIs DEF BlocksOK, BlockCacheAssumption
<1>4. header \in CacheHeader /\ header.height = Height + 1
  BY <1>2, <1>3 DEF Header, CacheHeader
<1> HIDE DEF header
<1>5. /\ blocks' \in Seq(CacheHeader) /\ Height' = Height + 1
      /\ \A h \in 1..Height : blocks'[h] = blocks[h]
      /\ blocks'[Height + 1] = header
  BY <1>2, <1>3, <1>4, AppendProperties DEF Height
<1>6. BlocksOK'
  <2>1. \A h \in 1..Height' : blocks'[h].height = h
    BY <1>3, <1>4, <1>5
  <2>2. Height' <= MaxHeight
    BY <1>2, <1>3, <1>5
  <2> QED BY <1>5, <2>1, <2>2 DEF BlocksOK
<1>7. PendingOK'
  BY <1>2, <1>3, <1>4, <1>5 DEF PendingOK
<1>8. Top = Height /\ Top' = Height
  BY <1>2, <1>3, <1>5 DEF Top, NothingPending
<1>9. Known' = Known
  <2>1. \A h \in 0..Height : h # Height + 1 /\ h # Height' + 1 /\ Stored(h)' = Stored(h)
    BY <1>3, <1>5 DEF Stored, Genesis, Header
  <2> QED BY <1>8, <2>1 DEF Known
<1>10. Mirrors(items, Known, Top)'
  BY <1>1, <1>2, <1>8, <1>9 DEF Mirrors, CacheHeader, Genesis, Header
<1>11. NotTooMany' /\ Enough'
  BY <1>1, <1>2, <1>8 DEF NotTooMany, Enough, NothingPending
<1> QED BY <1>1, <1>2, <1>6, <1>7, <1>10, <1>11 DEF CacheInv

\* The oldest header makes place only where there are more than the maximum.
LEMMA Shifted ==
  ASSUME BlockCacheAssumption, NEW s, NEW c, NEW n \in Nat, Mirrors(s, c, n)
  PROVE  /\ Mirrors(ShiftIfTooMany(s), c, n) /\ Len(s) \in Nat
         /\ Len(ShiftIfTooMany(s)) = IF Len(s) > MaxCachedItems THEN Len(s) - 1 ELSE Len(s)
<1>1. s \in Seq(CacheHeader) /\ Len(s) \in Nat /\ MaxCachedItems \in Nat
  BY LenProperties DEF Mirrors, BlockCacheAssumption
<1>2. CASE Len(s) > MaxCachedItems
  <2>1. s # <<>>
    BY <1>1, <1>2, EmptySeq
  <2> QED BY <1>1, <1>2, <2>1, MirrorsTail DEF ShiftIfTooMany
<1>3. CASE ~(Len(s) > MaxCachedItems)
  BY <1>1, <1>3 DEF ShiftIfTooMany
<1> QED BY <1>2, <1>3

\* BlockCache.add.
LEMMA AddKeeps ==
  ASSUME BlockCacheAssumption, CacheInv, AddBlockHeader
  PROVE  CacheInv'
<1>1. BlocksOK /\ PendingOK /\ Mirrors(items, Known, Top) /\ NotTooMany /\ Enough
      /\ needsRefill \in BOOLEAN
  BY DEF CacheInv
<1>2. /\ pending.step = "add" /\ items' = Added(pending.header) /\ pending' = NothingPending
      /\ blocks' = blocks /\ needsRefill' = needsRefill /\ Height' = Height
  BY DEF AddBlockHeader, Height
<1>3. /\ Height \in Nat /\ Top \in Nat /\ Height > 0 /\ pending.header = blocks[Height]
      /\ pending.header \in CacheHeader
      /\ \A h \in 0..Top : Known[h] = IF h = Height + 1 THEN pending.header ELSE Stored(h)
  BY <1>1, <1>2, KnownIs DEF PendingOK
<1>4. Top = Height - 1 /\ Top' = Height /\ Top + 1 = Height
  BY <1>2, <1>3 DEF Top, NothingPending
<1>5. /\ \A h \in 0..Top : Known'[h] = Known[h]
      /\ Known'[Top + 1] = pending.header
  <2>1. \A h \in 0..Height : Known'[h] = Stored(h)
    <3>1. \A h \in 0..Height : h # Height + 1 /\ Stored(h)' = Stored(h)
      BY <1>2, <1>3 DEF Stored, Genesis, Header
    <3> QED BY <1>2, <1>4, <3>1 DEF Known
  <2>2. Stored(Height) = pending.header
    BY <1>3 DEF Stored
  <2>3. \A h \in 0..Top : h \in 0..Height /\ h # Height + 1
    BY <1>3, <1>4
  <2> QED BY <1>3, <1>4, <2>1, <2>2, <2>3
<1> DEFINE longer == Append(items, pending.header)
<1>6. Mirrors(longer, Known', Height) /\ Len(longer) = Len(items) + 1 /\ Len(items) \in Nat
  <2>1. Len(items) \in Nat
    BY <1>1, LenProperties DEF Mirrors
  <2> QED BY <1>1, <1>3, <1>4, <1>5, <2>1, MirrorsLonger
<1> HIDE DEF longer
<1>7. items' = ShiftIfTooMany(longer)
  BY <1>2 DEF Added, longer
<1>8. /\ Mirrors(items', Known', Top')
      /\ Len(items') = IF Len(items) + 1 > MaxCachedItems THEN Len(items) ELSE Len(items) + 1
  BY <1>3, <1>4, <1>6, <1>7, Shifted
<1>9. NotTooMany' /\ Enough'
  <2>1. /\ Len(items) <= 2 * MaxCachedItems - MinCachedItems + 1
        /\ needsRefill => Len(items) <= MaxCachedItems
        /\ Len(items) >= MinCachedItems \/ Top <= Len(items) + 1
        /\ MinCachedItems \in Nat /\ MaxCachedItems \in Nat /\ MinCachedItems < MaxCachedItems
    BY <1>1, <1>2 DEF NotTooMany, Enough, BlockCacheAssumption
  <2>2. /\ Len(items') <= 2 * MaxCachedItems - MinCachedItems + 1
        /\ needsRefill => Len(items') <= MaxCachedItems
        /\ Len(items') >= MinCachedItems \/ Top + 1 <= Len(items') + 1
    BY <1>3, <1>6, <1>8, <2>1
  <2> QED BY <1>2, <1>4, <2>2 DEF NotTooMany, Enough, NothingPending
<1>10. BlocksOK' /\ PendingOK'
  BY <1>1, <1>2 DEF BlocksOK, PendingOK, NothingPending, Height, CacheHeader, Genesis, Header
<1>11. Mirrors(items, Known, Top)'
  BY <1>8 DEF Mirrors, CacheHeader, Genesis, Header
<1> QED BY <1>1, <1>2, <1>9, <1>10, <1>11 DEF CacheInv

\* chain.removeBlock changes the database first; the cache mirrors the chain above.
LEMMA RemoveKeeps ==
  ASSUME BlockCacheAssumption, CacheInv, RemoveBlock
  PROVE  CacheInv'
<1>1. BlocksOK /\ PendingOK /\ Mirrors(items, Known, Top) /\ NotTooMany /\ Enough
      /\ needsRefill \in BOOLEAN
  BY DEF CacheInv
<1>2. /\ pending = NothingPending /\ Height > 0 /\ blocks' = Front(blocks)
      /\ pending' = [step |-> "remove", header |-> Last(blocks)]
      /\ items' = items /\ needsRefill' = needsRefill
  BY DEF RemoveBlock
<1>3. /\ Height \in Nat \ {0} /\ MaxHeight \in Nat /\ blocks \in Seq(CacheHeader)
      /\ Len(blocks) = Height /\ Height <= MaxHeight
      /\ \A h \in 1..Height : blocks[h].height = h /\ blocks[h] \in CacheHeader
  BY <1>1, <1>2, KnownIs, ElementOfSeq DEF BlocksOK, BlockCacheAssumption, Height
<1>4. pending'.header = blocks[Height] /\ pending'.step = "remove"
  BY <1>2, <1>3 DEF Last
<1>5. /\ blocks' \in Seq(CacheHeader) /\ Height' = Height - 1
      /\ \A h \in 1..(Height - 1) : blocks'[h] = blocks[h]
  <2>1. PICK p : p = Front(blocks)
    OBVIOUS
  <2>2. /\ p \in Seq(CacheHeader) /\ Len(p) = Height - 1
        /\ \A h \in 1..(Height - 1) : p[h] = blocks[h]
    BY <1>3, <2>1, FrontIs
  <2> QED BY <1>2, <2>1, <2>2 DEF Height
<1>6. BlocksOK'
  <2>1. \A h \in 1..(Height - 1) : blocks'[h].height = h
    BY <1>3, <1>5
  <2>2. Height' <= MaxHeight
    BY <1>3, <1>5
  <2> QED BY <1>5, <2>1, <2>2 DEF BlocksOK, CacheHeader, Genesis, Header
<1>7. PendingOK'
  <2>1. /\ pending'.header \in CacheHeader /\ pending'.header.height = Height
        /\ Height' + 1 = Height
    BY <1>3, <1>4, <1>5
  <2> QED BY <1>2, <1>4, <2>1 DEF PendingOK, CacheHeader, Genesis, Header
<1>8. Top = Height /\ Top' = Height
  BY <1>2, <1>3, <1>4, <1>5 DEF Top, NothingPending
<1>9. Known' = Known
  <2>1. ASSUME NEW h \in 0..Height
        PROVE  Stored(h) = IF h = Height' + 1 THEN pending'.header ELSE Stored(h)'
    <3>1. CASE h = Height
      BY <1>3, <1>4, <1>5, <3>1 DEF Stored
    <3>2. CASE h \in 0..(Height - 1)
      BY <1>3, <1>5, <3>2 DEF Stored, Genesis, Header
    <3> QED BY <1>3, <3>1, <3>2
  <2>2. \A h \in 0..Height : h # Height + 1
    BY <1>3
  <2> QED BY <1>8, <2>1, <2>2 DEF Known
<1>10. Mirrors(items, Known, Top)'
  BY <1>1, <1>2, <1>8, <1>9 DEF Mirrors, CacheHeader, Genesis, Header
<1>11. NotTooMany' /\ Enough'
  BY <1>1, <1>2, <1>8 DEF NotTooMany, Enough, NothingPending
<1> QED BY <1>1, <1>2, <1>6, <1>7, <1>10, <1>11 DEF CacheInv

\* BlockCache.remove.
LEMMA RemoveHeaderKeeps ==
  ASSUME BlockCacheAssumption, CacheInv, RemoveBlockHeader
  PROVE  CacheInv'
<1>1. BlocksOK /\ PendingOK /\ Mirrors(items, Known, Top) /\ NotTooMany /\ Enough
      /\ needsRefill \in BOOLEAN
  BY DEF CacheInv
<1>2. /\ pending.step = "remove" /\ items' = AfterRemoval
      /\ needsRefill' = (needsRefill \/ Len(items') < MinCachedItems)
      /\ pending' = IF needsRefill' THEN [pending EXCEPT !.step = "refill"] ELSE NothingPending
      /\ blocks' = blocks /\ Height' = Height
  BY DEF RemoveBlockHeader, Height
<1>3. /\ Height \in Nat /\ Top \in Nat /\ pending.header \in CacheHeader
      /\ pending \in [step : {"none", "add", "remove", "refill"}, header : CacheHeader]
      /\ \A h \in 0..Top : Known[h] = IF h = Height + 1 THEN pending.header ELSE Stored(h)
  BY <1>1, <1>2, KnownIs DEF PendingOK
<1>4. needsRefill' \in BOOLEAN /\ pending'.step = IF needsRefill' THEN "refill" ELSE "none"
  BY <1>1, <1>2, <1>3 DEF NothingPending
<1>5. Top = Height + 1 /\ Top' = Height /\ Top - 1 = Height
  BY <1>2, <1>3, <1>4 DEF Top
<1>6. \A h \in 0..(Top - 1) : Known'[h] = Known[h]
  <2>1. \A h \in 0..Height : h # Height + 1 /\ Stored(h)' = Stored(h) /\ h \in 0..Top
    BY <1>2, <1>3, <1>5 DEF Stored, Genesis, Header
  <2>2. \A h \in 0..Height : Known'[h] = Stored(h)
    BY <1>2, <1>5, <2>1 DEF Known
  <2> QED BY <1>3, <1>5, <2>1, <2>2
<1>7. /\ Mirrors(items', Known', Height) /\ Len(items) \in Nat
      /\ Len(items') = IF items = <<>> THEN 0 ELSE Len(items) - 1
  <2>1. items \in Seq(CacheHeader) /\ Len(items) \in Nat
    BY <1>1, LenProperties DEF Mirrors
  <2>2. CASE items = <<>>
    <3>1. items' = <<>> /\ Len(items') = 0 /\ items' \in Seq(CacheHeader)
      BY <1>2, <2>2, EmptySeq DEF AfterRemoval
    <3>2. \A i \in 1..Len(items') : items'[i] = Known'[Height - Len(items') + i]
      BY <3>1
    <3>3. Len(items') <= Height + 1
      BY <1>3, <3>1
    <3> QED BY <2>1, <2>2, <3>1, <3>2, <3>3 DEF Mirrors
  <2>3. CASE items # <<>>
    <3>1. items' = Front(items) /\ Top \in Nat \ {0}
      BY <1>2, <1>3, <1>5, <2>3 DEF AfterRemoval
    <3>2. Mirrors(Front(items), Known', Top - 1) /\ Len(Front(items)) = Len(items) - 1
      BY <1>1, <1>6, <2>3, <3>1, MirrorsFront
    <3> QED BY <1>5, <2>1, <2>3, <3>1, <3>2
  <2> QED BY <2>2, <2>3
<1>8. NotTooMany' /\ Enough'
  <2>1. /\ Len(items) <= 2 * MaxCachedItems - MinCachedItems + 1
        /\ needsRefill => Len(items) <= MaxCachedItems
        /\ Len(items) >= MinCachedItems \/ Top <= Len(items) + 1
        /\ MinCachedItems \in Nat /\ MaxCachedItems \in Nat
        /\ 1 < MinCachedItems /\ MinCachedItems < MaxCachedItems
    BY <1>1, <1>2 DEF NotTooMany, Enough, BlockCacheAssumption
  <2>2. items = <<>> => Len(items) = 0
    BY EmptySeq
  <2>3. Len(items') \in Nat /\ Len(items') <= Len(items)
    <3>1. CASE items = <<>>
      BY <1>7, <2>2, <3>1
    <3>2. CASE items # <<>>
      <4>1. Len(items) # 0
        BY <1>1, <3>2, EmptySeq DEF Mirrors
      <4> QED BY <1>7, <3>2, <4>1
    <3> QED BY <3>1, <3>2
  <2>4. Len(items') <= 2 * MaxCachedItems - MinCachedItems + 1
    BY <1>7, <2>1, <2>3
  <2>a. /\ needsRefill' => needsRefill \/ Len(items') < MinCachedItems
        /\ ~needsRefill' => ~(Len(items') < MinCachedItems)
    BY <1>2
  <2>5. needsRefill' => Len(items') <= MaxCachedItems
    <3>1. CASE needsRefill
      <4>1. Len(items) <= MaxCachedItems
        BY <2>1, <3>1
      <4>2. Len(items') <= MaxCachedItems
        BY <1>7, <2>1, <2>3, <4>1
      <4> QED BY <4>2
    <3>2. CASE Len(items') < MinCachedItems
      <4>1. Len(items') <= MaxCachedItems
        BY <2>1, <2>3, <3>2
      <4> QED BY <4>1
    <3> QED BY <2>a, <3>1, <3>2
  <2>6. \/ Len(items') >= (IF needsRefill' THEN MinCachedItems - 1 ELSE MinCachedItems)
        \/ Top - 1 <= Len(items') + 1
    <3>1. CASE items = <<>>
      BY <1>3, <1>7, <2>1, <2>2, <3>1
    <3>2. CASE items # <<>> /\ Top <= Len(items) + 1
      <4>1. Len(items') = Len(items) - 1
        BY <1>7, <3>2
      <4>2. Top - 1 <= Len(items') + 1
        BY <1>3, <1>7, <3>2, <4>1
      <4> QED BY <4>2
    <3>3. CASE items # <<>> /\ Len(items) >= MinCachedItems
      <4>1. Len(items') = Len(items) - 1
        BY <1>7, <3>3
      <4>2. Len(items') >= MinCachedItems - 1
        BY <1>7, <2>1, <3>3, <4>1
      <4>3. ~needsRefill' => Len(items') >= MinCachedItems
        BY <2>1, <2>3, <2>a
      <4> QED BY <4>2, <4>3
    <3> QED BY <2>1, <3>1, <3>2, <3>3
  <2> QED BY <1>4, <1>5, <2>4, <2>5, <2>6 DEF NotTooMany, Enough
<1>9. BlocksOK'
  BY <1>1, <1>2 DEF BlocksOK, CacheHeader, Genesis, Header
<1>10. PendingOK'
  <2>1. Genesis \in CacheHeader
    BY DEF CacheHeader
  <2>2. pending' \in [step : {"none", "add", "remove", "refill"}, header : CacheHeader]
    BY <1>2, <1>3, <2>1 DEF NothingPending
  <2>3. pending'.step = "none" => pending' = NothingPending
    BY <1>2, <1>4
  <2> QED BY <1>4, <2>2, <2>3 DEF PendingOK, CacheHeader, Genesis, Header, NothingPending
<1>11. Mirrors(items, Known, Top)'
  BY <1>5, <1>7 DEF Mirrors, CacheHeader, Genesis, Header
<1> QED BY <1>4, <1>8, <1>9, <1>10, <1>11 DEF CacheInv
\* BlockCache.refill, after a removal that left too few headers.
LEMMA RefillKeeps ==
  ASSUME BlockCacheAssumption, CacheInv, Refill
  PROVE  CacheInv'
<1>1. BlocksOK /\ PendingOK /\ Mirrors(items, Known, Top) /\ NotTooMany /\ Enough
      /\ needsRefill \in BOOLEAN
  BY DEF CacheInv
<1>2. pending.step = "refill" /\ pending' = NothingPending /\ blocks' = blocks /\ Height' = Height
  BY DEF Refill, Height
<1>3. needsRefill
  BY <1>1, <1>2 DEF PendingOK
<1>4. /\ Height \in Nat /\ Top = Height
      /\ \A h \in 0..Height : Known[h] = Stored(h) /\ Known[h] \in CacheHeader /\ Known[h].height = h
  <2>1. Height \in Nat /\ Top = Height
    BY <1>1, <1>2, KnownIs DEF Top
  <2>2. \A h \in 0..Height : h # Height + 1
    BY <2>1
  <2> QED BY <1>1, <2>1, <2>2, KnownIs
<1>5. Top' = Height /\ Known' = Known
  <2>1. Top' = Height
    BY <1>2 DEF Top, NothingPending
  <2>2. \A h \in 0..Height : h # Height + 1 /\ Stored(h)' = Stored(h)
    BY <1>2, <1>4 DEF Stored, Genesis, Header
  <2> QED BY <1>2, <1>4, <2>1, <2>2 DEF Known
<1>6. BlocksOK'
  BY <1>1, <1>2 DEF BlocksOK, CacheHeader, Genesis, Header
<1>7. PendingOK'
  BY <1>2 DEF PendingOK, NothingPending, CacheHeader, Genesis, Header
<1>8. /\ items \in Seq(CacheHeader) /\ Len(items) \in Nat /\ Len(items) <= Height + 1
      /\ \A i \in 1..Len(items) : items[i] = Known[Height - Len(items) + i]
  BY <1>1, <1>4, LenProperties DEF Mirrors
<1>9. /\ MinCachedItems \in Nat /\ MaxCachedItems \in Nat
      /\ 1 < MinCachedItems /\ MinCachedItems < MaxCachedItems
      /\ Len(items) <= MaxCachedItems
      /\ Len(items) >= MinCachedItems - 1 \/ Height <= Len(items) + 1
  BY <1>1, <1>2, <1>3, <1>4 DEF NotTooMany, Enough, BlockCacheAssumption
<1>10. UpperHeightToFetch = IF items = <<>> THEN 0 ELSE Height - Len(items)
  <2>1. CASE items # <<>>
    <3>1. Len(items) # 0
      BY <1>8, <2>1, EmptySeq
    <3>2. 1 \in 1..Len(items) /\ Height - Len(items) + 1 \in 0..Height
      BY <1>4, <1>8, <3>1
    <3>3. items[1].height = Height - Len(items) + 1
      BY <1>4, <1>8, <3>2
    <3>4. First = items[1]
      BY <1>8, <2>1, HeadTailProperties DEF First
    <3>5. First.height = Height - Len(items) + 1
      BY <3>3, <3>4
    <3>6. First.height - 1 = Height - Len(items)
      BY <1>4, <1>8, <3>5
    <3> QED BY <2>1, <3>6, Zenon DEF UpperHeightToFetch
  <2> QED BY <2>1 DEF UpperHeightToFetch
<1>11. CASE ~RefillIsPossible
  <2>1. items' = items /\ needsRefill' = needsRefill
    BY <1>11 DEF Refill
  <2>2. Mirrors(items, Known, Top)'
    BY <1>1, <1>4, <1>5, <2>1 DEF Mirrors, CacheHeader, Genesis, Header
  <2>3. Len(items) >= MinCachedItems \/ Height <= Len(items) + 1
    <3>1. CASE items = <<>>
      BY <1>4, <1>8, <1>9, <3>1, EmptySeq
    <3>2. CASE items # <<>>
      <4> DEFINE upper == Height - Len(items)
                 lower == upper - (MaxCachedItems - MinCachedItems)
      <4>1. ~(upper - (IF lower > 1 THEN lower ELSE 1) > 0)
        BY <1>10, <1>11, <3>2 DEF RefillIsPossible, LowerHeightToFetch
      <4>2. CASE lower > 1
        <5>1. upper - lower = MaxCachedItems - MinCachedItems
          BY <1>4, <1>8, <1>9
        <5>2. upper - lower > 0
          BY <1>9, <5>1
        <5> QED BY <4>1, <4>2, <5>2
      <4>3. CASE ~(lower > 1)
        <5>1. ~(upper - 1 > 0)
          BY <4>1, <4>3
        <5>2. Height <= Len(items) + 1
          BY <1>4, <1>8, <5>1
        <5> QED BY <5>2
      <4> QED BY <4>2, <4>3
    <3> QED BY <3>1, <3>2
  <2>4. NotTooMany'
    BY <1>1, <2>1 DEF NotTooMany
  <2>5. Enough'
    BY <1>2, <1>5, <2>1, <2>3 DEF Enough, NothingPending
  <2> QED BY <1>1, <1>6, <1>7, <2>1, <2>2, <2>4, <2>5 DEF CacheInv
<1>12. CASE RefillIsPossible
  <2> DEFINE upper == UpperHeightToFetch
             lower == LowerHeightToFetch
  <2>1. items' = StoredBetween(lower, upper) \o items /\ needsRefill' = FALSE
    BY <1>12 DEF Refill, WantsRefillAfterRefill
  <2>2. upper - lower > 0 /\ lower = (IF upper - (MaxCachedItems - MinCachedItems) > 1
                                      THEN upper - (MaxCachedItems - MinCachedItems) ELSE 1)
    BY <1>12 DEF RefillIsPossible, LowerHeightToFetch
  <2> HIDE DEF upper, lower
  <2>3. items # <<>> /\ upper = Height - Len(items)
    <3>1. CASE items = <<>>
      <4>1. upper = 0
        BY <1>10, <3>1 DEF upper
      <4>2. ~(0 - (MaxCachedItems - MinCachedItems) > 1)
        BY <1>9
      <4>3. lower = 1
        BY <2>2, <4>1, <4>2
      <4>4. ~(0 - 1 > 0)
        OBVIOUS
      <4> QED BY <2>2, <4>1, <4>3, <4>4
    <3> QED BY <1>10, <3>1 DEF upper
  <2>4. lower \in Nat /\ lower >= 1 /\ lower >= upper - (MaxCachedItems - MinCachedItems)
        /\ upper \in Int /\ lower < upper
    <3> DEFINE low == upper - (MaxCachedItems - MinCachedItems)
    <3>1. upper \in Int /\ low \in Int
      BY <1>4, <1>8, <1>9, <2>3
    <3>2. upper - lower > 0 /\ lower = IF low > 1 THEN low ELSE 1
      BY <2>2, Zenon
    <3> HIDE DEF low
    <3>3. lower \in Int /\ lower >= 1 /\ lower >= low
      BY <3>1, <3>2
    <3>4. lower < upper
      BY <3>1, <3>2, <3>3
    <3> QED BY <3>1, <3>3, <3>4 DEF low
  <2>5. lower \in 0..(Height - Len(items)) /\ upper = Height - Len(items) /\ upper <= Height
    BY <1>4, <1>8, <2>3, <2>4
  <2>6. StoredBetween(lower, upper)
          = [i \in 1..(Height - Len(items) - lower + 1) |-> Known[lower + i - 1]]
    <3>1. \A i \in 1..(upper - lower + 1) : lower + i - 1 \in 0..Height
      BY <1>4, <1>8, <2>4, <2>5
    <3> QED BY <1>4, <2>5, <3>1 DEF StoredBetween
  <2>7. Mirrors(items', Known, Height) /\ Len(items') = Height - lower + 1
    <3>1. Mirrors(items, Known, Height)
      BY <1>1, <1>4
    <3>2. \A h \in 0..Height : Known[h] \in CacheHeader
      BY <1>4
    <3> DEFINE read == [i \in 1..(Height - Len(items) - lower + 1) |-> Known[lower + i - 1]]
    <3>3. Mirrors(read \o items, Known, Height) /\ Len(read \o items) = Height - lower + 1
      BY <1>4, <2>5, <3>1, <3>2, MirrorsRefilled, SMTT(30)
    <3> HIDE DEF read
    <3>4. items' = read \o items
      BY <2>1, <2>6, Zenon DEF read
    <3> QED BY <3>3, <3>4, Zenon
  <2>8. Mirrors(items, Known, Top)'
    BY <1>5, <2>7 DEF Mirrors, CacheHeader, Genesis, Header
  <2>9. Len(items') = Len(items) + (upper - lower) + 1
    BY <1>4, <1>8, <2>4, <2>5, <2>7
  <2>10. NotTooMany'
    <3>1. upper - lower <= MaxCachedItems - MinCachedItems
      BY <1>9, <2>4
    <3>2. Len(items') <= 2 * MaxCachedItems - MinCachedItems + 1
      BY <1>8, <1>9, <2>4, <2>9, <3>1
    <3> QED BY <2>1, <3>2 DEF NotTooMany
  <2>11. Enough'
    <3>1. Len(items') >= MinCachedItems \/ Height <= Len(items') + 1
      BY <1>4, <1>8, <1>9, <2>4, <2>9
    <3> QED BY <1>2, <1>5, <3>1 DEF Enough, NothingPending
  <2> QED BY <1>6, <1>7, <2>1, <2>8, <2>10, <2>11 DEF CacheInv
<1> QED BY <1>11, <1>12

\* Chain.init after a restart.
LEMMA CacheRestartKeeps ==
  ASSUME BlockCacheAssumption, CacheInv, CacheRestart
  PROVE  CacheInv'
<1>1. BlocksOK /\ PendingOK
  BY DEF CacheInv
<1>2. /\ items' = CachedAtStart /\ needsRefill' = FALSE /\ pending' = NothingPending
      /\ blocks' = blocks /\ Height' = Height
  BY DEF CacheRestart, Height
<1>3. BlocksOK' /\ PendingOK'
  BY <1>1, <1>2 DEF BlocksOK, PendingOK, NothingPending, CacheHeader, Genesis, Header
<1>4. Height \in Nat /\ Top' = Height
  BY <1>1, <1>2, KnownIs DEF Top, NothingPending
<1>5. \A h \in 0..Height : Known'[h] = Stored(h) /\ Known'[h] \in CacheHeader
  <2>1. \A h \in 0..Height : h # Height + 1 /\ Stored(h)' = Stored(h)
    BY <1>2, <1>4 DEF Stored, Genesis, Header
  <2>2. \A h \in 0..Height : Stored(h) \in CacheHeader
    BY <1>1, StoredIs
  <2> QED BY <1>2, <1>4, <2>1, <2>2 DEF Known
<1>6. MinCachedItems \in Nat /\ MaxCachedItems \in Nat
      /\ 1 < MinCachedItems /\ MinCachedItems < MaxCachedItems
  BY DEF BlockCacheAssumption
<1>7. CASE Height = 0
  <2>1. items' = <<>> /\ Len(items') = 0 /\ items' \in Seq(CacheHeader)
    BY <1>2, <1>7, EmptySeq DEF CachedAtStart
  <2>2. Mirrors(items, Known, Top)'
    BY <1>4, <2>1 DEF Mirrors, CacheHeader, Genesis, Header
  <2>3. NotTooMany' /\ Enough'
    BY <1>2, <1>4, <1>6, <1>7, <2>1 DEF NotTooMany, Enough, NothingPending
  <2> QED BY <1>2, <1>3, <2>2, <2>3 DEF CacheInv
<1>8. CASE Height # 0
  <2> DEFINE from == IF Height > MaxCachedItems THEN Height - MaxCachedItems ELSE 0
             all == StoredBetween(from, Height)
  <2>1. items' = ShiftIfTooMany(all)
    BY <1>2, <1>8 DEF CachedAtStart
  <2>2. from \in 0..Height /\ from <= Height /\ (from = 0 \/ from = Height - MaxCachedItems)
        /\ (from = 0 => Height <= MaxCachedItems)
    BY <1>4, <1>6, <1>8
  <2> HIDE DEF from
  <2>3. all = [i \in 1..(Height - from + 1) |-> Known'[from + i - 1]]
    <3>1. \A i \in 1..(Height - from + 1) : from + i - 1 \in 0..Height
      BY <1>4, <2>2
    <3> QED BY <1>5, <3>1 DEF StoredBetween
  <2> HIDE DEF all
  <2>4. Mirrors(all, Known', Height) /\ Len(all) = Height - from + 1
    BY <1>4, <1>5, <2>2, <2>3, MirrorsRead
  <2>5. /\ Mirrors(items', Known', Height)
        /\ Len(items') = IF Len(all) > MaxCachedItems THEN Len(all) - 1 ELSE Len(all)
    BY <1>4, <2>1, <2>4, Shifted
  <2>6. Mirrors(items, Known, Top)'
    BY <1>4, <2>5 DEF Mirrors, CacheHeader, Genesis, Header
  <2>7. Len(items') = IF Height - from + 1 > MaxCachedItems THEN Height - from ELSE Height - from + 1
    BY <1>4, <2>2, <2>4, <2>5
  <2>8. /\ Len(items') <= 2 * MaxCachedItems - MinCachedItems + 1
        /\ Len(items') >= MinCachedItems \/ Height <= Len(items') + 1
    BY <1>4, <1>6, <2>2, <2>7
  <2>9. NotTooMany' /\ Enough'
    BY <1>2, <1>4, <2>8 DEF NotTooMany, Enough, NothingPending
  <2> QED BY <1>2, <1>3, <2>6, <2>9 DEF CacheInv
<1> QED BY <1>7, <1>8

THEOREM CacheInvHolds ==
  ASSUME BlockCacheAssumption
  PROVE  CacheSpec => []CacheInv
<1>1. CacheInit => CacheInv
  BY CacheStarts
<1>2. CacheInv /\ [CacheNext]_cacheVars => CacheInv'
  <2> SUFFICES ASSUME CacheInv, [CacheNext]_cacheVars PROVE CacheInv'
    OBVIOUS
  <2>1. ASSUME NEW version \in Version, SaveBlock(version) PROVE CacheInv'
    BY <2>1, SaveKeeps
  <2>2. CASE AddBlockHeader
    BY <2>2, AddKeeps
  <2>3. CASE RemoveBlock
    BY <2>3, RemoveKeeps
  <2>4. CASE RemoveBlockHeader
    BY <2>4, RemoveHeaderKeeps
  <2>5. CASE Refill
    BY <2>5, RefillKeeps
  <2>6. CASE CacheRestart
    BY <2>6, CacheRestartKeeps
  <2>7. CASE UNCHANGED cacheVars
    <3>1. blocks' = blocks /\ items' = items /\ needsRefill' = needsRefill /\ pending' = pending
      BY <2>7 DEF cacheVars
    <3> QED
      BY <3>1 DEF CacheInv, BlocksOK, PendingOK, Mirrors, NotTooMany, Enough, Known, Top, Height,
                  Stored, CacheHeader, Genesis, Header, NothingPending
  <2> QED BY <2>1, <2>2, <2>3, <2>4, <2>5, <2>6, <2>7 DEF CacheNext
<1> QED BY <1>1, <1>2, PTL DEF CacheSpec

\* Reversing a sequence keeps its elements.
LEMMA ReverseIs ==
  ASSUME NEW S, NEW s \in Seq(S)
  PROVE  /\ Reverse(s) \in Seq(S) /\ Len(Reverse(s)) = Len(s) /\ Len(s) \in Nat
         /\ \A i \in 1..Len(s) : Reverse(s)[i] = s[Len(s) - i + 1]
<1>1. Len(s) \in Nat
  BY LenProperties
<1>2. \A i \in 1..Len(s) : Len(s) - i + 1 \in 1..Len(s)
  BY <1>1
<1>3. \A i \in 1..Len(s) : s[Len(s) - i + 1] \in S
  BY <1>2, ElementOfSeq
<1> DEFINE r == [i \in 1..Len(s) |-> s[Len(s) - i + 1]]
<1>4. r \in [1..Len(s) -> S]
  BY <1>3
<1>5. \A i \in 1..Len(s) : r[i] = s[Len(s) - i + 1]
  OBVIOUS
<1>6. Reverse(s) = r
  BY DEF Reverse
<1> HIDE DEF r
<1>7. r \in Seq(S) /\ Len(r) = Len(s)
  BY <1>1, <1>4, FunctionIsSeq
<1> QED BY <1>1, <1>5, <1>6, <1>7

\* What mirrors the chain is a suffix of it.
LEMMA MirrorIsSuffix ==
  ASSUME NEW s, NEW c, NEW n \in Nat, Mirrors(s, c, n),
         NEW w \in Seq(CacheHeader), Len(w) = n + 1, \A i \in 1..(n + 1) : w[i] = c[i - 1]
  PROVE  IsSuffix(s, w)
<1>1. s \in Seq(CacheHeader) /\ Len(s) \in Nat /\ Len(s) <= n + 1
      /\ \A i \in 1..Len(s) : s[i] = c[n - Len(s) + i]
  BY LenProperties DEF Mirrors
<1>2. PICK r : r = Reverse(s)
  OBVIOUS
<1>3. PICK q : q = Reverse(w)
  OBVIOUS
<1>4. /\ r \in Seq(CacheHeader) /\ Len(r) = Len(s)
      /\ \A i \in 1..Len(s) : r[i] = s[Len(s) - i + 1]
  BY <1>1, <1>2, ReverseIs
<1>5. /\ q \in Seq(CacheHeader) /\ Len(q) = n + 1
      /\ \A i \in 1..(n + 1) : q[i] = w[n + 1 - i + 1]
  <2>1. /\ q \in Seq(CacheHeader) /\ Len(q) = Len(w)
        /\ \A i \in 1..Len(w) : q[i] = w[Len(w) - i + 1]
    BY <1>3, ReverseIs
  <2> QED BY <2>1
<1>6. ASSUME NEW i \in 1..Len(s) PROVE r[i] = q[i]
  <2>1. /\ Len(s) - i + 1 \in 1..Len(s) /\ n + 1 - i + 1 \in 1..(n + 1) /\ i \in 1..(n + 1)
        /\ n - Len(s) + (Len(s) - i + 1) = n + 1 - i + 1 - 1
    BY <1>1
  <2>2. r[i] = c[n - Len(s) + (Len(s) - i + 1)]
    BY <1>1, <1>4, <2>1
  <2>3. q[i] = c[n + 1 - i + 1 - 1]
    BY <1>5, <2>1
  <2> QED BY <2>1, <2>2, <2>3
<1>7. SubSeq(r, 1, Len(s)) = SubSeq(q, 1, Len(s))
  <2>1. SubSeq(r, 1, Len(s)) = [i \in 1..(1 + Len(s) - 1) |-> r[i + 1 - 1]]
    BY <1>1
  <2>2. SubSeq(q, 1, Len(s)) = [i \in 1..(1 + Len(s) - 1) |-> q[i + 1 - 1]]
    BY <1>1
  <2> QED BY <1>1, <1>6, <2>1, <2>2
<1> QED BY <1>1, <1>2, <1>3, <1>4, <1>5, <1>7 DEF IsSuffix, IsPrefix

\* What is cached, as the database would have answered.
LEMMA CacheInvMirrors ==
  ASSUME BlockCacheAssumption, CacheInv
  PROVE  CacheMirrorsChain
<1>1. BlocksOK /\ PendingOK /\ Mirrors(items, Known, Top)
  BY DEF CacheInv
<1>2. /\ Height \in Nat /\ Top \in Nat
      /\ \A h \in 0..Top : Known[h] = IF h = Height + 1 THEN pending.header ELSE Stored(h)
  BY <1>1, KnownIs
<1>3. blocks \in Seq(CacheHeader) /\ Len(blocks) = Height /\ pending.header \in CacheHeader
  BY <1>1 DEF BlocksOK, PendingOK, Height
<1> DEFINE mirrored == CASE pending.step = "add"    -> Front(blocks)
                         [] pending.step = "remove" -> Append(blocks, pending.header)
                         [] OTHER                   -> blocks
<1>4. mirrored \in Seq(CacheHeader) /\ Len(mirrored) = Top
      /\ \A h \in 1..Top : mirrored[h] = Known[h]
  <2>1. CASE pending.step = "add"
    <3>1. Height \in Nat \ {0} /\ Top = Height - 1
      BY <1>1, <1>2, <2>1 DEF PendingOK, Top
    <3>2. mirrored = Front(blocks)
      BY <2>1
    <3>3. PICK p : p = Front(blocks)
      OBVIOUS
    <3>4. /\ p \in Seq(CacheHeader) /\ Len(p) = Height - 1
          /\ \A h \in 1..(Height - 1) : p[h] = blocks[h]
      BY <1>3, <3>1, <3>3, FrontIs
    <3>5. \A h \in 1..Top : Known[h] = blocks[h]
      BY <1>2, <3>1 DEF Stored
    <3> QED BY <3>1, <3>2, <3>3, <3>4, <3>5
  <2>2. CASE pending.step = "remove"
    <3>1. Top = Height + 1
      BY <2>2 DEF Top
    <3>2. mirrored = Append(blocks, pending.header)
      BY <2>2
    <3>3. PICK p : p = Append(blocks, pending.header)
      OBVIOUS
    <3>4. /\ p \in Seq(CacheHeader) /\ Len(p) = Height + 1
          /\ \A h \in 1..Height : p[h] = blocks[h]
          /\ p[Height + 1] = pending.header
      BY <1>3, <3>3, AppendProperties
    <3>5. \A h \in 1..Top : Known[h] = IF h = Height + 1 THEN pending.header ELSE blocks[h]
      BY <1>2, <3>1 DEF Stored
    <3>6. \A h \in 1..Top : h \in 1..Height \/ h = Height + 1
      BY <1>2, <3>1
    <3> QED BY <3>1, <3>2, <3>3, <3>4, <3>5, <3>6
  <2>3. CASE pending.step # "add" /\ pending.step # "remove"
    <3>1. Top = Height /\ mirrored = blocks
      BY <2>3 DEF Top
    <3>2. \A h \in 1..Top : Known[h] = blocks[h]
      BY <1>2, <3>1 DEF Stored
    <3> QED BY <1>3, <3>1, <3>2
  <2> QED BY <2>1, <2>2, <2>3
<1>5. Known[0] = Genesis
  BY <1>2 DEF Stored
<1>6. CacheMirrorsChain <=> IsSuffix(items, <<Genesis>> \o mirrored)
  BY DEF CacheMirrorsChain
<1> HIDE DEF mirrored
<1>7. PICK g : g = <<Genesis>>
  OBVIOUS
<1>8. g \in Seq(CacheHeader) /\ Len(g) = 1 /\ g[1] = Genesis
  BY <1>7 DEF CacheHeader
<1>9. PICK w : w = g \o mirrored
  OBVIOUS
<1>10. /\ w \in Seq(CacheHeader) /\ Len(w) = 1 + Top
       /\ \A i \in 1..(1 + Top) : w[i] = IF i <= 1 THEN g[i] ELSE mirrored[i - 1]
  <2>1. PICK m : m = mirrored
    OBVIOUS
  <2>2. m \in Seq(CacheHeader) /\ g \in Seq(CacheHeader)
    BY <1>4, <1>8, <2>1
  <2>3. w = g \o m
    BY <1>9, <2>1
  <2>4. /\ w \in Seq(CacheHeader) /\ Len(w) = Len(g) + Len(m)
        /\ \A i \in 1..(Len(g) + Len(m)) : w[i] = IF i <= Len(g) THEN g[i] ELSE m[i - Len(g)]
    BY <2>2, <2>3, ConcatProperties
  <2>5. Len(g) = 1 /\ Len(m) = Top
    BY <1>4, <1>8, <2>1
  <2>6. m = mirrored
    BY <2>1
  <2> QED BY <2>4, <2>5, <2>6, Zenon
<1>11. ASSUME NEW i \in 1..(Top + 1) PROVE w[i] = Known[i - 1]
  <2>1. CASE i = 1
    BY <1>2, <1>5, <1>8, <1>10, <2>1
  <2>2. CASE i # 1
    <3>1. ~(i <= 1) /\ i - 1 \in 1..Top /\ i \in 1..(1 + Top)
      BY <1>2, <2>2
    <3> QED BY <1>4, <1>10, <3>1
  <2> QED BY <2>1, <2>2
<1>12. IsSuffix(items, w)
  <2>1. Len(w) = Top + 1
    BY <1>2, <1>10
  <2> QED BY <1>1, <1>2, <1>10, <1>11, <2>1, MirrorIsSuffix
<1> QED BY <1>6, <1>7, <1>9, <1>12

\* What is cached first and last.
LEMMA CacheInvEnds ==
  ASSUME BlockCacheAssumption, CacheInv, items # <<>>
  PROVE  /\ Last(items) = Known[Top] /\ Top \in Nat
         /\ First = Known[Top - Len(items) + 1] /\ First.height = Top - Len(items) + 1
<1>1. BlocksOK /\ PendingOK
  BY DEF CacheInv
<1>2. Top \in Nat /\ \A h \in 0..Top : Known[h].height = h
  BY <1>1, KnownIs
<1>3. /\ items \in Seq(CacheHeader) /\ Len(items) \in Nat /\ Len(items) <= Top + 1
      /\ \A i \in 1..Len(items) : items[i] = Known[Top - Len(items) + i]
  BY LenProperties DEF CacheInv, Mirrors
<1>4. Len(items) # 0
  BY <1>3, EmptySeq
<1>5. 1 \in 1..Len(items) /\ Len(items) \in 1..Len(items) /\ Top - Len(items) + Len(items) = Top
      /\ Top - Len(items) + 1 \in 0..Top
  BY <1>2, <1>3, <1>4
<1>6. First = items[1] /\ Last(items) = items[Len(items)]
  BY <1>3, HeadTailProperties DEF First, Last
<1> QED BY <1>2, <1>3, <1>5, <1>6

\* Whatever the sizes of the cache: it holds the newest headers of the chain, takes
\* every block and gives up every one, keeps enough of them and stays near its size
\* (elements/lisk-chain/src/data_access/cache).
THEOREM CacheStaysFollowing ==
  ASSUME BlockCacheAssumption
  PROVE  CacheSpec => []CacheFollows
<1>1. CacheInv => CacheFollows
  <2> SUFFICES ASSUME CacheInv PROVE CacheFollows
    OBVIOUS
  <2>1. BlocksOK /\ PendingOK /\ NotTooMany /\ Enough
    BY DEF CacheInv
  <2>2. /\ Height \in Nat /\ Top \in Nat
        /\ \A h \in 0..Top : /\ Known[h] = IF h = Height + 1 THEN pending.header ELSE Stored(h)
                           /\ Known[h].height = h
    BY <2>1, KnownIs
  <2>3. CacheTypeOK
    BY DEF CacheInv, BlocksOK, PendingOK, Mirrors, CacheTypeOK, CacheHeader
  <2>4. CacheMirrorsChain
    BY CacheInvMirrors
  <2>5. CacheNeverRefuses
    <3>1. ASSUME pending.step = "add", items # <<>>
          PROVE  pending.header.height = Last(items).height + 1
      <4>1. Top = Height - 1 /\ Height > 0 /\ pending.header = blocks[Height]
        BY <2>1, <3>1 DEF Top, PendingOK
      <4>2. pending.header.height = Height
        BY <2>1, <2>2, <4>1 DEF BlocksOK
      <4>3. Last(items).height = Height - 1
        <5>1. Last(items) = Known[Top] /\ Top \in 0..Top
          BY <2>2, <3>1, CacheInvEnds
        <5> QED BY <2>2, <4>1, <5>1
      <4> QED BY <2>2, <4>2, <4>3
    <3>2. ASSUME pending.step = "remove", items # <<>>
          PROVE  Last(items) = pending.header
      <4>1. Top = Height + 1
        BY <3>2 DEF Top
      <4> QED BY <2>2, <3>2, <4>1, CacheInvEnds
    <3> QED BY <3>1, <3>2 DEF CacheNeverRefuses, CanAdd, CanRemove
  <2>6. CacheNotStarved
    <3> SUFFICES ASSUME pending = NothingPending, items # <<>>
                 PROVE  Len(items) >= MinCachedItems \/ First.height <= 2
      BY DEF CacheNotStarved
    <3>1. Len(items) >= MinCachedItems \/ Top <= Len(items) + 1
      BY <2>1 DEF Enough, NothingPending
    <3>2. Len(items) \in Nat
      BY LenProperties DEF CacheInv, Mirrors
    <3>3. First.height = Top - Len(items) + 1
      BY CacheInvEnds
    <3> QED BY <2>2, <3>1, <3>2, <3>3
  <2>7. OvershootBounded
    BY <2>1 DEF NotTooMany, OvershootBounded
  <2> QED BY <2>3, <2>4, <2>5, <2>6, <2>7 DEF CacheFollows
<1> QED BY <1>1, CacheInvHolds, PTL
=============================================================================
