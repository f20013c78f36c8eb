----------------------------- MODULE ForkChoice -----------------------------
(***************************************************************************)
(* The fork choice rule of elements/lisk-bft: what a node does with a      *)
(* block it is handed, given the tip of its own chain and the clock.       *)
(* Pure operators; Processor and Synchronizer take their decisions here.   *)
(*                                                                         *)
(* A header is a record with the fields the rule reads: id, height, prev   *)
(* (previousBlockID), mhp (asset.maxHeightPrevoted), gen (the generator's  *)
(* public key) and timestamp (seconds since the Unix epoch).               *)
(***************************************************************************)
EXTENDS Integers

CONSTANTS
  GenesisTime,      \* timestamp of the genesis block, in seconds
  BlockInterval     \* length of a forging slot, in seconds

ASSUME TimeAssumption ==
  /\ GenesisTime \in Nat
  /\ BlockInterval \in Nat \ {0}

-----------------------------------------------------------------------------
(* Slots: chain.slots. *)

\* JavaScript's Math.floor and TLA+'s \div both round towards minus infinity.
SlotNumber(time) == (time - GenesisTime) \div BlockInterval

TimeSinceGenesis(now) == now - GenesisTime

IsWithinTimeslot(slot, time) == SlotNumber(time) = slot

\* validateBlockSlot: not from the future, and after the block it follows.
IsBlockSlotValid(block, last, now) ==
  /\ SlotNumber(block.timestamp) <= SlotNumber(now)
  /\ SlotNumber(block.timestamp) > SlotNumber(last.timestamp)

-----------------------------------------------------------------------------
(* The conditions of the rule. A receivedAt of 0 stands for a missing      *)
(* property: the code tests !receivedAt, which both values satisfy.        *)

IsBlockReceivedWithinForgingSlot(block, receivedAt) ==
  IsWithinTimeslot(SlotNumber(block.timestamp), receivedAt)

\* Mutants of the next operators are named after the bug they stand for.
TipAlwaysInTime(last, lastReceivedAt) == TRUE

IsLastAppliedBlockReceivedWithinForgingSlot(last, lastReceivedAt) ==
  \/ lastReceivedAt = 0
  \/ IsBlockReceivedWithinForgingSlot(last, lastReceivedAt)

IsValidBlock(last, block) ==
  /\ block.height = last.height + 1
  /\ block.prev = last.id

IsIdenticalBlock(last, block) == last.id = block.id

IsDuplicateBlock(last, block) ==
  /\ last.height = block.height
  /\ last.mhp = block.mhp
  /\ last.prev = block.prev

IsDoubleForging(last, block) ==
  /\ IsDuplicateBlock(last, block)
  /\ last.gen = block.gen

IsTieBreak(last, lastReceivedAt, block, receivedAt) ==
  /\ IsDuplicateBlock(last, block)
  /\ SlotNumber(last.timestamp) < SlotNumber(block.timestamp)
  /\ ~IsLastAppliedBlockReceivedWithinForgingSlot(last, lastReceivedAt)
  /\ IsBlockReceivedWithinForgingSlot(block, receivedAt)

EqualRankDiffers(last, block) ==
  \/ last.mhp < block.mhp
  \/ last.height <= block.height /\ last.mhp = block.mhp

HigherInEither(last, block) ==
  last.mhp < block.mhp \/ last.height < block.height

IsDifferentChain(last, block) ==
  \/ last.mhp < block.mhp
  \/ last.height < block.height /\ last.mhp = block.mhp

-----------------------------------------------------------------------------
\* BFT.forkChoice: the first condition that holds decides. The received
\* block is stamped with the time since genesis, the tip with whatever its
\* header object carries.
ForkStatus(last, lastReceivedAt, block, now) ==
  IF IsValidBlock(last, block) THEN "VALID_BLOCK"
  ELSE IF IsIdenticalBlock(last, block) THEN "IDENTICAL_BLOCK"
  ELSE IF IsDoubleForging(last, block) THEN "DOUBLE_FORGING"
  ELSE IF IsTieBreak(last, lastReceivedAt, block, TimeSinceGenesis(now))
       THEN "TIE_BREAK"
  ELSE IF IsDifferentChain(last, block) THEN "DIFFERENT_CHAIN"
  ELSE "DISCARD"
=============================================================================
