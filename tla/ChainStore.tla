------------------------------ MODULE ChainStore ----------------------------
(***************************************************************************)
(* What a node promises about the chain it keeps on disk, whatever blocks  *)
(* the network sends and wherever it stops: a chain of linked blocks that  *)
(* grows and shrinks at the tip, a finalized height that only rises, and a *)
(* table of temporary blocks that holds what was taken off the chain.      *)
(* Processor implements it step by step; Synchronizer is built on it.      *)
(*                                                                         *)
(* Heights are counted from the genesis block, which has height 0 and is   *)
(* not in chain: chain[h] is the block at height h.                        *)
(***************************************************************************)
EXTENDS Integers, Sequences

CONSTANTS
  Block,            \* blocks: records with at least id, height and prev
  GenesisBlock      \* the block of height 0

VARIABLES
  chain,            \* blocks by height, above the genesis block
  finalized,        \* persisted finalized height
  temp              \* table of temporary blocks, at most one for a height

vars == <<chain, finalized, temp>>

Tip == IF chain = <<>> THEN GenesisBlock ELSE chain[Len(chain)]

\* The table is keyed by height: a block replaces another of its height.
PutTemp(table, block) ==
  {b \in table : b.height # block.height} \cup {block}

RemoveTemp(table, block) == {b \in table : b.height # block.height}

Init ==
  /\ chain = <<>>
  /\ finalized = 0
  /\ temp = {}

-----------------------------------------------------------------------------
\* A block is added on the tip; its votes may finalize blocks below it. The
\* entry of its height leaves the table when the block came from there.
Append1(block, newFinalized, fromTemp) ==
  /\ block.height = Tip.height + 1
  /\ block.prev = Tip.id
  /\ chain' = Append(chain, block)
  /\ finalized <= newFinalized /\ newFinalized <= Len(chain)
  /\ finalized' = newFinalized
  /\ temp' = IF fromTemp THEN RemoveTemp(temp, block) ELSE temp

DeletesFinalizedTip == chain # <<>>

CanRemoveTip == Len(chain) > finalized

\* The tip is taken off, never at or below the finalized height, and kept in
\* the table when it may be needed again.
RemoveTip(backup) ==
  /\ CanRemoveTip
  /\ chain' = SubSeq(chain, 1, Len(chain) - 1)
  /\ temp' = IF backup THEN PutTemp(temp, Tip) ELSE temp
  /\ UNCHANGED finalized

ClearTemp ==
  /\ temp' = {}
  /\ UNCHANGED <<chain, finalized>>

Next ==
  \/ \E block \in Block, newFinalized \in 0..Len(chain), fromTemp \in BOOLEAN :
       Append1(block, newFinalized, fromTemp)
  \/ \E backup \in BOOLEAN : RemoveTip(backup)
  \/ ClearTemp

Spec == Init /\ [][Next]_vars

-----------------------------------------------------------------------------
TypeOK ==
  /\ chain \in Seq(Block)
  /\ finalized \in 0..Len(chain)
  /\ temp \subseteq Block

\* Every block links to the one below it, and its height is its position.
Linked ==
  \A h \in 1..Len(chain) :
    /\ chain[h].height = h
    /\ chain[h].prev = (IF h = 1 THEN GenesisBlock ELSE chain[h - 1]).id

\* What is finalized on disk is never changed: no step takes a finalized
\* block away, replaces it, or lowers the finalized height.
FinalizedForever ==
  [][ /\ finalized <= finalized'
      /\ finalized <= Len(chain')
      /\ \A h \in 1..finalized : chain'[h] = chain[h] ]_vars
=============================================================================
