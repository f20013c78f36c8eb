-------------------------- MODULE SynchronizerProofs ------------------------
(***************************************************************************)
(* Proofs about Synchronizer, for any blocks, any number of waiting blocks *)
(* and any number of restarts, and about MisbehaviorPlugin, which watches  *)
(* the same blocks come, for any window and any number of handlers, and    *)
(* about ForgerPlugin, which counts them.                                  *)
(*                                                                         *)
(* StoreOK is what every job of the processor keeps. While a run may still *)
(* go back (oldTip # None), OldTipKept says where the blocks of the chain  *)
(* it left are: in the table, or on the chain below all of the table.      *)
(* Every step of a run rests on it: reverting moves the tip from one place *)
(* to the other, undoing takes away only what is in neither, restoring     *)
(* moves the lowest block of the table back.                               *)
(*                                                                         *)
(* WatchOK says where the header of a handler that has written it is: in   *)
(* the database, among the overwritten ones, or below the window.          *)
(*                                                                         *)
(* PluginInv says that as far as the chain still reaches what was counted, *)
(* the records are the totals of the lower part of the chain, and that a   *)
(* handler has changed those of the delegates it has no longer to do.      *)
(***************************************************************************)
EXTENDS Synchronizer, MisbehaviorPlugin, ForgerPlugin, FiniteSetTheorems, SequenceTheorems,
        WellFoundedInduction, TLAPS

OnChain(b) == b.height \in DOMAIN chain /\ chain[b.height] = b

RanksRise ==
  \A i, j \in DOMAIN chain : i <= j => chain[i].mhp <= chain[j].mhp

OnePerHeight(S) == \A b, c \in S : b.height = c.height => b = c

StoreOK ==
  /\ Store!TypeOK
  /\ Store!Linked
  /\ RanksRise
  /\ IsFiniteSet(temp) /\ OnePerHeight(temp)

RunOK ==
  /\ pc = "choose" => target \in Block
  /\ pc \in {"revert", "fetch", "apply"} => peerTip \in Block
  /\ pc = "startup" => mechanism = "startup" /\ temp # {}
  /\ mechanism = "startup" => pc \in {"startup", "undo", "restore"}
  /\ pc \in {"idle", "choose"} => oldTip = None

\* The blocks of s are those of the table in ascending order.
IsTableInOrder(s) ==
  /\ temp = {s[i] : i \in DOMAIN s}
  /\ \A i, j \in DOMAIN s : i < j => s[i].height < s[j].height

OldTipKept ==
  /\ \A b \in Branch[oldTip] :
       b \in temp \/ (OnChain(b) /\ \A c \in temp : b.height < c.height)
  /\ temp \subseteq Branch[oldTip]
  /\ pc = "revert" =>
       /\ \A h \in DOMAIN chain : chain[h] \in Branch[oldTip]
       /\ \A c \in temp : c.height > Len(chain)
  /\ pc \in {"fetch", "apply", "failed", "undo"} =>
       \A b \in Branch[oldTip] : b \in temp \/ b.height <= common
  /\ pc = "restore" => IsTableInOrder(toApply)
  /\ pc = "clear" /\ mechanism = "block" /\ ~stopping /\ Preferred(target, oldTip)
       => ~Preferred(oldTip, Tip)

IInv == TypeOK /\ StoreOK /\ RunOK /\ (oldTip # None => OldTipKept)

-----------------------------------------------------------------------------
(* Numbers. *)

\* Non-empty sets of naturals have a least element.
Below == {ss \in Nat \X Nat : ss[1] < ss[2]}

LEMMA LeastNatural ==
  ASSUME NEW S \in SUBSET Nat, S # {}
  PROVE  \E m \in S : \A k \in S : m <= k
<1>1. IsWellFoundedOn(Below, Nat)
  BY NatLessThanWellFounded DEF OpToRel, Below
<1>2. PICK m \in S : \A k \in S : ~ (<<k, m>> \in Below)
  BY <1>1, WFMin, Zenon
<1>3. \A x, y \in Nat : x < y => <<x, y>> \in Below
  BY DEF Below
<1>4. ASSUME NEW k \in S PROVE m <= k
  <2>1. k \in Nat /\ m \in Nat
    OBVIOUS
  <2>2. ~(k < m)
    BY <1>2, <1>3, <2>1, Zenon
  <2> QED BY <2>1, <2>2
<1> QED BY <1>4

-----------------------------------------------------------------------------
(* Branches. *)

LEMMA BoundsTyped == MaxQueued \in Nat \ {0} /\ MaxCrashes \in Nat
  BY SynchronizerAssumption

LEMMA BlockTyped ==
  ASSUME NEW b \in Block
  PROVE  /\ b.height \in Nat \ {0} /\ b.mhp \in Nat /\ b.precommitted \in Nat
         /\ b.applies \in BOOLEAN /\ b.id # GenesisBlock.id /\ b # None
  BY SynchronizerAssumption

LEMMA ParentHeight ==
  ASSUME NEW b \in Block, NEW p \in Block, IsParent(p, b)
  PROVE  p.height = b.height - 1
<1>1. p.id # GenesisBlock.id
  BY SynchronizerAssumption
<1>2. PICK q \in Block : q.id = b.prev /\ q.height = b.height - 1
  BY <1>1, SynchronizerAssumption DEF IsParent
<1>3. p = q
  BY <1>2, SynchronizerAssumption DEF IsParent
<1> QED BY <1>2, <1>3

LEMMA BranchClosed ==
  ASSUME NEW b \in Block
  PROVE  /\ Branch[b] \subseteq Block
         /\ b \in Branch[b]
         /\ \A x \in Branch[b], p \in Block : IsParent(p, x) => p \in Branch[b]
  BY DEF Branch

LEMMA BranchLeast ==
  ASSUME NEW b \in Block, NEW S \in SUBSET Block, b \in S,
         \A x \in S, p \in Block : IsParent(p, x) => p \in S
  PROVE  Branch[b] \subseteq S
  BY DEF Branch

\* The ancestors of a block are below it.
LEMMA BranchBelow ==
  ASSUME NEW b \in Block, NEW c \in Branch[b]
  PROVE  c = b \/ c.height < b.height
<1> DEFINE S == {d \in Block : d = b \/ d.height < b.height}
<1>1. ASSUME NEW x \in S, NEW p \in Block, IsParent(p, x)
      PROVE  p \in S
  <2>1. p.height = x.height - 1
    BY <1>1, ParentHeight
  <2> QED BY <2>1, BlockTyped
<1>2. Branch[b] \subseteq S
  BY <1>1, BranchLeast
<1> QED BY <1>2

\* A branch has a block at every height up to its tip.
LEMMA BranchReaches ==
  ASSUME NEW b \in Block, NEW h \in 1..b.height
  PROVE  \E c \in Branch[b] : c.height = h
<1> DEFINE gaps == {k \in 0..(b.height - 1) : \A c \in Branch[b] : c.height # b.height - k}
<1>0. b.height \in Nat
  BY BlockTyped
<1>1. SUFFICES gaps = {}
  <2>1. b.height - h \in 0..(b.height - 1) /\ b.height - (b.height - h) = h
    BY <1>0
  <2> QED BY <1>1, <2>1
<1>2. SUFFICES ASSUME gaps # {} PROVE FALSE
  OBVIOUS
<1>3. gaps \in SUBSET Nat
  BY <1>0
<1>4. PICK m \in gaps : \A k \in gaps : m <= k
  BY <1>2, <1>3, LeastNatural
<1>5. m # 0
  BY <1>0, <1>4, BranchClosed
<1>6. m - 1 \in 0..(b.height - 1) /\ ~(m <= m - 1)
  BY <1>0, <1>4, <1>5
<1>7. PICK c \in Branch[b] : c.height = b.height - (m - 1)
  BY <1>4, <1>6
<1>8. c \in Block /\ c.height # 1
  BY <1>0, <1>4, <1>7, BranchClosed
<1>9. PICK p \in Block : p.id = c.prev /\ p.height = c.height - 1
  BY <1>8, SynchronizerAssumption
<1>10. p \in Branch[b]
  BY <1>9, BranchClosed DEF IsParent
<1>11. p.height = b.height - m
  BY <1>0, <1>4, <1>7, <1>9
<1> QED BY <1>4, <1>10, <1>11

LEMMA SegmentTyped ==
  ASSUME NEW b \in Block, NEW from \in Nat \ {0}, NEW upto \in from..b.height
  PROVE  Segment(b, from, upto) \in Seq(Block)
<1>0. b.height \in Nat
  BY BlockTyped
<1>1. ASSUME NEW h \in 1..b.height PROVE BlockAt(b, h) \in Block
  BY <1>1, BranchReaches, BranchClosed DEF BlockAt
<1>2. upto - from + 1 \in Nat
  BY <1>0
<1>3. \A i \in 1..(upto - from + 1) : from + i - 1 \in 1..b.height
  BY <1>0
<1>4. \A i \in 1..(upto - from + 1) : BlockAt(b, from + i - 1) \in Block
  BY <1>1, <1>3
<1> QED BY <1>2, <1>4 DEF Segment

-----------------------------------------------------------------------------
(* The chain and its table. *)

LEMMA StoreTyped ==
  ASSUME StoreOK
  PROVE  /\ chain \in Seq(Block) /\ Len(chain) \in Nat /\ DOMAIN chain = 1..Len(chain)
         /\ finalized \in 0..Len(chain)
         /\ temp \subseteq Block
         /\ \A h \in 1..Len(chain) : chain[h] \in Block /\ chain[h].height = h
  BY DEF StoreOK, Store!TypeOK, Store!Linked

LEMMA TipTyped ==
  ASSUME StoreOK
  PROVE  /\ Tip.height = Len(chain)
         /\ chain = <<>> => Tip = GenesisBlock
         /\ chain # <<>> => Tip = chain[Len(chain)] /\ Tip \in Block
         /\ Tip \in Block => chain # <<>>
         /\ Tip \in Block \cup {GenesisBlock}
  BY StoreTyped, SynchronizerAssumption DEF Tip, Store!Tip

LEMMA ParentOnChain ==
  ASSUME StoreOK, NEW h \in 1..Len(chain), NEW p \in Block, IsParent(p, chain[h])
  PROVE  h # 1 /\ h - 1 \in 1..Len(chain) /\ p = chain[h - 1]
<1>1. chain[h].prev = (IF h = 1 THEN GenesisBlock ELSE chain[h - 1]).id
  BY DEF StoreOK, Store!Linked
<1>2. h # 1
  BY <1>1, SynchronizerAssumption DEF IsParent
<1>3. h - 1 \in 1..Len(chain)
  BY <1>2, StoreTyped
<1> QED BY <1>1, <1>2, <1>3, StoreTyped, SynchronizerAssumption DEF IsParent

\* The chain is the branch of its tip.
LEMMA ChainIsBranch ==
  ASSUME StoreOK, Tip \in Block
  PROVE  Branch[Tip] = {chain[h] : h \in 1..Len(chain)}
<1>0. chain # <<>> /\ Tip = chain[Len(chain)] /\ Len(chain) \in Nat /\ Len(chain) # 0
  BY TipTyped, StoreTyped
<1>1. Branch[Tip] \subseteq {chain[h] : h \in 1..Len(chain)}
  <2> DEFINE S == {chain[h] : h \in 1..Len(chain)}
  <2>1. S \in SUBSET Block /\ Tip \in S
    BY <1>0, StoreTyped
  <2>2. ASSUME NEW x \in S, NEW p \in Block, IsParent(p, x) PROVE p \in S
    BY <2>2, ParentOnChain
  <2> QED BY <2>1, <2>2, BranchLeast
<1>2. ASSUME NEW h \in 1..Len(chain) PROVE chain[h] \in Branch[Tip]
  <2> DEFINE n == Len(chain)
             missing == {k \in 0..(n - 1) : chain[n - k] \notin Branch[Tip]}
  <2>1. SUFFICES missing = {}
    <3>1. n - h \in 0..(n - 1) /\ n - (n - h) = h
      BY <1>0
    <3> QED BY <2>1, <3>1
  <2>2. SUFFICES ASSUME missing # {} PROVE FALSE
    OBVIOUS
  <2>3. missing \in SUBSET Nat
    BY <1>0
  <2>4. PICK m \in missing : \A k \in missing : m <= k
    BY <2>2, <2>3, LeastNatural
  <2>5. m # 0
    BY <1>0, <2>4, BranchClosed
  <2>6. m - 1 \in 0..(n - 1) /\ ~(m <= m - 1)
    BY <1>0, <2>4, <2>5
  <2>7. chain[n - (m - 1)] \in Branch[Tip]
    BY <2>4, <2>6
  <2>8. /\ n - (m - 1) \in 1..Len(chain) /\ n - (m - 1) # 1
        /\ n - (m - 1) - 1 = n - m /\ n - m \in 1..Len(chain)
    BY <1>0, <2>4, <2>5
  <2>9. chain[n - (m - 1)].prev = chain[n - m].id
    BY <2>8 DEF StoreOK, Store!Linked
  <2>10. chain[n - m] \in Block
    BY <2>8, StoreTyped
  <2>11. chain[n - m] \in Branch[Tip]
    BY <2>7, <2>9, <2>10, <1>0, BranchClosed, TipTyped DEF IsParent
  <2> QED BY <2>4, <2>11
<1> QED BY <1>1, <1>2

\* What adding a block does.
LEMMA AppendKeeps ==
  ASSUME StoreOK, NEW block \in Block, block.applies, NEW fromTemp \in BOOLEAN,
         Apply(block, fromTemp)
  PROVE  /\ StoreOK'
         /\ block.height = Len(chain) + 1
         /\ Len(chain') = Len(chain) + 1
         /\ chain'[Len(chain) + 1] = block
         /\ \A h \in 1..Len(chain) : chain'[h] = chain[h]
         /\ temp' = IF fromTemp THEN Store!RemoveTemp(temp, block) ELSE temp
         /\ temp' \subseteq temp
<1>1. /\ block.height = Tip.height + 1 /\ block.prev = Tip.id
      /\ chain' = Append(chain, block)
      /\ finalized' \in {finalized, block.precommitted}
      /\ finalized <= finalized' /\ finalized' <= Len(chain)
      /\ temp' = IF fromTemp THEN Store!RemoveTemp(temp, block) ELSE temp
  BY DEF Apply, Store!Append1, Tip
<1>2. block.height = Len(chain) + 1
  BY <1>1, TipTyped
<1>3. /\ chain' \in Seq(Block) /\ Len(chain') = Len(chain) + 1
      /\ chain'[Len(chain) + 1] = block
      /\ \A h \in 1..Len(chain) : chain'[h] = chain[h]
  BY <1>1, StoreTyped
<1>4. temp' \subseteq temp
  BY <1>1 DEF Store!RemoveTemp
<1>5. finalized' \in 0..Len(chain')
  BY <1>1, <1>3, StoreTyped, BlockTyped
<1>6. Store!Linked'
  <2> SUFFICES ASSUME NEW h \in 1..(Len(chain) + 1)
               PROVE  /\ chain'[h].height = h
                      /\ chain'[h].prev = (IF h = 1 THEN GenesisBlock ELSE chain'[h - 1]).id
    BY <1>3 DEF Store!Linked
  <2>1. CASE h \in 1..Len(chain)
    <3>1. h # 1 => h - 1 \in 1..Len(chain)
      BY <2>1, StoreTyped
    <3> QED BY <2>1, <3>1, <1>3 DEF StoreOK, Store!Linked
  <2>2. CASE h = Len(chain) + 1
    <3>1. CASE chain = <<>>
      BY <2>2, <3>1, <1>1, <1>2, <1>3, TipTyped
    <3>2. CASE chain # <<>>
      <4>1. h # 1 /\ h - 1 = Len(chain) /\ Len(chain) \in 1..Len(chain)
        BY <2>2, <3>2, StoreTyped
      <4> QED BY <4>1, <2>2, <3>2, <1>1, <1>2, <1>3, TipTyped
    <3> QED BY <3>1, <3>2
  <2> QED BY <2>1, <2>2, StoreTyped
<1>7. RanksRise'
  <2> SUFFICES ASSUME NEW i \in 1..(Len(chain) + 1), NEW j \in 1..(Len(chain) + 1), i <= j
               PROVE  chain'[i].mhp <= chain'[j].mhp
    BY <1>3 DEF RanksRise
  <2>1. CASE j \in 1..Len(chain)
    <3>1. i \in 1..Len(chain)
      BY <2>1, StoreTyped
    <3> QED BY <2>1, <3>1, <1>3, StoreTyped DEF StoreOK, RanksRise
  <2>2. CASE j = Len(chain) + 1 /\ i = j
    BY <2>2, <1>3, BlockTyped
  <2>3. CASE j = Len(chain) + 1 /\ i \in 1..Len(chain)
    <3>1. chain # <<>> /\ Len(chain) \in 1..Len(chain) /\ i <= Len(chain)
      BY <2>3, StoreTyped
    <3>2. chain[i].mhp <= chain[Len(chain)].mhp
      BY <2>3, <3>1, StoreTyped DEF StoreOK, RanksRise
    <3>3. chain[Len(chain)].mhp <= block.mhp
      BY <3>1, <1>1, TipTyped, SynchronizerAssumption
    <3>4. chain[i].mhp \in Nat /\ chain[Len(chain)].mhp \in Nat /\ block.mhp \in Nat
      BY <2>3, <3>1, StoreTyped, BlockTyped
    <3>5. chain[i].mhp <= block.mhp
      BY <3>2, <3>3, <3>4
    <3> QED BY <2>3, <3>5, <1>3
  <2> QED BY <2>1, <2>2, <2>3, StoreTyped
<1>8. IsFiniteSet(temp') /\ OnePerHeight(temp')
  <2>1. IsFiniteSet(temp')
    BY <1>4, FS_Subset DEF StoreOK
  <2> QED BY <2>1, <1>4 DEF StoreOK, OnePerHeight
<1>9. StoreOK'
  <2>1. Store!TypeOK'
    BY <1>3, <1>4, <1>5, StoreTyped DEF Store!TypeOK
  <2> QED BY <2>1, <1>6, <1>7, <1>8 DEF StoreOK
<1> QED BY <1>1, <1>2, <1>3, <1>4, <1>9

\* What taking the tip off does.
LEMMA RemovalKeeps ==
  ASSUME StoreOK, NEW backup \in BOOLEAN, Store!RemoveTip(backup)
  PROVE  /\ StoreOK'
         /\ chain # <<>> /\ Tip = chain[Len(chain)] /\ Tip \in Block
         /\ Len(chain') = Len(chain) - 1
         /\ \A h \in 1..(Len(chain) - 1) : chain'[h] = chain[h]
         /\ temp' = IF backup THEN Store!PutTemp(temp, Tip) ELSE temp
<1>1. /\ Len(chain) > finalized
      /\ chain' = SubSeq(chain, 1, Len(chain) - 1)
      /\ finalized' = finalized
      /\ temp' = IF backup THEN Store!PutTemp(temp, Tip) ELSE temp
  BY DEF Store!RemoveTip, Store!CanRemoveTip, Tip
<1>2. chain # <<>> /\ Len(chain) - 1 \in Nat
  BY <1>1, StoreTyped
<1>3. Tip = chain[Len(chain)] /\ Tip \in Block
  BY <1>2, TipTyped
<1>4. /\ chain' \in Seq(Block) /\ Len(chain') = Len(chain) - 1
      /\ \A h \in 1..(Len(chain) - 1) : chain'[h] = chain[h]
  BY <1>1, <1>2, StoreTyped
<1>5. finalized' \in 0..Len(chain')
  BY <1>1, <1>4, StoreTyped
<1>6. Store!Linked'
  <2> SUFFICES ASSUME NEW h \in 1..(Len(chain) - 1)
               PROVE  /\ chain'[h].height = h
                      /\ chain'[h].prev = (IF h = 1 THEN GenesisBlock ELSE chain'[h - 1]).id
    BY <1>4 DEF Store!Linked
  <2>1. h \in 1..Len(chain) /\ (h # 1 => h - 1 \in 1..(Len(chain) - 1))
    BY StoreTyped
  <2> QED BY <2>1, <1>4 DEF StoreOK, Store!Linked
<1>7. RanksRise'
  <2>1. DOMAIN chain' = 1..(Len(chain) - 1)
    BY <1>4
  <2>2. ASSUME NEW i \in 1..(Len(chain) - 1), NEW j \in 1..(Len(chain) - 1), i <= j
        PROVE  chain'[i].mhp <= chain'[j].mhp
    <3>1. i \in 1..Len(chain) /\ j \in 1..Len(chain)
      BY StoreTyped
    <3>2. chain[i].mhp <= chain[j].mhp
      BY <2>2, <3>1, StoreTyped DEF StoreOK, RanksRise
    <3> QED BY <3>2, <1>4
  <2> QED BY <2>1, <2>2 DEF RanksRise
<1>8. temp' \subseteq Block /\ IsFiniteSet(temp') /\ OnePerHeight(temp')
  <2>1. CASE ~backup
    BY <2>1, <1>1, StoreTyped DEF StoreOK
  <2>2. CASE backup
    <3> DEFINE others == {b \in temp : b.height # Tip.height}
    <3>1. temp' = others \cup {Tip}
      BY <2>2, <1>1 DEF Store!PutTemp
    <3>2. IsFiniteSet(others)
      BY FS_Subset DEF StoreOK
    <3>3. IsFiniteSet(temp')
      BY <3>1, <3>2, FS_AddElement
    <3> QED BY <3>1, <3>3, <1>3, StoreTyped DEF StoreOK, OnePerHeight
  <2> QED BY <2>1, <2>2
<1>9. StoreOK'
  <2>1. Store!TypeOK'
    BY <1>4, <1>5, <1>8 DEF Store!TypeOK
  <2> QED BY <2>1, <1>6, <1>7, <1>8 DEF StoreOK
<1> QED BY <1>1, <1>2, <1>3, <1>4, <1>9

-----------------------------------------------------------------------------
(* The table in ascending order. *)

\* Counting the heights up to its own numbers the blocks of the table.
LEMMA TempInOrderSorts ==
  ASSUME StoreOK
  PROVE  TempInOrder \in Seq(Block) /\ IsTableInOrder(TempInOrder)
<1> DEFINE heights == {b.height : b \in temp}
           Rank(b) == Cardinality({h \in heights : h <= b.height})
           n == Cardinality(temp)
           height == [b \in temp |-> b.height]
           rank == [b \in temp |-> Rank(b)]
<1>0. IsFiniteSet(temp) /\ n \in Nat
  BY FS_CardinalityType DEF StoreOK
<1>1. heights \subseteq Nat /\ \A b \in temp : b.height \in Nat
  BY StoreTyped, BlockTyped
<1>2. IsFiniteSet(heights) /\ Cardinality(heights) = n
  <2>1. height \in Bijection(temp, heights)
    BY DEF Bijection, Injection, Surjection, IsInjective, StoreOK, OnePerHeight
  <2>2. ExistsBijection(temp, heights)
    BY <2>1 DEF ExistsBijection
  <2> QED BY <1>0, <2>2, FS_Bijection
<1>3. ASSUME NEW b \in temp PROVE Rank(b) \in 1..n
  <2> DEFINE upto == {h \in heights : h <= b.height}
  <2>1. IsFiniteSet(upto) /\ Cardinality(upto) <= n
    BY <1>2, FS_Subset
  <2>2. b.height \in upto
    BY <1>1
  <2>3. Cardinality(upto) \in Nat /\ Cardinality(upto) # 0
    BY <2>1, <2>2, FS_CardinalityType, FS_EmptySet
  <2> QED BY <1>0, <2>1, <2>3
<1>4. ASSUME NEW b \in temp, NEW c \in temp, b.height < c.height
      PROVE  Rank(b) < Rank(c)
  <2> DEFINE B == {h \in heights : h <= b.height}
             C == {h \in heights : h <= c.height}
  <2>1. IsFiniteSet(C)
    BY <1>2, FS_Subset
  <2>2. B \subseteq C /\ B # C
    <3>1. c.height \in C /\ c.height \notin B
      BY <1>1, <1>4
    <3>2. \A h \in heights : h <= b.height => h <= c.height
      BY <1>1, <1>4
    <3> QED BY <3>1, <3>2
  <2>3. Cardinality(B) <= Cardinality(C) /\ Cardinality(B) # Cardinality(C)
    BY <2>1, <2>2, FS_Subset
  <2>4. Cardinality(B) \in Nat /\ Cardinality(C) \in Nat
    BY <2>1, <2>2, FS_Subset, FS_CardinalityType
  <2> QED BY <2>3, <2>4
<1> HIDE DEF Rank
<1>5. ASSUME NEW b \in temp, NEW c \in temp, Rank(b) = Rank(c)
      PROVE  b = c
  <2>1. b.height = c.height
    BY <1>1, <1>3, <1>4, <1>5
  <2> QED BY <2>1 DEF StoreOK, OnePerHeight
<1>6. IsFiniteSet(1..n) /\ Cardinality(1..n) = n
  BY <1>0, FS_Interval
<1>7. rank \in Injection(temp, 1..n)
  BY <1>3, <1>5 DEF Injection, IsInjective
<1>8. rank \in Surjection(temp, 1..n)
  BY <1>0, <1>6, <1>7, FS_Injection
<1>9. \A i \in 1..n : \E b \in temp : Rank(b) = i
  BY <1>8 DEF Surjection
<1> DEFINE s == [i \in 1..n |-> CHOOSE b \in temp : Rank(b) = i]
<1>10. \A i \in 1..n : s[i] \in temp /\ Rank(s[i]) = i
  BY <1>9
<1>11. temp = {s[i] : i \in 1..n}
  <2>1. ASSUME NEW b \in temp PROVE b \in {s[i] : i \in 1..n}
    BY <1>3, <1>5, <1>10
  <2> QED BY <2>1, <1>10
<1>12. ASSUME NEW i \in 1..n, NEW j \in 1..n, i < j PROVE s[i].height < s[j].height
  <2>1. s[i] \in temp /\ s[j] \in temp /\ Rank(s[i]) < Rank(s[j])
    BY <1>10, <1>12
  <2>2. s[i].height # s[j].height
    <3>1. SUFFICES ASSUME s[i].height = s[j].height PROVE FALSE
      OBVIOUS
    <3>2. s[i] = s[j]
      BY <2>1, <3>1 DEF StoreOK, OnePerHeight
    <3>3. i = j
      BY <3>2, <1>10
    <3> QED BY <3>3, <1>12
  <2>3. ~(s[j].height < s[i].height)
    BY <2>1, <1>3, <1>4
  <2> QED BY <2>1, <2>2, <2>3, <1>1
<1>13. s \in Seq(Block) /\ DOMAIN s = 1..n
  BY <1>0, <1>10, StoreTyped
<1>14. TempInOrder = s
  BY DEF TempInOrder, Rank
<1> HIDE DEF s
<1> QED BY <1>11, <1>12, <1>13, <1>14 DEF IsTableInOrder

-----------------------------------------------------------------------------
(* The tips a run compares. *)

LEMMA PreferredMeans ==
  ASSUME NEW a, NEW b
  PROVE  Preferred(a, b) => \/ b.mhp < a.mhp
                            \/ b.height < a.height /\ b.mhp = a.mhp
  BY DEF Preferred, StatusAgainst, ForkStatus, IsDifferentChain

LEMMA PreferredAsymmetric ==
  ASSUME NEW a \in Block \cup {GenesisBlock}, NEW b \in Block \cup {GenesisBlock},
         Preferred(a, b)
  PROVE  ~Preferred(b, a)
<1>1. ASSUME NEW c \in Block \cup {GenesisBlock}
      PROVE  c.mhp \in Nat /\ c.height \in Nat
  BY SynchronizerAssumption
<1> QED BY <1>1, PreferredMeans

\* A tip is never outranked by a block below it.
LEMMA TipOutranksChain ==
  ASSUME StoreOK, NEW b \in Block, OnChain(b)
  PROVE  ~Preferred(b, Tip)
<1>1. b.height \in 1..Len(chain) /\ b = chain[b.height]
  BY StoreTyped DEF OnChain
<1>2. Len(chain) \in 1..Len(chain) /\ chain # <<>> /\ Tip = chain[Len(chain)] /\ Tip \in Block
  BY <1>1, StoreTyped, TipTyped
<1>3. b.mhp <= Tip.mhp
  BY <1>1, <1>2, StoreTyped DEF StoreOK, RanksRise
<1>4. b.height <= Tip.height
  BY <1>1, TipTyped
<1> QED BY <1>2, <1>3, <1>4, PreferredMeans, BlockTyped

LEMMA LowestTempIs ==
  ASSUME StoreOK, temp # {}
  PROVE  /\ LowestTemp \in temp
         /\ \A c \in temp : LowestTemp.height <= c.height
<1> DEFINE heights == {b.height : b \in temp}
<1>1. heights \in SUBSET Nat /\ heights # {}
  BY StoreTyped, BlockTyped
<1>2. PICK m \in heights : \A k \in heights : m <= k
  BY <1>1, LeastNatural
<1>3. \E b \in temp : \A c \in temp : b.height <= c.height
  BY <1>2
<1> QED BY <1>3 DEF LowestTemp

\* The highest block of the table is the tip that was left.
LEMMA HighestTempIsOldTip ==
  ASSUME IInv, oldTip # None, temp # {}
  PROVE  oldTip \in temp /\ HighestTemp = oldTip
<1>0. oldTip \in Block /\ OldTipKept /\ StoreOK
  BY DEF IInv, TypeOK
<1>1. \A c \in temp : c = oldTip \/ c.height < oldTip.height
  BY <1>0, BranchBelow DEF OldTipKept
<1>2. temp \subseteq Block /\ \A c \in temp : c.height \in Nat
  BY <1>0, StoreTyped, BlockTyped
<1>3. oldTip.height \in Nat
  BY <1>0, BlockTyped
<1>4. oldTip \in temp
  BY <1>0, <1>1, <1>2, <1>3, BranchClosed DEF OldTipKept
<1>5. \A c \in temp : oldTip.height >= c.height
  BY <1>1, <1>2, <1>3
<1>6. \A b \in temp : (\A c \in temp : b.height >= c.height) => b = oldTip
  BY <1>1, <1>2, <1>3, <1>4
<1> QED BY <1>4, <1>5, <1>6 DEF HighestTemp

\* With nothing in the table the tip that was left is on the chain.
LEMMA OldTipOutrankedByTip ==
  ASSUME IInv, oldTip # None, temp = {}
  PROVE  ~Preferred(oldTip, Tip)
<1>1. oldTip \in Block /\ OldTipKept /\ StoreOK
  BY DEF IInv, TypeOK
<1>2. OnChain(oldTip)
  BY <1>1, BranchClosed DEF OldTipKept
<1> QED BY <1>1, <1>2, TipOutranksChain

-----------------------------------------------------------------------------
(* The steps of a run and of the processor keep the invariant.             *)

LEMMA SameStore ==
  ASSUME StoreOK, UNCHANGED storeVars
  PROVE  StoreOK' /\ Tip' = Tip
  BY DEF StoreOK, storeVars, Store!TypeOK, Store!Linked, RanksRise, Tip, Store!Tip

LEMMA ClearKeeps ==
  ASSUME StoreOK, Store!ClearTemp
  PROVE  StoreOK' /\ Tip' = Tip
<1>1. chain' = chain /\ finalized' = finalized /\ temp' = {}
  BY DEF Store!ClearTemp
<1>2. IsFiniteSet(temp') /\ OnePerHeight(temp')
  BY <1>1, FS_EmptySet DEF OnePerHeight
<1> QED BY <1>1, <1>2 DEF StoreOK, Store!TypeOK, Store!Linked, RanksRise, Tip, Store!Tip

LEMMA EndRunKeeps ==
  ASSUME IInv, EndRun, StoreOK', UNCHANGED <<queued, stopping, crashes>>
  PROVE  IInv'
<1>1. TypeOK'
  BY DEF IInv, TypeOK, EndRun, Forget, StoreOK
<1> QED BY <1>1 DEF IInv, EndRun, Forget, RunOK

LEMMA InitIInv == Init => IInv
<1> SUFFICES ASSUME Init PROVE IInv
  OBVIOUS
<1>1. chain = <<>> /\ finalized = 0 /\ temp = {}
  BY DEF Init, Store!Init
<1>2. StoreOK
  BY <1>1, FS_EmptySet DEF StoreOK, Store!TypeOK, Store!Linked, RanksRise, OnePerHeight
<1>3. TypeOK
  <2>1. Store!TypeOK
    BY <1>2 DEF StoreOK
  <2>2. queued \in Seq(Block) /\ Len(queued) = 0 /\ toApply \in Seq(Block)
    BY DEF Init
  <2>3. 0 <= MaxQueued /\ crashes \in 0..MaxCrashes
    BY BoundsTyped DEF Init
  <2> QED BY <2>1, <2>2, <2>3 DEF Init, TypeOK
<1> QED BY <1>2, <1>3 DEF Init, IInv, RunOK

LEMMA ReceiveBlockOK ==
  ASSUME IInv, NEW block \in Block, ReceiveBlock(block)
  PROVE  IInv'
<1>1. StoreOK' /\ Tip' = Tip
  BY SameStore DEF IInv, ReceiveBlock
<1>2. TypeOK'
  <2>1. Store!TypeOK'
    BY <1>1 DEF StoreOK
  <2>2. queued' \in Seq(Block) /\ Len(queued') <= MaxQueued
    BY BoundsTyped DEF IInv, TypeOK, ReceiveBlock
  <2> QED BY <2>1, <2>2 DEF IInv, TypeOK, ReceiveBlock, runVars
<1>3. RunOK'
  BY DEF IInv, RunOK, ReceiveBlock, runVars, storeVars
<1>4. oldTip' = None
  BY DEF IInv, RunOK, ReceiveBlock
<1> QED BY <1>1, <1>2, <1>3, <1>4 DEF IInv

LEMMA ProcessValidOK ==
  ASSUME IInv, ProcessValid
  PROVE  IInv'
<1>1. Head(queued) \in Block /\ Head(queued).applies /\ Apply(Head(queued), FALSE)
  <2>1. queued \in Seq(Block) /\ queued # <<>>
    BY DEF IInv, TypeOK, ProcessValid
  <2>2. Head(queued).applies /\ Apply(Head(queued), FALSE)
    BY DEF ProcessValid
  <2>3. Head(queued) \in Block
    BY <2>1
  <2> QED BY <2>2, <2>3, Zenon
<1>2. StoreOK' /\ temp' = temp
  BY <1>1, AppendKeeps DEF IInv
<1>3. queued' \in Seq(Block) /\ Len(queued') <= MaxQueued
  BY BoundsTyped DEF IInv, TypeOK, ProcessValid
<1>4. TypeOK'
  BY <1>2, <1>3 DEF IInv, TypeOK, ProcessValid, runVars, StoreOK
<1>5. RunOK'
  BY <1>2 DEF IInv, RunOK, ProcessValid, runVars
<1> QED BY <1>2, <1>4, <1>5 DEF IInv, ProcessValid

LEMMA ProcessOtherOK ==
  ASSUME IInv, ProcessOther
  PROVE  IInv'
<1>1. StoreOK' /\ Tip' = Tip
  BY SameStore DEF IInv, ProcessOther
<1>2. /\ Head(queued) \in Block
      /\ queued' \in Seq(Block) /\ Len(queued') <= MaxQueued
  BY BoundsTyped DEF IInv, TypeOK, ProcessOther
<1>3. CASE pc' = pc /\ target' = target
  <2>1. TypeOK'
    BY <1>1, <1>2, <1>3 DEF IInv, TypeOK, ProcessOther, StoreOK
  <2>2. RunOK'
    BY <1>3 DEF IInv, RunOK, ProcessOther, storeVars
  <2>3. oldTip # None => OldTipKept'
    BY <1>1, <1>3 DEF IInv, OldTipKept, ProcessOther, storeVars, OnChain, IsTableInOrder
  <2> QED BY <1>1, <2>1, <2>2, <2>3 DEF IInv, ProcessOther
<1>4. CASE pc = "idle" /\ pc' = "choose" /\ target' = Head(queued)
  <2>1. TypeOK'
    BY <1>1, <1>2, <1>4 DEF IInv, TypeOK, ProcessOther, StoreOK
  <2>2. RunOK'
    BY <1>2, <1>4 DEF IInv, RunOK, ProcessOther, storeVars
  <2>3. oldTip' = None
    BY <1>4 DEF IInv, RunOK, ProcessOther
  <2> QED BY <1>1, <2>1, <2>2, <2>3 DEF IInv
<1> QED BY <1>3, <1>4 DEF ProcessOther

\* A run begins: the chain is the branch of its tip and the table is empty.
LEMMA BeginOK ==
  ASSUME IInv, NEW chosen \in {"block", "fast"}, NEW peer \in Block,
         NEW height \in 0..Len(chain), Begin(chosen, peer, height),
         toApply' \in Seq(Block)
  PROVE  IInv'
<1>1. StoreOK' /\ Tip' = Tip
  BY SameStore DEF IInv, Begin
<1>2. TypeOK'
  <2>1. oldTip' \in Block \cup {None}
    BY DEF Begin
  <2>2. height \in Nat
    OBVIOUS
  <2> QED BY <1>1, <2>1, <2>2 DEF IInv, TypeOK, Begin, StoreOK
<1>3. RunOK'
  BY DEF IInv, RunOK, Begin
<1>4. ASSUME oldTip' # None PROVE OldTipKept'
  <2>1. oldTip' = Tip /\ Tip \in Block /\ temp = {} /\ temp' = {} /\ chain' = chain
        /\ pc' = "revert"
    BY <1>4 DEF Begin, storeVars
  <2>2. Branch[Tip] = {chain[h] : h \in 1..Len(chain)}
    BY <2>1, ChainIsBranch DEF IInv
  <2>3. \A h \in 1..Len(chain) : chain[h].height = h
    BY StoreTyped DEF IInv
  <2>4. DOMAIN chain = 1..Len(chain)
    BY StoreTyped DEF IInv
  <2> QED BY <2>1, <2>2, <2>3, <2>4 DEF OldTipKept, OnChain
<1> QED BY <1>1, <1>2, <1>3, <1>4 DEF IInv

LEMMA StartBlockSyncOK ==
  ASSUME IInv, NEW peer \in Block, NEW height \in 0..Len(chain), StartBlockSync(peer, height)
  PROVE  IInv'
  BY BeginOK DEF StartBlockSync

LEMMA StartFastSwitchOK ==
  ASSUME IInv, NEW height \in 0..Len(chain), NEW upto, StartFastSwitch(height, upto)
  PROVE  IInv'
<1>1. target \in Block /\ Begin("fast", target, height)
  BY DEF IInv, RunOK, StartFastSwitch, Begin
<1>2. height + 1 \in Nat \ {0} /\ upto \in (height + 1)..target.height
  BY StoreTyped DEF IInv, StartFastSwitch
<1>3. toApply' \in Seq(Block)
  BY <1>1, <1>2, SegmentTyped DEF StartFastSwitch
<1> QED BY <1>1, <1>3, BeginOK

LEMMA RevertOK ==
  ASSUME IInv, Revert
  PROVE  IInv'
<1>0. StoreOK /\ BackupOnRevert \in BOOLEAN /\ Store!RemoveTip(BackupOnRevert)
  BY DEF IInv, Revert, BackupOnRevert
<1>1. /\ StoreOK'
      /\ chain # <<>> /\ Tip = chain[Len(chain)] /\ Tip \in Block
      /\ Len(chain') = Len(chain) - 1
      /\ \A h \in 1..(Len(chain) - 1) : chain'[h] = chain[h]
      /\ temp' = Store!PutTemp(temp, Tip)
  BY <1>0, RemovalKeeps DEF BackupOnRevert
<1>2. TypeOK'
  BY <1>1 DEF IInv, TypeOK, Revert, runVars, StoreOK
<1>3. RunOK'
  BY DEF IInv, RunOK, Revert, runVars
<1>4. ASSUME oldTip # None PROVE OldTipKept'
  <2>0. pc = "revert" /\ pc' = "revert" /\ oldTip' = oldTip /\ OldTipKept
    BY <1>4 DEF Revert, IInv
  <2>1. /\ Len(chain) \in Nat /\ Len(chain) # 0
        /\ DOMAIN chain = 1..Len(chain) /\ DOMAIN chain' = 1..(Len(chain) - 1)
        /\ Tip.height = Len(chain)
    BY <1>0, <1>1, StoreTyped, TipTyped DEF StoreOK, Store!TypeOK
  <2>2. \A c \in temp : c.height \in Nat /\ c.height > Len(chain)
    BY <1>0, <2>0, StoreTyped, BlockTyped DEF OldTipKept
  <2>3. temp' = temp \cup {Tip}
    BY <1>1, <2>1, <2>2 DEF Store!PutTemp
  <2>4. Tip \in Branch[oldTip]
    BY <1>1, <2>0, <2>1 DEF OldTipKept
  <2>5. ASSUME NEW b \in Branch[oldTip], b \notin temp'
        PROVE  OnChain(b)' /\ \A c \in temp' : b.height < c.height
    <3>1. OnChain(b) /\ b # Tip
      BY <2>0, <2>3, <2>5 DEF OldTipKept
    <3>2. b.height \in 1..(Len(chain) - 1)
      BY <3>1, <2>1, <1>1 DEF OnChain
    <3>3. chain'[b.height] = b
      BY <3>1, <3>2, <1>1 DEF OnChain
    <3> QED BY <3>2, <3>3, <2>1, <2>2, <2>3 DEF OnChain
  <2>6. \A h \in DOMAIN chain' : chain'[h] \in Branch[oldTip]
    BY <1>1, <2>0, <2>1 DEF OldTipKept
  <2>7. \A c \in temp' : c.height > Len(chain')
    BY <1>1, <2>1, <2>2, <2>3
  <2> QED BY <2>0, <2>3, <2>4, <2>5, <2>6, <2>7 DEF OldTipKept
<1> QED BY <1>1, <1>2, <1>3, <1>4 DEF IInv, Revert

LEMMA RevertDoneOK ==
  ASSUME IInv, RevertDone
  PROVE  IInv'
<1>1. StoreOK' /\ Tip' = Tip
  BY SameStore DEF IInv, RevertDone
<1>2. TypeOK'
  BY <1>1 DEF IInv, TypeOK, RevertDone, runVars, StoreOK
<1>3. RunOK'
  BY DEF IInv, RunOK, RevertDone, runVars
<1>4. ASSUME oldTip # None PROVE OldTipKept'
  <2>1. \A b \in Branch[oldTip] : b \in temp \/ b.height <= common
    <3>1. \A b \in Branch[oldTip] : b \in temp \/ b.height \in 1..Len(chain)
      BY <1>4, StoreTyped DEF IInv, OldTipKept, OnChain
    <3>2. Len(chain) <= common /\ common \in Nat /\ Len(chain) \in Nat
      BY StoreTyped DEF IInv, TypeOK, RevertDone
    <3> QED BY <3>1, <3>2
  <2> QED BY <1>1, <1>4, <2>1 DEF IInv, OldTipKept, RevertDone, storeVars, runVars, OnChain
<1> QED BY <1>1, <1>2, <1>3, <1>4 DEF IInv, RevertDone

LEMMA FetchOK ==
  ASSUME IInv, Fetch
  PROVE  IInv'
<1>1. StoreOK' /\ Tip' = Tip
  BY SameStore DEF IInv, Fetch
<1>2. toApply' \in Seq(Block)
  <2>1. peerTip \in Block
    BY DEF IInv, RunOK, Fetch
  <2>2. PICK block \in Branch[peerTip] : toApply' = <<block>>
    BY DEF Fetch
  <2> QED BY <2>1, <2>2, BranchClosed
<1>3. TypeOK'
  <2>1. Store!TypeOK'
    BY <1>1 DEF StoreOK
  <2> QED BY <2>1, <1>2 DEF IInv, TypeOK, Fetch
<1>4. RunOK'
  BY DEF IInv, RunOK, Fetch
<1>5. oldTip # None => OldTipKept'
  BY <1>1 DEF IInv, OldTipKept, Fetch, storeVars, OnChain
<1> QED BY <1>1, <1>3, <1>4, <1>5 DEF IInv, Fetch

\* Blocks added to the chain while the table stays as it is.
LEMMA ApplyNextOK ==
  ASSUME IInv, ApplyNext
  PROVE  IInv'
<1>0. toApply \in Seq(Block) /\ toApply # <<>> /\ StoreOK
  BY DEF IInv, TypeOK, ApplyNext
<1>1. Head(toApply) \in Block /\ Tail(toApply) \in Seq(Block)
  BY <1>0
<1>2. Head(toApply).applies /\ Apply(Head(toApply), FALSE)
  BY DEF ApplyNext, CanApply
<1>3. /\ StoreOK' /\ temp' = temp
      /\ Len(chain') = Len(chain) + 1
      /\ \A h \in 1..Len(chain) : chain'[h] = chain[h]
  BY <1>0, <1>1, <1>2, AppendKeeps
<1>4. TypeOK'
  <2>1. Store!TypeOK'
    BY <1>3 DEF StoreOK
  <2> QED BY <2>1, <1>1 DEF IInv, TypeOK, ApplyNext, runVars
<1>5. RunOK'
  BY <1>3 DEF IInv, RunOK, ApplyNext, runVars
<1>6. ASSUME oldTip # None PROVE OldTipKept'
  <2>1. DOMAIN chain = 1..Len(chain) /\ DOMAIN chain' = 1..(Len(chain) + 1) /\ Len(chain) \in Nat
    BY <1>0, <1>3, StoreTyped DEF StoreOK, Store!TypeOK
  <2>2. \A b : OnChain(b) => OnChain(b)'
    BY <2>1, <1>3 DEF OnChain
  <2> QED BY <1>3, <1>6, <2>2 DEF IInv, OldTipKept, ApplyNext, runVars
<1> QED BY <1>3, <1>4, <1>5, <1>6 DEF IInv, ApplyNext

LEMMA ApplyFailsOK ==
  ASSUME IInv, ApplyFails
  PROVE  IInv'
<1>1. StoreOK' /\ Tip' = Tip
  BY SameStore DEF IInv, ApplyFails
<1>2. TypeOK'
  <2>1. Store!TypeOK'
    BY <1>1 DEF StoreOK
  <2> QED BY <2>1 DEF IInv, TypeOK, ApplyFails, runVars, OnFailure
<1>3. RunOK'
  BY DEF IInv, RunOK, ApplyFails, runVars, OnFailure
<1>4. oldTip # None => OldTipKept'
  BY <1>1 DEF IInv, OldTipKept, ApplyFails, storeVars, runVars, OnChain, OnFailure
<1> QED BY <1>1, <1>2, <1>3, <1>4 DEF IInv, ApplyFails

LEMMA ApplyStoppedOK ==
  ASSUME IInv, ApplyStopped
  PROVE  IInv'
<1>1. StoreOK' /\ Tip' = Tip
  BY SameStore DEF IInv, ApplyStopped
<1>2. TypeOK'
  <2>1. Store!TypeOK'
    BY <1>1 DEF StoreOK
  <2> QED BY <2>1 DEF IInv, TypeOK, ApplyStopped, runVars
<1>3. RunOK'
  BY DEF IInv, RunOK, ApplyStopped, runVars
<1>4. oldTip # None => OldTipKept'
  BY <1>1 DEF IInv, OldTipKept, ApplyStopped, storeVars, runVars, OnChain
<1> QED BY <1>1, <1>2, <1>3, <1>4 DEF IInv, ApplyStopped

\* The received block is the tip now: the old one does not outrank it.
LEMMA ApplyDoneOK ==
  ASSUME IInv, ApplyDone
  PROVE  IInv'
<1>1. StoreOK' /\ Tip' = Tip
  BY SameStore DEF IInv, ApplyDone
<1>2. TypeOK'
  <2>1. Store!TypeOK'
    BY <1>1 DEF StoreOK
  <2> QED BY <2>1 DEF IInv, TypeOK, ApplyDone, runVars
<1>3. RunOK'
  BY DEF IInv, RunOK, ApplyDone, runVars
<1>4. ASSUME oldTip # None PROVE OldTipKept'
  <2>1. CASE pc' = "fetch"
    BY <1>1, <1>4, <2>1 DEF IInv, OldTipKept, ApplyDone, storeVars, runVars, OnChain
  <2>2. CASE pc' = "clear"
    <3>1. ASSUME mechanism = "block", Preferred(target, oldTip)
          PROVE  ~Preferred(oldTip, Tip)
      <4>1. Tip = target
        BY <2>2, <3>1 DEF ApplyDone
      <4>2. oldTip \in Block /\ StoreOK
        BY <1>4 DEF IInv, TypeOK
      <4> QED BY <3>1, <4>1, <4>2, TipTyped, PreferredAsymmetric
    <3> QED BY <1>1, <1>4, <2>2, <3>1
            DEF IInv, OldTipKept, ApplyDone, storeVars, runVars, OnChain
  <2> QED BY <2>1, <2>2 DEF ApplyDone
<1> QED BY <1>1, <1>2, <1>3, <1>4 DEF IInv, ApplyDone

LEMMA ClearTableOK ==
  ASSUME IInv, ClearTable
  PROVE  IInv'
  BY ClearKeeps, EndRunKeeps DEF IInv, ClearTable

LEMMA HandleFailureOK ==
  ASSUME IInv, HandleFailure
  PROVE  IInv'
<1>1. StoreOK' /\ Tip' = Tip
  BY SameStore DEF IInv, HandleFailure
<1>2. CASE EndRun
  BY <1>1, <1>2, EndRunKeeps DEF HandleFailure
<1>3. CASE ~(mechanism = "block" /\ temp = {})
  <2>0. /\ pc = "failed" /\ UNCHANGED <<runVars, toApply, oldTip>>
        /\ UNCHANGED <<storeVars, queued, stopping, crashes>>
        /\ pc' = IF mechanism = "block" /\ NewTipHasPreference THEN "clear" ELSE "undo"
    BY <1>3 DEF HandleFailure
  <2>1. TypeOK'
    <3>1. Store!TypeOK'
      BY <1>1 DEF StoreOK
    <3> QED BY <3>1, <2>0 DEF IInv, TypeOK, runVars
  <2>2. RunOK'
    BY <2>0 DEF IInv, RunOK, runVars
  <2>3. ASSUME oldTip # None PROVE OldTipKept'
    <3>1. CASE pc' = "undo"
      BY <1>1, <2>0, <2>3, <3>1 DEF IInv, OldTipKept, storeVars, runVars, OnChain
    <3>2. CASE pc' = "clear"
      <4>1. Preferred(Tip, HighestTemp) /\ temp # {}
        BY <1>3, <2>0, <3>2 DEF NewTipHasPreference
      <4>2. HighestTemp = oldTip /\ oldTip \in Block /\ StoreOK
        BY <2>3, <4>1, HighestTempIsOldTip DEF IInv, TypeOK
      <4>3. ~Preferred(oldTip, Tip)
        BY <4>1, <4>2, TipTyped, PreferredAsymmetric
      <4> QED BY <1>1, <2>0, <2>3, <3>2, <4>3
              DEF IInv, OldTipKept, storeVars, runVars, OnChain
    <3> QED BY <2>0, <3>1, <3>2
  <2> QED BY <1>1, <2>0, <2>1, <2>2, <2>3 DEF IInv
<1> QED BY <1>2, <1>3 DEF HandleFailure

\* What is undone is neither the old chain's nor in the table.
LEMMA UndoOK ==
  ASSUME IInv, Undo
  PROVE  IInv'
<1>1. /\ StoreOK /\ StoreOK' /\ temp' = temp
      /\ chain # <<>>
      /\ Len(chain') = Len(chain) - 1
      /\ \A h \in 1..(Len(chain) - 1) : chain'[h] = chain[h]
  <2>1. StoreOK /\ FALSE \in BOOLEAN /\ Store!RemoveTip(FALSE)
    BY DEF IInv, Undo
  <2> QED BY <2>1, RemovalKeeps
<1>2. TypeOK'
  <2>1. Store!TypeOK'
    BY <1>1 DEF StoreOK
  <2> QED BY <2>1 DEF IInv, TypeOK, Undo, runVars
<1>3. RunOK'
  BY <1>1 DEF IInv, RunOK, Undo, runVars
<1>4. ASSUME oldTip # None PROVE OldTipKept'
  <2>0. /\ pc = "undo" /\ pc' = "undo" /\ oldTip' = oldTip /\ common' = common
        /\ Len(chain) > common /\ common \in Nat /\ OldTipKept
    BY <1>4 DEF Undo, IInv, TypeOK, runVars
  <2>1. /\ Len(chain) \in Nat
        /\ DOMAIN chain = 1..Len(chain) /\ DOMAIN chain' = 1..(Len(chain) - 1)
    BY <1>1, StoreTyped DEF StoreOK, Store!TypeOK
  <2>2. ASSUME NEW b \in Branch[oldTip], OnChain(b), b.height <= common
        PROVE  OnChain(b)'
    <3>1. b.height \in 1..(Len(chain) - 1)
      BY <2>0, <2>1, <2>2 DEF OnChain
    <3> QED BY <2>1, <2>2, <3>1, <1>1 DEF OnChain
  <2> QED BY <1>1, <2>0, <2>2 DEF OldTipKept
<1> QED BY <1>1, <1>2, <1>3, <1>4 DEF IInv, Undo

\* A restoration is given up: the run ends, or its table is cleared next.
LEMMA GiveUpKeeps ==
  ASSUME IInv, GiveUpRestoring, pc \in {"undo", "restore"},
         UNCHANGED <<storeVars, queued, stopping, crashes>>
  PROVE  IInv'
<1>1. StoreOK' /\ Tip' = Tip
  BY SameStore DEF IInv
<1>2. CASE EndRun
  BY <1>1, <1>2, EndRunKeeps
<1>3. CASE mechanism = "fast" /\ pc' = "clear" /\ UNCHANGED <<runVars, toApply, oldTip>>
  <2>1. TypeOK'
    <3>1. Store!TypeOK'
      BY <1>1 DEF StoreOK
    <3> QED BY <3>1, <1>3 DEF IInv, TypeOK, runVars
  <2>2. RunOK'
    BY <1>3 DEF IInv, RunOK, runVars
  <2>3. oldTip # None => OldTipKept'
    BY <1>3 DEF IInv, OldTipKept, storeVars, runVars, OnChain
  <2> QED BY <1>1, <1>3, <2>1, <2>2, <2>3 DEF IInv
<1> QED BY <1>2, <1>3 DEF GiveUpRestoring

LEMMA UndoDoneOK ==
  ASSUME IInv, UndoDone
  PROVE  IInv'
<1>1. StoreOK /\ StoreOK' /\ Tip' = Tip
  BY SameStore DEF IInv, UndoDone
<1>2. toApply' \in Seq(Block) /\ (IsTableInOrder(TempInOrder) /\ toApply' = TempInOrder)
  BY <1>1, TempInOrderSorts DEF UndoDone
<1>3. TypeOK'
  <2>1. Store!TypeOK'
    BY <1>1 DEF StoreOK
  <2> QED BY <2>1, <1>2 DEF IInv, TypeOK, UndoDone, runVars
<1>4. RunOK'
  BY DEF IInv, RunOK, UndoDone, runVars
<1>5. ASSUME oldTip # None PROVE OldTipKept'
  <2>1. temp' = temp /\ chain' = chain /\ oldTip' = oldTip /\ pc' = "restore" /\ OldTipKept
    BY <1>5 DEF UndoDone, storeVars, IInv
  <2>2. IsTableInOrder(toApply)'
    BY <1>2, <2>1 DEF IsTableInOrder
  <2> QED BY <2>1, <2>2 DEF OldTipKept, OnChain
<1> QED BY <1>1, <1>3, <1>4, <1>5 DEF IInv, UndoDone

\* The lowest block of the table goes back on the chain.
LEMMA RestoreNextOK ==
  ASSUME IInv, RestoreNext
  PROVE  IInv'
<1>0. toApply \in Seq(Block) /\ toApply # <<>> /\ StoreOK
  BY DEF IInv, TypeOK, RestoreNext
<1>1. /\ Head(toApply) \in Block /\ Tail(toApply) \in Seq(Block)
      /\ Head(toApply) = toApply[1] /\ Len(toApply) \in Nat
      /\ DOMAIN toApply = 1..Len(toApply) /\ 1 \in DOMAIN toApply
      /\ Len(Tail(toApply)) = Len(toApply) - 1
      /\ \A i \in 1..(Len(toApply) - 1) : Tail(toApply)[i] = toApply[i + 1]
  BY <1>0
<1>2. Head(toApply).applies /\ Apply(Head(toApply), TRUE)
  BY DEF RestoreNext, CanApply
<1>h. PICK head \in Block : head = Head(toApply)
  BY <1>1
<1>3. /\ StoreOK'
      /\ head.height = Len(chain) + 1
      /\ Len(chain') = Len(chain) + 1
      /\ chain'[Len(chain) + 1] = head
      /\ \A h \in 1..Len(chain) : chain'[h] = chain[h]
      /\ temp' = Store!RemoveTemp(temp, head)
  BY <1>0, <1>2, <1>h, AppendKeeps
<1>4. TypeOK'
  <2>1. Store!TypeOK'
    BY <1>3 DEF StoreOK
  <2> QED BY <2>1, <1>1 DEF IInv, TypeOK, RestoreNext, runVars
<1>5. RunOK'
  BY DEF IInv, RunOK, RestoreNext, runVars
<1>6. ASSUME oldTip # None PROVE OldTipKept'
  <2>0. /\ pc = "restore" /\ pc' = "restore" /\ oldTip' = oldTip /\ toApply' = Tail(toApply)
        /\ OldTipKept /\ IsTableInOrder(toApply)
    BY <1>6 DEF RestoreNext, IInv, OldTipKept
  <2>1. /\ Len(chain) \in Nat
        /\ DOMAIN chain = 1..Len(chain) /\ DOMAIN chain' = 1..(Len(chain) + 1)
    BY <1>0, <1>3, StoreTyped DEF StoreOK, Store!TypeOK
  <2>2. \A b : OnChain(b) => OnChain(b)'
    BY <2>1, <1>3 DEF OnChain
  <2>3. OnChain(head)'
    BY <2>1, <1>3 DEF OnChain
  <2>4. temp = {toApply[i] : i \in 1..Len(toApply)}
        /\ \A i, j \in 1..Len(toApply) : i < j => toApply[i].height < toApply[j].height
    BY <2>0, <1>1 DEF IsTableInOrder
  <2>5. \A i \in 1..Len(toApply) : toApply[i] \in temp /\ toApply[i].height \in Nat
    BY <2>4, <1>0, StoreTyped, BlockTyped
  <2>6. head = toApply[1] /\ \A i \in 1..Len(toApply) : i # 1 => head.height < toApply[i].height
    BY <2>4, <1>1, <1>h
  <2>7. temp' = {b \in temp : b.height # head.height}
    BY <1>3 DEF Store!RemoveTemp
  <2>8. \A c \in temp' : head.height < c.height
    BY <2>4, <2>6, <2>7
  <2>9. ASSUME NEW b \in temp PROVE b \in temp' \/ b = head
    <3>1. PICK i \in 1..Len(toApply) : b = toApply[i]
      BY <2>4
    <3>2. i # 1 => b.height # head.height
      BY <2>5, <2>6, <3>1, <1>1
    <3> QED BY <2>6, <2>7, <3>1, <3>2
  <2>10. IsTableInOrder(toApply)'
    <3>1. DOMAIN toApply' = 1..(Len(toApply) - 1)
          /\ \A i \in 1..(Len(toApply) - 1) :
               i + 1 \in 1..Len(toApply) /\ i + 1 # 1 /\ toApply'[i] = toApply[i + 1]
      BY <2>0, <1>1
    <3>2. ASSUME NEW i \in 1..(Len(toApply) - 1) PROVE toApply'[i] \in temp'
      BY <3>1, <2>5, <2>6, <2>7
    <3>3. ASSUME NEW b \in temp' PROVE \E i \in 1..(Len(toApply) - 1) : b = toApply'[i]
      <4>1. b \in temp /\ b # head
        BY <2>7
      <4>2. PICK k \in 1..Len(toApply) : b = toApply[k]
        BY <2>4, <4>1
      <4>3. k # 1
        BY <4>1, <4>2, <2>6
      <4>4. k - 1 \in 1..(Len(toApply) - 1) /\ k - 1 + 1 = k
        BY <4>3, <1>1
      <4> QED BY <4>2, <4>4, <3>1
    <3>4. ASSUME NEW i \in 1..(Len(toApply) - 1), NEW j \in 1..(Len(toApply) - 1), i < j
          PROVE  toApply'[i].height < toApply'[j].height
      <4>1. i + 1 < j + 1
        BY <3>4, <1>1
      <4> QED BY <4>1, <3>1, <2>4
    <3> QED BY <3>1, <3>2, <3>3, <3>4 DEF IsTableInOrder
  <2>11. ASSUME NEW b \in Branch[oldTip], b \notin temp'
         PROVE  OnChain(b)' /\ \A c \in temp' : b.height < c.height
    <3>1. CASE b = head
      BY <3>1, <2>3, <2>8
    <3>2. CASE b # head
      BY <3>2, <2>0, <2>2, <2>7, <2>9, <2>11 DEF OldTipKept
    <3> QED BY <3>1, <3>2
  <2>12. temp' \subseteq Branch[oldTip]
    BY <2>0, <2>7 DEF OldTipKept
  <2> QED BY <2>0, <2>10, <2>11, <2>12 DEF OldTipKept
<1> QED BY <1>3, <1>4, <1>5, <1>6 DEF IInv, RestoreNext

\* A run that ends with the store as it is.
LEMMA RunEndsOK ==
  ASSUME IInv, AbortRun \/ RevertRefused \/ PeerSilent
  PROVE  IInv'
<1>1. EndRun /\ UNCHANGED <<storeVars, queued, stopping, crashes>>
  BY DEF AbortRun, RevertRefused, PeerSilent
<1>2. StoreOK'
  BY <1>1, SameStore DEF IInv
<1> QED BY <1>1, <1>2, EndRunKeeps

LEMMA UndoRefusedOK ==
  ASSUME IInv, UndoRefused
  PROVE  IInv'
  BY GiveUpKeeps DEF UndoRefused

LEMMA RestoreFailsOK ==
  ASSUME IInv, RestoreFails
  PROVE  IInv'
  BY GiveUpKeeps DEF RestoreFails

\* Everything is restored: the old tip is on the chain.
LEMMA RestoreDoneOK ==
  ASSUME IInv, RestoreDone
  PROVE  IInv'
<1>1. StoreOK' /\ Tip' = Tip
  BY SameStore DEF IInv, RestoreDone
<1>2. CASE EndRun
  BY <1>1, <1>2, EndRunKeeps DEF RestoreDone
<1>3. CASE pc' = "clear" /\ mechanism # "startup" /\ UNCHANGED <<runVars, toApply, oldTip>>
  <2>0. /\ pc = "restore" /\ toApply = <<>>
        /\ UNCHANGED <<storeVars, queued, stopping, crashes>>
    BY DEF RestoreDone
  <2>1. TypeOK'
    <3>1. Store!TypeOK'
      BY <1>1 DEF StoreOK
    <3> QED BY <3>1, <1>3, <2>0 DEF IInv, TypeOK, runVars
  <2>2. RunOK'
    BY <1>3, <2>0 DEF IInv, RunOK, runVars
  <2>3. ASSUME oldTip # None PROVE OldTipKept'
    <3>1. temp = {}
      BY <2>0, <2>3 DEF IInv, OldTipKept, IsTableInOrder
    <3>2. ~Preferred(oldTip, Tip)
      BY <2>3, <3>1, OldTipOutrankedByTip
    <3> QED BY <1>1, <1>3, <2>0, <2>3, <3>2
            DEF IInv, OldTipKept, storeVars, runVars, OnChain
  <2> QED BY <1>1, <1>3, <2>1, <2>2, <2>3 DEF IInv
<1> QED BY <1>2, <1>3 DEF RestoreDone

LEMMA StopOK ==
  ASSUME IInv, Stop
  PROVE  IInv'
<1>1. StoreOK' /\ Tip' = Tip
  BY SameStore DEF IInv, Stop
<1>2. TypeOK'
  <2>1. Store!TypeOK'
    BY <1>1 DEF StoreOK
  <2> QED BY <2>1 DEF IInv, TypeOK, Stop, runVars
<1>3. RunOK'
  BY DEF IInv, RunOK, Stop, runVars, storeVars
<1>4. oldTip # None => OldTipKept'
  BY <1>1 DEF IInv, OldTipKept, Stop, storeVars, runVars, OnChain, IsTableInOrder
<1> QED BY <1>1, <1>2, <1>3, <1>4 DEF IInv, Stop

\* After a restart only the chain and the table are left.
LEMMA RestartOK ==
  ASSUME IInv, Restart
  PROVE  IInv'
<1>1. StoreOK' /\ Tip' = Tip
  BY SameStore DEF IInv, Restart
<1>2. TypeOK'
  <2>1. Store!TypeOK'
    BY <1>1 DEF StoreOK
  <2>2. queued' \in Seq(Block) /\ Len(queued') <= MaxQueued /\ toApply' \in Seq(Block)
    BY BoundsTyped DEF Restart
  <2>3. crashes' \in 0..MaxCrashes
    BY BoundsTyped DEF Restart, IInv, TypeOK
  <2> QED BY <2>1, <2>2, <2>3 DEF IInv, TypeOK, Restart, Forget
<1>3. RunOK'
  BY DEF IInv, RunOK, Restart, Forget, storeVars
<1>4. oldTip' # None => OldTipKept'
  BY DEF IInv, OldTipKept, Restart, storeVars, OnChain
<1> QED BY <1>1, <1>2, <1>3, <1>4 DEF IInv

\* The recovery goes back to just below the table.
LEMMA StartupOK ==
  ASSUME IInv, Startup
  PROVE  IInv'
<1>0. temp # {} /\ StoreOK
  BY DEF IInv, RunOK, Startup
<1>1. CASE Store!ClearTemp /\ EndRun
  BY <1>0, <1>1, ClearKeeps, EndRunKeeps DEF Startup
<1>2. CASE /\ pc' = "undo" /\ common' = LowestTemp.height - 1
           /\ UNCHANGED <<storeVars, mechanism, target, peerTip, lastFetched, toApply, oldTip>>
  <2>0. pc = "startup" /\ UNCHANGED <<queued, stopping, crashes>>
    BY DEF Startup
  <2>1. StoreOK' /\ Tip' = Tip
    BY <1>0, <1>2, SameStore
  <2>2. LowestTemp \in Block /\ \A c \in temp : LowestTemp.height <= c.height
    BY <1>0, LowestTempIs, StoreTyped
  <2>3. common' \in Nat
    BY <1>2, <2>2, BlockTyped
  <2>4. TypeOK'
    <3>1. Store!TypeOK'
      BY <2>1 DEF StoreOK
    <3> QED BY <3>1, <1>2, <2>0, <2>3 DEF IInv, TypeOK
  <2>5. RunOK'
    BY <1>2, <2>0 DEF IInv, RunOK
  <2>6. ASSUME oldTip # None PROVE OldTipKept'
    <3>1. OldTipKept /\ oldTip \in Block
      BY <2>6 DEF IInv, TypeOK
    <3>2. LowestTemp \in temp
      BY <1>0, LowestTempIs
    <3>3. ASSUME NEW b \in Branch[oldTip], b \notin temp PROVE b.height <= common'
      <4>1. b.height < LowestTemp.height
        BY <3>1, <3>2, <3>3 DEF OldTipKept
      <4>2. b \in Block
        BY <3>1, BranchClosed
      <4> QED BY <4>1, <4>2, <1>2, <2>2, BlockTyped
    <3>4. temp' = temp /\ chain' = chain /\ oldTip' = oldTip /\ pc' = "undo"
      BY <1>2 DEF storeVars
    <3> QED BY <3>1, <3>3, <3>4 DEF OldTipKept, OnChain
  <2> QED BY <1>2, <2>1, <2>4, <2>5, <2>6 DEF IInv
<1> QED BY <1>1, <1>2 DEF Startup

LEMMA StepIInv == IInv /\ [Next]_vars => IInv'
<1> SUFFICES ASSUME IInv, [Next]_vars PROVE IInv'
  OBVIOUS
<1>1. CASE UNCHANGED vars
  <2>1. StoreOK'
    BY <1>1, SameStore DEF IInv, vars, storeVars
  <2>2. TypeOK'
    <3>1. Store!TypeOK'
      BY <2>1 DEF StoreOK
    <3> QED BY <3>1, <1>1 DEF IInv, TypeOK, vars
  <2>3. RunOK'
    BY <1>1 DEF IInv, RunOK, vars
  <2>4. oldTip # None => OldTipKept'
    <3>1. Tip' = Tip
      BY <1>1 DEF vars, Tip, Store!Tip
    <3> QED BY <1>1, <3>1 DEF IInv, OldTipKept, vars, OnChain, IsTableInOrder
  <2> QED BY <1>1, <2>1, <2>2, <2>3, <2>4 DEF IInv, vars
<1>2. ASSUME NEW block \in Block, ReceiveBlock(block) PROVE IInv'
  BY <1>2, ReceiveBlockOK
<1>3. CASE ProcessorStep
  BY <1>3, ProcessValidOK, ProcessOtherOK DEF ProcessorStep
<1>4. CASE RunStep
  BY <1>4, RunEndsOK, StartBlockSyncOK, StartFastSwitchOK, RevertOK, RevertDoneOK,
     FetchOK, ApplyNextOK, ApplyFailsOK, ApplyStoppedOK, ApplyDoneOK, ClearTableOK,
     HandleFailureOK, UndoOK, UndoRefusedOK, UndoDoneOK, RestoreNextOK,
     RestoreFailsOK, RestoreDoneOK, StartupOK DEF RunStep
<1>5. CASE Stop \/ Restart
  BY <1>5, StopOK, RestartOK
<1> QED BY <1>1, <1>2, <1>3, <1>4, <1>5 DEF Next

\* The store, where a run stands, and the old chain fit together in every
\* state: the chain is linked and typed, its blocks claim no lower
\* maxHeightPrevoted than those below, the table has one block for a height,
\* and OldTipKept describes the old chain (storeVars of the processor and the
\* local variables of the mechanisms).
THEOREM Invariance == Spec => []IInv
<1>1. Init => IInv
  BY InitIInv
<1>2. IInv /\ [Next]_vars => IInv'
  BY StepIInv
<1> QED BY <1>1, <1>2, PTL DEF Spec

\* The variables of a run have their types, whatever is received, and wherever
\* the node stops.
THEOREM TypesHold == Spec => []TypeOK
<1>1. IInv => TypeOK
  BY DEF IInv
<1> QED BY <1>1, Invariance, PTL

\* A node that left its chain can rebuild it from the chain and the table of
\* temporary blocks until the run or the recovery on startup ends
\* (deleteBlocksAfterHeight, restoreBlocks, restoreBlocksUponStartup).
THEOREM OldChainStaysRecoverable == Spec => []OldChainRecoverable
<1>1. IInv => OldChainRecoverable
  BY DEF IInv, OldTipKept, OldChainRecoverable, OnChain
<1> QED BY <1>1, Invariance, PTL

-----------------------------------------------------------------------------
(* What the steps do to the store, and how a run ends.                     *)

\* One job of the processor is one step of the store.
LEMMA StoreStep == IInv /\ [Next]_vars => [Store!Next]_<<chain, finalized, temp>>
<1> SUFFICES ASSUME IInv, [Next]_vars PROVE [Store!Next]_<<chain, finalized, temp>>
  OBVIOUS
<1>1. ASSUME NEW block \in Block, NEW fromTemp \in BOOLEAN, Apply(block, fromTemp)
      PROVE  Store!Next
  <2> DEFINE f == IF block.precommitted > finalized THEN block.precommitted ELSE finalized
  <2>1. f \in Nat /\ f <= Len(chain) /\ Len(chain) \in Nat
    BY <1>1, BlockTyped, StoreTyped DEF Apply, Store!Append1, IInv
  <2>2. f \in 0..Len(chain)
    BY <2>1
  <2> QED BY <1>1, <2>2 DEF Apply, Store!Next
<1>2. ASSUME NEW s \in Seq(Block), s # <<>> PROVE Head(s) \in Block
  BY <1>2
<1>3. CASE ProcessValid \/ ApplyNext \/ RestoreNext
  BY <1>1, <1>2, <1>3 DEF ProcessValid, ApplyNext, RestoreNext, IInv, TypeOK
<1>4. CASE Revert \/ Undo
  <2>1. \E backup \in BOOLEAN : Store!RemoveTip(backup)
    BY <1>4 DEF Revert, Undo, BackupOnRevert
  <2> QED BY <2>1 DEF Store!Next
<1>5. CASE Store!ClearTemp
  BY <1>5 DEF Store!Next
<1>6. CASE UNCHANGED storeVars
  BY <1>6 DEF storeVars
<1>7. \/ ProcessValid \/ ApplyNext \/ RestoreNext \/ Revert \/ Undo
      \/ Store!ClearTemp \/ UNCHANGED storeVars
  BY DEF Next, vars, ProcessorStep, RunStep, ReceiveBlock, ProcessOther,
     AbortRun, StartBlockSync, StartFastSwitch, Begin, RevertRefused, RevertDone,
     Fetch, PeerSilent, ApplyFails, ApplyStopped, ApplyDone, ClearTable,
     HandleFailure, UndoRefused, UndoDone, RestoreFails, RestoreDone, Startup,
     Stop, Restart, storeVars
<1> QED BY <1>3, <1>4, <1>5, <1>6, <1>7

LEMMA InitStore == Init => Store!Init
  BY DEF Init

\* The synchronizer changes the chain on disk only as the store may change:
\* the abstract chain store is implemented, the tables of blocks and of
\* temporary blocks taken together.
THEOREM ImplementsStore == Spec => Store!Spec
<1>1. Init => Store!Init
  BY InitStore
<1>2. IInv /\ [Next]_vars => [Store!Next]_<<chain, finalized, temp>>
  BY StoreStep
<1> QED BY <1>1, <1>2, Invariance, PTL DEF Spec, Store!Spec, Store!vars

FinalizedKept ==
  /\ finalized <= finalized'
  /\ finalized <= Len(chain')
  /\ \A h \in 1..finalized : chain'[h] = chain[h]

LEMMA StoreKeepsFinalized ==
  ASSUME StoreOK, [Store!Next]_<<chain, finalized, temp>>
  PROVE  FinalizedKept
<1>0. finalized \in Nat /\ Len(chain) \in Nat /\ finalized <= Len(chain) /\ chain \in Seq(Block)
  BY StoreTyped
<1>1. CASE chain' = chain /\ finalized' = finalized
  BY <1>0, <1>1 DEF FinalizedKept
<1>2. ASSUME NEW block \in Block, NEW f \in 0..Len(chain), NEW fromTemp \in BOOLEAN,
             Store!Append1(block, f, fromTemp)
      PROVE  FinalizedKept
  <2>1. chain' = Append(chain, block) /\ finalized <= finalized'
    BY <1>2 DEF Store!Append1
  <2>2. Len(chain') = Len(chain) + 1 /\ \A h \in 1..Len(chain) : chain'[h] = chain[h]
    BY <1>0, <2>1
  <2> QED BY <1>0, <2>1, <2>2 DEF FinalizedKept
<1>3. ASSUME NEW backup \in BOOLEAN, Store!RemoveTip(backup)
      PROVE  FinalizedKept
  <2>1. Len(chain) > finalized /\ finalized' = finalized
    BY <1>3 DEF Store!RemoveTip, Store!CanRemoveTip
  <2>2. Len(chain') = Len(chain) - 1 /\ \A h \in 1..(Len(chain) - 1) : chain'[h] = chain[h]
    BY <1>3, RemovalKeeps
  <2>3. finalized <= Len(chain') /\ \A h \in 1..finalized : h \in 1..(Len(chain) - 1)
    BY <1>0, <2>1, <2>2
  <2> QED BY <1>0, <2>1, <2>2, <2>3 DEF FinalizedKept
<1>4. CASE Store!ClearTemp
  BY <1>1, <1>4 DEF Store!ClearTemp
<1> QED BY <1>1, <1>2, <1>3, <1>4 DEF Store!Next

\* Reverting, applying, undoing and restoring in any order, with blocks of the
\* processor between the steps and restarts anywhere: no finalized block leaves
\* the chain and the finalized height does not fall.
THEOREM FinalizedStays == Spec => FinalizedForever
<1>1. IInv /\ [Next]_vars => [FinalizedKept]_<<chain, finalized, temp>>
  BY StoreStep, StoreKeepsFinalized DEF IInv
<1> QED BY <1>1, Invariance, PTL DEF Spec, FinalizedForever, Store!FinalizedForever,
           FinalizedKept, Store!vars

TipKeptRank ==
  /\ pc # "idle" /\ pc' = "idle" /\ oldTip # None /\ temp' = {}
  /\ mechanism # "fast" /\ ~stopping
  /\ mechanism = "block" => Preferred(target, oldTip)
  => ~Preferred(oldTip, Tip')

LEMMA EndKeepsRank ==
  ASSUME IInv, Next, pc # "idle", pc' = "idle", oldTip # None, temp' = {},
         mechanism # "fast", ~stopping,
         mechanism = "block" => Preferred(target, oldTip)
  PROVE  ~Preferred(oldTip, Tip')
<1>0. StoreOK /\ oldTip \in Block /\ OldTipKept
  BY DEF IInv, TypeOK
<1>1. CASE UNCHANGED storeVars
  <2>1. temp = {} /\ Tip' = Tip
    BY <1>0, <1>1, SameStore DEF storeVars
  <2> QED BY <2>1, OldTipOutrankedByTip
<1>2. CASE ClearTable
  <2>1. Tip' = Tip
    BY <1>0, <1>2, ClearKeeps DEF ClearTable
  <2>2. pc = "clear" /\ mechanism = "block"
    BY <1>2 DEF ClearTable, IInv, TypeOK, RunOK
  <2> QED BY <1>0, <2>1, <2>2 DEF OldTipKept
<1>3. CASE Startup /\ Store!ClearTemp
  <2>1. Tip' = Tip
    BY <1>0, <1>3, ClearKeeps
  <2>2. temp # {}
    BY <1>3 DEF IInv, RunOK, Startup
  <2>3. HighestTemp = oldTip
    BY <2>2, HighestTempIsOldTip
  <2>4. StatusAgainst(Tip, HighestTemp) # "DIFFERENT_CHAIN"
    BY <1>3 DEF Startup, EndRun
  <2> QED BY <2>1, <2>3, <2>4 DEF Preferred
<1>4. UNCHANGED storeVars \/ ClearTable \/ (Startup /\ Store!ClearTemp)
  BY DEF Next, ProcessorStep, ProcessValid, RunStep, ReceiveBlock, ProcessOther,
     AbortRun, StartBlockSync, StartFastSwitch, Begin, Revert, RevertRefused, RevertDone,
     Fetch, PeerSilent, ApplyNext, ApplyFails, ApplyStopped, ApplyDone, 
     HandleFailure, Undo, UndoRefused, UndoDone, RestoreNext, RestoreFails, RestoreDone,
     Startup, Stop, Restart, storeVars, runVars, OnFailure
<1> QED BY <1>1, <1>2, <1>3, <1>4

\* A block synchronization asked for by a block that outranks the old tip, and
\* a recovery on startup, that end with an empty table leave a tip the old one
\* does not outrank: the block that asked for the run, a chain that had
\* preference when a block failed, or the old chain itself.
THEOREM TipNotWorse == Spec => RecoveredTipNotWorse
<1>1. ASSUME IInv, [Next]_vars PROVE [TipKeptRank]_vars
  BY <1>1, EndKeepsRank DEF TipKeptRank
<1> QED BY <1>1, Invariance, PTL DEF Spec, RecoveredTipNotWorse, TipKeptRank

-----------------------------------------------------------------------------
(***************************************************************************)
(* MisbehaviorPlugin, for any headers, any number of handlers, clearings   *)
(* and restarts. A header whose handler has written it is saved from then  *)
(* on, or has been overwritten, or was cleared, and only those below the   *)
(* window are: WatchOK. So the handler that comes second finds the other   *)
(* header, whichever of the two it is.                                     *)
(***************************************************************************)

Watch == [pc : {"read", "write", "scan", "report"}, header : PeerHeader,
          list : SUBSET PeerHeader]

BelowWindow(h) == h.height < top - Window

Accounted(h) == h \in saved \/ h \in replaced \/ BelowWindow(h)

WatchTypes ==
  /\ saved \subseteq PeerHeader /\ handled \subseteq PeerHeader
  /\ watches \in Seq(Watch)
  /\ current \in Nat /\ top \in Nat /\ current <= top

ScansAccounted ==
  \A h \in PeerHeader :
    (\E i \in DOMAIN watches : watches[i].pc = "scan" /\ watches[i].header = h)
      => Accounted(h)

WatchOK ==
  /\ WatchTypes
  /\ \A key \in expired : key[2] \in Nat /\ key[2] < top - Window
  /\ \A h \in handled : h.height <= top /\ Accounted(h)
  /\ ScansAccounted
  /\ ContradictionsFound

LEMMA ContradictingEitherWay ==
  ASSUME NEW a \in PeerHeader, NEW b \in PeerHeader
  PROVE  Ledger!Contradicting(a, b) <=> Ledger!Contradicting(b, a)
<1>1. /\ a.height \in Nat /\ a.mhpf \in Nat /\ a.mhp \in Nat
      /\ b.height \in Nat /\ b.mhpf \in Nat /\ b.mhp \in Nat
  BY MisbehaviorAssumption
<1> QED  BY <1>1 DEF Ledger!Contradicting, Ledger!SignedBefore, Ledger!BreaksSigningRules

LEMMA HeaderHeight ==
  ASSUME NEW h \in PeerHeader
  PROVE  h.height \in Nat /\ Window \in Nat
BY MisbehaviorAssumption

LEMMA StillBelow ==
  ASSUME NEW t \in Nat, NEW u \in Nat, t <= u, NEW w \in Nat, NEW h \in Nat
  PROVE  /\ h < t - w => h < u - w
         /\ h \in u - w .. u /\ h <= t => h \in t - w .. t
         /\ h \in u - w .. u => ~(h < t - w)
OBVIOUS

LEMMA HigherThanBoth ==
  ASSUME NEW m \in Nat, NEW n \in Nat, NEW h \in Nat, m <= n
  PROVE  /\ Higher(m, h) \in Nat /\ Higher(n, h) \in Nat
         /\ Higher(m, h) <= Higher(n, h) /\ n <= Higher(n, h) /\ h <= Higher(n, h)
BY DEF Higher

LEMMA Removed ==
  ASSUME NEW S, NEW s \in Seq(S), NEW i \in DOMAIN s
  PROVE  /\ RemoveAt(s, i) \in Seq(S)
         /\ \A j \in DOMAIN RemoveAt(s, i) : \E k \in DOMAIN s : RemoveAt(s, i)[j] = s[k]
<1>1. i \in 1..Len(s) /\ Len(s) \in Nat
  OBVIOUS
<1>2. /\ SubSeq(s, 1, i-1) \in Seq(S) /\ Len(SubSeq(s, 1, i-1)) = i - 1
      /\ \A j \in 1..i-1 : SubSeq(s, 1, i-1)[j] = s[j]
  BY <1>1, SubSeqProperties
<1>3. /\ SubSeq(s, i+1, Len(s)) \in Seq(S) /\ Len(SubSeq(s, i+1, Len(s))) = Len(s) - i
      /\ \A j \in 1..Len(s) - i : SubSeq(s, i+1, Len(s))[j] = s[i + j]
  BY <1>1, SubSeqProperties
<1>4. ASSUME NEW front \in Seq(S), NEW back \in Seq(S),
             \A j \in DOMAIN front : \E k \in DOMAIN s : front[j] = s[k],
             \A j \in DOMAIN back : \E k \in DOMAIN s : back[j] = s[k]
      PROVE  \A j \in DOMAIN (front \o back) : \E k \in DOMAIN s : (front \o back)[j] = s[k]
  <2> SUFFICES ASSUME NEW j \in DOMAIN (front \o back)
               PROVE  \E k \in DOMAIN s : (front \o back)[j] = s[k]
    OBVIOUS
  <2>1. CASE j \in DOMAIN front
    BY <2>1, <1>4
  <2>2. CASE j \notin DOMAIN front
    <3>1. j - Len(front) \in DOMAIN back /\ (front \o back)[j] = back[j - Len(front)]
      BY <2>2
    <3> QED  BY <3>1, <1>4
  <2> QED  BY <2>1, <2>2
<1>5. \A j \in DOMAIN SubSeq(s, 1, i-1) : \E k \in DOMAIN s : SubSeq(s, 1, i-1)[j] = s[k]
  BY <1>1, <1>2
<1>6. ASSUME NEW j \in DOMAIN SubSeq(s, i+1, Len(s))
      PROVE  \E k \in DOMAIN s : SubSeq(s, i+1, Len(s))[j] = s[k]
  <2>1. j \in 1..Len(s) - i /\ i + j \in DOMAIN s
    BY <1>1, <1>3
  <2> QED  BY <2>1, <1>3
<1>7. RemoveAt(s, i) \in Seq(S)
  BY <1>2, <1>3 DEF RemoveAt
<1> QED  BY <1>2, <1>3, <1>4, <1>5, <1>6, <1>7 DEF RemoveAt

\* Steps that leave the headers accounted for alone.
LEMMA WatchKept ==
  ASSUME WatchOK, watches' \in Seq(Watch),
         \A i \in DOMAIN watches' :
           watches'[i].pc = "scan" => \E j \in DOMAIN watches : watches'[i] = watches[j],
         UNCHANGED <<saved, current, expired, handled, found, top, replaced>>
  PROVE  WatchOK'
<1>1. WatchTypes'
  BY DEF WatchOK, WatchTypes
<1>2. \A h : Accounted(h)' <=> Accounted(h)
  BY DEF Accounted, BelowWindow
<1>3. \A h \in handled' : h.height <= top' /\ Accounted(h)'
  BY <1>2 DEF WatchOK
<1>4. ScansAccounted'
  BY <1>2 DEF WatchOK, ScansAccounted
<1>5. ContradictionsFound'
  <2>1. \A a, b : Contradict(a, b)' <=> Contradict(a, b)
    BY DEF Contradict, Ledger!Contradicting, Ledger!SignedBefore, Ledger!BreaksSigningRules
  <2> QED  BY <2>1 DEF WatchOK, ContradictionsFound
<1>6. \A key \in expired' : key[2] \in Nat /\ key[2] < top' - Window
  BY DEF WatchOK
<1> QED  BY <1>1, <1>3, <1>4, <1>5, <1>6 DEF WatchOK

LEMMA WatchEntry ==
  ASSUME watches \in Seq(Watch), NEW i \in DOMAIN watches
  PROVE  watches[i] \in Watch
OBVIOUS

LEMMA HeaderOfWatch ==
  ASSUME NEW w \in Watch
  PROVE  w.header \in PeerHeader /\ w.list \subseteq PeerHeader
BY DEF Watch

\* One watch moves on, and the others stay as they are.
LEMMA WatchMoves ==
  ASSUME NEW ws \in Seq(Watch), NEW i \in DOMAIN ws, NEW w \in Watch
  PROVE  /\ [ws EXCEPT ![i] = w] \in Seq(Watch)
         /\ DOMAIN [ws EXCEPT ![i] = w] = DOMAIN ws
         /\ [ws EXCEPT ![i] = w][i] = w
         /\ \A j \in DOMAIN ws \ {i} : [ws EXCEPT ![i] = w][j] = ws[j]
<1>1. [ws EXCEPT ![i] = w] \in [1..Len(ws) -> Watch] /\ Len(ws) \in Nat
  OBVIOUS
<1> QED  BY <1>1

LEMMA WatchWith ==
  ASSUME watches \in Seq(Watch), NEW i \in DOMAIN watches,
         NEW list \in SUBSET PeerHeader,
         NEW pc2 \in {"read", "write", "scan", "report"},
         watches' = [watches EXCEPT ![i].pc = pc2, ![i].list = list]
  PROVE  /\ watches' \in Seq(Watch) /\ DOMAIN watches' = DOMAIN watches
         /\ watches'[i].header = watches[i].header /\ watches'[i].pc = pc2
         /\ \A j \in DOMAIN watches \ {i} : watches'[j] = watches[j]
<1> DEFINE w == [watches[i] EXCEPT !.pc = pc2, !.list = list]
<1>1. watches[i] \in Watch
  OBVIOUS
<1>2. w \in Watch /\ w.header = watches[i].header /\ w.pc = pc2
  BY <1>1 DEF Watch
<1>3. watches' = [watches EXCEPT ![i] = w]
  OBVIOUS
<1> HIDE DEF w
<1>4. /\ watches' \in Seq(Watch) /\ DOMAIN watches' = DOMAIN watches
      /\ watches'[i] = w
      /\ \A j \in DOMAIN watches \ {i} : watches'[j] = watches[j]
  <2>1. /\ [watches EXCEPT ![i] = w] \in Seq(Watch)
        /\ DOMAIN [watches EXCEPT ![i] = w] = DOMAIN watches
        /\ [watches EXCEPT ![i] = w][i] = w
        /\ \A j \in DOMAIN watches \ {i} : [watches EXCEPT ![i] = w][j] = watches[j]
    BY <1>2, WatchMoves
  <2> QED  BY <1>3, <2>1
<1> QED  BY <1>2, <1>4

LEMMA WatchScans ==
  ASSUME NEW w \in Watch
  PROVE  [w EXCEPT !.pc = "scan"] \in Watch /\ [w EXCEPT !.pc = "scan"].header = w.header
BY DEF Watch

LEMMA WatchesMove ==
  ASSUME WatchOK,
         \/ \E header \in PeerHeader : Receive(header)
         \/ \E i \in DOMAIN watches : ReadList(i) \/ Report(i)
         \/ \E enable \in BOOLEAN : Authorize(enable)
  PROVE  WatchOK'
<1>0. watches \in Seq(Watch)
  BY DEF WatchOK, WatchTypes
<1>1. ASSUME NEW header \in PeerHeader, Receive(header) PROVE WatchOK'
  <2>1. watches' = Append(watches, [pc |-> "read", header |-> header, list |-> {}])
    BY <1>1 DEF Receive
  <2>2. [pc |-> "read", header |-> header, list |-> {}] \in Watch
    BY DEF Watch
  <2>3. watches' \in Seq(Watch)
    BY <1>0, <2>1, <2>2
  <2>4. \A i \in DOMAIN watches' : (i \in DOMAIN watches /\ watches'[i] = watches[i])
                                   \/ watches'[i].pc = "read"
    BY <1>0, <2>1
  <2> QED  BY <1>1, <2>3, <2>4, WatchKept DEF Receive
<1>2. ASSUME NEW i \in DOMAIN watches, ReadList(i), watches' # RemoveAt(watches, i)
      PROVE  WatchOK'
  <2> DEFINE list == ListAt(KeyOf(watches[i].header))
  <2>1. watches' = [watches EXCEPT ![i].pc = "write", ![i].list = list]
    BY <1>2 DEF ReadList
  <2>2. list \subseteq PeerHeader
    BY DEF ListAt, WatchOK, WatchTypes
  <2>3. /\ watches' \in Seq(Watch) /\ DOMAIN watches' = DOMAIN watches
        /\ watches'[i].pc = "write"
        /\ \A j \in DOMAIN watches \ {i} : watches'[j] = watches[j]
    BY <1>0, <2>1, <2>2, WatchWith
  <2>4. \A j \in DOMAIN watches' : (j \in DOMAIN watches /\ watches'[j] = watches[j])
                                   \/ watches'[j].pc = "write"
    BY <2>3
  <2> QED  BY <1>2, <2>3, <2>4, WatchKept DEF ReadList
<1>3. ASSUME NEW i \in DOMAIN watches, ReadList(i) \/ Report(i),
             watches' = RemoveAt(watches, i)
      PROVE  WatchOK'
  <2>1. /\ watches' \in Seq(Watch)
        /\ \A j \in DOMAIN watches' : \E k \in DOMAIN watches : watches'[j] = watches[k]
    BY <1>0, <1>3, Removed
  <2> QED  BY <1>3, <2>1, WatchKept DEF ReadList, Report
<1>4. ASSUME NEW enable \in BOOLEAN, Authorize(enable) PROVE WatchOK'
  BY <1>0, <1>4, WatchKept DEF Authorize
<1> QED  BY <1>1, <1>2, <1>3, <1>4 DEF Report

\* What is overwritten is remembered, and the header itself is saved.
LEMMA WriteKeeps ==
  ASSUME WatchOK, NEW i \in DOMAIN watches, WriteList(i)
  PROVE  WatchOK'
<1> DEFINE header == watches[i].header
           written == watches[i].list \cup {header}
           list == ListAt(KeyOf(header))
<1>1. /\ watches \in Seq(Watch) /\ header \in PeerHeader /\ written \subseteq PeerHeader
      /\ saved \subseteq PeerHeader
  BY WatchEntry, HeaderOfWatch DEF WatchOK, WatchTypes
<1>2. /\ saved' = (saved \ list) \cup written
      /\ replaced' = replaced \cup (list \ written)
      /\ watches' = [watches EXCEPT ![i].pc = "scan"]
      /\ UNCHANGED <<current, expired, handled, found, top>>
  BY DEF WriteList
<1>3. /\ watches' \in Seq(Watch) /\ DOMAIN watches' = DOMAIN watches
      /\ watches'[i].header = header
      /\ \A j \in DOMAIN watches \ {i} : watches'[j] = watches[j]
  <2> DEFINE w == [watches[i] EXCEPT !.pc = "scan"]
  <2>1. watches' = [watches EXCEPT ![i] = w]
    BY <1>2
  <2>2. w \in Watch /\ w.header = header
    BY <1>1, WatchEntry, WatchScans
  <2> QED  BY <1>1, <2>1, <2>2, WatchMoves
<1>4. \A h : Accounted(h) => Accounted(h)'
  BY <1>2 DEF Accounted, BelowWindow
<1>5. \A h : h = header => Accounted(h)'
  BY <1>2 DEF Accounted
<1>6. WatchTypes'
  BY <1>1, <1>2, <1>3 DEF WatchOK, WatchTypes
<1>7. ScansAccounted'
  <2>1. \A j \in DOMAIN watches' :
          /\ j \in DOMAIN watches /\ watches'[j].header = watches[j].header
          /\ watches'[j].pc = "scan" => watches[j].pc = "scan" \/ watches'[j].header = header
    BY <1>3
  <2> QED  BY <2>1, <1>4, <1>5 DEF WatchOK, ScansAccounted
<1>8. \A h \in handled' : h.height <= top' /\ Accounted(h)'
  BY <1>2, <1>4 DEF WatchOK
<1>9. ContradictionsFound'
  <2>1. \A a, b : Contradict(a, b)' <=> Contradict(a, b)
    BY <1>2 DEF Contradict, Ledger!Contradicting, Ledger!SignedBefore,
                Ledger!BreaksSigningRules
  <2> QED  BY <2>1, <1>2 DEF WatchOK, ContradictionsFound
<1>10. \A key \in expired' : key[2] \in Nat /\ key[2] < top' - Window
  BY <1>2 DEF WatchOK
<1> QED  BY <1>6, <1>7, <1>8, <1>9, <1>10 DEF WatchOK

LEMMA TopGrows ==
  ASSUME WatchOK, top' \in Nat, top <= top', UNCHANGED <<saved, replaced>>
  PROVE  \A h \in PeerHeader : Accounted(h) => Accounted(h)'
<1> SUFFICES ASSUME NEW h \in PeerHeader, Accounted(h) PROVE Accounted(h)'
  OBVIOUS
<1>1. BelowWindow(h) => BelowWindow(h)'
  BY HeaderHeight, StillBelow DEF BelowWindow, WatchOK, WatchTypes
<1> QED  BY <1>1 DEF Accounted

\* The second handler of two finds the header of the first.
LEMMA ScanKeeps ==
  ASSUME WatchOK, NEW i \in DOMAIN watches, Scan(i)
  PROVE  WatchOK'
<1> DEFINE header == watches[i].header
<1>1. /\ watches \in Seq(Watch) /\ header \in PeerHeader /\ watches[i].pc = "scan"
      /\ header.height \in Nat /\ current \in Nat /\ top \in Nat /\ current <= top
      /\ handled \subseteq PeerHeader
  BY WatchEntry, HeaderOfWatch, HeaderHeight DEF WatchOK, WatchTypes, Scan
<1>2. /\ current' = Higher(current, header.height)
      /\ top' = Higher(top, header.height)
      /\ handled' = handled \cup {header}
      /\ UNCHANGED <<saved, expired, replaced>>
      /\ \/ watches' = RemoveAt(watches, i)
         \/ \E other \in ContradictingHeaders(header) :
              watches' = [watches EXCEPT ![i].pc = "report", ![i].list = {other}]
      /\ found' = IF ContradictingHeaders(header) = {} THEN found
                  ELSE found \cup {header.gen}
  BY DEF Scan
<1>3. /\ top' \in Nat /\ current' \in Nat /\ current' <= top'
      /\ top <= top' /\ header.height <= top'
  BY <1>1, <1>2, HigherThanBoth
<1>4. \A h \in PeerHeader : Accounted(h) => Accounted(h)'
  BY <1>2, <1>3, TopGrows
<1>5. Accounted(header)
  BY <1>1 DEF WatchOK, ScansAccounted
<1>6. /\ watches' \in Seq(Watch)
      /\ \A j \in DOMAIN watches' :
           watches'[j].pc = "scan" => \E k \in DOMAIN watches : watches'[j] = watches[k]
  <2>1. CASE watches' = RemoveAt(watches, i)
    BY <1>1, <2>1, Removed
  <2>2. ASSUME NEW other \in ContradictingHeaders(header),
               watches' = [watches EXCEPT ![i].pc = "report", ![i].list = {other}]
        PROVE  /\ watches' \in Seq(Watch)
               /\ \A j \in DOMAIN watches' : watches'[j].pc = "scan" =>
                    j \in DOMAIN watches /\ watches'[j] = watches[j]
    <3>1. other \in PeerHeader
      BY DEF ContradictingHeaders, WatchOK, WatchTypes
    <3>2. {other} \in SUBSET PeerHeader
      BY <3>1
    <3> QED  BY <1>1, <2>2, <3>2, WatchWith
  <2> QED  BY <1>2, <2>1, <2>2
<1>7. WatchTypes'
  BY <1>1, <1>2, <1>3, <1>6 DEF WatchOK, WatchTypes
<1>8. ScansAccounted'
  BY <1>4, <1>6 DEF WatchOK, ScansAccounted
<1>9. \A h \in handled' : h.height <= top' /\ Accounted(h)'
  <2>1. \A h \in handled : h \in PeerHeader /\ h.height \in Nat /\ h.height <= top
    BY <1>1, HeaderHeight DEF WatchOK
  <2>2. \A h \in handled : h.height <= top'
    BY <2>1, <1>1, <1>3
  <2> QED  BY <2>1, <2>2, <1>1, <1>2, <1>3, <1>4, <1>5 DEF WatchOK
<1>10. \A key \in expired' : key[2] \in Nat /\ key[2] < top' - Window
  <2>1. Window \in Nat
    BY MisbehaviorAssumption
  <2>2. \A key \in expired : key[2] \in Nat /\ key[2] < top - Window
    BY DEF WatchOK
  <2>3. \A h \in Nat : h < top - Window => h < top' - Window
    BY <2>1, <1>1, <1>3, StillBelow
  <2> QED  BY <2>2, <2>3, <1>2
<1>11. ASSUME NEW a \in handled', NEW b \in handled', a \notin replaced, b \notin replaced,
              Contradict(a, b)'
       PROVE  a.gen \in found'
  <2>1. /\ Ledger!Contradicting(a, b) /\ Ledger!Contradicting(b, a)
        /\ a.gen = b.gen /\ a # b
        /\ a \in PeerHeader /\ b \in PeerHeader
        /\ a.height \in top' - Window .. top' /\ b.height \in top' - Window .. top'
    <3>1. a \in PeerHeader /\ b \in PeerHeader
      BY <1>1, <1>2
    <3>2. Ledger!Contradicting(a, b)
      BY <1>11 DEF Contradict, Ledger!Contradicting, Ledger!SignedBefore,
                   Ledger!BreaksSigningRules
    <3> QED  BY <3>1, <3>2, <1>11, ContradictingEitherWay
             DEF Contradict, Ledger!Contradicting
  <2>2. ASSUME NEW h \in handled, h \notin replaced, h # header,
               h.height \in top' - Window .. top', h.gen = header.gen,
               Ledger!Contradicting(header, h)
        PROVE  header.gen \in found'
    <3>1. ~BelowWindow(h)
      BY <2>2, <1>1, <1>3, HeaderHeight, StillBelow DEF BelowWindow
    <3>2. h \in saved
      BY <2>2, <3>1 DEF WatchOK, Accounted
    <3>3. h \in ContradictingHeaders(header)
      BY <2>2, <3>2 DEF ContradictingHeaders
    <3> QED  BY <3>3, <1>2
  <2>3. CASE a \in handled /\ b \in handled
    <3>1. \A h \in handled : h.height <= top
      BY DEF WatchOK
    <3>2. {a.height, b.height} \subseteq top - Window .. top
      BY <2>1, <2>3, <3>1, <1>1, <1>3, HeaderHeight, StillBelow
    <3>3. Contradict(a, b)
      BY <2>1, <3>2 DEF Contradict
    <3> QED  BY <2>3, <3>3, <1>2, <1>11 DEF WatchOK, ContradictionsFound
  <2>4. CASE a = header
    BY <2>1, <2>2, <2>4, <1>2, <1>11
  <2>5. CASE b = header
    BY <2>1, <2>2, <2>5, <1>2, <1>11
  <2> QED  BY <2>3, <2>4, <2>5, <1>2
<1>12. ContradictionsFound'
  BY <1>2, <1>11 DEF ContradictionsFound
<1> QED  BY <1>7, <1>8, <1>9, <1>10, <1>12 DEF WatchOK

\* Only what lies below the window is cleared.
LEMMA ClearingKeeps ==
  ASSUME WatchOK, CollectOld \/ DeleteOld
  PROVE  WatchOK'
<1>1. CASE CollectOld
  <2>1. UNCHANGED <<saved, watches, handled, found, top, replaced, current>>
    BY <1>1 DEF CollectOld
  <2>2. ASSUME NEW h \in saved, h.height < current - Window
        PROVE  KeyOf(h)[2] \in Nat /\ KeyOf(h)[2] < top - Window
    BY <2>2, HeaderHeight, StillBelow DEF KeyOf, WatchOK, WatchTypes
  <2>3. \A key \in expired' : key[2] \in Nat /\ key[2] < top - Window
    BY <1>1, <2>2 DEF CollectOld
  <2>4. \A h : Accounted(h)' <=> Accounted(h)
    BY <2>1 DEF Accounted, BelowWindow
  <2>5. ContradictionsFound'
    <3>1. \A a, b : Contradict(a, b)' <=> Contradict(a, b)
      BY <2>1 DEF Contradict, Ledger!Contradicting, Ledger!SignedBefore,
                  Ledger!BreaksSigningRules
    <3> QED  BY <3>1, <2>1 DEF WatchOK, ContradictionsFound
  <2>6. ScansAccounted' /\ \A h \in handled' : h.height <= top' /\ Accounted(h)'
    BY <2>1, <2>4 DEF WatchOK, ScansAccounted
  <2> QED  BY <2>1, <2>3, <2>5, <2>6 DEF WatchOK, WatchTypes
<1>2. CASE DeleteOld
  <2>1. /\ saved' = {h \in saved : KeyOf(h) \notin expired} /\ expired' = {}
        /\ UNCHANGED <<watches, handled, found, top, replaced, current>>
    BY <1>2 DEF DeleteOld
  <2>2. \A h : Accounted(h) => Accounted(h)'
    <3> SUFFICES ASSUME NEW h, h \in saved, KeyOf(h) \in expired PROVE BelowWindow(h)'
      BY <2>1 DEF Accounted, BelowWindow
    <3>1. h.height < top - Window
      BY DEF WatchOK, KeyOf
    <3> QED  BY <3>1, <2>1 DEF BelowWindow
  <2>3. ContradictionsFound'
    <3>1. \A a, b : Contradict(a, b)' <=> Contradict(a, b)
      BY <2>1 DEF Contradict, Ledger!Contradicting, Ledger!SignedBefore,
                  Ledger!BreaksSigningRules
    <3> QED  BY <3>1, <2>1 DEF WatchOK, ContradictionsFound
  <2>4. ScansAccounted' /\ \A h \in handled' : h.height <= top' /\ Accounted(h)'
    BY <2>1, <2>2 DEF WatchOK, ScansAccounted
  <2>5. WatchTypes'
    BY <2>1 DEF WatchOK, WatchTypes
  <2> QED  BY <2>1, <2>3, <2>4, <2>5 DEF WatchOK
<1> QED  BY <1>1, <1>2

LEMMA PluginRestarts ==
  ASSUME WatchOK, RestartPlugin
  PROVE  WatchOK'
<1>1. /\ current' = 0 /\ watches' = <<>> /\ expired' = {}
      /\ UNCHANGED <<saved, handled, found, top, replaced>>
  BY DEF RestartPlugin
<1>2. \A h : Accounted(h)' <=> Accounted(h)
  BY <1>1 DEF Accounted, BelowWindow
<1>3. WatchTypes'
  BY <1>1 DEF WatchOK, WatchTypes
<1>4. ContradictionsFound'
  <2>1. \A a, b : Contradict(a, b)' <=> Contradict(a, b)
    BY <1>1 DEF Contradict, Ledger!Contradicting, Ledger!SignedBefore,
                Ledger!BreaksSigningRules
  <2> QED  BY <2>1, <1>1 DEF WatchOK, ContradictionsFound
<1>5. ScansAccounted' /\ \A h \in handled' : h.height <= top' /\ Accounted(h)'
  BY <1>1, <1>2 DEF WatchOK, ScansAccounted
<1> QED  BY <1>1, <1>3, <1>4, <1>5 DEF WatchOK

\* However the handlers of the plugin interleave with each other, with clearings and
\* with restarts, for any headers and any window: of two contradicting headers that
\* were both handled, lie in the window and were not overwritten, the generator has
\* been found out.
THEOREM ContradictionsAreFound == MisbehaviorSpec => []ContradictionsFound
<1>1. MisbehaviorInit => WatchOK
  BY DEF MisbehaviorInit, WatchOK, WatchTypes, ScansAccounted, ContradictionsFound
<1>2. WatchOK /\ [MisbehaviorNext]_misbehaviorVars => WatchOK'
  <2> SUFFICES ASSUME WatchOK, [MisbehaviorNext]_misbehaviorVars PROVE WatchOK'
    OBVIOUS
  <2>1. CASE UNCHANGED misbehaviorVars
    <3>1. watches' \in Seq(Watch)
      BY <2>1 DEF WatchOK, WatchTypes, misbehaviorVars
    <3> QED  BY <2>1, <3>1, WatchKept DEF misbehaviorVars
  <2>2. CASE MisbehaviorNext
    BY <2>2, WatchesMove, WriteKeeps, ScanKeeps, ClearingKeeps, PluginRestarts
    DEF MisbehaviorNext
  <2> QED  BY <2>1, <2>2
<1>3. WatchOK => ContradictionsFound
  BY DEF WatchOK
<1> QED  BY <1>1, <1>2, <1>3, PTL DEF MisbehaviorSpec
-----------------------------------------------------------------------------
(* Sums of sequences.                                                      *)

\* The least place where something goes wrong.
LEMMA FirstPlace ==
  ASSUME NEW m \in Nat, NEW C \in SUBSET (0..m), C # {}
  PROVE  \E n \in C : n - 1 \notin C
<1>1. C \in SUBSET Nat
  OBVIOUS
<1>2. PICK n \in C : \A j \in C : n <= j
  BY <1>1, LeastNatural
<1>3. n \in Nat /\ ~(n <= n - 1)
  BY <1>1
<1> QED  BY <1>2, <1>3

IsRunning(g, s) ==
  g = [n \in 0..Len(s) |-> IF n = 0 THEN 0 ELSE g[n - 1] + s[n]]

\* The recursion of SumOf has a solution.
LEMMA RunningExists ==
  ASSUME NEW s, NEW m \in Nat
  PROVE  \E g : g = [n \in 0..m |-> IF n = 0 THEN 0 ELSE g[n - 1] + s[n]]
<1> DEFINE Solved(k) == \E g : g = [n \in 0..k |-> IF n = 0 THEN 0 ELSE g[n - 1] + s[n]]
           C == {k \in Nat : ~Solved(k)}
<1>1. ASSUME C # {} PROVE FALSE
  <2>1. PICK k \in C : \A j \in C : k <= j
    <3> HIDE DEF Solved
    <3> QED  BY <1>1, LeastNatural
  <2>2. k # 0
    <3> DEFINE g == [n \in 0..0 |-> 0]
    <3>1. g = [n \in 0..0 |-> IF n = 0 THEN 0 ELSE g[n - 1] + s[n]]
      OBVIOUS
    <3> QED  BY <2>1, <3>1
  <2>3. k - 1 \in Nat /\ Solved(k - 1)
    BY <2>1, <2>2
  <2>4. PICK g : g = [n \in 0..(k - 1) |-> IF n = 0 THEN 0 ELSE g[n - 1] + s[n]]
    BY <2>3
  <2> DEFINE h == [n \in 0..k |-> IF n = 0 THEN 0 ELSE g[n - 1] + s[n]]
  <2>5. \A n \in 0..(k - 1) : h[n] = g[n]
    BY <2>3, <2>4
  <2>6. \A n \in 0..k : n # 0 => n - 1 \in 0..(k - 1)
    BY <2>3
  <2>7. h = [n \in 0..k |-> IF n = 0 THEN 0 ELSE h[n - 1] + s[n]]
    BY <2>5, <2>6
  <2> QED  BY <2>1, <2>7
<1> QED  BY <1>1

LEMMA SumUnfolds ==
  ASSUME NEW s \in Seq(Int)
  PROVE  \E g \in [0..Len(s) -> Int] :
           /\ SumOf(s) = g[Len(s)] /\ g[0] = 0
           /\ \A n \in 1..Len(s) : g[n] = g[n - 1] + s[n]
<1> DEFINE g == CHOOSE f : IsRunning(f, s)
<1>1. IsRunning(g, s)
  <2>1. Len(s) \in Nat
    OBVIOUS
  <2>2. \E f : IsRunning(f, s)
    BY <2>1, RunningExists DEF IsRunning
  <2> QED  BY <2>2
<1>2. SumOf(s) = g[Len(s)]
  BY DEF SumOf, IsRunning
<1> HIDE DEF g
<1>3. g[0] = 0 /\ \A n \in 1..Len(s) : g[n] = g[n - 1] + s[n]
  <2>1. Len(s) \in Nat
    OBVIOUS
  <2>2. \A n \in 0..Len(s) : g[n] = IF n = 0 THEN 0 ELSE g[n - 1] + s[n]
    BY <1>1 DEF IsRunning
  <2>3. 0 \in 0..Len(s) /\ \A n \in 1..Len(s) : n \in 0..Len(s) /\ n # 0
    BY <2>1
  <2> QED  BY <2>2, <2>3
<1> DEFINE C == {n \in 0..Len(s) : g[n] \notin Int}
<1>4. C = {}
  <2> SUFFICES ASSUME C # {} PROVE FALSE
    OBVIOUS
  <2>1. PICK n \in C : n - 1 \notin C
    <3>1. C \in SUBSET (0..Len(s)) /\ Len(s) \in Nat
      OBVIOUS
    <3> HIDE DEF C
    <3> QED  BY <3>1, FirstPlace
  <2>2. n \in 1..Len(s) /\ n - 1 \in 0..Len(s)
    BY <1>3, <2>1
  <2>3. g[n - 1] \in Int /\ s[n] \in Int
    BY <2>1, <2>2
  <2> QED  BY <1>3, <2>1, <2>2, <2>3
<1>5. g = [n \in 0..Len(s) |-> g[n]]
  BY <1>1 DEF IsRunning
<1>6. g \in [0..Len(s) -> Int]
  BY <1>4, <1>5
<1> QED  BY <1>2, <1>3, <1>6

LEMMA SumTyped == ASSUME NEW s \in Seq(Int) PROVE SumOf(s) \in Int
<1>1. Len(s) \in 0..Len(s)
  OBVIOUS
<1> QED  BY <1>1, SumUnfolds

LEMMA SumOfNone == ASSUME NEW s \in Seq(Int), Len(s) = 0 PROVE SumOf(s) = 0
  BY SumUnfolds

\* One number more.
LEMMA SumExtends ==
  ASSUME NEW s \in Seq(Int), NEW t \in Seq(Int), Len(t) = Len(s) + 1,
         \A i \in 1..Len(s) : t[i] = s[i]
  PROVE  SumOf(t) = SumOf(s) + t[Len(t)]
<1>1. PICK g \in [0..Len(s) -> Int] :
        /\ SumOf(s) = g[Len(s)] /\ g[0] = 0
        /\ \A n \in 1..Len(s) : g[n] = g[n - 1] + s[n]
  BY SumUnfolds
<1>2. PICK h \in [0..Len(t) -> Int] :
        /\ SumOf(t) = h[Len(t)] /\ h[0] = 0
        /\ \A n \in 1..Len(t) : h[n] = h[n - 1] + t[n]
  BY SumUnfolds
<1> DEFINE C == {n \in 0..Len(s) : g[n] # h[n]}
<1>3. C = {}
  <2> SUFFICES ASSUME C # {} PROVE FALSE
    OBVIOUS
  <2>1. PICK n \in C : n - 1 \notin C
    <3>1. C \in SUBSET (0..Len(s)) /\ Len(s) \in Nat
      OBVIOUS
    <3> HIDE DEF C
    <3> QED  BY <3>1, FirstPlace
  <2>2. n \in 1..Len(s) /\ n \in 1..Len(t) /\ n - 1 \in 0..Len(s)
    BY <1>1, <1>2, <2>1
  <2>3. g[n - 1] = h[n - 1]
    BY <2>1, <2>2
  <2> QED  BY <1>1, <1>2, <2>1, <2>2, <2>3
<1>4. Len(s) \in 0..Len(s) /\ Len(t) \in 1..Len(t) /\ Len(t) - 1 = Len(s)
  OBVIOUS
<1>5. g[Len(s)] = h[Len(s)]
  BY <1>3, <1>4
<1>6. h[Len(t)] = h[Len(s)] + t[Len(t)]
  BY <1>2, <1>4
<1> QED  BY <1>1, <1>2, <1>5, <1>6

LEMMA SumOfZeros ==
  ASSUME NEW s \in Seq(Int), \A i \in 1..Len(s) : s[i] = 0
  PROVE  SumOf(s) = 0
<1>1. PICK g \in [0..Len(s) -> Int] :
        /\ SumOf(s) = g[Len(s)] /\ g[0] = 0
        /\ \A n \in 1..Len(s) : g[n] = g[n - 1] + s[n]
  BY SumUnfolds
<1> DEFINE C == {n \in 0..Len(s) : g[n] # 0}
<1>2. C = {}
  <2> SUFFICES ASSUME C # {} PROVE FALSE
    OBVIOUS
  <2>1. PICK n \in C : n - 1 \notin C
    <3>1. C \in SUBSET (0..Len(s)) /\ Len(s) \in Nat
      OBVIOUS
    <3> HIDE DEF C
    <3> QED  BY <3>1, FirstPlace
  <2>2. n \in 1..Len(s) /\ n - 1 \in 0..Len(s)
    BY <1>1, <2>1
  <2>3. g[n - 1] = 0
    BY <2>1, <2>2
  <2> QED  BY <1>1, <2>1, <2>2, <2>3
<1>3. Len(s) \in 0..Len(s)
  OBVIOUS
<1> QED  BY <1>1, <1>2, <1>3

-----------------------------------------------------------------------------
(* The votes of a block and of a chain.                                    *)

\* In a block a delegate of the node gets votes from one voter only.
OneVoterEach ==
  \A block \in Content : \A i, j \in DOMAIN block.votes :
    /\ block.votes[i].to = block.votes[j].to
    /\ block.votes[i].to \in Forging
    => block.votes[i].from = block.votes[j].from

LEMMA MembersTyped ==
  ASSUME NEW T, NEW s \in Seq(T)
  PROVE  Len(s) \in Nat /\ DOMAIN s = 1..Len(s) /\ \A i \in DOMAIN s : s[i] \in T
  OBVIOUS

LEMMA GivenByTyped ==
  ASSUME NEW b \in Content, NEW d, NEW v
  PROVE  GivenBy(b.votes, d, v) \in Int
<1> DEFINE votes == b.votes
           s == [i \in DOMAIN votes |->
                   IF votes[i].to = d /\ votes[i].from = v THEN votes[i].amount ELSE 0]
<1>1. votes \in Seq([from : Voter, to : Delegate, amount : Int])
  BY ForgerPluginAssumption
<1>2. Len(votes) \in Nat /\ DOMAIN votes = 1..Len(votes)
      /\ \A i \in DOMAIN votes : votes[i] \in [from : Voter, to : Delegate, amount : Int]
  BY <1>1, MembersTyped
<1> HIDE DEF votes
<1>3. s \in [1..Len(votes) -> Int]
  BY <1>2
<1>4. s \in Seq(Int)
  BY <1>2, <1>3
<1> QED  BY <1>4, SumTyped DEF GivenBy, votes

Gifts(c, d, v) == [h \in DOMAIN c |-> GivenBy(c[h].votes, d, v)]

LEMMA GivenTyped ==
  ASSUME NEW c \in Seq(Content), NEW d, NEW v
  PROVE  /\ Given(c, d, v) \in Int
         /\ Given(c, d, v) = SumOf(Gifts(c, d, v))
         /\ Gifts(c, d, v) \in Seq(Int) /\ Len(Gifts(c, d, v)) = Len(c)
         /\ \A h \in 1..Len(c) : Gifts(c, d, v)[h] = GivenBy(c[h].votes, d, v)
<1> DEFINE s == Gifts(c, d, v)
<1>1. Len(c) \in Nat /\ DOMAIN c = 1..Len(c) /\ \A h \in DOMAIN c : c[h] \in Content
  OBVIOUS
<1>2. \A h \in DOMAIN c : GivenBy(c[h].votes, d, v) \in Int
  BY <1>1, GivenByTyped
<1>3. /\ s \in [1..Len(c) -> Int]
      /\ \A h \in 1..Len(c) : s[h] = GivenBy(c[h].votes, d, v)
  BY <1>1, <1>2 DEF Gifts
<1>4. Given(c, d, v) = SumOf(s)
  BY DEF Given, Gifts
<1> HIDE DEF s
<1>5. s \in Seq(Int) /\ Len(s) = Len(c)
  BY <1>1, <1>3
<1>6. SumOf(s) \in Int
  BY <1>5, SumTyped
<1> QED  BY <1>3, <1>4, <1>5, <1>6 DEF s

LEMMA NothingGiven == ASSUME NEW d, NEW v PROVE Given(<<>>, d, v) = 0
<1>1. <<>> \in Seq(Content) /\ Len(<<>>) = 0
  OBVIOUS
<1> QED  BY <1>1, GivenTyped, SumOfNone

\* The parts of a chain with one block more.
LEMMA OneMore ==
  ASSUME NEW c \in Seq(Content), NEW b \in Content
  PROVE  /\ Append(c, b) \in Seq(Content) /\ Len(Append(c, b)) = Len(c) + 1
         /\ Append(c, b)[Len(c) + 1] = b
         /\ \A h \in 1..Len(c) : Append(c, b)[h] = c[h]
  OBVIOUS

LEMMA GivenExtends ==
  ASSUME NEW c \in Seq(Content), NEW b \in Content, NEW d, NEW v
  PROVE  Given(Append(c, b), d, v) = Given(c, d, v) + GivenBy(b.votes, d, v)
<1> DEFINE e == Append(c, b)
           s == Gifts(c, d, v)
           t == Gifts(e, d, v)
<1>1. /\ e \in Seq(Content) /\ Len(e) = Len(c) + 1 /\ e[Len(c) + 1] = b
      /\ \A h \in 1..Len(c) : e[h] = c[h]
  BY OneMore
<1> HIDE DEF e
<1>2. /\ s \in Seq(Int) /\ Len(s) = Len(c) /\ Given(c, d, v) = SumOf(s)
      /\ \A h \in 1..Len(c) : s[h] = GivenBy(c[h].votes, d, v)
  BY GivenTyped
<1>3. /\ t \in Seq(Int) /\ Len(t) = Len(e) /\ Given(e, d, v) = SumOf(t)
      /\ \A h \in 1..Len(e) : t[h] = GivenBy(e[h].votes, d, v)
  BY <1>1, GivenTyped
<1> HIDE DEF s, t
<1>4. Len(c) \in Nat /\ 1..Len(c) \subseteq 1..Len(e) /\ Len(e) \in 1..Len(e)
  BY <1>1
<1>5. \A h \in 1..Len(s) : t[h] = s[h]
  BY <1>1, <1>2, <1>3, <1>4
<1>6. t[Len(t)] = GivenBy(b.votes, d, v)
  BY <1>1, <1>3, <1>4
<1>7. SumOf(t) = SumOf(s) + t[Len(t)]
  BY <1>1, <1>2, <1>3, <1>5, SumExtends
<1> QED  BY <1>2, <1>3, <1>6, <1>7 DEF e

\* What Received says of a delegate of the node.
LEMMA ShareIs ==
  ASSUME NEW b \in Content, OneVoterEach, NEW d \in Forging
  PROVE  /\ d \notin DOMAIN Received(b.votes) => \A w : GivenBy(b.votes, d, w) = 0
         /\ d \in DOMAIN Received(b.votes) =>
              LET r == Received(b.votes)[d]
              IN  /\ r.from \in Voter
                  /\ \E i \in DOMAIN b.votes : b.votes[i].to = d /\ b.votes[i].from = r.from
                  /\ r.amount = GivenBy(b.votes, d, r.from)
                  /\ \A w : w # r.from => GivenBy(b.votes, d, w) = 0
<1> DEFINE votes == b.votes
           to == {i \in DOMAIN votes : votes[i].to = d}
           first == CHOOSE i \in to : \A j \in to : i <= j
           part(w) == [i \in DOMAIN votes |->
                         IF votes[i].to = d /\ votes[i].from = w THEN votes[i].amount ELSE 0]
           whole == [i \in DOMAIN votes |-> IF votes[i].to = d THEN votes[i].amount ELSE 0]
<1>1. votes \in Seq([from : Voter, to : Delegate, amount : Int])
  BY ForgerPluginAssumption
<1>2. Len(votes) \in Nat /\ DOMAIN votes = 1..Len(votes)
      /\ \A i \in DOMAIN votes : votes[i] \in [from : Voter, to : Delegate, amount : Int]
  BY <1>1, MembersTyped
<1>3. \A i, j \in to : votes[i].from = votes[j].from
  BY DEF OneVoterEach
<1>4. DOMAIN Received(votes) = {votes[i].to : i \in DOMAIN votes}
  BY DEF Received
<1>5. d \in DOMAIN Received(votes) => Received(votes)[d] = [from |-> votes[first].from, amount |-> SumOf(whole)]
  BY DEF Received
<1>6. \A w : GivenBy(votes, d, w) = SumOf(part(w))
  BY DEF GivenBy
<1> HIDE DEF votes
<1>7. \A w : part(w) \in Seq(Int) /\ Len(part(w)) = Len(votes)
  <2> SUFFICES ASSUME NEW w PROVE part(w) \in Seq(Int) /\ Len(part(w)) = Len(votes)
    OBVIOUS
  <2>1. part(w) \in [1..Len(votes) -> Int]
    BY <1>2
  <2> HIDE DEF part
  <2> QED  BY <1>2, <2>1
<1>8. ASSUME NEW w, \A i \in to : votes[i].from # w
      PROVE  GivenBy(votes, d, w) = 0
  <2>1. \A i \in 1..Len(votes) : part(w)[i] = 0
    BY <1>2, <1>8
  <2>2. part(w) \in Seq(Int) /\ \A i \in 1..Len(part(w)) : part(w)[i] = 0
    <3> HIDE DEF part
    <3> QED  BY <1>7, <2>1
  <2> HIDE DEF part
  <2> QED  BY <1>6, <2>2, SumOfZeros
<1>9. ASSUME d \notin DOMAIN Received(votes) PROVE \A w : GivenBy(votes, d, w) = 0
  <2>1. to = {}
    BY <1>4, <1>9
  <2> QED  BY <1>8, <2>1
<1>10. ASSUME d \in DOMAIN Received(votes)
       PROVE  LET r == Received(votes)[d]
              IN  /\ r.from \in Voter
                  /\ \E i \in DOMAIN votes : votes[i].to = d /\ votes[i].from = r.from
                  /\ r.amount = GivenBy(votes, d, r.from)
                  /\ \A w : w # r.from => GivenBy(votes, d, w) = 0
  <2> DEFINE r == Received(votes)[d]
  <2>1. first \in to
    <3>1. to # {} /\ to \in SUBSET Nat
      BY <1>2, <1>4, <1>10
    <3> HIDE DEF to
    <3>2. \E i \in to : \A j \in to : i <= j
      BY <3>1, LeastNatural
    <3> QED  BY <3>2
  <2>2. r.from = votes[first].from /\ r.amount = SumOf(whole)
    BY <1>5, <1>10
  <2> HIDE DEF first, r
  <2>3. r.from \in Voter
    BY <1>2, <2>1, <2>2
  <2>4. \A i \in to : votes[i].from = r.from
    BY <1>3, <2>1, <2>2
  <2>5. whole = part(r.from)
    BY <2>4
  <2>6. \A w : w # r.from => GivenBy(votes, d, w) = 0
    BY <1>8, <2>4
  <2> HIDE DEF part, whole
  <2>7. r.amount = GivenBy(votes, d, r.from)
    BY <1>6, <2>2, <2>5
  <2> QED  BY <2>1, <2>2, <2>3, <2>6, <2>7 DEF r
<1> QED  BY <1>9, <1>10 DEF votes

-----------------------------------------------------------------------------
(* What counting a block and taking it back do to a record.                *)

Forged(c, d) == {h \in DOMAIN c : c[h].gen = d}
Balances(c, d) == [v \in {w \in Voter : Given(c, d, w) # 0} |-> Given(c, d, v)]
Record(n, f) == [blocks |-> n, votes |-> f]

\* A delegate has votes of whoever voted for it in this block.
Backed(c, b) ==
  \A i \in DOMAIN b.votes : Given(c, b.votes[i].to, b.votes[i].from) >= 1

LEMMA TotalsAre ==
  ASSUME NEW c, NEW d
  PROVE  Totals(c, d) = Record(Cardinality(Forged(c, d)), Balances(c, d))
  BY DEF Totals, Forged, Balances, Record

LEMMA ForgedExtends ==
  ASSUME NEW c \in Seq(Content), NEW b \in Content, NEW d
  PROVE  /\ Cardinality(Forged(c, d)) \in Nat
         /\ Cardinality(Forged(Append(c, b), d)) =
              IF b.gen = d THEN Cardinality(Forged(c, d)) + 1 ELSE Cardinality(Forged(c, d))
<1> DEFINE e == Append(c, b)
<1>1. /\ e \in Seq(Content) /\ Len(e) = Len(c) + 1 /\ e[Len(c) + 1] = b
      /\ \A h \in 1..Len(c) : e[h] = c[h]
  BY OneMore
<1> HIDE DEF e
<1>2. Len(c) \in Nat /\ DOMAIN c = 1..Len(c) /\ DOMAIN e = 1..Len(e)
  BY <1>1
<1>3. IsFiniteSet(Forged(c, d))
  <2>1. IsFiniteSet(1..Len(c)) /\ Forged(c, d) \subseteq 1..Len(c)
    BY <1>2, FS_Interval DEF Forged
  <2> QED  BY <2>1, FS_Subset
<1>4. Cardinality(Forged(c, d)) \in Nat
  BY <1>3, FS_CardinalityType
<1>5. 1..Len(e) = (1..Len(c)) \cup {Len(c) + 1} /\ Len(c) + 1 \notin 1..Len(c)
  BY <1>1, <1>2
<1>6. CASE b.gen = d
  <2>1. Forged(e, d) = Forged(c, d) \cup {Len(c) + 1} /\ Len(c) + 1 \notin Forged(c, d)
    BY <1>1, <1>2, <1>5, <1>6 DEF Forged
  <2> QED  BY <1>3, <1>4, <1>6, <2>1, FS_AddElement DEF e
<1>7. CASE b.gen # d
  <2>1. Forged(e, d) = Forged(c, d)
    BY <1>1, <1>2, <1>5, <1>7 DEF Forged
  <2> QED  BY <1>4, <1>7, <2>1 DEF e
<1> QED  BY <1>6, <1>7

LEMMA BalancesFollow ==
  ASSUME NEW c \in Seq(Content), NEW b \in Content, OneVoterEach, NEW d \in Forging,
         Backed(Append(c, b), b), d \in DOMAIN Received(b.votes)
  PROVE  LET r == Received(b.votes)[d]
         IN  /\ Counted(Balances(c, d), r.from, r.amount) = Balances(Append(c, b), d)
             /\ r.from \in DOMAIN Balances(Append(c, b), d)
             /\ Counted(Balances(Append(c, b), d), r.from, -r.amount) = Balances(c, d)
<1> DEFINE e == Append(c, b)
           r == Received(b.votes)[d]
           v == r.from
<1>1. /\ v \in Voter
      /\ \E i \in DOMAIN b.votes : b.votes[i].to = d /\ b.votes[i].from = v
      /\ r.amount = GivenBy(b.votes, d, v)
      /\ \A w : w # v => GivenBy(b.votes, d, w) = 0
  BY ShareIs
<1>2. r.amount \in Int
  BY <1>1, GivenByTyped
<1>3. Given(e, d, v) >= 1
  BY <1>1 DEF Backed
<1>4. \A w : Given(c, d, w) \in Int /\ Given(e, d, w) \in Int
  <2>1. e \in Seq(Content)
    BY OneMore
  <2> HIDE DEF e
  <2> QED  BY <2>1, GivenTyped
<1>5. Given(e, d, v) = Given(c, d, v) + r.amount
  BY <1>1, GivenExtends
<1>6. \A w : w # v => Given(e, d, w) = Given(c, d, w)
  BY <1>1, <1>4, GivenExtends
<1> HIDE DEF e, r
<1> DEFINE f == Balances(c, d)
           g == Balances(e, d)
<1>7. /\ DOMAIN f = {w \in Voter : Given(c, d, w) # 0}
      /\ DOMAIN g = {w \in Voter : Given(e, d, w) # 0}
      /\ \A w \in DOMAIN f : f[w] = Given(c, d, w)
      /\ \A w \in DOMAIN g : g[w] = Given(e, d, w)
      /\ f = [w \in DOMAIN f |-> f[w]] /\ g = [w \in DOMAIN g |-> g[w]]
  BY DEF Balances
<1> HIDE DEF f, g
<1>8. v \in DOMAIN g /\ g[v] = Given(c, d, v) + r.amount
  BY <1>1, <1>3, <1>4, <1>5, <1>7
<1>9. \A w : w # v => (w \in DOMAIN f <=> w \in DOMAIN g) /\ (w \in DOMAIN f => f[w] = g[w])
  BY <1>6, <1>7
<1>10. Counted(f, v, r.amount) = g
  <2>1. CASE v \notin DOMAIN f
    <3>1. Given(c, d, v) = 0
      BY <1>1, <1>7, <2>1
    <3>2. g[v] = r.amount
      BY <1>2, <1>8, <3>1
    <3>3. Counted(f, v, r.amount) =
            [w \in DOMAIN f \cup {v} |-> IF w = v THEN r.amount ELSE f[w]]
      BY <2>1 DEF Counted
    <3>4. DOMAIN g = DOMAIN f \cup {v}
      BY <1>8, <1>9
    <3> QED  BY <1>7, <1>9, <3>2, <3>3, <3>4
  <2>2. CASE v \in DOMAIN f
    <3>1. f[v] + r.amount = g[v] /\ g[v] # 0
      BY <1>3, <1>4, <1>5, <1>7, <1>8, <2>2
    <3>2. Counted(f, v, r.amount) = [f EXCEPT ![v] = g[v]]
      BY <2>2, <3>1 DEF Counted
    <3>3. DOMAIN g = DOMAIN f
      BY <1>8, <1>9, <2>2
    <3>4. [f EXCEPT ![v] = g[v]] = [w \in DOMAIN f |-> IF w = v THEN g[v] ELSE f[w]]
      OBVIOUS
    <3>5. \A w \in DOMAIN f : (IF w = v THEN g[v] ELSE f[w]) = g[w]
      BY <1>9
    <3> QED  BY <1>7, <3>2, <3>3, <3>4, <3>5
  <2> QED  BY <2>1, <2>2
<1>11. Counted(g, v, -r.amount) = f
  <2>1. g[v] + (-r.amount) = Given(c, d, v)
    BY <1>2, <1>4, <1>8
  <2>2. CASE Given(c, d, v) = 0
    <3>1. v \notin DOMAIN f /\ g[v] + (-r.amount) = 0
      BY <1>7, <2>1, <2>2
    <3>2. Counted(g, v, -r.amount) = [w \in DOMAIN g \ {v} |-> g[w]]
      BY <1>8, <3>1 DEF Counted
    <3>3. DOMAIN f = DOMAIN g \ {v}
      BY <1>9, <3>1
    <3> QED  BY <1>7, <1>9, <3>2, <3>3
  <2>3. CASE Given(c, d, v) # 0
    <3>1. v \in DOMAIN f /\ g[v] + (-r.amount) = f[v] /\ f[v] # 0
      BY <1>1, <1>7, <2>1, <2>3
    <3>2. Counted(g, v, -r.amount) = [g EXCEPT ![v] = f[v]]
      BY <1>8, <3>1 DEF Counted
    <3>3. DOMAIN f = DOMAIN g
      BY <1>8, <1>9, <3>1
    <3>4. [g EXCEPT ![v] = f[v]] = [w \in DOMAIN g |-> IF w = v THEN f[v] ELSE g[w]]
      OBVIOUS
    <3>5. \A w \in DOMAIN g : (IF w = v THEN f[v] ELSE g[w]) = f[w]
      BY <1>9, <3>3
    <3> QED  BY <1>7, <3>2, <3>3, <3>4, <3>5
  <2> QED  BY <2>2, <2>3
<1> QED  BY <1>8, <1>10, <1>11 DEF e, r, f, g

LEMMA BalancesStay ==
  ASSUME NEW c \in Seq(Content), NEW b \in Content, OneVoterEach, NEW d \in Forging,
         d \notin DOMAIN Received(b.votes)
  PROVE  Balances(Append(c, b), d) = Balances(c, d)
<1>1. \A w : GivenBy(b.votes, d, w) = 0
  BY ShareIs
<1>2. \A w : Given(Append(c, b), d, w) = Given(c, d, w)
  BY <1>1, GivenExtends, GivenTyped
<1> QED  BY <1>2 DEF Balances

\* Counting a block, and taking it back, lead from the totals of one chain to
\* those of the other.
LEMMA CountingFollows ==
  ASSUME NEW c \in Seq(Content), NEW b \in Content, OneVoterEach, NEW d \in Forging,
         Backed(Append(c, b), b)
  PROVE  /\ WithBlock(Totals(c, d), d, b) = Totals(Append(c, b), d)
         /\ WithoutBlock(Totals(Append(c, b), d), d, b) = Totals(c, d)
         /\ d # b.gen /\ d \notin DOMAIN Received(b.votes) =>
              Totals(Append(c, b), d) = Totals(c, d)
<1> DEFINE m == Cardinality(Forged(c, d))
           n == Cardinality(Forged(Append(c, b), d))
           f == Balances(c, d)
           g == Balances(Append(c, b), d)
<1>1. m \in Nat /\ n = IF b.gen = d THEN m + 1 ELSE m
  BY ForgedExtends
<1>2. Totals(c, d) = Record(m, f) /\ Totals(Append(c, b), d) = Record(n, g)
  BY TotalsAre
<1>3. CASE d \in DOMAIN Received(b.votes)
  <2> DEFINE r == Received(b.votes)[d]
  <2>1. Counted(f, r.from, r.amount) = g /\ r.from \in DOMAIN g
        /\ Counted(g, r.from, -r.amount) = f
    BY <1>3, BalancesFollow
  <2> HIDE DEF m, n, f, g, r
  <2>2. WithBlock(Record(m, f), d, b) = AddVotes(Record(n, f), r)
    BY <1>1, <1>3 DEF WithBlock, Record, r
  <2>3. AddVotes(Record(n, f), r) = Record(n, g)
    BY <2>1 DEF AddVotes, Record
  <2>4. WithoutBlock(Record(n, g), d, b) = RevertVotes(Record(m, g), r)
    BY <1>1, <1>3 DEF WithoutBlock, Record, r
  <2>5. RevertVotes(Record(m, g), r) = Record(m, f)
    BY <2>1 DEF RevertVotes, Record
  <2> QED  BY <1>2, <1>3, <2>2, <2>3, <2>4, <2>5
<1>4. CASE d \notin DOMAIN Received(b.votes)
  <2>1. f = g
    BY <1>4, BalancesStay
  <2> HIDE DEF m, n, f, g
  <2>2. WithBlock(Record(m, f), d, b) = Record(n, f)
    BY <1>1, <1>4 DEF WithBlock, Record
  <2>3. WithoutBlock(Record(n, g), d, b) = Record(m, g)
    BY <1>1, <1>4 DEF WithoutBlock, Record
  <2>4. d # b.gen => n = m
    BY <1>1
  <2> QED  BY <1>2, <2>1, <2>2, <2>3, <2>4
<1> QED  BY <1>3, <1>4

-----------------------------------------------------------------------------
(* The invariant of the plugin.                                            *)

\* Every block of a chain was allowed.
ChainBacked(c) ==
  /\ c \in Seq(Content)
  /\ \A n \in 1..Len(c) : Backed(SubSeq(c, 1, n), c[n])

CountedUpto(records, c, n) == \A d \in Forging : records[d] = Totals(SubSeq(c, 1, n), d)

Round == [pc : {"blocks"}, last : Nat, needle : Nat \ {0}, blocks : Seq(Content)]

PluginTypes ==
  /\ mode \in {"off", "sync", "on"} /\ synced \in Nat /\ gap \in BOOLEAN
  /\ info = [d \in Delegate |-> info[d]]
  /\ sync \in {NoSync} \cup [pc : {"last"}, last : Nat] \cup Round
  /\ mode # "sync" => sync = NoSync
  /\ mode # "on" => handlers = <<>>
  /\ sync.pc = "blocks" =>
       sync.needle <= sync.last + 1 /\ Len(sync.blocks) <= sync.needle - 1

\* Away or synchronizing: as far as the chain c still reaches what was counted
\* and asked for, the records are those of its lower part, and the blocks asked
\* for are the next ones.
Follows(records, c, upto, round) ==
  /\ round.pc # "blocks" /\ upto <= Len(c) => CountedUpto(records, c, upto)
  /\ round.pc = "last" => round.last = Len(c)
  /\ round.pc = "blocks" /\ round.needle - 1 <= Len(c) =>
       /\ round.blocks = SubSeq(c, round.needle - Len(round.blocks), round.needle - 1)
       /\ CountedUpto(records, c, round.needle - 1 - Len(round.blocks))

SyncFollows == mode # "on" /\ ~gap => Follows(info, nodeChain, synced, sync)

HandlerType(records) ==
  [op : {"new", "delete"}, block : Content, height : Nat, left : SUBSET Delegate,
   read : {<<>>} \cup {<<d, records[d]>> : d \in Delegate}]

\* The chain before the event that h handles.
ChainBefore(h, c) == IF h.op = "new" THEN Front(c) ELSE Append(c, h.block)

\* What h has done, and what it has still to do.
Midway(h, records, c) ==
  \A d \in Forging : records[d] = Totals(IF d \in h.left THEN ChainBefore(h, c) ELSE c, d)

Handling(h, records, c) ==
  /\ h \in HandlerType(records)
  /\ h.left \subseteq {h.block.gen} \cup DOMAIN Received(h.block.votes)
  /\ h.read # <<>> => h.read[1] \in h.left
  /\ h.op = "new" => c # <<>> /\ Last(c) = h.block
  /\ h.op = "delete" => Backed(Append(c, h.block), h.block)
  /\ h.height = IF h.op = "new" THEN Len(c) ELSE Len(c) + 1

HandlersFollow ==
  mode = "on" =>
    \/ /\ handlers = <<>>
       /\ ~gap => /\ synced \in {Len(nodeChain), Len(nodeChain) + 1}
                  /\ \A d \in Forging : info[d] = Totals(nodeChain, d)
    \/ \E h \in HandlerType(info) :
         /\ handlers = <<h>> /\ Handling(h, info, nodeChain)
         /\ ~gap => Midway(h, info, nodeChain)

PluginInv == PluginTypes /\ ChainBacked(nodeChain) /\ SyncFollows /\ HandlersFollow

-----------------------------------------------------------------------------
(* Parts of a chain.                                                       *)

LEMMA PartOfMore ==
  ASSUME NEW c \in Seq(Content), NEW b \in Content, NEW m \in Nat, NEW n \in Nat,
         n <= Len(c), m >= 1
  PROVE  SubSeq(Append(c, b), m, n) = SubSeq(c, m, n)
  OBVIOUS

LEMMA PartOfFront ==
  ASSUME NEW c \in Seq(Content), c # <<>>, NEW m \in Nat, NEW n \in Nat,
         n <= Len(c) - 1, m >= 1
  PROVE  SubSeq(Front(c), m, n) = SubSeq(c, m, n)
  BY DEF Front

LEMMA FrontAndLast ==
  ASSUME NEW c \in Seq(Content), c # <<>>
  PROVE  /\ Front(c) \in Seq(Content) /\ Len(Front(c)) = Len(c) - 1
         /\ Last(c) \in Content /\ Last(c) = c[Len(c)]
         /\ c = Append(Front(c), Last(c))
         /\ Len(c) \in Nat /\ Len(c) >= 1
<1> DEFINE f == SubSeq(c, 1, Len(c) - 1)
           l == c[Len(c)]
<1>1. Len(c) \in Nat /\ Len(c) >= 1
  OBVIOUS
<1>2. l \in Content
  BY <1>1
<1>3. f \in Seq(Content) /\ Len(f) = Len(c) - 1 /\ \A i \in 1..(Len(c) - 1) : f[i] = c[i]
  <2>1. PICK n \in Nat : n = Len(c) - 1
    BY <1>1
  <2>2. /\ SubSeq(c, 1, n) \in Seq(Content) /\ Len(SubSeq(c, 1, n)) = n
        /\ \A i \in 1..n : SubSeq(c, 1, n)[i] = c[i]
    <3>1. n <= Len(c)
      BY <1>1, <2>1
    <3>2. 1..n \subseteq 1..Len(c)
      BY <3>1
    <3> QED  BY <3>1, <3>2
  <2> QED  BY <2>1, <2>2
<1> HIDE DEF f
<1>4. Append(f, l) = c
  <2> HIDE DEF l
  <2>1. Append(f, l) \in Seq(Content) /\ Len(Append(f, l)) = Len(c)
    BY <1>1, <1>2, <1>3
  <2>2. \A i \in 1..Len(c) : Append(f, l)[i] = c[i]
    BY <1>1, <1>2, <1>3 DEF l
  <2> QED  BY <2>1, <2>2, SeqEqual
<1> QED  BY <1>1, <1>2, <1>3, <1>4 DEF Front, Last, f

LEMMA NextPart ==
  ASSUME NEW c \in Seq(Content), NEW n \in 1..Len(c)
  PROVE  /\ SubSeq(c, 1, n) = Append(SubSeq(c, 1, n - 1), c[n])
         /\ SubSeq(c, 1, n - 1) \in Seq(Content) /\ c[n] \in Content
  OBVIOUS

LEMMA AllOfIt ==
  ASSUME NEW c \in Seq(Content)
  PROVE  SubSeq(c, 1, Len(c)) = c /\ SubSeq(c, 1, 0) = <<>> /\ Len(c) \in Nat
  OBVIOUS

LEMMA HeadOfPart ==
  ASSUME NEW c \in Seq(Content), NEW m \in Nat, NEW n \in Nat, 1 <= m, m <= n, n <= Len(c)
  PROVE  Head(SubSeq(c, m, n)) = c[m] /\ Tail(SubSeq(c, m, n)) = SubSeq(c, m + 1, n)
  OBVIOUS

LEMMA BackedMore ==
  ASSUME NEW c, ChainBacked(c), NEW b \in Content, Backed(Append(c, b), b)
  PROVE  ChainBacked(Append(c, b))
<1>1. /\ c \in Seq(Content) /\ Append(c, b) \in Seq(Content) /\ Len(Append(c, b)) = Len(c) + 1
      /\ Append(c, b)[Len(c) + 1] = b /\ Len(c) \in Nat
      /\ \A h \in 1..Len(c) : Append(c, b)[h] = c[h]
  BY OneMore DEF ChainBacked
<1>2. ASSUME NEW n \in 1..(Len(c) + 1)
      PROVE  Backed(SubSeq(Append(c, b), 1, n), Append(c, b)[n])
  <2>1. CASE n = Len(c) + 1
    <3>1. SubSeq(Append(c, b), 1, n) = Append(c, b)
      BY <1>1, <2>1, AllOfIt
    <3> QED  BY <1>1, <2>1, <3>1
  <2>2. CASE n # Len(c) + 1
    <3>1. n \in 1..Len(c)
      BY <1>1, <2>2
    <3>2. SubSeq(Append(c, b), 1, n) = SubSeq(c, 1, n)
      BY <1>1, <3>1, PartOfMore
    <3> QED  BY <1>1, <3>1, <3>2 DEF ChainBacked
  <2> QED  BY <2>1, <2>2
<1> QED  BY <1>1, <1>2 DEF ChainBacked

LEMMA BackedLess ==
  ASSUME NEW c, ChainBacked(c), c # <<>>
  PROVE  ChainBacked(Front(c)) /\ Backed(c, Last(c))
<1>1. /\ c \in Seq(Content) /\ Front(c) \in Seq(Content) /\ Len(Front(c)) = Len(c) - 1
      /\ Last(c) = c[Len(c)] /\ c = Append(Front(c), Last(c)) /\ Last(c) \in Content
      /\ Len(c) \in Nat /\ Len(c) >= 1
  BY FrontAndLast DEF ChainBacked
<1>2. ASSUME NEW n \in 1..(Len(c) - 1)
      PROVE  Backed(SubSeq(Front(c), 1, n), Front(c)[n])
  <2>1. SubSeq(Front(c), 1, n) = SubSeq(c, 1, n) /\ n \in 1..Len(c)
    BY <1>1, PartOfFront
  <2>2. Front(c)[n] = c[n]
    BY <1>1, OneMore
  <2> QED  BY <1>1, <2>1, <2>2 DEF ChainBacked
<1>3. Backed(c, Last(c))
  <2>1. Len(c) \in 1..Len(c) /\ SubSeq(c, 1, Len(c)) = c
    BY <1>1, AllOfIt
  <2> QED  BY <1>1, <2>1 DEF ChainBacked
<1> QED  BY <1>1, <1>2, <1>3 DEF ChainBacked

\* The totals up to a block, from those below it.
LEMMA NextTotals ==
  ASSUME NEW c, ChainBacked(c), NEW n \in 1..Len(c), OneVoterEach, NEW d \in Forging
  PROVE  WithBlock(Totals(SubSeq(c, 1, n - 1), d), d, c[n]) = Totals(SubSeq(c, 1, n), d)
<1>1. /\ SubSeq(c, 1, n) = Append(SubSeq(c, 1, n - 1), c[n])
      /\ SubSeq(c, 1, n - 1) \in Seq(Content) /\ c[n] \in Content
      /\ Backed(SubSeq(c, 1, n), c[n])
  BY NextPart DEF ChainBacked
<1> QED  BY <1>1, CountingFollows

LEMMA TotalsOfNone == ASSUME NEW d PROVE Totals(<<>>, d) = NoInfo
<1>1. {h \in DOMAIN <<>> : (<<>>)[h].gen = d} = {}
  OBVIOUS
<1>2. Cardinality({}) = 0
  BY FS_EmptySet
<1>3. {w \in Voter : Given(<<>>, d, w) # 0} = {}
  BY NothingGiven
<1>4. [v \in {} |-> Given(<<>>, d, v)] = <<>>
  OBVIOUS
<1> QED  BY <1>1, <1>2, <1>3, <1>4 DEF Totals, NoInfo

LEMMA AllowedBacks ==
  ASSUME NEW b \in Content, Allowed(b), ~EmptiesVotes
  PROVE  Backed(Append(nodeChain, b), b)
  BY DEF Allowed, Backed, ToSet

-----------------------------------------------------------------------------
(* The steps.                                                              *)

LEMMA ReceivedOf ==
  ASSUME NEW b \in Content
  PROVE  {b.gen} \cup DOMAIN Received(b.votes) \subseteq Delegate
<1>1. b.votes \in Seq([from : Voter, to : Delegate, amount : Int]) /\ b.gen \in Delegate
  BY ForgerPluginAssumption
<1>2. \A i \in DOMAIN b.votes : b.votes[i] \in [from : Voter, to : Delegate, amount : Int]
  BY <1>1, MembersTyped
<1>3. DOMAIN Received(b.votes) = {b.votes[i].to : i \in DOMAIN b.votes}
  BY DEF Received
<1> QED  BY <1>1, <1>2, <1>3

\* Two chains of which one goes on above the other.
Common(c, e, n) ==
  \A k, m \in Nat : k >= 1 /\ m <= n => SubSeq(e, k, m) = SubSeq(c, k, m)

\* A round in the terms of numbers.
LEMMA RoundIs ==
  ASSUME NEW r \in Round, Len(r.blocks) <= r.needle - 1
  PROVE  \E l, k \in Nat :
           /\ l = Len(r.blocks) /\ k = r.needle - 1 /\ l <= k
           /\ r.needle = k + 1 /\ r.needle - l = (k - l) + 1 /\ k - l \in Nat
<1>1. r.blocks \in Seq(Content) /\ r.needle \in Nat /\ r.needle # 0
  BY DEF Round
<1>2. PICK l \in Nat : l = Len(r.blocks)
  BY <1>1
<1>3. PICK k \in Nat : k = r.needle - 1
  BY <1>1
<1>4. r.needle = k + 1 /\ l <= k
  BY <1>1, <1>2, <1>3
<1>5. r.needle - l = (k - l) + 1 /\ k - l \in Nat
  BY <1>4
<1> QED  BY <1>2, <1>3, <1>4, <1>5

\* The chain changes above what the plugin has counted or asked for.
LEMMA FollowsOn ==
  ASSUME NEW c \in Seq(Content), NEW e \in Seq(Content), NEW n \in Nat, Common(c, e, n),
         n <= Len(c), NEW records, NEW upto \in Nat,
         NEW round \in {NoSync} \cup [pc : {"last"}, last : Nat] \cup Round,
         round.pc = "blocks" => Len(round.blocks) <= round.needle - 1,
         round.pc # "last",
         round.pc # "blocks" /\ upto <= Len(e) => upto <= n,
         round.pc = "blocks" /\ round.needle - 1 <= Len(e) => round.needle - 1 <= n,
         Follows(records, c, upto, round)
  PROVE  Follows(records, e, upto, round)
<1>1. \A m \in Nat : m <= n /\ CountedUpto(records, c, m) => CountedUpto(records, e, m)
  <2>1. ASSUME NEW m \in Nat, m <= n PROVE SubSeq(e, 1, m) = SubSeq(c, 1, m)
    <3>1. \A k \in Nat : k >= 1 => SubSeq(e, k, m) = SubSeq(c, k, m)
      BY <2>1 DEF Common
    <3>2. 1 \in Nat /\ 1 >= 1
      OBVIOUS
    <3> QED  BY <3>1, <3>2
  <2> QED  BY <2>1 DEF CountedUpto
<1>2. Len(c) \in Nat /\ Len(e) \in Nat
  OBVIOUS
<1>3. CASE round.pc # "blocks"
  <2>1. ASSUME upto <= Len(e) PROVE CountedUpto(records, e, upto)
    <3>1. upto <= n /\ upto <= Len(c)
      BY <1>2, <1>3, <2>1
    <3>2. CountedUpto(records, c, upto)
      BY <1>3, <3>1 DEF Follows
    <3> QED  BY <1>1, <3>1, <3>2
  <2> QED  BY <1>3, <2>1 DEF Follows
<1>4. CASE round.pc = "blocks"
  <2>1. round \in Round
    BY <1>4 DEF NoSync
  <2>2. PICK l, k \in Nat :
          /\ l = Len(round.blocks) /\ k = round.needle - 1 /\ l <= k
          /\ round.needle = k + 1 /\ round.needle - l = (k - l) + 1 /\ k - l \in Nat
    BY <1>4, <2>1, RoundIs
  <2>3. ASSUME k <= Len(e)
        PROVE  round.blocks = SubSeq(e, (k - l) + 1, k) /\ CountedUpto(records, e, k - l)
    <3>1. k <= n /\ k <= Len(c) /\ k - l <= n /\ (k - l) + 1 \in Nat /\ (k - l) + 1 >= 1
      <4>1. round.needle - 1 <= Len(e)
        BY <2>2, <2>3
      <4>2. round.needle - 1 <= n
        BY <1>4, <4>1
      <4>3. PICK m \in Nat : m = Len(c) /\ n <= m
        BY <1>2
      <4>4. k <= n /\ k <= m
        BY <2>2, <4>2, <4>3
      <4>5. k - l <= k /\ (k - l) + 1 >= 1 /\ (k - l) + 1 \in Nat
        <5>1. l <= k
          BY <2>2
        <5> QED  BY <5>1
      <4>6. k <= Len(c)
        BY <4>3, <4>4
      <4>7. k - l <= n
        BY <4>4, <4>5
      <4> QED  BY <4>4, <4>5, <4>6, <4>7
    <3>2. round.blocks = SubSeq(c, (k - l) + 1, k) /\ CountedUpto(records, c, k - l)
      BY <1>4, <2>2, <3>1 DEF Follows
    <3>3. SubSeq(e, (k - l) + 1, k) = SubSeq(c, (k - l) + 1, k)
      BY <3>1 DEF Common
    <3> QED  BY <1>1, <2>2, <3>1, <3>2, <3>3
  <2> QED  BY <1>4, <2>2, <2>3 DEF Follows
<1> QED  BY <1>3, <1>4

LEMMA NodeAddsKeeps ==
  ASSUME PluginInv, ~Overlap, ~EmptiesVotes, OneVoterEach, NEW b \in Content, NodeAdds(b)
  PROVE  PluginInv'
<1>1. PICK c : c = nodeChain
  OBVIOUS
<1>2. PICK e : e = nodeChain' /\ e = Append(c, b)
  BY <1>1 DEF NodeAdds
<1>3. PICK h : h = Handler("new", b, Len(c) + 1)
  OBVIOUS
<1>4. /\ handlers = <<>> /\ Allowed(b)
      /\ handlers' = IF mode = "on" THEN Append(handlers, h) ELSE handlers
      /\ gap' = (gap \/ Unnoticed(Len(c) + 1))
      /\ info' = info /\ synced' = synced /\ mode' = mode /\ sync' = sync
  BY <1>1, <1>3 DEF NodeAdds, Idle
<1>5. ChainBacked(c) /\ c \in Seq(Content) /\ Len(c) \in Nat /\ PluginTypes
  BY <1>1 DEF PluginInv, ChainBacked
<1>6. Backed(e, b)
  BY <1>1, <1>2, <1>4, AllowedBacks
<1>7. e \in Seq(Content) /\ Len(e) = Len(c) + 1 /\ ChainBacked(e)
  BY <1>2, <1>5, <1>6, OneMore, BackedMore
<1>8. Common(c, e, Len(c))
  BY <1>2, <1>5, PartOfMore DEF Common
<1>9. \A d \in Forging :
        d \notin {b.gen} \cup DOMAIN Received(b.votes) => Totals(e, d) = Totals(c, d)
  BY <1>2, <1>5, <1>6, CountingFollows
<1>10. PluginTypes'
  BY <1>4, <1>5 DEF PluginTypes
<1>11. ASSUME mode # "on", ~gap' PROVE Follows(info, e, synced, sync)
  <2>1. ~gap /\ ~Unnoticed(Len(c) + 1)
    BY <1>4, <1>11
  <2>2. Follows(info, c, synced, sync)
    BY <1>1, <1>11, <2>1 DEF PluginInv, SyncFollows
  <2>3. /\ synced \in Nat /\ (mode = "off" \/ mode = "sync") /\ (mode = "off" => sync = NoSync)
        /\ sync \in {NoSync} \cup [pc : {"last"}, last : Nat] \cup Round
        /\ sync.pc = "blocks" => Len(sync.blocks) <= sync.needle - 1
    BY <1>5, <1>11 DEF PluginTypes
  <2>4. sync.pc # "last"
    BY <2>1, <2>3 DEF Unnoticed, Behind, NoSync
  <2>5. sync.pc # "blocks" => synced <= Len(c)
    <3> SUFFICES ASSUME sync.pc # "blocks" PROVE synced <= Len(c)
      OBVIOUS
    <3>1. sync.pc = "none"
      BY <2>3, <2>4 DEF NoSync, Round
    <3>2. ~(Len(c) + 1 <= synced)
      BY <2>1, <2>3, <3>1 DEF Unnoticed
    <3> QED  BY <1>5, <2>3, <3>2
  <2>6. sync.pc = "blocks" => sync.needle - 1 <= Len(c)
    <3> SUFFICES ASSUME sync.pc = "blocks" PROVE sync.needle - 1 <= Len(c)
      OBVIOUS
    <3>1. mode = "sync" /\ sync.needle \in Nat
      BY <2>3 DEF NoSync, Round
    <3>2. ~(Len(c) + 1 < sync.needle)
      BY <2>1, <3>1 DEF Unnoticed
    <3> QED  BY <1>5, <3>1, <3>2
  <2> QED  BY <1>5, <1>7, <1>8, <2>2, <2>3, <2>4, <2>5, <2>6, FollowsOn
<1>12. SyncFollows'
  BY <1>2, <1>4, <1>11 DEF SyncFollows
<1>13. ASSUME mode = "on"
       PROVE  Handling(h, info, e) /\ (~gap' => Midway(h, info, e))
  <2>1. ~gap' => \A d \in Forging : info[d] = Totals(c, d)
    BY <1>1, <1>4, <1>13 DEF PluginInv, HandlersFollow
  <2>2. h = [op |-> "new", block |-> b, height |-> Len(c) + 1,
             left |-> {b.gen} \cup DOMAIN Received(b.votes), read |-> <<>>]
    BY <1>3 DEF Handler
  <2>3. Front(e) = c /\ Last(e) = b /\ e # <<>>
    BY <1>2, <1>5 DEF Front, Last
  <2>4. h \in HandlerType(info)
    BY <1>5, <2>2, ReceivedOf DEF HandlerType
  <2>5. h.left = {b.gen} \cup DOMAIN Received(b.votes) /\ h.read = <<>> /\ h.op = "new"
        /\ h.block = b /\ h.height = Len(c) + 1
    BY <2>2
  <2>6. ChainBefore(h, e) = c
    BY <2>3, <2>5 DEF ChainBefore
  <2>7. ~gap' => Midway(h, info, e)
    BY <1>9, <2>1, <2>5, <2>6 DEF Midway
  <2> QED  BY <1>7, <2>3, <2>4, <2>5, <2>7 DEF Handling
<1>14. HandlersFollow'
  <2> SUFFICES ASSUME mode' = "on"
               PROVE  \E x \in HandlerType(info') :
                        /\ handlers' = <<x>> /\ Handling(x, info', nodeChain')
                        /\ ~gap' => Midway(x, info', nodeChain')
    BY DEF HandlersFollow
  <2>1. handlers' = <<h>>
    BY <1>4
  <2>2. Handling(h, info', nodeChain') /\ (~gap' => Midway(h, info', nodeChain'))
    BY <1>2, <1>4, <1>13
  <2> QED  BY <2>1, <2>2 DEF Handling
<1> QED  BY <1>2, <1>7, <1>10, <1>12, <1>14 DEF PluginInv

LEMMA NodeDeletesKeeps ==
  ASSUME PluginInv, ~Overlap, OneVoterEach, NodeDeletes
  PROVE  PluginInv'
<1>1. PICK c : c = nodeChain
  OBVIOUS
<1>2. PICK e : e = nodeChain' /\ e = Front(c)
  BY <1>1 DEF NodeDeletes
<1>3. PICK b : b = Last(c)
  OBVIOUS
<1>4. PICK h : h = Handler("delete", b, Len(c))
  OBVIOUS
<1>5. /\ handlers = <<>> /\ c # <<>>
      /\ handlers' = IF mode = "on" THEN Append(handlers, h) ELSE handlers
      /\ gap' = (gap \/ Behind)
      /\ info' = info /\ synced' = synced /\ mode' = mode /\ sync' = sync
  BY <1>1, <1>3, <1>4 DEF NodeDeletes, Idle
<1>6. ChainBacked(c) /\ c \in Seq(Content) /\ PluginTypes
  BY <1>1 DEF PluginInv, ChainBacked
<1>7. /\ e \in Seq(Content) /\ Len(e) = Len(c) - 1 /\ b \in Content /\ c = Append(e, b)
      /\ Len(c) \in Nat /\ Len(c) >= 1 /\ Len(e) \in Nat
  BY <1>2, <1>3, <1>5, <1>6, FrontAndLast
<1>8. ChainBacked(e) /\ Backed(c, b)
  BY <1>2, <1>3, <1>5, <1>6, BackedLess
<1>9. Common(c, e, Len(e))
  BY <1>2, <1>5, <1>6, <1>7, PartOfFront DEF Common
<1>10. \A d \in Forging :
        d \notin {b.gen} \cup DOMAIN Received(b.votes) => Totals(c, d) = Totals(e, d)
  BY <1>7, <1>8, CountingFollows
<1>11. PluginTypes'
  BY <1>5, <1>6 DEF PluginTypes
<1>12. ASSUME mode # "on", ~gap' PROVE Follows(info, e, synced, sync)
  <2>1. ~gap /\ ~Behind
    BY <1>5, <1>12
  <2>2. Follows(info, c, synced, sync)
    BY <1>1, <1>12, <2>1 DEF PluginInv, SyncFollows
  <2>3. /\ synced \in Nat /\ (mode = "off" \/ mode = "sync") /\ (mode = "off" => sync = NoSync)
        /\ sync \in {NoSync} \cup [pc : {"last"}, last : Nat] \cup Round
        /\ sync.pc = "blocks" => Len(sync.blocks) <= sync.needle - 1
    BY <1>6, <1>12 DEF PluginTypes
  <2>4. sync.pc # "last"
    BY <2>1, <2>3 DEF Behind, NoSync
  <2>5. Len(e) <= Len(c)
    BY <1>7
  <2> QED  BY <1>6, <1>7, <1>9, <2>2, <2>3, <2>4, <2>5, FollowsOn
<1>13. SyncFollows'
  BY <1>2, <1>5, <1>12 DEF SyncFollows
<1>14. ASSUME mode = "on"
       PROVE  Handling(h, info, e) /\ (~gap' => Midway(h, info, e))
  <2>1. ~gap' => \A d \in Forging : info[d] = Totals(c, d)
    BY <1>1, <1>5, <1>14 DEF PluginInv, HandlersFollow
  <2>2. h = [op |-> "delete", block |-> b, height |-> Len(c),
             left |-> {b.gen} \cup DOMAIN Received(b.votes), read |-> <<>>]
    BY <1>4 DEF Handler
  <2>3. h \in HandlerType(info)
    BY <1>7, <2>2, ReceivedOf DEF HandlerType
  <2>4. h.left = {b.gen} \cup DOMAIN Received(b.votes) /\ h.read = <<>> /\ h.op = "delete"
        /\ h.block = b /\ h.height = Len(e) + 1
    BY <1>7, <2>2
  <2>5. ChainBefore(h, e) = c
    BY <1>7, <2>4 DEF ChainBefore
  <2>6. ~gap' => Midway(h, info, e)
    BY <1>10, <2>1, <2>4, <2>5 DEF Midway
  <2> QED  BY <1>7, <1>8, <2>3, <2>4, <2>6 DEF Handling
<1>15. HandlersFollow'
  <2> SUFFICES ASSUME mode' = "on"
               PROVE  \E x \in HandlerType(info') :
                        /\ handlers' = <<x>> /\ Handling(x, info', nodeChain')
                        /\ ~gap' => Midway(x, info', nodeChain')
    BY DEF HandlersFollow
  <2>1. handlers' = <<h>>
    BY <1>5
  <2>2. Handling(h, info', nodeChain') /\ (~gap' => Midway(h, info', nodeChain'))
    BY <1>2, <1>5, <1>14
  <2> QED  BY <2>1, <2>2 DEF Handling
<1> QED  BY <1>2, <1>8, <1>11, <1>13, <1>15 DEF PluginInv

-----------------------------------------------------------------------------
(* The steps of the synchronization keep the invariant.                    *)

LEMMA LoadKeeps == ASSUME PluginInv, Load PROVE PluginInv'
<1>1. /\ mode = "off" /\ mode' = "sync" /\ sync' = NoSync /\ sync = NoSync
      /\ nodeChain' = nodeChain /\ info' = info /\ synced' = synced
      /\ handlers' = handlers /\ gap' = gap /\ PluginTypes
  BY DEF Load, PluginInv, PluginTypes
<1>2. PluginTypes'
  BY <1>1 DEF PluginTypes, NoSync
<1> QED  BY <1>1, <1>2 DEF PluginInv, SyncFollows, HandlersFollow

LEMMA AskLastBlockKeeps == ASSUME PluginInv, AskLastBlock PROVE PluginInv'
<1>1. PICK r : r = [pc |-> "last", last |-> Len(nodeChain)]
  OBVIOUS
<1>2. /\ mode = "sync" /\ sync.pc = "none" /\ sync' = r
      /\ nodeChain' = nodeChain /\ info' = info /\ synced' = synced /\ mode' = mode
      /\ handlers' = handlers /\ gap' = gap /\ PluginTypes
  BY <1>1 DEF AskLastBlock, PluginInv
<1>3. nodeChain \in Seq(Content) /\ Len(nodeChain) \in Nat
  BY DEF PluginInv, ChainBacked
<1>4. r.pc = "last" /\ r.last = Len(nodeChain) /\ r \in [pc : {"last"}, last : Nat]
  BY <1>1, <1>3
<1>5. PluginTypes'
  BY <1>2, <1>4 DEF PluginTypes
<1>6. ASSUME ~gap PROVE Follows(info, nodeChain, synced, r)
  <2>1. Follows(info, nodeChain, synced, sync)
    BY <1>2, <1>6 DEF PluginInv, SyncFollows
  <2> QED  BY <1>2, <1>4, <2>1 DEF Follows
<1>7. SyncFollows'
  BY <1>2, <1>6 DEF SyncFollows
<1> QED  BY <1>2, <1>5, <1>7 DEF PluginInv, HandlersFollow

LEMMA ComparingKeeps == ASSUME PluginInv, Compare PROVE PluginInv'
<1>1. PICK c : c = nodeChain
  OBVIOUS
<1>2. /\ mode = "sync" /\ sync.pc = "last" /\ nodeChain' = c /\ handlers' = handlers
      /\ ChainBacked(c) /\ c \in Seq(Content) /\ Len(c) \in Nat /\ PluginTypes
      /\ handlers = <<>>
  BY <1>1 DEF Compare, PluginInv, ChainBacked, PluginTypes
<1>3. sync.last \in Nat /\ synced \in Nat /\ info = [d \in Delegate |-> info[d]]
  BY <1>2 DEF PluginTypes, NoSync, Round
<1>4. ~gap => Follows(info, c, synced, sync)
  BY <1>1, <1>2 DEF PluginInv, SyncFollows
<1>5. CASE synced = sync.last
  <2>1. mode' = "on" /\ sync' = NoSync /\ info' = info /\ synced' = synced /\ gap' = gap
    BY <1>3, <1>5 DEF Compare
  <2>2. PluginTypes'
    BY <1>2, <1>3, <2>1 DEF PluginTypes, NoSync
  <2>3. ~gap => synced = Len(c) /\ CountedUpto(info, c, Len(c))
    BY <1>2, <1>4, <1>5 DEF Follows
  <2>4. ~gap => \A d \in Forging : info[d] = Totals(c, d)
    BY <1>2, <2>3, AllOfIt DEF CountedUpto
  <2>5. HandlersFollow' /\ SyncFollows'
    BY <1>2, <2>1, <2>3, <2>4 DEF HandlersFollow, SyncFollows
  <2> QED  BY <1>2, <2>2, <2>5 DEF PluginInv
<1>6. CASE synced > sync.last
  <2>1. PICK r : r = [pc |-> "blocks", last |-> sync.last, needle |-> 1, blocks |-> <<>>]
    OBVIOUS
  <2>2. /\ info' = Nothing /\ synced' = 0 /\ sync' = r /\ mode' = mode
        /\ gap' = (sync.last > Len(c))
    BY <1>1, <1>3, <1>6, <2>1 DEF Compare
  <2>3. /\ r \in Round /\ r.pc = "blocks" /\ r.needle = 1 /\ r.blocks = <<>>
        /\ r.last = sync.last /\ Len(r.blocks) = 0
    BY <1>3, <2>1 DEF Round
  <2>4. PluginTypes'
    BY <1>2, <1>3, <2>2, <2>3 DEF PluginTypes, Nothing
  <2>5. \A d \in Forging : Nothing[d] = Totals(<<>>, d)
    BY TotalsOfNone, ForgerPluginAssumption DEF Nothing
  <2>6. SubSeq(c, 1, 0) = <<>>
    BY <1>2, AllOfIt
  <2>7. CountedUpto(Nothing, c, 0)
    BY <2>5, <2>6 DEF CountedUpto
  <2>8. Follows(Nothing, c, 0, r)
    BY <2>3, <2>6, <2>7 DEF Follows
  <2>9. SyncFollows' /\ HandlersFollow'
    BY <1>2, <2>2, <2>8 DEF SyncFollows, HandlersFollow
  <2> QED  BY <1>2, <2>4, <2>9 DEF PluginInv
<1>7. CASE synced < sync.last
  <2>1. PICK r : r = [pc |-> "blocks", last |-> sync.last, needle |-> synced + 1, blocks |-> <<>>]
    OBVIOUS
  <2>2. /\ info' = info /\ synced' = synced /\ sync' = r /\ mode' = mode /\ gap' = gap
    BY <1>3, <1>7, <2>1 DEF Compare
  <2>3. /\ r \in Round /\ r.pc = "blocks" /\ r.needle = synced + 1 /\ r.blocks = <<>>
        /\ r.last = sync.last /\ Len(r.blocks) = 0
    BY <1>3, <2>1 DEF Round
  <2>4. PluginTypes'
    BY <1>2, <1>3, <1>7, <2>2, <2>3 DEF PluginTypes
  <2>5. ASSUME ~gap PROVE Follows(info, c, synced, r)
    <3>1. synced <= Len(c) => CountedUpto(info, c, synced)
      BY <1>2, <1>4, <2>5 DEF Follows
    <3>2. SubSeq(c, synced + 1, synced) = <<>>
      BY <1>2, <1>3
    <3>3. r.needle - 1 = synced /\ r.needle - Len(r.blocks) = synced + 1
          /\ r.needle - 1 - Len(r.blocks) = synced
      BY <1>3, <2>3
    <3> QED  BY <2>3, <3>1, <3>2, <3>3 DEF Follows
  <2>6. SyncFollows' /\ HandlersFollow'
    BY <1>2, <2>2, <2>5 DEF SyncFollows, HandlersFollow
  <2> QED  BY <1>2, <2>4, <2>6 DEF PluginInv
<1> QED  BY <1>3, <1>5, <1>6, <1>7

LEMMA AskBlocksKeeps == ASSUME PluginInv, AskBlocks PROVE PluginInv'
<1>1. PICK c : c = nodeChain
  OBVIOUS
<1>2. /\ mode = "sync" /\ sync.pc = "blocks" /\ sync.blocks = <<>> /\ sync.needle <= sync.last
      /\ nodeChain' = c /\ info' = info /\ synced' = synced /\ mode' = mode
      /\ handlers' = handlers /\ gap' = gap
      /\ ChainBacked(c) /\ c \in Seq(Content) /\ Len(c) \in Nat /\ PluginTypes
  BY <1>1 DEF AskBlocks, PluginInv, ChainBacked
<1>3. sync \in Round
  BY <1>2 DEF PluginTypes, NoSync
<1>4. PICK q \in Nat, z \in Nat : q = sync.needle /\ z = sync.last /\ q # 0 /\ q <= z
  BY <1>2, <1>3 DEF Round
<1>5. PICK to : to = IF q + Batch <= z THEN q + Batch ELSE z
  OBVIOUS
<1>6. to \in Nat /\ q <= to /\ to <= z
  BY <1>4, <1>5, ForgerPluginAssumption
<1>7. PICK there : there = IF to < Len(c) THEN to ELSE Len(c)
  OBVIOUS
<1>8. there \in Nat /\ there <= to /\ there <= Len(c) /\ (to <= Len(c) => there = to)
  BY <1>2, <1>6, <1>7
<1>9. PICK s : s = SubSeq(c, q, there)
  OBVIOUS
<1>10. s \in Seq(Content) /\ Len(s) \in Nat /\ Len(s) <= to
       /\ (to <= Len(c) => Len(s) = (to - q) + 1)
  BY <1>2, <1>4, <1>6, <1>8, <1>9
<1>11. PICK t \in Nat : t = to + 1
  BY <1>6
<1>12. PICK r : r = [sync EXCEPT !.blocks = s, !.needle = t] /\ sync' = r
  BY <1>1, <1>4, <1>5, <1>7, <1>9, <1>11 DEF AskBlocks
<1>13. /\ r \in Round /\ r.pc = "blocks" /\ r.last = z /\ r.needle = to + 1 /\ r.blocks = s
  <2>1. t # 0
    BY <1>6, <1>11
  <2>2. sync \in [pc : {"blocks"}, last : Nat, needle : Nat \ {0}, blocks : Seq(Content)]
    BY <1>3 DEF Round
  <2>3. r \in [pc : {"blocks"}, last : Nat, needle : Nat \ {0}, blocks : Seq(Content)]
        /\ r.pc = sync.pc /\ r.last = sync.last /\ r.needle = t /\ r.blocks = s
    BY <1>10, <1>12, <2>1, <2>2
  <2> QED  BY <1>2, <1>4, <1>11, <2>3 DEF Round
<1>14. PluginTypes'
  <2>1. r.needle <= r.last + 1 /\ Len(r.blocks) <= r.needle - 1
    BY <1>4, <1>6, <1>10, <1>13
  <2> QED  BY <1>2, <1>12, <1>13, <2>1 DEF PluginTypes
<1>15. ASSUME ~gap PROVE Follows(info, c, synced, r)
  <2> SUFFICES ASSUME to <= Len(c)
               PROVE  s = SubSeq(c, q, to) /\ CountedUpto(info, c, q - 1)
    <3>1. r.needle - 1 = to
      BY <1>6, <1>13
    <3> PICK n \in Nat : n = Len(s)
      BY <1>10
    <3>3. to <= Len(c) => n = (to - q) + 1
      BY <1>10
    <3>4. Len(r.blocks) = n
      BY <1>13
    <3>2. to <= Len(c) => /\ r.needle - Len(r.blocks) = q
                          /\ r.needle - 1 - Len(r.blocks) = q - 1
      <4>1. to <= Len(c) => (to + 1) - n = q /\ ((to + 1) - 1) - n = q - 1
        BY <1>4, <1>6, <3>3, SMTT(30)
      <4> QED  BY <1>13, <3>4, <4>1
    <3> QED  BY <1>13, <3>1, <3>2 DEF Follows
  <2>1. Follows(info, c, synced, sync)
    BY <1>1, <1>2, <1>15 DEF PluginInv, SyncFollows
  <2>2. Len(sync.blocks) = 0 /\ sync.needle - 1 = q - 1 /\ q - 1 - 0 = q - 1 /\ q - 1 <= Len(c)
    BY <1>2, <1>4, <1>6
  <2>3. CountedUpto(info, c, q - 1)
    BY <1>2, <2>1, <2>2 DEF Follows
  <2> QED  BY <1>8, <1>9, <2>3
<1>16. SyncFollows' /\ HandlersFollow'
  BY <1>2, <1>12, <1>15 DEF SyncFollows, HandlersFollow
<1> QED  BY <1>2, <1>14, <1>16 DEF PluginInv

LEMMA CountBlockKeeps ==
  ASSUME PluginInv, OneVoterEach, CountBlock
  PROVE  PluginInv'
<1>1. PICK c : c = nodeChain
  OBVIOUS
<1>2. /\ mode = "sync" /\ sync.pc = "blocks" /\ sync.blocks # <<>>
      /\ nodeChain' = c /\ synced' = synced /\ handlers' = handlers /\ handlers = <<>>
      /\ info' = Added(info, Head(sync.blocks))
      /\ ChainBacked(c) /\ c \in Seq(Content) /\ Len(c) \in Nat /\ PluginTypes
  BY <1>1 DEF CountBlock, PluginInv, ChainBacked, PluginTypes
<1>3. sync \in Round /\ Len(sync.blocks) <= sync.needle - 1
  BY <1>2 DEF PluginTypes, NoSync
<1>4. PICK s : s = sync.blocks
  OBVIOUS
<1>5. s \in Seq(Content) /\ s # <<>>
  BY <1>2, <1>3, <1>4 DEF Round
<1>6. /\ Len(s) \in Nat /\ Len(s) # 0 /\ Tail(s) \in Seq(Content)
      /\ Len(Tail(s)) = Len(s) - 1 /\ Head(s) \in Content
  BY <1>5
<1>7. PICK l, k \in Nat :
        /\ l = Len(s) /\ k = sync.needle - 1 /\ l <= k
        /\ sync.needle = k + 1 /\ sync.needle - l = (k - l) + 1 /\ k - l \in Nat
  BY <1>3, <1>4, RoundIs
<1>8. info' = [d \in Delegate |-> info'[d]]
  BY <1>2 DEF Added
<1>9. CASE (k - l) + 1 - 1 <= Len(c)
  <2>1. PICK r : r = [sync EXCEPT !.blocks = Tail(@)]
    OBVIOUS
  <2>2. sync' = r /\ mode' = mode /\ gap' = gap
    BY <1>1, <1>4, <1>7, <1>9, <2>1, SMTT(30) DEF CountBlock
  <2>3. /\ r \in Round /\ r.pc = "blocks" /\ r.last = sync.last /\ r.needle = k + 1
        /\ r.blocks = Tail(s)
    BY <1>2, <1>3, <1>4, <1>6, <1>7, <2>1 DEF Round
  <2>4. PluginTypes'
    <3>1. Len(r.blocks) <= r.needle - 1 /\ r.needle <= r.last + 1
      BY <1>2, <1>6, <1>7, <2>3 DEF PluginTypes
    <3> QED  BY <1>2, <1>8, <2>2, <2>3, <3>1 DEF PluginTypes
  <2>5. ASSUME ~gap PROVE Follows(info', c, synced, r)
    <3>1. PICK g \in Nat : g = (k - l) + 1 /\ g - 1 = k - l
      BY <1>7
    <3> SUFFICES ASSUME k <= Len(c)
                 PROVE  Tail(s) = SubSeq(c, g + 1, k) /\ CountedUpto(info', c, g)
      <4>1. r.needle - 1 = k /\ r.needle - Len(r.blocks) = g + 1
            /\ r.needle - 1 - Len(r.blocks) = g
        BY <1>6, <1>7, <2>3, <3>1
      <4> QED  BY <2>3, <4>1 DEF Follows
    <3>2. Follows(info, c, synced, sync)
      BY <1>1, <1>2, <2>5 DEF PluginInv, SyncFollows
    <3>3. s = SubSeq(c, g, k) /\ CountedUpto(info, c, g - 1)
      BY <1>2, <1>4, <1>7, <3>1, <3>2 DEF Follows
    <3>4. 1 <= g /\ g <= k /\ g \in 1..Len(c)
      BY <1>2, <1>6, <1>7, <3>1
    <3>5. Head(s) = c[g] /\ Tail(s) = SubSeq(c, g + 1, k)
      BY <1>2, <3>3, <3>4, HeadOfPart
    <3>6. ASSUME NEW d \in Forging PROVE info'[d] = Totals(SubSeq(c, 1, g), d)
      <4>1. info'[d] = WithBlock(info[d], d, c[g])
        BY <1>2, <1>4, <3>5, ForgerPluginAssumption DEF Added
      <4>2. info[d] = Totals(SubSeq(c, 1, g - 1), d)
        BY <3>3 DEF CountedUpto
      <4> QED  BY <1>2, <3>4, <4>1, <4>2, NextTotals
    <3> QED  BY <3>5, <3>6 DEF CountedUpto
  <2>6. SyncFollows' /\ HandlersFollow'
    BY <1>2, <2>2, <2>5 DEF SyncFollows, HandlersFollow
  <2> QED  BY <1>2, <2>4, <2>6 DEF PluginInv
<1>10. CASE ~((k - l) + 1 - 1 <= Len(c))
  <2>1. sync' = NoSync /\ mode' = "off" /\ gap' = TRUE
    BY <1>1, <1>4, <1>7, <1>10 DEF CountBlock
  <2>2. PluginTypes'
    BY <1>2, <1>8, <2>1 DEF PluginTypes, NoSync
  <2>3. SyncFollows' /\ HandlersFollow'
    BY <2>1 DEF SyncFollows, HandlersFollow
  <2> QED  BY <1>2, <2>2, <2>3 DEF PluginInv
<1> QED  BY <1>9, <1>10

LEMMA RoundEndsKeeps == ASSUME PluginInv, RoundEnds PROVE PluginInv'
<1>1. PICK c : c = nodeChain
  OBVIOUS
<1>2. /\ mode = "sync" /\ sync.pc = "blocks" /\ sync.blocks = <<>> /\ sync.needle > sync.last
      /\ synced' = sync.last /\ sync' = NoSync
      /\ nodeChain' = c /\ info' = info /\ mode' = mode /\ handlers' = handlers /\ gap' = gap
      /\ PluginTypes /\ ChainBacked(c)
  BY <1>1 DEF RoundEnds, PluginInv
<1>3. sync \in Round /\ sync.needle <= sync.last + 1
  BY <1>2 DEF PluginTypes, NoSync
<1>4. sync.last \in Nat /\ sync.needle = sync.last + 1 /\ Len(sync.blocks) = 0
      /\ sync.needle - 1 = sync.last /\ sync.needle - 1 - 0 = sync.last
  BY <1>2, <1>3 DEF Round
<1>5. PluginTypes'
  BY <1>2, <1>4 DEF PluginTypes, NoSync
<1>6. ASSUME ~gap PROVE Follows(info, c, sync.last, NoSync)
  <2>1. Follows(info, c, synced, sync)
    BY <1>1, <1>2, <1>6 DEF PluginInv, SyncFollows
  <2>2. sync.last <= Len(c) => CountedUpto(info, c, sync.last)
    BY <1>2, <1>4, <2>1 DEF Follows
  <2> QED  BY <2>2 DEF Follows, NoSync
<1>7. SyncFollows' /\ HandlersFollow'
  BY <1>2, <1>6 DEF SyncFollows, HandlersFollow
<1> QED  BY <1>2, <1>5, <1>7 DEF PluginInv

LEMMA UnloadKeeps == ASSUME PluginInv, Unload PROVE PluginInv'
<1>1. /\ mode = "on" /\ handlers = <<>> /\ mode' = "off"
      /\ nodeChain' = nodeChain /\ info' = info /\ synced' = synced /\ sync' = sync
      /\ handlers' = handlers /\ gap' = gap /\ PluginTypes
      /\ nodeChain \in Seq(Content) /\ Len(nodeChain) \in Nat
  BY DEF Unload, Idle, PluginInv, ChainBacked
<1>2. sync = NoSync
  BY <1>1 DEF PluginTypes
<1>3. PluginTypes'
  BY <1>1, <1>2 DEF PluginTypes
<1>4. ASSUME ~gap PROVE Follows(info, nodeChain, synced, NoSync)
  <2>1. /\ synced \in {Len(nodeChain), Len(nodeChain) + 1}
        /\ \A d \in Forging : info[d] = Totals(nodeChain, d)
    BY <1>1, <1>4 DEF PluginInv, HandlersFollow
  <2>2. synced <= Len(nodeChain) => CountedUpto(info, nodeChain, synced)
    <3>1. PICK c \in Seq(Content), n \in Nat : c = nodeChain /\ n = Len(c)
      BY <1>1
    <3>2. PICK k \in Nat : k = synced
      BY <1>1 DEF PluginTypes
    <3>3. k <= n => k = n
      BY <2>1, <3>1, <3>2
    <3>4. SubSeq(c, 1, n) = c
      BY <3>1, AllOfIt
    <3>5. k <= n => CountedUpto(info, c, k)
      BY <2>1, <3>1, <3>3, <3>4 DEF CountedUpto
    <3> QED  BY <3>1, <3>2, <3>5
  <2> QED  BY <2>2 DEF Follows, NoSync
<1>5. SyncFollows' /\ HandlersFollow'
  BY <1>1, <1>2, <1>4 DEF SyncFollows, HandlersFollow
<1> QED  BY <1>1, <1>3, <1>5 DEF PluginInv

-----------------------------------------------------------------------------
(* The handlers keep it: each record is written once, as it was read, for  *)
(* there is no other handler.                                              *)

LEMMA TheHandler ==
  ASSUME PluginInv, NEW i \in DOMAIN handlers
  PROVE  \E h \in HandlerType(info) :
           /\ mode = "on" /\ handlers = <<h>> /\ i = 1 /\ handlers[i] = h
           /\ Handling(h, info, nodeChain)
           /\ ~gap => Midway(h, info, nodeChain)
<1>1. handlers # <<>>
  OBVIOUS
<1>2. mode = "on"
  BY <1>1 DEF PluginInv, PluginTypes
<1>3. PICK h \in HandlerType(info) :
        /\ handlers = <<h>> /\ Handling(h, info, nodeChain)
        /\ ~gap => Midway(h, info, nodeChain)
  BY <1>1, <1>2 DEF PluginInv, HandlersFollow
<1>4. i = 1 /\ handlers[i] = h
  BY <1>3
<1> QED  BY <1>2, <1>3, <1>4

\* A handler that goes on is again the only one.
LEMMA HandlerGoesOn ==
  ASSUME PluginInv, mode = "on", NEW h, handlers' = <<h>>,
         UNCHANGED <<nodeChain, synced, mode, sync, gap>>,
         info' = [d \in Delegate |-> info'[d]],
         Handling(h, info', nodeChain), ~gap => Midway(h, info', nodeChain)
  PROVE  PluginInv'
<1>1. PluginTypes'
  BY DEF PluginInv, PluginTypes
<1>2. Handling(h, info', nodeChain') /\ (~gap' => Midway(h, info', nodeChain'))
  OBVIOUS
<1>3. h \in HandlerType(info')
  BY <1>2 DEF Handling
<1>4. HandlersFollow' /\ SyncFollows'
  BY <1>2, <1>3 DEF HandlersFollow, SyncFollows
<1> QED  BY <1>1, <1>4 DEF PluginInv

LEMMA ReadRecordKeeps ==
  ASSUME PluginInv, NEW i \in DOMAIN handlers, ReadRecord(i)
  PROVE  PluginInv'
<1>1. PICK h \in HandlerType(info) :
        /\ mode = "on" /\ handlers = <<h>> /\ i = 1 /\ handlers[i] = h
        /\ Handling(h, info, nodeChain)
        /\ ~gap => Midway(h, info, nodeChain)
  BY TheHandler
<1>2. PICK d \in h.left : handlers' = [handlers EXCEPT ![i].read = <<d, info[d]>>]
  BY <1>1 DEF ReadRecord
<1>3. h \in [op : {"new", "delete"}, block : Content, height : Nat, left : SUBSET Delegate,
             read : {<<>>} \cup {<<x, info[x]>> : x \in Delegate}]
  BY DEF HandlerType
<1>4. d \in Delegate
  BY <1>3
<1>5. PICK p : p = <<d, info[d]>>
  OBVIOUS
<1>6. PICK k : k = [h EXCEPT !.read = p]
  OBVIOUS
<1>7. handlers' = <<k>>
  BY <1>1, <1>2, <1>5, <1>6
<1>8. /\ k.op = h.op /\ k.block = h.block /\ k.height = h.height /\ k.left = h.left
      /\ k.read = p /\ k \in HandlerType(info)
  BY <1>3, <1>4, <1>5, <1>6 DEF HandlerType
<1>9. Handling(k, info, nodeChain)
  <2>1. p[1] \in h.left
    BY <1>5
  <2> QED  BY <1>1, <1>8, <2>1 DEF Handling
<1>10. ~gap => Midway(k, info, nodeChain)
  BY <1>1, <1>8 DEF Midway, ChainBefore
<1>11. info' = info /\ UNCHANGED <<nodeChain, synced, mode, sync, gap>>
  BY DEF ReadRecord
<1>12. info' = [x \in Delegate |-> info'[x]]
  BY <1>11 DEF PluginInv, PluginTypes
<1> QED  BY <1>1, <1>7, <1>9, <1>10, <1>11, <1>12, HandlerGoesOn

LEMMA WriteRecordKeeps ==
  ASSUME PluginInv, OneVoterEach, NEW i \in DOMAIN handlers, WriteRecord(i)
  PROVE  PluginInv'
<1>1. PICK h \in HandlerType(info) :
        /\ mode = "on" /\ handlers = <<h>> /\ i = 1 /\ handlers[i] = h
        /\ Handling(h, info, nodeChain)
        /\ ~gap => Midway(h, info, nodeChain)
  BY TheHandler
<1>2. h \in [op : {"new", "delete"}, block : Content, height : Nat, left : SUBSET Delegate,
             read : {<<>>} \cup {<<x, info[x]>> : x \in Delegate}]
  BY DEF HandlerType
<1>3. h.read # <<>>
  BY <1>1 DEF WriteRecord
<1>4. PICK d \in Delegate : h.read = <<d, info[d]>>
  BY <1>2, <1>3
<1>5. h.read[1] = d /\ h.read[2] = info[d] /\ d \in h.left
  BY <1>1, <1>3, <1>4 DEF Handling
<1>6. PICK w : w = IF h.op = "new" THEN WithBlock(info[d], d, h.block)
                                    ELSE WithoutBlock(info[d], d, h.block)
  OBVIOUS
<1>7. PICK k : k = [h EXCEPT !.left = @ \ {d}, !.read = <<>>]
  OBVIOUS
<1>8. /\ info' = [info EXCEPT ![d] = w] /\ handlers' = <<k>>
      /\ UNCHANGED <<nodeChain, synced, mode, sync, gap>>
  <2>1. /\ info' = [info EXCEPT ![d] = IF h.op = "new" THEN WithBlock(info[d], d, h.block)
                                                       ELSE WithoutBlock(info[d], d, h.block)]
        /\ handlers' = [handlers EXCEPT ![i].left = @ \ {d}, ![i].read = <<>>]
        /\ UNCHANGED <<nodeChain, synced, mode, sync, gap>>
    BY <1>1, <1>5 DEF WriteRecord
  <2>2. handlers' = <<k>>
    BY <1>1, <1>7, <2>1
  <2> QED  BY <1>6, <2>1, <2>2
<1>9. /\ k.op = h.op /\ k.block = h.block /\ k.height = h.height /\ k.left = h.left \ {d}
      /\ k.read = <<>> /\ k \in HandlerType(info')
  BY <1>2, <1>7 DEF HandlerType
<1>10. Handling(k, info', nodeChain)
  BY <1>1, <1>9 DEF Handling
<1>11. info = [x \in Delegate |-> info[x]]
  BY DEF PluginInv, PluginTypes
<1>12. info' = [x \in Delegate |-> info'[x]] /\ info'[d] = w
       /\ \A x \in Delegate : x # d => info'[x] = info[x]
  BY <1>4, <1>8, <1>11
<1>13. PICK c : c = nodeChain /\ ChainBacked(c) /\ c \in Seq(Content)
  BY DEF PluginInv, ChainBacked
<1>14. ASSUME ~gap, d \in Forging PROVE w = Totals(c, d)
  <2>1. info[d] = Totals(ChainBefore(h, c), d)
    BY <1>1, <1>5, <1>13, <1>14 DEF Midway
  <2>2. h.block \in Content
    BY <1>2
  <2>3. CASE h.op = "new"
    <3>1. c # <<>> /\ Last(c) = h.block
      BY <1>1, <1>13, <2>3 DEF Handling
    <3>2. Front(c) \in Seq(Content) /\ c = Append(Front(c), h.block)
      BY <1>13, <3>1, FrontAndLast
    <3>3. Backed(c, h.block)
      BY <1>13, <3>1, BackedLess
    <3>4. PICK f \in Seq(Content) : f = Front(c) /\ c = Append(f, h.block)
      BY <3>2
    <3>5. WithBlock(Totals(f, d), d, h.block) = Totals(c, d)
      BY <1>14, <2>2, <3>3, <3>4, CountingFollows
    <3>6. info[d] = Totals(f, d)
      BY <2>1, <2>3, <3>4 DEF ChainBefore
    <3> QED  BY <1>6, <2>3, <3>5, <3>6
  <2>4. CASE h.op = "delete"
    <3>1. PICK f : f = Append(c, h.block)
      OBVIOUS
    <3>2. Backed(f, h.block)
      BY <1>1, <1>13, <2>4, <3>1 DEF Handling
    <3>3. WithoutBlock(Totals(f, d), d, h.block) = Totals(c, d)
      BY <1>13, <1>14, <2>2, <3>1, <3>2, CountingFollows
    <3>4. info[d] = Totals(f, d)
      BY <2>1, <2>4, <3>1 DEF ChainBefore
    <3> QED  BY <1>6, <2>4, <3>3, <3>4
  <2> QED  BY <1>2, <2>3, <2>4
<1>15. ASSUME ~gap PROVE Midway(k, info', c)
  <2> SUFFICES ASSUME NEW x \in Forging
               PROVE  info'[x] = Totals(IF x \in k.left THEN ChainBefore(k, c) ELSE c, x)
    BY DEF Midway
  <2>1. x \in Delegate
    BY ForgerPluginAssumption
  <2>2. CASE x = d
    BY <1>9, <1>12, <1>14, <1>15, <2>2
  <2>3. CASE x # d
    <3>1. info[x] = Totals(IF x \in h.left THEN ChainBefore(h, c) ELSE c, x)
      BY <1>1, <1>13, <1>15 DEF Midway
    <3>2. ChainBefore(k, c) = ChainBefore(h, c) /\ (x \in k.left <=> x \in h.left)
      BY <1>9, <2>3 DEF ChainBefore
    <3> QED  BY <1>12, <2>1, <2>3, <3>1, <3>2
  <2> QED  BY <2>2, <2>3
<1> QED  BY <1>1, <1>8, <1>10, <1>12, <1>13, <1>15, HandlerGoesOn

LEMMA HandledKeeps ==
  ASSUME PluginInv, NEW i \in DOMAIN handlers, Handled(i)
  PROVE  PluginInv'
<1>1. PICK h \in HandlerType(info) :
        /\ mode = "on" /\ handlers = <<h>> /\ i = 1 /\ handlers[i] = h
        /\ Handling(h, info, nodeChain)
        /\ ~gap => Midway(h, info, nodeChain)
  BY TheHandler
<1>2. /\ h.left = {} /\ synced' = h.height /\ handlers' = RemoveAt(<<h>>, 1)
      /\ UNCHANGED <<nodeChain, info, mode, sync, gap>>
  BY <1>1 DEF Handled
<1>3. RemoveAt(<<h>>, 1) = <<>>
  BY DEF RemoveAt
<1>4. h.height \in Nat
  BY DEF HandlerType
<1>5. PluginTypes'
  BY <1>2, <1>3, <1>4 DEF PluginInv, PluginTypes
<1>6. h.height \in {Len(nodeChain), Len(nodeChain) + 1}
  BY <1>1 DEF Handling
<1>7. ~gap => \A d \in Forging : info[d] = Totals(nodeChain, d)
  BY <1>1, <1>2 DEF Midway
<1>8. HandlersFollow' /\ SyncFollows'
  BY <1>1, <1>2, <1>3, <1>6, <1>7 DEF HandlersFollow, SyncFollows
<1> QED  BY <1>2, <1>5, <1>8 DEF PluginInv

LEMMA PluginStaysStill ==
  ASSUME PluginInv, UNCHANGED pluginVars PROVE PluginInv'
<1>1. /\ nodeChain' = nodeChain /\ info' = info /\ synced' = synced /\ mode' = mode
      /\ sync' = sync /\ handlers' = handlers /\ gap' = gap
  BY DEF pluginVars
<1> QED  BY <1>1 DEF PluginInv, PluginTypes, SyncFollows, HandlersFollow

LEMMA PluginStarts == ASSUME PluginInit PROVE PluginInv
<1>1. /\ nodeChain = <<>> /\ info = Nothing /\ synced = 0 /\ mode = "off" /\ sync = NoSync
      /\ handlers = <<>> /\ gap = FALSE
  BY DEF PluginInit
<1>2. PluginTypes
  BY <1>1 DEF PluginTypes, NoSync, Nothing
<1>3. PICK c : c = nodeChain /\ c \in Seq(Content) /\ Len(c) = 0 /\ SubSeq(c, 1, 0) = <<>>
  <2>1. <<>> \in Seq(Content) /\ Len(<<>>) = 0
    OBVIOUS
  <2> QED  BY <1>1, <2>1, AllOfIt
<1>4. ChainBacked(c)
  BY <1>3 DEF ChainBacked
<1>5. \A d \in Forging : Nothing[d] = Totals(<<>>, d)
  BY TotalsOfNone, ForgerPluginAssumption DEF Nothing
<1>6. CountedUpto(info, c, 0)
  BY <1>1, <1>3, <1>5 DEF CountedUpto
<1>7. Follows(info, c, synced, sync)
  BY <1>1, <1>6 DEF Follows, NoSync
<1> QED  BY <1>1, <1>2, <1>3, <1>4, <1>7 DEF PluginInv, SyncFollows, HandlersFollow

LEMMA PluginInvHolds ==
  ASSUME ~Overlap, ~EmptiesVotes, OneVoterEach, PluginInv, [PluginNext]_pluginVars
  PROVE  PluginInv'
<1>1. ASSUME NEW b \in Content, NodeAdds(b) PROVE PluginInv'
  BY <1>1, NodeAddsKeeps
<1>2. CASE NodeDeletes   BY <1>2, NodeDeletesKeeps
<1>3. CASE Load          BY <1>3, LoadKeeps
<1>4. CASE AskLastBlock  BY <1>4, AskLastBlockKeeps
<1>5. CASE Compare       BY <1>5, ComparingKeeps
<1>6. CASE AskBlocks     BY <1>6, AskBlocksKeeps
<1>7. CASE CountBlock    BY <1>7, CountBlockKeeps
<1>8. CASE RoundEnds     BY <1>8, RoundEndsKeeps
<1>9. CASE Unload        BY <1>9, UnloadKeeps
<1>10. ASSUME NEW i \in DOMAIN handlers, ReadRecord(i) \/ WriteRecord(i) \/ Handled(i)
       PROVE  PluginInv'
  BY <1>10, ReadRecordKeeps, WriteRecordKeeps, HandledKeeps
<1>11. CASE UNCHANGED pluginVars
  BY <1>11, PluginStaysStill
<1> QED  BY <1>1, <1>2, <1>3, <1>4, <1>5, <1>6, <1>7, <1>8, <1>9, <1>10, <1>11 DEF PluginNext

(***************************************************************************)
(* However blocks are added and deleted, the plugin started, synchronized  *)
(* and stopped: once it listens and has handled its event, the records of  *)
(* the node's delegates are the totals of the node's chain, unless the     *)
(* chain changed where the plugin does not look. The events are handled    *)
(* one at a time, no voter takes back all of its votes, and no block has   *)
(* votes of two voters for one of the node's delegates: without each of    *)
(* the three the handlers of forger_plugin.ts lose count.                  *)
(***************************************************************************)
THEOREM TotalsStayRight ==
  ASSUME ~Overlap, ~EmptiesVotes, OneVoterEach
  PROVE  PluginSpec => []TotalsMatchChain
<1>1. PluginInit => PluginInv
  BY PluginStarts
<1>2. PluginInv /\ [PluginNext]_pluginVars => PluginInv'
  BY PluginInvHolds
<1>3. PluginInv => TotalsMatchChain
  <2>1. ASSUME PluginInv, mode = "on", handlers = <<>>, ~gap, NEW d \in Forging
        PROVE  info[d] = Totals(nodeChain, d)
    <3>1. \A h : handlers # <<h>>
      BY <2>1
    <3> QED  BY <2>1, <3>1 DEF PluginInv, HandlersFollow
  <2> QED  BY <2>1 DEF TotalsMatchChain, Idle
<1> QED  BY <1>1, <1>2, <1>3, PTL DEF PluginSpec

=============================================================================
