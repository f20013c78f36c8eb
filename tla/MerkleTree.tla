---------------------------- MODULE MerkleTree ----------------------------
(***************************************************************************)
(* The Merkle tree of elements/lisk-tree/src/merkle_tree: a tree built     *)
(* from a list, grown by append, the proofs and right witnesses it gives   *)
(* and the functions that check them without the tree.                     *)
(*                                                                         *)
(* A hash is the term it is the hash of: <<v>> of a leaf, <<l, r>> of a    *)
(* branch, <<>> of nothing; so equal data has equal hashes and nothing     *)
(* else has.  The tree keeps two maps: "node", from a hash to where it was *)
(* last put, and "loc", from a place (a string of binary digits) to a hash.*)
(***************************************************************************)
EXTENDS Integers, Sequences, FiniteSets, TLC

CONSTANTS Repeated,    \* values that may occur more than once in a list
          MaxBuilt,    \* longest list a tree is built from (bound)
          MaxAppends   \* how often a tree is appended to (bound)

ASSUME MerkleTreeAssumption ==
  /\ Repeated \subseteq Nat \ {0} /\ MaxBuilt \in Nat /\ MaxAppends \in Nat

VARIABLES list,    \* the data, in order
          tree,    \* the tree of it
          appends  \* how often append was called

treeVars == <<list, tree, appends>>

EmptyHash == <<>>
Leaf(v) == <<v>>
Branch(l, r) == <<l, r>>
IsLeafHash(h) == Len(h) = 1
Undefined == "undefined"

Put(f, k, v) == (k :> v) @@ f
Reversed(s) == [i \in 1 .. Len(s) |-> s[Len(s) + 1 - i]]

---------------------------------------------------------------------------
(* Places (utils.ts)                                                       *)

BitLength(n) == IF n = 0 THEN 1 ELSE CHOOSE b \in 1 .. (n + 1) : 2 ^ (b - 1) <= n /\ n < 2 ^ b

\* Math.ceil(Math.log2(size)) + 1; of an empty tree, minus infinity
HeightOf(size) ==
  IF size = 0 THEN -1 ELSE (CHOOSE h \in 0 .. size : 2 ^ h >= size /\ (h = 0 \/ 2 ^ (h - 1) < size)) + 1

\* getBinaryString: the index, padded to a length
Place(index, length) ==
  IF length = 0 THEN <<0, 0>>
  ELSE <<index, IF length > BitLength(index) THEN length ELSE BitLength(index)>>

\* getMaxIdxAtLayer: how many nodes a layer has; an odd node waits for the
\* next layer with an odd one.
RECURSIVE Halved(_, _, _)
Halved(n, odd, layers) ==
  IF layers = 0 THEN n
  ELSE Halved(IF odd % 2 = 0 THEN n \div 2 ELSE (n + 1) \div 2, odd + (n % 2), layers - 1)
LayerNodes(layer, size) == Halved(size, 0, layer)

\* getRightSiblingInfo: the sibling in the same layer, or the node below it
\* that is waiting for it.
RECURSIVE Lowered(_, _, _)
Lowered(index, layer, size) ==
  IF index >= LayerNodes(layer, size) /\ layer > 0
  THEN Lowered(index * 2, layer - 1, size)
  ELSE [index |-> index, layer |-> layer]
SiblingOf(index, layer, size) ==
  Lowered(((index \div 2) * 2) + ((index + 1) % 2), layer, size)
HasSibling(index, layer, size) == SiblingOf(index, layer, size).index < size

\* getLocation and toIndex: a place as one number, a 1 before its digits
LocationOf(idx, height) ==
  [index |-> idx - 2 ^ (BitLength(idx) - 1), layer |-> height - (BitLength(idx) - 1)]
\* (mutant) the digits are not padded
ToIndexUnpadded(index, layer, height) == 2 ^ BitLength(index) + index
ToIndex(index, layer, height) == 2 ^ Place(index, height - layer)[2] + index
RootIndex == 2

\* treeSortFn: lower layers first, left to right
Before(a, b) == BitLength(a) > BitLength(b) \/ (BitLength(a) = BitLength(b) /\ a < b)
FirstOf(S) == CHOOSE a \in S : \A b \in S \ {a} : Before(a, b)

---------------------------------------------------------------------------
(* The tree (merkle_tree.ts): a record of root, size and the two maps      *)

EmptyTree == [root |-> EmptyHash, size |-> 0,
              node |-> (EmptyHash :> [layer |-> 0, index |-> 0]),
              loc |-> (Place(0, -1) :> EmptyHash)]

WithLeaf(t, v, i) ==
  [t EXCEPT !.node = Put(@, Leaf(v), [layer |-> 0, index |-> i]),
            !.loc = Put(@, Place(i, HeightOf(t.size)), Leaf(v))]

WithBranch(t, l, r, layer, i) ==
  [t EXCEPT !.node = Put(@, Branch(l, r), [layer |-> layer, index |-> i]),
            !.loc = Put(@, Place(i, HeightOf(t.size) - layer), Branch(l, r))]

RECURSIVE WithLeaves(_, _, _), WithPairs(_, _, _, _), WithLayers(_, _, _, _)
WithLeaves(t, data, i) ==
  IF i = Len(data) THEN t ELSE WithLeaves(WithLeaf(t, data[i + 1], i), data, i + 1)

WithPairs(t, pairs, layer, i) ==
  IF i = Len(pairs) THEN t
  ELSE WithPairs(WithBranch(t, pairs[i + 1][1], pairs[i + 1][2], layer, i), pairs, layer, i + 1)

\* The loop of _build: pairs of neighbours; a single one left over waits, or
\* is paired with the one that waited.
WithLayers(t, hashes, layer, orphans) ==
  LET n == Len(hashes)
      whole == [i \in 1 .. n \div 2 |-> <<hashes[2 * i - 1], hashes[2 * i]>>]
      meets == n % 2 = 1 /\ orphans # <<>>
      pairs == IF meets THEN Append(whole, <<hashes[n], orphans[1]>>) ELSE whole
      left == IF n % 2 = 0 THEN orphans ELSE IF meets THEN <<>> ELSE <<hashes[n]>>
      parents == [i \in DOMAIN pairs |-> Branch(pairs[i][1], pairs[i][2])]
  IN IF n <= 1 /\ orphans = <<>>
     THEN [t EXCEPT !.root = hashes[1]]
     ELSE WithLayers(WithPairs(t, pairs, layer + 1, 0), parents, layer + 1, left)

\* init
Built(data) ==
  CASE data = <<>> -> EmptyTree
    [] Len(data) = 1 ->
         LET t == WithLeaf([EmptyTree EXCEPT !.node = <<>>, !.loc = <<>>], data[1], 0)
         IN [t EXCEPT !.root = Leaf(data[1]), !.size = 1]
    [] OTHER ->
         LET t == WithLeaves([EmptyTree EXCEPT !.size = Len(data), !.node = <<>>, !.loc = <<>>], data, 0)
         IN WithLayers(t, [i \in DOMAIN data |-> Leaf(data[i])], 0, <<>>)

\* _getAppendPathNodes: down the right side, the complete trees a new leaf
\* is hung on, lowest first.
RECURSIVE Down(_, _, _)
Down(t, h, path) ==
  LET n == t.node[h]
      here == IF (t.size \div 2 ^ n.layer) % 2 = 1 /\ n.index % 2 = 0 THEN Append(path, h) ELSE path
      below == IF (t.size \div 2 ^ (n.layer - 1)) % 2 = 1 THEN Append(here, h[1]) ELSE here
  IN IF IsLeafHash(h) THEN here ELSE Down(t, h[2], below)

\* (mutant) lowest last
AppendPathDown(t) ==
  IF t.size = 0 THEN <<>>
  ELSE IF t.size = 2 ^ (HeightOf(t.size) - 1) THEN <<t.root>>
  ELSE Down(t, t.root, <<>>)

AppendPath(t) ==
  IF t.size = 0 THEN <<>>
  ELSE IF t.size = 2 ^ (HeightOf(t.size) - 1) THEN <<t.root>>
  ELSE Reversed(Down(t, t.root, <<>>))

\* append
RECURSIVE Hung(_, _, _)
Hung(t, path, h) ==
  IF path = <<>> THEN [t EXCEPT !.root = h, !.size = @ + 1]
  ELSE LET l == Head(path) IN
       Hung(WithBranch(t, l, h, t.node[l].layer + 1, t.node[l].index + 1), Tail(path), Branch(l, h))
Appended(t, v) ==
  IF t.size = 0 THEN [WithLeaf(t, v, 0) EXCEPT !.root = Leaf(v), !.size = 1]
  ELSE Hung(WithLeaf(t, v, t.size), AppendPath(t), Leaf(v))
---------------------------------------------------------------------------
(* Proofs (merkle_tree.ts generateProof, utils.ts, verify_proof.ts)        *)

\* _getIndices: the place a hash was last put in
IndexOf(t, h) == ToIndex(t.node[h].index, t.node[h].layer, HeightOf(t.size))

\* _getSiblingHashes: from the lowest asked place upwards, the siblings that
\* can be computed from nothing asked; "idxs" are the places asked for, S
\* those still to handle.
RECURSIVE Siblings(_, _, _, _)
Siblings(t, idxs, S, found) ==
  LET idx == FirstOf(S)
      height == HeightOf(t.size)
      at == LocationOf(idx, height)
      sib == SiblingOf(at.index, at.layer, t.size)
      sibIdx == ToIndex(sib.index, sib.layer, height)
      place == Place(sib.index, height - sib.layer)
      up == (S \ {idx}) \cup {idx \div 2}
  IN CASE S = {} -> found
       [] OTHER ->
            CASE idx % 2 = 0 /\ idx + 1 \in S -> Siblings(t, idxs, up \ {idx + 1}, found)
              [] at.layer = height -> found
              [] ~HasSibling(at.index, at.layer, t.size) \/ sibIdx \in idxs -> Siblings(t, idxs, up, found)
              [] OTHER ->
                   Siblings(t, idxs, up,
                            Append(found, IF place \in DOMAIN t.loc THEN t.loc[place] ELSE Undefined))

\* generateProof; a place the tree does not find makes it throw, which the
\* proof shows as an undefined hash.
ProofOf(t, hashes) ==
  LET idxs == {IndexOf(t, h) : h \in hashes} IN
  [size |-> t.size, idxs |-> idxs, siblings |-> Siblings(t, idxs, idxs, <<>>)]

\* calculatePathNodes: the hashes of every place on the way up; places whose
\* sibling is missing hand their own hash to the parent (cache).  A parent
\* that was asked for and differs, a hash that is missing: the check fails.
RECURSIVE PathNodes(_, _, _, _, _)
PathNodes(size, known, cache, S, siblings) ==
  LET idx == FirstOf(S)
      height == HeightOf(size)
      at == LocationOf(idx, height)
      sib == SiblingOf(at.index, at.layer, size)
      sibIdx == ToIndex(sib.index, sib.layer, height)
      here == IF idx \in DOMAIN known THEN known[idx] ELSE cache[idx]
      given == sibIdx \notin DOMAIN known
      other == IF ~given THEN known[sibIdx] ELSE Head(siblings)
      parent == IF idx % 2 = 0 THEN Branch(here, other) ELSE Branch(other, here)
      up == (S \ {idx}) \cup {idx \div 2}
  IN CASE S = {} \/ idx = RootIndex -> known
       [] idx # RootIndex /\ ~HasSibling(at.index, at.layer, size) ->
            PathNodes(size, known, Put(cache, idx \div 2, here), up, siblings)
       [] OTHER ->
            IF \/ given /\ siblings = <<>>
               \/ idx \div 2 \in DOMAIN known /\ known[idx \div 2] # parent
            THEN <<>>
            ELSE PathNodes(size, Put(known, idx \div 2, parent), cache, up,
                           IF given THEN Tail(siblings) ELSE siblings)

\* verifyProof: "asked" gives the hash claimed for each place.
Verifies(proof, asked, root) ==
  LET nodes == PathNodes(proof.size, asked, <<>>, DOMAIN asked, proof.siblings) IN
  /\ proof.size > 0
  /\ RootIndex \in DOMAIN nodes /\ nodes[RootIndex] = root

\* MerkleTree.update gives the root a change of the asked leaves leads to
\* (calculateRootFromUpdateData does the same without the tree).
\* (mutant) the siblings in the other order
UpdatedRootReversed(proof, changed) ==
  PathNodes(proof.size, changed, <<>>, DOMAIN changed, Reversed(proof.siblings))[RootIndex]
UpdatedRoot(proof, changed) ==
  PathNodes(proof.size, changed, <<>>, DOMAIN changed, proof.siblings)[RootIndex]

---------------------------------------------------------------------------
(* Right witnesses (generateRightWitness, right_witness.ts)                *)

Bit(n, layer) == (n \div 2 ^ layer) % 2

\* the complete trees to the right of a prefix, lowest first
RECURSIVE WitnessFrom(_, _, _, _)
WitnessFrom(t, idx, carried, layer) ==
  LET height == HeightOf(t.size)
      at == (idx - 1) \div 2 ^ layer
      sib == SiblingOf(at, layer, t.size)
      place == Place(sib.index, height - sib.layer)
  IN IF layer = height THEN <<>>
     ELSE IF Bit(carried, layer) = 0 THEN WitnessFrom(t, idx, carried, layer + 1)
     ELSE IF ~HasSibling(at, layer, t.size) THEN <<>>
     ELSE <<IF place \in DOMAIN t.loc THEN t.loc[place] ELSE Undefined>>
          \o WitnessFrom(t, idx, carried + 2 ^ layer, layer + 1)

\* (mutant) the witness starts beside the next leaf
WitnessBeside(t, idx) ==
  IF idx = t.size THEN <<>>
  ELSE IF idx = 0 THEN AppendPath(t)
  ELSE WitnessFrom(t, idx + 1, idx, 0)

WitnessOf(t, idx) ==
  IF idx = t.size THEN <<>>
  ELSE IF idx = 0 THEN AppendPath(t)
  ELSE WitnessFrom(t, idx, idx, 0)

RECURSIVE RootFromPath(_, _), RootFromBoth(_, _, _, _, _, _, _)
RootFromPath(h, path) ==
  IF path = <<>> THEN h ELSE RootFromPath(Branch(Head(path), h), Tail(path))

\* calculateRootFromRightWitness: the two paths are consumed together, the
\* layer decides which one is next.
RootFromBoth(idx, layer, carried, started, path, witness, h) ==
  LET asks == path # <<>> /\ Bit(idx, layer) = 1
      carried1 == IF asks /\ ~started THEN carried + 2 ^ layer ELSE carried
      h1 == IF asks /\ started THEN Branch(Head(path), h) ELSE h
      path1 == IF asks /\ started THEN Tail(path) ELSE path
      right == witness # <<>> /\ Bit(carried1, layer) = 1
  IN IF path = <<>> /\ witness = <<>> THEN h
     ELSE RootFromBoth(idx, layer + 1,
                       IF right THEN carried1 + 2 ^ layer ELSE carried1,
                       started \/ asks, path1,
                       IF right THEN Tail(witness) ELSE witness,
                       IF right THEN Branch(h1, Head(witness)) ELSE h1)

RootFromWitness(idx, path, witness) ==
  IF path = <<>> THEN RootFromPath(Head(witness), Tail(witness))
  ELSE IF witness = <<>> THEN RootFromPath(Head(path), Tail(path))
  ELSE RootFromBoth(idx, 0, idx, FALSE, Tail(path), Tail(witness), Branch(Head(path), Head(witness)))

---------------------------------------------------------------------------
(* Growing without the tree (utils.ts calculateMerkleRoot)                 *)

Ones(n) == Cardinality({i \in 0 .. BitLength(n) : Bit(n, i) = 1})
\* how many of the lowest digits are 1
\* (mutant) all the digits that are 1
LowOnesAll(n) == Ones(n)
LowOnes(n) == CHOOSE k \in 0 .. BitLength(n) : Bit(n, k) = 0 /\ \A i \in 0 .. k - 1 : Bit(n, i) = 1

\* root and append path after one more leaf
CalculatedRoot(size, path, v) == RootFromPath(Leaf(v), SubSeq(path, 1, Ones(size)))
CalculatedPath(size, path, v) ==
  <<RootFromPath(Leaf(v), SubSeq(path, 1, LowOnes(size)))>> \o SubSeq(path, LowOnes(size) + 1, Len(path))
---------------------------------------------------------------------------
(* A tree in use: built once, appended to, asked                           *)

\* Lists with repetitions, and lists of different values
Lists(n) == [1 .. n -> Repeated] \cup {[i \in 1 .. n |-> i]}

TreeInit ==
  /\ \E n \in 0 .. MaxBuilt : list \in Lists(n)
  /\ tree = Built(list)
  /\ appends = 0

Grow ==
  /\ appends < MaxAppends
  /\ \E v \in Repeated \cup {Len(list) + 1} :
       /\ list' = Append(list, v)
       /\ tree' = Appended(tree, v)
  /\ appends' = appends + 1

TreeSpec == TreeInit /\ [][Grow]_treeVars

\* The definition of the root: a list is split at the largest power of 2
\* below its length (the reference the code is checked against).
RECURSIVE RootOf(_)
RootOf(s) ==
  LET k == CHOOSE k \in {2 ^ i : i \in 0 .. Len(s)} : k < Len(s) /\ 2 * k >= Len(s)
  IN CASE s = <<>> -> EmptyHash
       [] Len(s) = 1 -> Leaf(s[1])
       [] OTHER -> Branch(RootOf(SubSeq(s, 1, k)), RootOf(SubSeq(s, k + 1, Len(s))))

\* The root is the one of the list, whether the tree was built from all of
\* it or grown (merkle_tree.ts _build, append; merkle_tree.spec.ts "should
\* append and have correct root").
RootOfList == tree.root = RootOf(list)

Ask(t, hashes) ==
  [i \in {IndexOf(t, h) : h \in hashes} |-> CHOOSE h \in hashes : IndexOf(t, h) = i]

\* Every set of nodes of a built tree, leaves and branches mixed, ancestors
\* with descendants included, has a proof that verifies against the root
\* and fails against the root of a longer list (merkle_tree.ts
\* generateProof, verify_proof.ts).
ProofsVerify ==
  appends = 0 =>
    \A hashes \in SUBSET (DOMAIN tree.node \ {EmptyHash}) \ {{}} :
      LET proof == ProofOf(tree, hashes) IN
      /\ Verifies(proof, Ask(tree, hashes), tree.root)
      /\ ~Verifies(proof, Ask(tree, hashes), RootOf(Append(list, 1)))

\* Any prefix's append path and the witness of the rest give the root of the
\* whole (right_witness.ts, merkle_tree.ts generateRightWitness).
WitnessCompletes ==
  appends = 0 /\ list # <<>> =>
    \A i \in 0 .. Len(list) :
      RootFromWitness(i, AppendPath(Built(SubSeq(list, 1, i))), WitnessOf(tree, i)) = tree.root

\* Root and append path computed without the tree are those of the tree with
\* one more leaf (utils.ts calculateMerkleRoot).
GrowsWithoutTree ==
  appends = 0 /\ list # <<>> =>
    LET v == Len(list) + 1
        longer == Built(Append(list, v))
    IN /\ CalculatedRoot(tree.size, AppendPath(tree), v) = longer.root
       /\ CalculatedPath(tree.size, AppendPath(tree), v) = AppendPath(longer)

\* The root computed from changed leaves and the proof of the old ones is
\* the root of the changed list (calculate.ts, merkle_tree.ts update).
UpdateGivesRoot ==
  appends = 0 /\ (\A i \in DOMAIN list : list[i] = i) =>
    \A D \in SUBSET DOMAIN list \ {{}} :
      LET new(i) == IF i \in D THEN Len(list) + i ELSE list[i]
          changed == [x \in {IndexOf(tree, Leaf(i)) : i \in D} |->
                        Leaf(new(CHOOSE i \in D : IndexOf(tree, Leaf(i)) = x))]
      IN UpdatedRoot(ProofOf(tree, {Leaf(i) : i \in D}), changed)
           = RootOf([i \in DOMAIN list |-> new(i)])

\* The tree and what is computed without it agree on the root of the list.
MerkleSound ==
  RootOfList /\ ProofsVerify /\ WitnessCompletes /\ GrowsWithoutTree /\ UpdateGivesRoot
=============================================================================
