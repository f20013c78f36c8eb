------------------------- MODULE SparseMerkleTree -------------------------
(***************************************************************************)
(* The sparse Merkle tree of elements/lisk-tree/src/sparse_merkle_tree: a  *)
(* map from keys to values kept as a tree whose root depends on the map    *)
(* only; update and remove.  SparseMerkleQuery adds the proofs that keys   *)
(* are in it or are not.                                                   *)
(*                                                                         *)
(* A hash is the term it is the hash of: of nothing, of a leaf's key and   *)
(* value, of a branch's two hashes.  The database is the set of hashes it  *)
(* can look up.  A key is its binary expansion, the digit 0 decides at the *)
(* root.                                                                   *)
(***************************************************************************)
EXTENDS Integers

CONSTANTS KeyBits,     \* length of a key
          LeafValue,   \* values a key can have
          Overwrites,  \* whether a key that has a value is updated
          MaxCalls     \* calls after the tree was filled (bound)

NoValue == "none"

ASSUME SparseAssumption ==
  /\ KeyBits \in Nat \ {0} /\ Overwrites \in BOOLEAN /\ MaxCalls \in Nat
  /\ NoValue \notin LeafValue

TreeKey == [0 .. KeyBits - 1 -> {0, 1}]

VARIABLES map,     \* [TreeKey -> value or NoValue]: what the calls so far meant
          root,    \* _rootHash
          hashes,  \* hashes in the database
          hung,    \* a call never returns
          calls    \* calls made after the tree was filled (bound)

sparseVars == <<map, root, hashes, hung, calls>>

Empty == [kind |-> "empty"]
LeafOf(k, v) == [kind |-> "leaf", key |-> k, value |-> v]
BranchOf(l, r) == [kind |-> "branch", left |-> l, right |-> r]
IsLeaf(n) == n.kind = "leaf"
IsBranch(n) == n.kind = "branch"
Child(n, side) == IF side = 0 THEN n.left ELSE n.right
WithChild(n, side, c) == IF side = 0 THEN BranchOf(c, n.right) ELSE BranchOf(n.left, c)

Present(m) == {k \in TreeKey : m[k] # NoValue}
\* the keys have their first d digits in common
Agree(j, k, d) == \A e \in 0 .. d - 1 : j[e] = k[e]
\* the order of the keys as buffers
Precedes(j, k) == \E e \in 0 .. KeyBits - 1 : Agree(j, k, e) /\ j[e] < k[e]

\* The loop over currentNode: the node found after d digits of k; what is
\* no branch is no longer left.
Onward(n, side) == IF IsBranch(n) THEN Child(n, side) ELSE n
Way(n, k) ==
  LET way[d \in 0 .. KeyBits] == IF d = 0 THEN n ELSE Onward(way[d - 1], k[d - 1])
  IN way
\* how many branches are above that node (h after the loop)
Depth(n, k) ==
  CHOOSE d \in 0 .. KeyBits :
    ~IsBranch(Way(n, k)[d]) /\ \A e \in 0 .. d - 1 : IsBranch(Way(n, k)[e])
AtKey(n, k) == Way(n, k)[Depth(n, k)]

\* "finally update all branch nodes": h branches get their new child, from
\* the lowest up; the nodes that then lie on the way of k.
Updated(above, k, h, bottom) ==
  LET new[d \in 0 .. h] == IF d = h THEN bottom ELSE WithChild(above[d], k[d], new[d + 1])
  IN new

---------------------------------------------------------------------------
(* update: the leaf takes an empty place, or parts from the leaf that is   *)
(* there with as many branches as the two keys share digits.               *)

\* where two keys part, from the depth d on
Parting(k, other, d) ==
  CHOOSE e \in d .. KeyBits - 1 : k[e] # other[e] /\ \A f \in d .. e - 1 : k[f] = other[f]

\* the nodes that come to lie on the way of k, down to the leaf or to the
\* branch where it parts
WayWith(r, k, v) ==
  LET there == AtKey(r, k)
      d == Depth(r, k)
      e == Parting(k, there.key, d)
      fork == WithChild(BranchOf(there, there), k[e], LeafOf(k, v))
      above == [i \in 0 .. e - 1 |-> IF i < d THEN Way(r, k)[i] ELSE BranchOf(Empty, Empty)]
  IN IF there = Empty
     THEN Updated(Way(r, k), k, d, LeafOf(k, v))
     ELSE Updated(above, k, e, fork)

\* A tree is filled in the order of the keys before its calls are counted.
Filling(k) == calls = 0 /\ \A j \in Present(map) : Precedes(j, k)

Update(k, v) ==
  LET new == WayWith(root, k, v) IN
  /\ ~hung /\ map[k] = NoValue
  /\ Filling(k) \/ calls < MaxCalls
  /\ map' = [map EXCEPT ![k] = v]
  /\ root' = new[0]
  /\ hashes' = hashes \cup {LeafOf(k, v)} \cup {new[d] : d \in DOMAIN new}
  /\ calls' = IF Filling(k) THEN 0 ELSE calls + 1
  /\ UNCHANGED hung

\* A key that has a leaf: the comparison of the two keys compares buffers,
\* not bytes, so the leaf found counts as another one, and the loop that
\* looks for the digit where the keys part never ends.
UpdateExisting(k, v) ==
  /\ Overwrites /\ ~hung /\ map[k] # NoValue /\ map[k] # v /\ calls < MaxCalls
  /\ map' = [map EXCEPT ![k] = v]
  /\ hashes' = hashes \cup {LeafOf(k, v)}
  /\ hung' = TRUE
  /\ calls' = calls + 1
  /\ UNCHANGED root

---------------------------------------------------------------------------
(* remove: with a leaf beside it, that leaf moves up to the first branch   *)
(* that has two children; with a branch beside it, its place is emptied.   *)

\* how many branches stay above the leaf that moves up from depth d
\* (mutant) it moves up one place only
RemainingOne(above, d) == d - 1
Remaining(above, d) ==
  LET kept == {h \in 1 .. d - 1 : above[h - 1].left # Empty /\ above[h - 1].right # Empty}
  IN IF kept = {} THEN 0 ELSE CHOOSE h \in kept : \A g \in kept : g <= h

\* what leaves the database: the leaf, and the branches the other leaf
\* moves past
\* (mutant) all the branches it came from
DroppedAll(above, h, d, there, sibling) == {there, sibling} \cup {above[i] : i \in 0 .. d - 1}
Dropped(above, h, d, there, sibling) ==
  (IF sibling = Empty THEN {} ELSE {there})
  \cup (IF IsLeaf(sibling) THEN {above[i] : i \in h .. d - 2} ELSE {})

Remove(k) ==
  LET above == Way(root, k)
      there == AtKey(root, k)
      d == Depth(root, k)
      sibling == IF d = 0 THEN Empty ELSE Child(above[d - 1], 1 - k[d - 1])
      h == IF IsLeaf(sibling) THEN Remaining(above, d) ELSE d
      new == Updated(above, k, h, IF IsLeaf(sibling) THEN sibling ELSE Empty)
  IN /\ ~hung /\ IsLeaf(there) /\ there.key = k /\ calls < MaxCalls
     /\ map' = [map EXCEPT ![k] = NoValue]
     /\ root' = new[0]
     /\ hashes' = (hashes \ Dropped(above, h, d, there, sibling)) \cup {new[i] : i \in 0 .. h - 1}
     /\ calls' = calls + 1
     /\ UNCHANGED hung

---------------------------------------------------------------------------
(* A tree in use                                                           *)

SparseInit ==
  /\ map = [k \in TreeKey |-> NoValue]
  /\ root = Empty /\ hashes = {} /\ hung = FALSE /\ calls = 0

SparseNext ==
  \/ \E k \in TreeKey, v \in LeafValue : Update(k, v)
  \/ \E k \in TreeKey, v \in LeafValue : UpdateExisting(k, v)
  \/ \E k \in TreeKey : Remove(k)

SparseSpec == SparseInit /\ [][SparseNext]_sparseVars

\* The definition of the root: of no key nothing, of one key its leaf, of
\* more a branch of the two halves (the reference the code is checked
\* against).  With h digits left to tell keys apart, the node of every set S.
LowestNodes(m) ==
  [S \in SUBSET TreeKey |->
    IF S = {} THEN Empty ELSE LET k == CHOOSE k \in S : TRUE IN LeafOf(k, m[k])]
Half(S, d, side) == {k \in S : k[d] = side}
NodesOver(below, m, h) ==
  [S \in SUBSET TreeKey |->
    IF \A j, k \in S : j = k THEN LowestNodes(m)[S]
    ELSE BranchOf(below[Half(S, KeyBits - h, 0)], below[Half(S, KeyBits - h, 1)])]
NodesOfKeys(m) ==
  LET nodes[h \in 0 .. KeyBits] == IF h = 0 THEN LowestNodes(m) ELSE NodesOver(nodes[h - 1], m, h)
  IN nodes

\* The root is the one of the map, whatever updates and removals led to it
\* and in whatever order (sparse_merkle_tree.ts update, remove).
RootOfMap == ~hung => root = NodesOfKeys(map)[KeyBits][Present(map)]

\* Every call ends ("currentNode will be updated to newLeaf",
\* sparse_merkle_tree.ts update).
CallsReturn == ~hung

\* the nodes a walk from the root can come to
Below(n) == {Way(n, k)[d] : k \in TreeKey, d \in 0 .. KeyBits} \ {Empty}

\* No removal takes a node out of the database that the tree still needs
\* (sparse_merkle_tree.ts remove).
NodesKept == Below(root) \subseteq hashes

\* The tree is the one its map has and its nodes can be looked up, after any
\* updates and removals in any order (sparse_merkle_tree.ts update, remove).
TreeOfMap == RootOfMap /\ NodesKept
=============================================================================
