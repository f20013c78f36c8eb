------------------------- MODULE SparseMerkleQuery ------------------------
(***************************************************************************)
(* The proofs of elements/lisk-tree/src/sparse_merkle_tree: that keys are  *)
(* in the tree of SparseMerkleTree or are not, made from the tree          *)
(* (generateSingleProof, generateMultiProof) and checked against a root    *)
(* (utils.ts verify, calculateRoot).                                       *)
(***************************************************************************)
EXTENDS SparseMerkleTree, Sequences, FiniteSets, TLC

CONSTANT MaxQuery  \* most keys in one proof (bound)

ASSUME QueryAssumption == MaxQuery \in Nat

\* the first d digits
Prefix(k, d) == [e \in 0 .. d - 1 |-> k[e]]

---------------------------------------------------------------------------
(* Making a proof                                                          *)

\* the branches above the place of k, from the root
Above(k) == [i \in 1 .. Depth(root, k) |-> Way(root, k)[i - 1]]

\* bits, lowest branch first: whether the sibling there is not empty
SingleProof(k) ==
  LET above == Above(k)
      there == AtKey(root, k)
      sib(i) == Child(above[i], 1 - k[i - 1])
      d == Len(above)
  IN [key |-> IF IsLeaf(there) THEN there.key ELSE k,
      value |-> IF IsLeaf(there) THEN there.value ELSE NoValue,
      bits |-> [i \in 1 .. d |-> IF sib(d + 1 - i) = Empty THEN 0 ELSE 1],
      siblings |-> SelectSeq([i \in 1 .. d |-> sib(i)], LAMBDA n : n # Empty),
      above |-> {above[i] : i \in 1 .. d} \cup (IF IsLeaf(there) THEN {there} ELSE {}),
      height |-> d]

\* sortByBitmapAndKey
LongestFirst(qs) ==
  SortSeq(qs, LAMBDA p, q : \/ Len(p.bits) > Len(q.bits)
                            \/ Len(p.bits) = Len(q.bits) /\ Precedes(p.key, q.key))

InsertedAt(s, i, x) == SubSeq(s, 1, i - 1) \o <<x>> \o SubSeq(s, i, Len(s))

\* A query one branch further up goes back into the queue unless the one it
\* would stand before has come to the same branch.
Requeued(q, queue) ==
  LET after == {i \in DOMAIN queue : \/ queue[i].height < q.height
                                     \/ queue[i].height = q.height /\ Precedes(q.key, queue[i].key)}
      i == CHOOSE i \in after : \A j \in after : i <= j
      merges == \/ q.height = 0
                \/ /\ queue[i].height = q.height
                   /\ Agree(queue[i].key, q.key, q.height)
  IN IF after = {} THEN Append(queue, q)
     ELSE IF merges THEN queue ELSE InsertedAt(queue, i, q)

\* (mutant) a hash that another query reaches by itself is sent too
NeededAlways(h, found, above) == TRUE
\* A hash is sent once, and not at all when a query passes through it.
Needed(h, found, above) == h \notin {found[i] : i \in DOMAIN found} \cup above

RECURSIVE Collected(_, _, _)
Collected(queue, found, above) ==
  LET q == Head(queue)
      b == q.bits[Len(q.bits) - q.height + 1]
      last == Len(q.siblings)
      up == [q EXCEPT !.height = @ - 1, !.siblings = IF b = 1 THEN SubSeq(@, 1, last - 1) ELSE @]
      found1 == IF b = 1 /\ Needed(q.siblings[last], found, above)
                THEN Append(found, q.siblings[last]) ELSE found
  IN IF queue = <<>> THEN found
     ELSE IF q.height = 0 THEN Collected(Tail(queue), found, above)
     ELSE Collected(Requeued(up, Tail(queue)), found1, above)

MultiProof(keys) ==
  LET single == [i \in DOMAIN keys |-> SingleProof(keys[i])] IN
  [queries |-> [i \in DOMAIN keys |-> [key |-> single[i].key, value |-> single[i].value,
                                       bits |-> single[i].bits]],
   siblings |-> Collected(LongestFirst(single), <<>>, UNION {single[i].above : i \in DOMAIN keys})]

---------------------------------------------------------------------------
(* Checking a proof                                                        *)

\* filterQueries: of the queries that have come to one branch, the first
Merged(qs) ==
  LET at(i) == <<Len(qs[i].bits), Prefix(qs[i].key, Len(qs[i].bits))>>
      first == {i \in DOMAIN qs : \A j \in 1 .. i - 1 : at(j) # at(i)}
      nth[n \in 1 .. Cardinality(first)] ==
        CHOOSE i \in first : Cardinality({j \in first : j < i}) = n - 1
  IN [n \in 1 .. Cardinality(first) |-> qs[nth[n]]]

\* areSiblingQueries
AreSiblings(p, q) ==
  LET h == Len(p.bits) IN
  /\ h = Len(q.bits)
  /\ Agree(p.key, q.key, h - 1) /\ p.key[h - 1] # q.key[h - 1]

Missing == [kind |-> "missing"]

RECURSIVE RootFrom(_, _)
RootFrom(qs, siblings) ==
  LET q == Head(qs)
      paired == Len(qs) > 1 /\ AreSiblings(q, qs[2])
      given == ~paired /\ Head(q.bits) = 1
      other == IF paired THEN qs[2].hash ELSE IF given THEN Head(siblings) ELSE Empty
      side == q.key[Len(q.bits) - 1]
      up == [q EXCEPT !.hash = IF side = 0 THEN BranchOf(@, other) ELSE BranchOf(other, @),
                      !.bits = Tail(@)]
      rest == IF paired THEN Tail(Tail(qs)) ELSE Tail(qs)
  IN IF q.bits = <<>> THEN q.hash
     ELSE IF given /\ siblings = <<>> THEN Missing
     ELSE RootFrom(Merged(LongestFirst(<<up>> \o rest)), IF given THEN Tail(siblings) ELSE siblings)

\* The bits travel as a number: zeros at their head are lost.
Travelled(bits) ==
  LET ones == {i \in DOMAIN bits : bits[i] = 1} IN
  IF ones = {} THEN <<>>
  ELSE SubSeq(bits, CHOOSE i \in ones : \A j \in ones : i <= j, Len(bits))

\* A query about another key must be about the only leaf below the branch
\* where the two keys part.
\* (mutant) any leaf will do
CoversAny(k, q) == TRUE
Covers(k, q) == q.key = k \/ Agree(q.key, k, Len(Travelled(q.bits)))

Verify(keys, proof, claimed) ==
  LET queries == [i \in DOMAIN keys |->
        [key |-> proof.queries[i].key, bits |-> Travelled(proof.queries[i].bits),
         hash |-> IF proof.queries[i].value = NoValue THEN Empty
                  ELSE LeafOf(proof.queries[i].key, proof.queries[i].value)]]
  IN /\ \A i \in DOMAIN keys : Covers(keys[i], proof.queries[i])
     /\ RootFrom(Merged(LongestFirst(queries)), proof.siblings) = claimed

---------------------------------------------------------------------------
\* the keys of S in their order
Listed(S) ==
  [i \in 1 .. Cardinality(S) |-> CHOOSE k \in S : Cardinality({j \in S : Precedes(j, k)}) = i - 1]

\* For every set of keys, present and absent ones mixed, one proof verifies
\* against the root (generateMultiProof, utils.ts verify).
KeyProofsVerify ==
  calls = 0 =>
    \A S \in SUBSET TreeKey : Cardinality(S) \in 1 .. MaxQuery =>
      Verify(Listed(S), MultiProof(Listed(S)), root)

\* A proof about one key says nothing about a key it was not made for,
\* unless it shows that key's absence (utils.ts verify "q does not give an
\* non-inclusion proof for k").
ProofsFit ==
  calls = 0 => \A k \in Present(map), j \in TreeKey :
             j # k /\ Verify(<<j>>, MultiProof(<<k>>), root) => map[j] = NoValue
=============================================================================
