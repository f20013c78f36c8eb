--------------------------- MODULE ConsensusProofs --------------------------
(***************************************************************************)
(* What the voting ledger computes, for headers and chains of any content: *)
(* the order that areHeadersContradicting asks for, the heights a header   *)
(* prevotes and precommits, the walk of getMinValidHeightToPreCommit, and  *)
(* that the counts of the ledger are numbers of different voters.          *)
(*                                                                         *)
(* Safety of the network for any validators, any threshold that satisfies  *)
(* QuorumAssumption and chains of any length.                              *)
(*                                                                         *)
(* One node and one chain. The fork choice rule never makes the node swing *)
(* between branches, for any set of headers, any slot length and any       *)
(* clock. On a chain, for any validators, any threshold and any claims in  *)
(* the headers, what the ledger counts are votes of different validators,  *)
(* each for a height it had seen prevoted.                                 *)
(***************************************************************************)
EXTENDS TipAdoption, VotingChain, Finality,
        FiniteSetTheorems, SequenceTheorems, WellFoundedInduction, TLAPS

-----------------------------------------------------------------------------
(* The voting ledger.                                                      *)

IsHeader(b) == b.height \in Nat /\ b.mhpf \in Nat /\ b.mhp \in Nat

\* The verdict does not depend on which header is handed over first: the
\* report of a misbehaving delegate may name them in either order
\* (areHeadersContradicting).
THEOREM ContradictingSymmetric ==
  ASSUME NEW a, NEW b, IsHeader(a), IsHeader(b)
  PROVE  Contradicting(a, b) <=> Contradicting(b, a)
<1>1. CASE SignedBefore(a, b) /\ SignedBefore(b, a)
  BY <1>1 DEF SignedBefore, Contradicting, BreaksSigningRules, IsHeader
<1>2. CASE SignedBefore(a, b) /\ ~SignedBefore(b, a)
  BY <1>2 DEF Contradicting
<1>3. CASE ~SignedBefore(a, b) /\ SignedBefore(b, a)
  BY <1>3 DEF Contradicting
<1>4. SignedBefore(a, b) \/ SignedBefore(b, a)
  BY DEF SignedBefore, IsHeader
<1>. QED  BY <1>1, <1>2, <1>3, <1>4

\* Comparing a header with its generator's last header is enough: if c does
\* not contradict b, signed before it, and b did not contradict a, signed
\* before b, then c does not contradict a (verifyBlockHeaders compares with
\* the last header only).
THEOREM LastHeaderSuffices ==
  ASSUME NEW a, NEW b, NEW c, IsHeader(a), IsHeader(b), IsHeader(c),
         a.gen = b.gen, b.gen = c.gen, a.id # b.id, b.id # c.id,
         SignedBefore(a, b), SignedBefore(b, c),
         ~Contradicting(a, b), ~Contradicting(b, c)
  PROVE  SignedBefore(a, c) /\ ~Contradicting(a, c)
<1>1. SignedBefore(a, c)
  BY DEF SignedBefore, IsHeader
<1>2. ~BreaksSigningRules(a, b) /\ ~BreaksSigningRules(b, c)
  BY DEF Contradicting
<1>3. ~BreaksSigningRules(a, c)
  BY <1>2 DEF BreaksSigningRules, SignedBefore, IsHeader
<1>. QED  BY <1>1, <1>3 DEF Contradicting

\* Prevotes of headers that do not contradict each other do not overlap: the
\* later one starts above the height of the earlier one
\* (updatePrevotesPrecommits starts at maxHeightPreviouslyForged + 1).
THEOREM PrevotesDisjoint ==
  ASSUME NEW a, NEW b, IsHeader(a), IsHeader(b), a.gen = b.gen, a.id # b.id,
         SignedBefore(a, b), ~Contradicting(a, b),
         ActiveFrom[b.gen] \in Nat, ProcessingThreshold \in Int
  PROVE  \A h \in PreVoteHeights(b) : h > a.height
<1>. DEFINE starts == {ActiveFrom[b.gen], b.mhpf + 1, OldestVote(b)}
<1>1. a.height <= b.mhpf
  BY DEF Contradicting, BreaksSigningRules, IsHeader
<1>2. \E x \in starts : \A y \in starts : y <= x
  BY DEF OldestVote, IsHeader
<1>3. /\ Maximum(starts) \in starts
      /\ \A y \in starts : y <= Maximum(starts)
  BY <1>2 DEF Maximum
<1>4. Maximum(starts) \in Int /\ b.mhpf + 1 <= Maximum(starts)
  BY <1>3 DEF OldestVote, IsHeader
<1>5. PreVoteHeights(b) = Maximum(starts)..b.height
  BY DEF PreVoteHeights
<1>. HIDE DEF starts
<1>. QED  BY <1>1, <1>4, <1>5 DEF IsHeader

-----------------------------------------------------------------------------
(* Greatest and least elements.                                            *)

\* Non-empty sets of naturals have a least element.
Below == {ss \in Nat \X Nat : ss[1] < ss[2]}

\* Every set of naturals that is not empty has a least element.
LEMMA LeastNatural ==
  ASSUME NEW S \in SUBSET Nat, S # {}
  PROVE  \E m \in S : \A k \in S : m <= k
<1>1. IsWellFoundedOn(Below, Nat)
  BY NatLessThanWellFounded DEF OpToRel, Below
<1>2. PICK m \in S : \A k \in S : ~ (<<k, m>> \in Below)
  BY <1>1, WFMin, Zenon
<1>3. \A x, y \in Nat : x < y => <<x, y>> \in Below
  BY DEF Below
<1>4. ASSUME NEW k \in S PROVE m <= k
  <2>1. k \in Nat /\ m \in Nat
    OBVIOUS
  <2>2. ~(k < m)
    BY <1>2, <1>3, <2>1, Zenon
  <2> QED BY <2>1, <2>2
<1> QED BY <1>4

\* The element of a finite set above which the fewest lie is the greatest.
LEMMA MaximumIs ==
  ASSUME NEW S, IsFiniteSet(S), S # {}, S \subseteq Int
  PROVE  Maximum(S) \in S /\ \A y \in S : y <= Maximum(S)
<1> DEFINE Above(y) == {x \in S : x > y}
           counts == {Cardinality(Above(y)) : y \in S}
<1>1. \A y \in S : IsFiniteSet(Above(y)) /\ Cardinality(Above(y)) \in Nat
  BY FS_Subset, FS_CardinalityType
<1>2. PICK m \in counts : \A k \in counts : m <= k
  <2>1. counts \in SUBSET Nat /\ counts # {}
    BY <1>1
  <2> HIDE DEF counts
  <2> QED BY <2>1, LeastNatural
<1>3. PICK y \in S : m = Cardinality(Above(y))
  BY <1>2
<1>4. ASSUME NEW z \in S, z > y PROVE FALSE
  <2>1. Above(z) \subseteq Above(y)
    <3>1. \A x \in S : x > z => x > y
      BY <1>4
    <3> QED BY <3>1
  <2>2. z \in Above(y) /\ z \notin Above(z)
    BY <1>4
  <2>3. Above(z) # Above(y)
    BY <2>2
  <2> HIDE DEF Above
  <2>4. Cardinality(Above(z)) <= Cardinality(Above(y)) /\ Cardinality(Above(z)) # Cardinality(Above(y))
    BY <1>1, <2>1, <2>3, FS_Subset
  <2>5. Cardinality(Above(z)) \in counts
    OBVIOUS
  <2>6. Cardinality(Above(z)) \in Nat /\ Cardinality(Above(y)) \in Nat
    BY <1>1
  <2> QED BY <1>2, <1>3, <2>4, <2>5, <2>6
<1>5. \A z \in S : z <= y
  BY <1>4
<1> QED BY <1>5 DEF Maximum

\* The greatest of a set and a lower bound.
LEMMA AtLeastIs ==
  ASSUME NEW low \in Int, NEW S, IsFiniteSet(S), S \subseteq Int
  PROVE  /\ AtLeast(low, S) \in Int
         /\ AtLeast(low, S) = low \/ AtLeast(low, S) \in S
         /\ low <= AtLeast(low, S)
         /\ \A y \in S : y <= AtLeast(low, S)
<1>1. IsFiniteSet(S \cup {low})
  BY FS_AddElement
<1>2. {low} \cup S = S \cup {low}
  OBVIOUS
<1>3. /\ Maximum({low} \cup S) \in {low} \cup S
      /\ \A y \in {low} \cup S : y <= Maximum({low} \cup S)
  BY <1>1, <1>2, MaximumIs
<1> QED BY <1>3 DEF AtLeast

\* The same for the one bound that the code compares with.
LEMMA AtLeastOne ==
  ASSUME NEW low \in Int, NEW x \in Int
  PROVE  AtLeast(low, {x}) = IF low < x THEN x ELSE low
<1>1. IsFiniteSet({x})
  BY FS_Singleton
<1> QED BY <1>1, AtLeastIs

\* A finite set of heights, as the ledger keeps them.
LEMMA HeightsFinite ==
  ASSUME NEW n \in Nat, NEW S \in SUBSET (1..n)
  PROVE  IsFiniteSet(S)
<1>1. IsFiniteSet(1..n)
  BY 1 \in Int, n \in Int, FS_Interval
<1>2. S \subseteq 1..n
  OBVIOUS
<1> QED BY <1>1, <1>2, FS_Subset

-----------------------------------------------------------------------------
(* One header after the other: what a header may vote for.                 *)

IsNextHeader(links, header) ==
  /\ IsHeader(header) /\ header.gen \in Validator
  /\ header.height = Len(links) + 1

IsChain(links) ==
  /\ Len(links) \in Nat
  /\ \A k \in 1..Len(links) :
       /\ IsHeader(links[k]) /\ links[k].gen \in Validator
       /\ links[k].height = k

\* The windows of three and of five rounds.
LEMMA Bounds ==
  ASSUME LedgerAssumption
  PROVE  /\ NumberOfValidators \in Nat
         /\ ProcessingThreshold = 3 * NumberOfValidators - 1
         /\ MaxHeaders = 5 * NumberOfValidators
         /\ Threshold \in Nat /\ Threshold > 0
         /\ \A v \in Validator : ActiveFrom[v] \in Nat /\ ActiveFrom[v] > 0
         /\ Participant \subseteq Validator
  BY FS_CardinalityType
     DEF LedgerAssumption, NumberOfValidators, ProcessingThreshold, BFTRoundThreshold, MaxHeaders

\* updatePrevotesPrecommits prevotes up to the header, from the greatest of
\* three heights.
LEMMA PreVoteHeightsAre ==
  ASSUME LedgerAssumption, NEW header, IsHeader(header), header.gen \in Validator
  PROVE  \A h : h \in PreVoteHeights(header) <=>
           /\ h \in Int
           /\ ActiveFrom[header.gen] <= h /\ header.mhpf < h
           /\ header.height - ProcessingThreshold <= h /\ h <= header.height
<1>1. /\ ActiveFrom[header.gen] \in Int /\ header.mhpf + 1 \in Int
      /\ OldestVote(header) \in Int
      /\ OldestVote(header) = header.height - ProcessingThreshold
  BY Bounds DEF OldestVote, IsHeader
<1> DEFINE starts == {ActiveFrom[header.gen], header.mhpf + 1, OldestVote(header)}
<1>2. \E x \in starts : \A y \in starts : y <= x
  BY <1>1
<1>3. Maximum(starts) \in starts /\ \A y \in starts : y <= Maximum(starts)
  BY <1>2 DEF Maximum
<1>4. /\ Maximum(starts) \in Int
      /\ ActiveFrom[header.gen] <= Maximum(starts) /\ header.mhpf + 1 <= Maximum(starts)
      /\ OldestVote(header) <= Maximum(starts)
      /\ Maximum(starts) = ActiveFrom[header.gen] \/ Maximum(starts) = header.mhpf + 1
           \/ Maximum(starts) = OldestVote(header)
  BY <1>1, <1>3
<1>5. PreVoteHeights(header) = Maximum(starts)..header.height
  BY DEF PreVoteHeights
<1> HIDE DEF starts
<1> QED BY <1>1, <1>4, <1>5 DEF IsHeader

\* stateStore.chain.lastBlockHeaders
LEMMA WindowIs ==
  ASSUME LedgerAssumption, NEW links, Len(links) \in Nat
  PROVE  /\ \A h : h \in DOMAIN LastBlockHeaders(links) <=>
                     h \in 1..Len(links) /\ Len(links) - 3 * NumberOfValidators <= h
         /\ \A h \in DOMAIN LastBlockHeaders(links) : LastBlockHeaders(links)[h] = links[h]
<1> DEFINE x == Len(links) - 3 * NumberOfValidators
           from == AtLeast(1, {x})
<1>1. x \in Int
  BY Bounds
<1>2. from = IF 1 < x THEN x ELSE 1
  BY <1>1, AtLeastOne
<1>3. LastBlockHeaders(links) = [h \in from..Len(links) |-> links[h]]
  BY DEF LastBlockHeaders
<1> HIDE DEF from
<1> QED BY <1>1, <1>2, <1>3

\* The generator's last header is the only one a header is compared with.
LEMMA LastOwnHeader ==
  ASSUME LedgerAssumption, NEW links, IsChain(links), NEW header,
         ~ContradictsChain(links, header),
         NEW k \in 1..Len(links), links[k].gen = header.gen,
         Len(links) - 3 * NumberOfValidators <= k
  PROVE  \E m \in k..Len(links) :
           links[m].gen = header.gen /\ ~Contradicting(links[m], header)
<1> DEFINE headers == LastBlockHeaders(links)
           own == {h \in DOMAIN headers : headers[h].gen = header.gen}
<1>0. Len(links) \in Nat
  BY DEF IsChain
<1>1. /\ own \subseteq 1..Len(links) /\ k \in own
      /\ \A h \in own : headers[h] = links[h] /\ links[h].gen = header.gen
  BY <1>0, WindowIs
<1>2. IsFiniteSet(own)
  BY <1>0, <1>1, HeightsFinite
<1>3. PICK m : m = Maximum(own)
  OBVIOUS
<1>4. m \in own /\ k <= m
  BY <1>1, <1>2, <1>3, MaximumIs, SMTT(30)
<1>5. ~Contradicting(headers[m], header)
  <2>1. own # {}
    BY <1>1
  <2> QED BY <1>3, <2>1, Zenon DEF ContradictsChain
<1> HIDE DEF own, headers
<1>6. m \in 1..Len(links)
  BY <1>1, <1>4
<1> QED BY <1>0, <1>1, <1>4, <1>5, <1>6

\* One vote each: where maxHeightPrevoted does not fall, the prevotes of a
\* header lie above every header of its generator on the chain.
LEMMA NewVotesAboveOld ==
  ASSUME LedgerAssumption, NEW links, IsChain(links),
         NEW header, IsNextHeader(links, header),
         ~ContradictsChain(links, header),
         \A k \in 1..Len(links) : links[k].mhp <= header.mhp /\ links[k].id # header.id,
         NEW k \in 1..Len(links), links[k].gen = header.gen,
         NEW h \in PreVoteHeights(header)
  PROVE  k < h
<1>1. /\ h \in Int /\ header.mhpf < h
      /\ header.height - ProcessingThreshold <= h
  BY PreVoteHeightsAre DEF IsNextHeader
<1>2. /\ Len(links) \in Nat /\ header.height = Len(links) + 1
      /\ NumberOfValidators \in Nat /\ ProcessingThreshold = 3 * NumberOfValidators - 1
  BY Bounds DEF IsChain, IsNextHeader
<1>3. CASE k < Len(links) - 3 * NumberOfValidators
  BY <1>1, <1>2, <1>3
<1>4. CASE Len(links) - 3 * NumberOfValidators <= k
  <2>1. PICK m \in k..Len(links) :
          links[m].gen = header.gen /\ ~Contradicting(links[m], header)
    BY <1>4, LastOwnHeader
  <2>2. m \in 1..Len(links)
    BY <1>2
  <2>3. /\ IsHeader(links[m]) /\ links[m].height = m /\ IsHeader(header)
        /\ links[m].mhp <= header.mhp /\ links[m].id # header.id
    BY <2>2 DEF IsChain, IsNextHeader
  <2>4. m <= header.mhpf
    BY <2>1, <2>3, <1>2, <2>2 DEF Contradicting, SignedBefore, BreaksSigningRules, IsHeader
  <2> QED BY <1>1, <1>2, <2>3, <2>4 DEF IsHeader
<1> QED BY <1>2, <1>3, <1>4

-----------------------------------------------------------------------------
(* getMinValidHeightToPreCommit                                            *)

SearchTill(header) == AtLeast(1, {OldestVote(header)})

SearchStep(links, header, found, h) ==
  IF h < SearchTill(header) THEN SearchTill(header)
  ELSE IF h \notin DOMAIN LastBlockHeaders(links) THEN 0
  ELSE IF LastBlockHeaders(links)[h].gen # header.gen \/ LastBlockHeaders(links)[h].mhpf >= h
    THEN h + 1
  ELSE found[LastBlockHeaders(links)[h].mhpf]

\* The walk stops three rounds below the header, at height 1 at the lowest.
LEMMA SearchTillIs ==
  ASSUME LedgerAssumption, NEW header, IsHeader(header)
  PROVE  /\ SearchTill(header) \in Nat /\ SearchTill(header) >= 1
         /\ SearchTill(header) = IF 1 < header.height - ProcessingThreshold
                                   THEN header.height - ProcessingThreshold ELSE 1
<1>1. OldestVote(header) \in Int /\ OldestVote(header) = header.height - ProcessingThreshold
  BY Bounds DEF OldestVote, IsHeader
<1>2. SearchTill(header) = IF 1 < OldestVote(header) THEN OldestVote(header) ELSE 1
  BY <1>1, AtLeastOne DEF SearchTill
<1> QED BY <1>1, <1>2

\* The walk down the chain ends: every step goes to a lower height.
LEMMA SearchEnds ==
  ASSUME LedgerAssumption, NEW links, IsChain(links), NEW header, IsHeader(header)
  PROVE  \A n \in 0..Len(links) :
           \E f \in [0..n -> Int] : \A h \in 0..n : f[h] = SearchStep(links, header, f, h)
<1> DEFINE Found(n, f) == \A h \in 0..n : f[h] = SearchStep(links, header, f, h)
           open == {n \in 0..Len(links) : ~ \E f \in [0..n -> Int] : Found(n, f)}
<1>0. /\ Len(links) \in Nat
      /\ \A h \in DOMAIN LastBlockHeaders(links) :
           h \in 1..Len(links) /\ LastBlockHeaders(links)[h].mhpf \in Nat
  BY WindowIs DEF IsChain, IsHeader
<1>1. SearchTill(header) \in Nat /\ SearchTill(header) >= 1
  BY SearchTillIs
<1>2. SUFFICES ASSUME open # {} PROVE FALSE
  OBVIOUS
<1>3. PICK n \in open : \A k \in open : n <= k
  <2>1. open \in SUBSET Nat
    BY <1>0
  <2> HIDE DEF open
  <2> QED BY <1>2, <2>1, LeastNatural
<1>4. n \in 0..Len(links) /\ ~ \E f \in [0..n -> Int] : Found(n, f)
  OBVIOUS
<1>5. CASE n = 0
  <2> DEFINE f == [h \in 0..0 |-> SearchTill(header)]
  <2>1. f \in [0..0 -> Int] /\ \A h \in 0..0 : f[h] = SearchTill(header) /\ h < SearchTill(header)
    BY <1>1
  <2>2. Found(0, f)
    BY <2>1 DEF SearchStep
  <2> QED BY <1>4, <1>5, <2>1, <2>2
<1>6. CASE n # 0
  <2>1. n - 1 \in 0..Len(links) /\ ~(n <= n - 1) /\ n \in Nat
    BY <1>0, <1>4, <1>6
  <2>2. n - 1 \notin open
    BY <1>3, <2>1
  <2>3. PICK g \in [0..(n - 1) -> Int] : Found(n - 1, g)
    BY <2>1, <2>2
  <2> DEFINE f == [h \in 0..n |-> IF h = n THEN SearchStep(links, header, g, n) ELSE g[h]]
  <2> HIDE DEF Found
  <2>4. \A h \in 0..n : h = n \/ h \in 0..(n - 1)
    BY <2>1
  <2>5. \A h \in 0..(n - 1) : h \in 0..n /\ h # n
    BY <2>1
  <2>6. \A h \in 0..(n - 1) : f[h] = g[h]
    BY <2>5
  <2>7. f[n] = SearchStep(links, header, g, n)
    BY <2>1
  <2>8. SearchStep(links, header, g, n) \in Int
    <3>1. ASSUME n \in DOMAIN LastBlockHeaders(links), ~(LastBlockHeaders(links)[n].mhpf >= n)
          PROVE  g[LastBlockHeaders(links)[n].mhpf] \in Int
      <4>1. LastBlockHeaders(links)[n].mhpf \in 0..(n - 1)
        BY <1>0, <2>1, <3>1
      <4> QED BY <4>1, <2>3
    <3> QED BY <3>1, <1>1, <2>1 DEF SearchStep
  <2>9. f \in [0..n -> Int]
    BY <2>3, <2>4, <2>8
  <2> HIDE DEF f
  <2>10. ASSUME NEW h \in 0..n
         PROVE  SearchStep(links, header, f, h) = SearchStep(links, header, g, h)
    <3>1. ASSUME h \in DOMAIN LastBlockHeaders(links), ~(LastBlockHeaders(links)[h].mhpf >= h)
          PROVE  f[LastBlockHeaders(links)[h].mhpf] = g[LastBlockHeaders(links)[h].mhpf]
      <4>1. LastBlockHeaders(links)[h].mhpf \in 0..(n - 1)
        BY <1>0, <2>1, <3>1
      <4> QED BY <4>1, <2>6
    <3> QED BY <3>1 DEF SearchStep
  <2>11. Found(n, f)
    <3> SUFFICES ASSUME NEW h \in 0..n PROVE f[h] = SearchStep(links, header, f, h)
      BY DEF Found
    <3>1. CASE h = n
      BY <3>1, <2>7, <2>10
    <3>2. CASE h \in 0..(n - 1)
      <4>1. g[h] = SearchStep(links, header, g, h)
        BY <2>3, <3>2 DEF Found
      <4> QED BY <4>1, <3>2, <2>6, <2>10
    <3> QED BY <2>4, <3>1, <3>2
  <2> QED BY <1>4, <2>9, <2>11
<1> QED BY <1>5, <1>6

\* What the walk finds from each height is what one step of the loop finds, and
\* the loop's next height is lower (getMinValidHeightToPreCommit).
LEMMA SearchIs ==
  ASSUME LedgerAssumption, NEW links, IsChain(links), NEW header, IsHeader(header)
  PROVE  \A h \in 0..Len(links) :
           /\ MinValidSearch(links, header)[h] \in Int
           /\ MinValidSearch(links, header)[h]
                = SearchStep(links, header, MinValidSearch(links, header), h)
<1> DEFINE n == Len(links)
           s == MinValidSearch(links, header)
           Solves(f) == f = [h \in 0..n |-> SearchStep(links, header, f, h)]
<1>0. n \in Nat /\ n \in 0..n
  BY DEF IsChain
<1>1. PICK f \in [0..n -> Int] : \A h \in 0..n : f[h] = SearchStep(links, header, f, h)
  BY <1>0, SearchEnds
<1>2. Solves(f)
  BY <1>1
<1>3. s = CHOOSE g : Solves(g)
  BY DEF MinValidSearch, SearchStep, SearchTill
<1>4. Solves(s)
  <2> HIDE DEF Solves, s
  <2> QED BY <1>2, <1>3
<1>5. \A h \in 0..n : s[h] = SearchStep(links, header, s, h)
  <2> HIDE DEF s
  <2> QED BY <1>4
<1>6. \A h \in 0..n : s[h] = f[h]
  <2> DEFINE differ == {h \in 0..n : s[h] # f[h]}
  <2> HIDE DEF s
  <2>1. SUFFICES ASSUME differ # {} PROVE FALSE
    OBVIOUS
  <2>2. PICK h \in differ : \A k \in differ : h <= k
    <3>1. differ \in SUBSET Nat
      BY <1>0
    <3> HIDE DEF differ
    <3> QED BY <2>1, <3>1, LeastNatural
  <2>3. h \in 0..n /\ \A k \in 0..(h - 1) : s[k] = f[k]
    <3>1. \A k \in 0..(h - 1) : k \in 0..n /\ ~(h <= k)
      BY <1>0, <2>2
    <3> QED BY <2>2, <3>1
  <2>4. ASSUME h \in DOMAIN LastBlockHeaders(links), ~(LastBlockHeaders(links)[h].mhpf >= h)
        PROVE  LastBlockHeaders(links)[h].mhpf \in 0..(h - 1)
    BY <2>3, <2>4, <1>0, WindowIs DEF IsChain, IsHeader
  <2>5. SearchStep(links, header, s, h) = SearchStep(links, header, f, h)
    BY <2>3, <2>4 DEF SearchStep
  <2> QED BY <1>1, <1>5, <2>2, <2>3, <2>5
<1> HIDE DEF s
<1> QED BY <1>1, <1>5, <1>6

-----------------------------------------------------------------------------
(* The ledger after a header.                                              *)

\* Only prevoted heights have precommits.
IsLedger(record, height) ==
  /\ DOMAIN record.votes \subseteq 1..height
  /\ \A h \in DOMAIN record.votes :
       /\ record.votes[h].prevotes \in Nat /\ record.votes[h].precommits \in Nat
       /\ record.votes[h].precommits # 0 => record.votes[h].prevotes >= Threshold
  /\ record.maxPreCommitHeight \in [Validator -> Nat]

\* A header precommits prevoted heights below it, none twice, and none that the
\* walk down its generator's blocks has not reached.
LEMMA PreCommitHeightsAre ==
  ASSUME LedgerAssumption, NEW links, IsChain(links),
         NEW header, IsNextHeader(links, header), CanVote(header),
         NEW record, IsLedger(record, Len(links))
  PROVE  \A h \in PreCommitHeights(links, record, header) :
           /\ h \in DOMAIN record.votes /\ record.votes[h].prevotes >= Threshold
           /\ header.height - ProcessingThreshold <= h
           /\ ActiveFrom[header.gen] <= h
           /\ MinValidSearch(links, header)[header.mhpf] <= h
           /\ record.maxPreCommitHeight[header.gen] < h
           /\ h < header.height
<1> SUFFICES ASSUME NEW h \in PreCommitHeights(links, record, header)
             PROVE  /\ h \in DOMAIN record.votes /\ record.votes[h].prevotes >= Threshold
                    /\ header.height - ProcessingThreshold <= h
                    /\ ActiveFrom[header.gen] <= h
                    /\ MinValidSearch(links, header)[header.mhpf] <= h
                    /\ record.maxPreCommitHeight[header.gen] < h
                    /\ h < header.height
  OBVIOUS
<1> DEFINE a == OldestVote(header)
           b == ActiveFrom[header.gen]
           c == MinValidHeightToPreCommit(links, header)
           d == record.maxPreCommitHeight[header.gen] + 1
<1>1. /\ a \in Int /\ a = header.height - ProcessingThreshold
      /\ b \in Int
      /\ d \in Int /\ record.maxPreCommitHeight[header.gen] \in Nat
      /\ header.height \in Nat
  BY Bounds, SMTT(30) DEF OldestVote, IsNextHeader, IsHeader, IsLedger
<1>2. c \in Int
  <2>1. header.mhpf \in 0..Len(links)
    BY DEF CanVote, IsNextHeader, IsHeader, IsChain
  <2> QED BY <2>1, SearchIs DEF MinValidHeightToPreCommit, IsNextHeader
<1>3. VotesAt(record, h).prevotes >= Threshold /\ h \in Maximum({a, b, c, d})..(header.height - 1)
  BY DEF PreCommitHeights
<1>4. h \in DOMAIN record.votes /\ record.votes[h].prevotes >= Threshold
  <2>1. ~(NoVotes.prevotes >= Threshold)
    BY Bounds DEF NoVotes
  <2> QED BY <1>3, <2>1 DEF VotesAt
<1> HIDE DEF a, b, c, d
<1>5. \E x \in {a, b, c, d} : \A y \in {a, b, c, d} : y <= x
  BY <1>1, <1>2
<1>6. Maximum({a, b, c, d}) \in {a, b, c, d} /\ \A y \in {a, b, c, d} : y <= Maximum({a, b, c, d})
  BY <1>5 DEF Maximum
<1>7. a <= h /\ b <= h /\ c <= h /\ d <= h /\ h < header.height /\ h \in Int
  BY <1>1, <1>2, <1>3, <1>6
<1> QED BY <1>1, <1>4, <1>7 DEF a, b, c, d, MinValidHeightToPreCommit

\* What pruning drops lies below what it keeps, and as many heights above it as
\* the ledger has room for.
LEMMA PruningDropsLowest ==
  ASSUME LedgerAssumption, NEW n \in Nat, NEW votes, DOMAIN votes \subseteq 1..n
  PROVE  /\ DOMAIN PruneVotes(votes) \subseteq DOMAIN votes
         /\ \A h \in DOMAIN PruneVotes(votes) : PruneVotes(votes)[h] = votes[h]
         /\ \A p \in DOMAIN votes \ DOMAIN PruneVotes(votes) :
              /\ p + MaxHeaders <= n
              /\ \A k \in DOMAIN PruneVotes(votes) : p < k
<1> DEFINE Above(k) == {m \in DOMAIN votes : m > k}
           kept == {k \in DOMAIN votes : Cardinality(Above(k)) < MaxHeaders}
<1>1. PruneVotes(votes) = [h \in kept |-> votes[h]]
  BY DEF PruneVotes
<1>2. IsFiniteSet(DOMAIN votes)
  BY HeightsFinite
<1>3. \A k \in DOMAIN votes : IsFiniteSet(Above(k)) /\ Cardinality(Above(k)) \in Nat
  BY <1>2, FS_Subset, FS_CardinalityType
<1>4. MaxHeaders \in Nat
  BY Bounds
<1>5. ASSUME NEW p \in DOMAIN votes, p \notin kept
      PROVE  p + MaxHeaders <= n /\ \A k \in kept : p < k
  <2>0. p \in 1..n /\ p + 1 \in Int
    OBVIOUS
  <2>1. Cardinality(Above(p)) >= MaxHeaders
    BY <1>3, <1>4, <1>5
  <2>2. Above(p) \subseteq (p + 1)..n
    OBVIOUS
  <2>3. IsFiniteSet((p + 1)..n) /\ Cardinality((p + 1)..n) = IF p + 1 > n THEN 0 ELSE n - (p + 1) + 1
    BY <2>0, n \in Int, FS_Interval
  <2>4. Cardinality(Above(p)) <= Cardinality((p + 1)..n)
    BY <2>2, <2>3, FS_Subset
  <2>5. p + MaxHeaders <= n
    <3>1. Cardinality(Above(p)) \in Nat
      BY <1>3
    <3> HIDE DEF Above
    <3>2. MaxHeaders <= Cardinality((p + 1)..n)
      BY <2>0, <2>1, <2>3, <2>4, <3>1, <1>4
    <3> QED BY <2>0, <2>3, <3>2, <1>4
  <2>6. ASSUME NEW k \in kept, k <= p PROVE FALSE
    <3>1. Above(p) \subseteq Above(k)
      BY <2>0, <2>6
    <3>2. Cardinality(Above(p)) <= Cardinality(Above(k)) /\ Cardinality(Above(k)) < MaxHeaders
      BY <1>3, <3>1, FS_Subset
    <3> HIDE DEF Above
    <3> QED BY <1>3, <1>4, <2>1, <3>2
  <2> QED BY <2>0, <2>5, <2>6
<1> HIDE DEF kept
<1>6. kept \subseteq DOMAIN votes
  BY DEF kept
<1> QED BY <1>1, <1>5, <1>6

\* A ledger of a chain is one of the longer chain.
LEMMA LedgerGrows ==
  ASSUME LedgerAssumption, NEW record, NEW n \in Nat, IsLedger(record, n)
  PROVE  IsLedger(record, n + 1)
  BY DEF IsLedger

\* updatePrevotesPrecommits for a header that may vote.
LEMMA AddVotesIs ==
  ASSUME LedgerAssumption, NEW links, IsChain(links),
         NEW header, IsNextHeader(links, header), CanVote(header),
         NEW record, IsLedger(record, Len(links)),
         NEW next, next = UpdatePrevotesPrecommits(links, record, header)
  PROVE  /\ IsLedger(next, header.height)
         /\ \A h \in DOMAIN next.votes :
              /\ h \in DOMAIN record.votes \/ h \in PreVoteHeights(header)
              /\ next.votes[h].prevotes = VotesAt(record, h).prevotes
                   + (IF h \in PreVoteHeights(header) THEN 1 ELSE 0)
              /\ next.votes[h].precommits = VotesAt(record, h).precommits
                   + (IF h \in PreCommitHeights(links, record, header) THEN 1 ELSE 0)
         /\ \A p : /\ p \in DOMAIN record.votes \/ p \in PreVoteHeights(header)
                   /\ p \notin DOMAIN next.votes
                   => /\ p + MaxHeaders <= header.height
                      /\ \A k \in DOMAIN next.votes : p < k
         /\ \A v \in Validator :
              record.maxPreCommitHeight[v] <= next.maxPreCommitHeight[v]
         /\ \A h \in PreCommitHeights(links, record, header) :
              h <= next.maxPreCommitHeight[header.gen]
<1> DEFINE precommits == PreCommitHeights(links, record, header)
           prevotes == PreVoteHeights(header)
           all == DOMAIN record.votes \cup precommits \cup prevotes
           votes == [h \in all |->
             [ prevotes   |-> VotesAt(record, h).prevotes + (IF h \in prevotes THEN 1 ELSE 0),
               precommits |-> VotesAt(record, h).precommits + (IF h \in precommits THEN 1 ELSE 0) ]]
           highest == [record.maxPreCommitHeight EXCEPT ![header.gen] = AtLeast(@, precommits)]
<1>0. /\ next.votes = PruneVotes(votes) /\ next.maxPreCommitHeight = highest
      /\ Len(links) \in Nat /\ header.height = Len(links) + 1 /\ header.gen \in Validator
  BY DEF UpdatePrevotesPrecommits, AddVotes, IsChain, IsNextHeader
<1>1. precommits \subseteq DOMAIN record.votes /\ precommits \subseteq 1..header.height
  BY <1>0, PreCommitHeightsAre DEF IsLedger
<1>2. prevotes \subseteq 1..header.height
  <2>1. ActiveFrom[header.gen] \in Nat /\ ActiveFrom[header.gen] > 0
    BY <1>0, Bounds
  <2> QED BY <1>0, <2>1, PreVoteHeightsAre DEF IsNextHeader
<1>3. all \subseteq 1..header.height /\ all = DOMAIN record.votes \cup prevotes
  BY <1>0, <1>1, <1>2 DEF IsLedger
<1>4. \A h : /\ VotesAt(record, h).prevotes \in Nat /\ VotesAt(record, h).precommits \in Nat
             /\ VotesAt(record, h).precommits # 0 => VotesAt(record, h).prevotes >= Threshold
  BY DEF VotesAt, NoVotes, IsLedger
<1>5. \A h \in precommits : VotesAt(record, h).prevotes >= Threshold
  BY DEF PreCommitHeights
<1>6. \A h \in all :
        /\ votes[h].prevotes = VotesAt(record, h).prevotes + (IF h \in prevotes THEN 1 ELSE 0)
        /\ votes[h].precommits = VotesAt(record, h).precommits + (IF h \in precommits THEN 1 ELSE 0)
  OBVIOUS
<1>7. DOMAIN votes = all
  OBVIOUS
<1>8. /\ DOMAIN next.votes \subseteq all
      /\ \A h \in DOMAIN next.votes : next.votes[h] = votes[h]
      /\ \A p \in all \ DOMAIN next.votes :
           /\ p + MaxHeaders <= header.height
           /\ \A k \in DOMAIN next.votes : p < k
  <2>1. header.height \in Nat
    BY <1>0
  <2> HIDE DEF votes, all
  <2> QED BY <1>0, <1>3, <1>7, <2>1, PruningDropsLowest
<1> HIDE DEF votes
<1>9. \A h \in DOMAIN next.votes :
        /\ next.votes[h].prevotes \in Nat /\ next.votes[h].precommits \in Nat
        /\ next.votes[h].precommits # 0 => next.votes[h].prevotes >= Threshold
  <2> HIDE DEF all, precommits, prevotes
  <2> SUFFICES ASSUME NEW h \in DOMAIN next.votes
               PROVE  /\ next.votes[h].prevotes \in Nat /\ next.votes[h].precommits \in Nat
                      /\ next.votes[h].precommits # 0 => next.votes[h].prevotes >= Threshold
    OBVIOUS
  <2>1. /\ next.votes[h].prevotes = VotesAt(record, h).prevotes + (IF h \in prevotes THEN 1 ELSE 0)
        /\ next.votes[h].precommits = VotesAt(record, h).precommits + (IF h \in precommits THEN 1 ELSE 0)
    BY <1>6, <1>8
  <2>2. /\ Threshold \in Nat
        /\ VotesAt(record, h).prevotes \in Nat /\ VotesAt(record, h).precommits \in Nat
    BY <1>4, Bounds
  <2>3. CASE h \in precommits
    BY <1>5, <2>1, <2>2, <2>3
  <2>4. CASE h \notin precommits
    BY <1>4, <2>1, <2>2, <2>4
  <2> QED BY <2>3, <2>4
<1>10. /\ highest \in [Validator -> Nat]
       /\ \A v \in Validator : record.maxPreCommitHeight[v] <= highest[v]
       /\ \A h \in precommits : h <= highest[header.gen]
  <2>1. record.maxPreCommitHeight \in [Validator -> Nat]
    BY DEF IsLedger
  <2>2. IsFiniteSet(precommits) /\ precommits \subseteq Nat
    <3>1. header.height \in Nat
      BY <1>0
    <3>2. precommits \subseteq 1..header.height
      BY <1>1
    <3> HIDE DEF precommits
    <3>3. precommits \subseteq Nat
      BY <3>1, <3>2
    <3> QED BY <3>1, <3>2, <3>3, HeightsFinite
  <2> DEFINE old == record.maxPreCommitHeight[header.gen]
             new == AtLeast(old, precommits)
  <2>3. old \in Nat
    BY <1>0, <2>1
  <2>4. new \in Nat /\ old <= new /\ \A h \in precommits : h <= new
    <3> HIDE DEF precommits, old
    <3>1. precommits \subseteq Int /\ old \in Int
      BY <2>2, <2>3
    <3>2. /\ new \in Int /\ (new = old \/ new \in precommits)
          /\ old <= new /\ \A h \in precommits : h <= new
      BY <2>2, <3>1, AtLeastIs
    <3> QED BY <2>2, <2>3, <3>2
  <2>5. highest = [record.maxPreCommitHeight EXCEPT ![header.gen] = new]
    OBVIOUS
  <2> HIDE DEF precommits, new, highest
  <2> QED BY <1>0, <2>1, <2>4, <2>5
<1>11. IsLedger(next, header.height)
  BY <1>0, <1>3, <1>8, <1>9, <1>10 DEF IsLedger
<1> QED BY <1>0, <1>3, <1>6, <1>8, <1>10, <1>11

-----------------------------------------------------------------------------
(* maxHeightPrevoted along a chain.                                        *)

\* The prevoted and the precommitted heights of a ledger are finitely many.
LEMMA PrevotedIs ==
  ASSUME NEW n \in Nat, NEW record, IsLedger(record, n)
  PROVE  /\ Prevoted(record) \subseteq 1..n /\ IsFiniteSet(Prevoted(record))
         /\ Precommitted(record) \subseteq 1..n /\ IsFiniteSet(Precommitted(record))
<1>1. Prevoted(record) \subseteq 1..n /\ Precommitted(record) \subseteq 1..n
  BY DEF Prevoted, Precommitted, IsLedger
<1> QED BY <1>1, HeightsFinite

\* calculateMaxHeightPrevoted returns the greatest prevoted height.
LEMMA MaxHeightPrevotedIs ==
  ASSUME NEW n \in Nat, NEW record, IsLedger(record, n), NEW mhp \in Nat
  PROVE  /\ MaxHeightPrevoted(record, mhp) \in Nat
         /\ Prevoted(record) = {} => MaxHeightPrevoted(record, mhp) = mhp
         /\ Prevoted(record) # {} => MaxHeightPrevoted(record, mhp) \in Prevoted(record)
         /\ \A h \in Prevoted(record) : h <= MaxHeightPrevoted(record, mhp)
<1>1. Prevoted(record) \subseteq 1..n /\ IsFiniteSet(Prevoted(record))
  BY PrevotedIs
<1>2. CASE Prevoted(record) = {}
  BY <1>2 DEF MaxHeightPrevoted
<1>3. CASE Prevoted(record) # {}
  <2>1. Prevoted(record) \subseteq Int /\ Prevoted(record) \subseteq Nat
    BY <1>1
  <2>2. /\ Maximum(Prevoted(record)) \in Prevoted(record)
        /\ \A y \in Prevoted(record) : y <= Maximum(Prevoted(record))
    BY <1>1, <1>3, <2>1, MaximumIs
  <2> QED BY <1>3, <2>1, <2>2 DEF MaxHeightPrevoted
<1> QED BY <1>2, <1>3

\* While nothing in the ledger is prevoted, the tip speaks for a height that was
\* dropped, as far below as the ledger is long.
RankOK(record, mhp, height) ==
  /\ Prevoted(record) = {} =>
       \/ mhp = 0
       \/ mhp + MaxHeaders <= height /\ \A h \in DOMAIN record.votes : mhp < h
  /\ mhp <= MaxHeightPrevoted(record, mhp)

\* A header that says what the ledger says leaves a ledger that says no less:
\* heights are dropped from below only, and only when there is no vote for them
\* any more.
LEMMA RankKept ==
  ASSUME LedgerAssumption, NEW links, IsChain(links),
         NEW header, IsNextHeader(links, header),
         NEW record, IsLedger(record, Len(links)),
         NEW mhp \in Nat, RankOK(record, mhp, Len(links)),
         header.mhp = MaxHeightPrevoted(record, mhp),
         NEW next, next = UpdatePrevotesPrecommits(links, record, header)
  PROVE  /\ mhp <= header.mhp
         /\ IsLedger(next, header.height)
         /\ RankOK(next, header.mhp, header.height)
<1>0. /\ Len(links) \in Nat /\ header.height = Len(links) + 1 /\ header.mhp \in Nat
      /\ MaxHeaders = 5 * NumberOfValidators /\ NumberOfValidators \in Nat
      /\ ProcessingThreshold = 3 * NumberOfValidators - 1
      /\ Threshold \in Nat
  BY Bounds DEF IsChain, IsNextHeader, IsHeader
<1>1. mhp <= header.mhp
  BY DEF RankOK
<1>2. CASE ~CanVote(header)
  <2>1. next = record
    BY <1>2 DEF UpdatePrevotesPrecommits
  <2>2. IsLedger(next, header.height)
    BY <1>0, <2>1, LedgerGrows
  <2>3. MaxHeightPrevoted(next, header.mhp) = header.mhp
    BY <2>1 DEF MaxHeightPrevoted
  <2>4. Prevoted(record) = {} => header.mhp = mhp
    BY DEF MaxHeightPrevoted
  <2> QED BY <1>0, <1>1, <2>1, <2>2, <2>3, <2>4 DEF RankOK
<1>3. CASE CanVote(header)
  <2>1. IsLedger(next, header.height)
    BY <1>3, AddVotesIs
  <2>2. \A h \in DOMAIN next.votes : h \in DOMAIN record.votes \/ h \in PreVoteHeights(header)
    BY <1>3, AddVotesIs
  <2>3. \A h \in PreVoteHeights(header) : h \in Int /\ header.height - ProcessingThreshold <= h
    BY PreVoteHeightsAre DEF IsNextHeader
  <2>4. header.height \in Nat
    BY <1>0
  <2>5. /\ Prevoted(next) \subseteq DOMAIN next.votes /\ DOMAIN next.votes \subseteq 1..header.height
        /\ Prevoted(next) = {} => MaxHeightPrevoted(next, header.mhp) = header.mhp
        /\ Prevoted(next) # {} => MaxHeightPrevoted(next, header.mhp) \in Prevoted(next)
        /\ \A h \in Prevoted(next) : h <= MaxHeightPrevoted(next, header.mhp)
    BY <1>0, <2>1, <2>4, MaxHeightPrevotedIs DEF Prevoted, IsLedger
  <2>6. CASE Prevoted(record) = {}
    <3>1. header.mhp = mhp
      BY <2>6 DEF MaxHeightPrevoted
    <3>2. CASE mhp = 0
      BY <1>0, <1>1, <2>1, <2>5, <3>1, <3>2 DEF RankOK
    <3>3. CASE mhp + MaxHeaders <= Len(links) /\ \A h \in DOMAIN record.votes : mhp < h
      <4>1. \A h \in DOMAIN next.votes : mhp < h
        BY <1>0, <2>2, <2>3, <3>3
      <4>2. mhp + MaxHeaders <= header.height
        BY <1>0, <3>3
      <4>3. header.mhp <= MaxHeightPrevoted(next, header.mhp)
        BY <1>0, <2>5, <3>1, <4>1
      <4> QED BY <1>1, <2>1, <3>1, <4>1, <4>2, <4>3 DEF RankOK
    <3> QED BY <2>6, <3>2, <3>3 DEF RankOK
  <2>7. CASE Prevoted(record) # {}
    <3>1. header.mhp \in Prevoted(record)
      BY <1>0, <2>7, MaxHeightPrevotedIs
    <3>2. header.mhp \in DOMAIN record.votes /\ record.votes[header.mhp].prevotes >= Threshold
      BY <3>1 DEF Prevoted
    <3>3. CASE header.mhp \in DOMAIN next.votes
      <4>1. next.votes[header.mhp].prevotes = record.votes[header.mhp].prevotes
              + (IF header.mhp \in PreVoteHeights(header) THEN 1 ELSE 0)
        BY <1>3, <3>2, <3>3, AddVotesIs DEF VotesAt
      <4>2. record.votes[header.mhp].prevotes \in Nat
        BY <3>2 DEF IsLedger
      <4>3. next.votes[header.mhp].prevotes >= Threshold
        BY <1>0, <3>2, <4>1, <4>2
      <4>4. header.mhp \in Prevoted(next)
        BY <3>3, <4>3 DEF Prevoted
      <4> QED BY <1>1, <2>1, <2>5, <4>4 DEF RankOK
    <3>4. CASE header.mhp \notin DOMAIN next.votes
      <4>1. header.mhp + MaxHeaders <= header.height /\ \A k \in DOMAIN next.votes : header.mhp < k
        BY <1>3, <3>2, <3>4, AddVotesIs
      <4>2. header.mhp <= MaxHeightPrevoted(next, header.mhp)
        BY <1>0, <2>5, <4>1
      <4> QED BY <1>1, <2>1, <4>1, <4>2 DEF RankOK
    <3> QED BY <3>3, <3>4
  <2> QED BY <2>6, <2>7
<1> QED BY <1>1, <1>2, <1>3

-----------------------------------------------------------------------------
(* The ledger counts voters. who says for each height who has voted.       *)

PrevotesCounted(record, who, height) ==
  \A h \in DOMAIN who :
    /\ who[h] \subseteq Participant
    /\ IF h \in DOMAIN record.votes
         THEN record.votes[h].prevotes = Cardinality(who[h])
         ELSE who[h] = {} \/ h + MaxHeaders <= height

PrecommitsCounted(record, who, height) ==
  \A h \in DOMAIN who :
    /\ who[h] \subseteq Participant
    /\ \A v \in who[h] : h <= record.maxPreCommitHeight[v]
    /\ IF h \in DOMAIN record.votes
         THEN record.votes[h].precommits = Cardinality(who[h])
         ELSE who[h] = {} \/ h + MaxHeaders <= height

\* One more voter.
LEMMA OneMore ==
  ASSUME LedgerAssumption, NEW S \in SUBSET Participant, NEW v \in Participant
  PROVE  /\ Cardinality(S) \in Nat
         /\ v \notin S => Cardinality(S \cup {v}) = Cardinality(S) + 1
         /\ S = {} => Cardinality(S) = 0
<1>1. IsFiniteSet(S)
  BY FS_Subset DEF LedgerAssumption
<1> QED BY <1>1, FS_CardinalityType, FS_AddElement, FS_EmptySet

\* The prevotes of a header are counted under a name that had none there.
LEMMA PrevotesStayCounted ==
  ASSUME LedgerAssumption, NEW links, IsChain(links),
         NEW header, IsNextHeader(links, header), CanVote(header),
         NEW record, IsLedger(record, Len(links)),
         NEW next, next = UpdatePrevotesPrecommits(links, record, header),
         NEW who, DOMAIN who \subseteq Nat, PrevotesCounted(record, who, Len(links)),
         NEW after, DOMAIN after = DOMAIN who,
         \A h \in DOMAIN who :
           after[h] = IF h \in PreVoteHeights(header) THEN who[h] \cup {header.gen} ELSE who[h],
         \A h \in DOMAIN who : h \in PreVoteHeights(header) => header.gen \notin who[h]
  PROVE  PrevotesCounted(next, after, header.height)
<1>0. /\ Len(links) \in Nat /\ header.height = Len(links) + 1
      /\ MaxHeaders = 5 * NumberOfValidators /\ NumberOfValidators \in Nat
      /\ ProcessingThreshold = 3 * NumberOfValidators - 1
      /\ header.gen \in Participant
  BY Bounds DEF IsChain, IsNextHeader, CanVote
<1> SUFFICES ASSUME NEW h \in DOMAIN who
             PROVE  /\ after[h] \subseteq Participant
                    /\ IF h \in DOMAIN next.votes
                         THEN next.votes[h].prevotes = Cardinality(after[h])
                         ELSE after[h] = {} \/ h + MaxHeaders <= header.height
  BY DEF PrevotesCounted
<1>1. /\ who[h] \subseteq Participant /\ after[h] \subseteq Participant
      /\ h \in Nat
  BY <1>0 DEF PrevotesCounted
<1>2. h \in PreVoteHeights(header) => header.height - ProcessingThreshold <= h
  BY PreVoteHeightsAre DEF IsNextHeader
<1>3. h \notin DOMAIN record.votes => who[h] = {} \/ h + MaxHeaders <= Len(links)
  BY DEF PrevotesCounted
<1>4. CASE h \in DOMAIN next.votes
  <2>1. /\ h \in DOMAIN record.votes \/ h \in PreVoteHeights(header)
        /\ next.votes[h].prevotes = VotesAt(record, h).prevotes
             + (IF h \in PreVoteHeights(header) THEN 1 ELSE 0)
    BY <1>4, AddVotesIs
  <2>2. h \notin DOMAIN record.votes => who[h] = {}
    BY <1>0, <1>1, <1>2, <1>3, <2>1
  <2>3. VotesAt(record, h).prevotes = Cardinality(who[h])
    BY <1>0, <1>1, <2>2, OneMore DEF VotesAt, NoVotes, PrevotesCounted
  <2>4. Cardinality(who[h]) \in Nat
    BY <1>0, <1>1, OneMore
  <2>5. CASE h \in PreVoteHeights(header)
    <3>1. Cardinality(after[h]) = Cardinality(who[h]) + 1
      BY <1>0, <1>1, <2>5, OneMore
    <3> QED BY <1>1, <1>4, <2>1, <2>3, <2>5, <3>1
  <2>6. CASE h \notin PreVoteHeights(header)
    BY <1>1, <1>4, <2>1, <2>3, <2>4, <2>6
  <2> QED BY <2>5, <2>6
<1>5. CASE h \notin DOMAIN next.votes
  <2>1. CASE h \in DOMAIN record.votes \/ h \in PreVoteHeights(header)
    BY <1>1, <1>5, <2>1, AddVotesIs
  <2>2. CASE h \notin DOMAIN record.votes /\ h \notin PreVoteHeights(header)
    BY <1>0, <1>1, <1>3, <1>5, <2>2
  <2> QED BY <2>1, <2>2
<1> QED BY <1>4, <1>5

\* So are its precommits: maxPreCommitHeight has moved above the earlier ones.
LEMMA PrecommitsStayCounted ==
  ASSUME LedgerAssumption, NEW links, IsChain(links),
         NEW header, IsNextHeader(links, header), CanVote(header),
         NEW record, IsLedger(record, Len(links)),
         NEW next, next = UpdatePrevotesPrecommits(links, record, header),
         NEW who, DOMAIN who \subseteq Nat, PrecommitsCounted(record, who, Len(links)),
         NEW after, DOMAIN after = DOMAIN who,
         \A h \in DOMAIN who :
           after[h] = IF h \in PreCommitHeights(links, record, header)
                        THEN who[h] \cup {header.gen} ELSE who[h]
  PROVE  PrecommitsCounted(next, after, header.height)
<1> DEFINE precommits == PreCommitHeights(links, record, header)
<1>0. /\ Len(links) \in Nat /\ header.height = Len(links) + 1
      /\ MaxHeaders = 5 * NumberOfValidators /\ NumberOfValidators \in Nat
      /\ ProcessingThreshold = 3 * NumberOfValidators - 1
      /\ header.gen \in Participant /\ header.gen \in Validator
  BY Bounds DEF IsChain, IsNextHeader, CanVote
<1>1. /\ next.maxPreCommitHeight \in [Validator -> Nat]
      /\ record.maxPreCommitHeight \in [Validator -> Nat]
      /\ \A v \in Validator : record.maxPreCommitHeight[v] <= next.maxPreCommitHeight[v]
      /\ \A h \in precommits : h <= next.maxPreCommitHeight[header.gen]
  BY AddVotesIs DEF IsLedger
<1> SUFFICES ASSUME NEW h \in DOMAIN who
             PROVE  /\ after[h] \subseteq Participant
                    /\ \A v \in after[h] : h <= next.maxPreCommitHeight[v]
                    /\ IF h \in DOMAIN next.votes
                         THEN next.votes[h].precommits = Cardinality(after[h])
                         ELSE after[h] = {} \/ h + MaxHeaders <= header.height
  BY DEF PrecommitsCounted
<1>2. /\ who[h] \subseteq Participant /\ after[h] \subseteq Participant
      /\ \A v \in who[h] : h <= record.maxPreCommitHeight[v]
      /\ h \in Nat
  BY <1>0 DEF PrecommitsCounted
<1>3. \A v \in after[h] : h <= next.maxPreCommitHeight[v]
  <2> SUFFICES ASSUME NEW v \in after[h] PROVE h <= next.maxPreCommitHeight[v]
    OBVIOUS
  <2>1. v \in Validator
    BY <1>2, Bounds
  <2>2. CASE v \in who[h]
    BY <1>1, <1>2, <2>1, <2>2
  <2>3. CASE v = header.gen /\ h \in precommits
    BY <1>1, <2>3
  <2> QED BY <2>2, <2>3
<1>4. h \in precommits =>
        /\ h \in DOMAIN record.votes /\ record.maxPreCommitHeight[header.gen] < h
  BY PreCommitHeightsAre
<1>5. h \in precommits => header.gen \notin who[h]
  <2>1. record.maxPreCommitHeight[header.gen] \in Nat
    BY <1>0, <1>1
  <2> QED BY <1>2, <1>4, <2>1
<1>6. h \notin DOMAIN record.votes => who[h] = {} \/ h + MaxHeaders <= Len(links)
  BY DEF PrecommitsCounted
<1>7. h \in PreVoteHeights(header) => header.height - ProcessingThreshold <= h
  BY PreVoteHeightsAre DEF IsNextHeader
<1>8. CASE h \in DOMAIN next.votes
  <2>1. /\ h \in DOMAIN record.votes \/ h \in PreVoteHeights(header)
        /\ next.votes[h].precommits = VotesAt(record, h).precommits
             + (IF h \in precommits THEN 1 ELSE 0)
    BY <1>8, AddVotesIs
  <2>2. h \notin DOMAIN record.votes => who[h] = {}
    BY <1>0, <1>2, <1>6, <1>7, <2>1
  <2>3. VotesAt(record, h).precommits = Cardinality(who[h])
    BY <1>0, <1>2, <2>2, OneMore DEF VotesAt, NoVotes, PrecommitsCounted
  <2>4. Cardinality(who[h]) \in Nat
    BY <1>0, <1>2, OneMore
  <2>5. CASE h \in precommits
    <3>1. Cardinality(after[h]) = Cardinality(who[h]) + 1
      BY <1>0, <1>2, <1>5, <2>5, OneMore
    <3> QED BY <1>2, <1>3, <1>8, <2>1, <2>3, <2>5, <3>1
  <2>6. CASE h \notin precommits
    BY <1>2, <1>3, <1>8, <2>1, <2>3, <2>4, <2>6
  <2> QED BY <2>5, <2>6
<1>9. CASE h \notin DOMAIN next.votes
  <2>1. CASE h \in DOMAIN record.votes
    BY <1>2, <1>3, <1>9, <2>1, AddVotesIs
  <2>2. CASE h \notin DOMAIN record.votes
    BY <1>0, <1>2, <1>3, <1>4, <1>6, <1>9, <2>2
  <2> QED BY <2>1, <2>2
<1> QED BY <1>8, <1>9

\* The voters for a height after a header that votes for heights.
WithVote(who, header, heights, h) ==
  IF CanVote(header) /\ h \in heights THEN who[h] \cup {header.gen} ELSE who[h]

\* One header after the other, whether it may vote or not.
LEMMA VotesStayCounted ==
  ASSUME LedgerAssumption, NEW links, IsChain(links),
         NEW header, IsNextHeader(links, header),
         NEW record, IsLedger(record, Len(links)),
         NEW next, next = UpdatePrevotesPrecommits(links, record, header),
         NEW who, DOMAIN who \subseteq Nat, PrevotesCounted(record, who, Len(links)),
         NEW after, DOMAIN after = DOMAIN who,
         \A h \in DOMAIN who : after[h] = WithVote(who, header, PreVoteHeights(header), h),
         \A h \in DOMAIN who :
           CanVote(header) /\ h \in PreVoteHeights(header) => header.gen \notin who[h],
         NEW whoCommit, DOMAIN whoCommit \subseteq Nat,
         PrecommitsCounted(record, whoCommit, Len(links)),
         NEW afterCommit, DOMAIN afterCommit = DOMAIN whoCommit,
         \A h \in DOMAIN whoCommit :
           afterCommit[h] =
             WithVote(whoCommit, header, PreCommitHeights(links, record, header), h)
  PROVE  /\ PrevotesCounted(next, after, header.height)
         /\ PrecommitsCounted(next, afterCommit, header.height)
<1>1. CASE CanVote(header)
  <2>1. PrevotesCounted(next, after, header.height)
    BY <1>1, PrevotesStayCounted DEF WithVote
  <2>2. PrecommitsCounted(next, afterCommit, header.height)
    <3>1. \A h \in DOMAIN whoCommit :
            afterCommit[h] = IF h \in PreCommitHeights(links, record, header)
                               THEN whoCommit[h] \cup {header.gen} ELSE whoCommit[h]
      BY <1>1 DEF WithVote
    <3> QED BY <1>1, <3>1, PrecommitsStayCounted, ZenonT(60)
  <2> QED BY <2>1, <2>2
<1>2. CASE ~CanVote(header)
  <2>1. next = record
    BY <1>2 DEF UpdatePrevotesPrecommits
  <2>2. /\ MaxHeaders \in Nat /\ Len(links) \in Nat /\ header.height = Len(links) + 1
    BY Bounds DEF IsChain, IsNextHeader
  <2>3. PrevotesCounted(next, after, header.height)
    BY <1>2, <2>1, <2>2 DEF PrevotesCounted, WithVote
  <2>4. PrecommitsCounted(next, afterCommit, header.height)
    BY <1>2, <2>1, <2>2 DEF PrecommitsCounted, WithVote
  <2> QED BY <2>3, <2>4
<1> QED BY <1>1, <1>2

-----------------------------------------------------------------------------
(* The inductive invariant.                                                *)

ForgedHeader ==
  [id : Seq(Validator \X Nat), height : Nat, gen : Validator, mhpf : Nat, mhp : Nat]

\* The first n headers of a chain: what its ledger was built from before.
Cut(c, n) == SubSeq(c, 1, n)

\* Every chain begins with chains.
ChainsOK ==
  /\ faulty \subseteq Validator
  /\ <<>> \in chains
  /\ \A c \in chains :
       /\ c \in Seq(ForgedHeader) /\ Len(c) <= MaxChainLength
       /\ \A k \in 1..Len(c) : c[k].height = k /\ Len(c[k].id) = k
       /\ \A k \in 0..Len(c) : Cut(c, k) \in chains

\* The last header of a chain says what the ledger before it said, and the
\* ledger is what updatePrevotesPrecommits makes of the two.
Grown(c, from) ==
  /\ Last(c).mhp = ExpectedMhp(from, ledgers[from])
  /\ ledgers[c] = UpdatePrevotesPrecommits(from, ledgers[from], Last(c))

LedgersOK ==
  /\ ledgers[<<>>] = EmptyLedger
  /\ \A c \in chains :
       /\ IsLedger(ledgers[c], Len(c))
       /\ RankOK(ledgers[c], TipMhp(c), Len(c))
       /\ \A k \in 1..Len(c) : c[k].mhp <= TipMhp(c)
       /\ c # <<>> => Grown(c, Cut(c, Len(c) - 1))

\* Who has voted for a height on a chain.
Prevoters(c) ==
  [h \in 1..MaxChainLength |->
     {c[k].gen : k \in {j \in 1..Len(c) : CanVote(c[j]) /\ h \in PreVoteHeights(c[j])}}]

PrecommitsOf(c, k) == PreCommitHeights(Cut(c, k - 1), ledgers[Cut(c, k - 1)], c[k])

Precommitters(c) ==
  [h \in 1..MaxChainLength |->
     {c[k].gen : k \in {j \in 1..Len(c) : CanVote(c[j]) /\ h \in PrecommitsOf(c, j)}}]

VotesCounted ==
  \A c \in chains :
    /\ PrevotesCounted(ledgers[c], Prevoters(c), Len(c))
    /\ PrecommitsCounted(ledgers[c], Precommitters(c), Len(c))

\* The blocks of an honest validator in the order it has forged them.
Before(x, y) ==
  /\ Len(x) <= Last(y).mhpf /\ Last(x).mhpf <= Last(y).mhpf
  /\ Last(x).mhp <= Last(y).mhp
  /\ Last(x).mhp = Last(y).mhp => Len(x) < Len(y)

HonestOK ==
  \A v \in Validator \ faulty :
    /\ \A x, y \in OwnChains(v) : x = y \/ Before(x, y) \/ Before(y, x)
    /\ \A x \in OwnChains(v) :
         Last(x).mhpf = 0 \/ \E e \in OwnChains(v) : Len(e) = Last(x).mhpf

NetworkInductive == ChainsOK /\ LedgersOK /\ VotesCounted /\ HonestOK

-----------------------------------------------------------------------------
(* Sequences of headers.                                                   *)

\* Cutting a chain short leaves the headers below the cut as they are.
LEMMA CutIs ==
  ASSUME NEW S, NEW c \in Seq(S), NEW k \in 0..Len(c)
  PROVE  /\ Cut(c, k) \in Seq(S) /\ Len(Cut(c, k)) = k
         /\ \A j \in 1..k : Cut(c, k)[j] = c[j]
         /\ \A j \in 0..k : Cut(Cut(c, k), j) = Cut(c, j)
         /\ k = Len(c) => Cut(c, k) = c
         /\ k = 0 => Cut(c, k) = <<>>
<1>1. Len(c) \in Nat /\ k \in Nat
  OBVIOUS
<1>2. Cut(c, k) \in Seq(S) /\ Len(Cut(c, k)) = k /\ \A j \in 1..k : Cut(c, k)[j] = c[j]
  BY <1>1, SubSeqProperties DEF Cut
<1>3. \A j \in 0..k : Cut(Cut(c, k), j) = Cut(c, j)
  <2> SUFFICES ASSUME NEW j \in 0..k PROVE Cut(Cut(c, k), j) = Cut(c, j)
    OBVIOUS
  <2>1. j \in 0..Len(c)
    BY <1>1
  <2>2. /\ Cut(c, j) \in Seq(S) /\ Len(Cut(c, j)) = j
        /\ \A i \in 1..j : Cut(c, j)[i] = c[i]
    BY <2>1, SubSeqProperties DEF Cut
  <2>3. /\ Cut(Cut(c, k), j) \in Seq(S) /\ Len(Cut(Cut(c, k), j)) = j
        /\ \A i \in 1..j : Cut(Cut(c, k), j)[i] = Cut(c, k)[i]
    BY <1>2, SubSeqProperties DEF Cut
  <2> QED BY <1>1, <1>2, <2>2, <2>3, SeqEqual
<1>4. k = Len(c) => Cut(c, k) = c
  BY <1>2, SeqEqual
<1>5. k = 0 => Cut(c, k) = <<>>
  BY <1>2, EmptySeq
<1> QED BY <1>2, <1>3, <1>4, <1>5

Extends(longer, links, header) == longer = Append(links, header)

\* A header on top of a chain leaves the chain below it.
LEMMA AppendIs ==
  ASSUME NEW S, NEW c \in Seq(S), NEW b \in S, NEW longer, Extends(longer, c, b)
  PROVE  /\ longer \in Seq(S) /\ Len(longer) = Len(c) + 1
         /\ longer # <<>> /\ Last(longer) = b
         /\ \A k \in 1..Len(c) : longer[k] = c[k]
         /\ longer[Len(c) + 1] = b
         /\ \A k \in 0..Len(c) : Cut(longer, k) = Cut(c, k)
         /\ Cut(longer, Len(c) + 1) = longer
<1>1. /\ longer \in Seq(S) /\ Len(longer) = Len(c) + 1 /\ Len(c) \in Nat
      /\ longer # <<>> /\ longer[Len(c) + 1] = b
      /\ \A k \in 1..Len(c) : longer[k] = c[k]
  BY AppendProperties DEF Extends
<1>2. Last(longer) = b
  BY <1>1 DEF Last
<1>3. Cut(longer, Len(c) + 1) = longer
  BY <1>1, CutIs
<1>4. \A k \in 0..Len(c) : Cut(longer, k) = Cut(c, k)
  <2> SUFFICES ASSUME NEW k \in 0..Len(c) PROVE Cut(longer, k) = Cut(c, k)
    OBVIOUS
  <2>1. k \in 0..Len(longer)
    BY <1>1
  <2>2. /\ Cut(longer, k) \in Seq(S) /\ Len(Cut(longer, k)) = k
        /\ \A j \in 1..k : Cut(longer, k)[j] = longer[j]
    BY <1>1, <2>1, CutIs
  <2>3. /\ Cut(c, k) \in Seq(S) /\ Len(Cut(c, k)) = k
        /\ \A j \in 1..k : Cut(c, k)[j] = c[j]
    BY CutIs
  <2> QED BY <1>1, <2>2, <2>3, SeqEqual
<1> QED BY <1>1, <1>2, <1>3, <1>4

-----------------------------------------------------------------------------
(* What a forged block adds.                                               *)

\* A chain of the set, as the lemmas about the ledger know it.
LEMMA ForgedChainIs ==
  ASSUME ChainsOK, NEW c \in chains
  PROVE  /\ c \in Seq(ForgedHeader) /\ Len(c) \in Nat /\ IsChain(c)
         /\ \A k \in 1..Len(c) : c[k] \in ForgedHeader
<1>1. c \in Seq(ForgedHeader) /\ Len(c) \in Nat
  BY DEF ChainsOK
<1>2. \A k \in 1..Len(c) : c[k] \in ForgedHeader
  BY <1>1, ElementOfSeq
<1>3. \A k \in 1..Len(c) : IsHeader(c[k]) /\ c[k].gen \in Validator /\ c[k].height = k
  BY <1>2 DEF ForgedHeader, IsHeader, ChainsOK
<1> QED BY <1>1, <1>2, <1>3 DEF IsChain

\* The tip of a chain that has blocks, and the chain it was forged on.
LEMMA LastIs ==
  ASSUME ChainsOK, NEW c \in chains, c # <<>>
  PROVE  /\ Len(c) \in 1..Len(c) /\ Last(c) = c[Len(c)] /\ Last(c) \in ForgedHeader
         /\ TipMhp(c) = Last(c).mhp /\ Last(c).height = Len(c)
         /\ Len(c) - 1 \in 0..Len(c) /\ Cut(c, Len(c) - 1) \in chains
<1>1. c \in Seq(ForgedHeader) /\ Len(c) \in Nat
  BY ForgedChainIs
<1>2. Len(c) \in Nat \ {0}
  BY <1>1, EmptySeq
<1>3. Len(c) \in 1..Len(c) /\ Len(c) - 1 \in 0..Len(c)
  BY <1>2
<1>4. Last(c) = c[Len(c)] /\ TipMhp(c) = Last(c).mhp
  BY DEF Last, TipMhp
<1> QED BY <1>3, <1>4, ForgedChainIs DEF ChainsOK

\* What the next header has to say is a height of the chain.
LEMMA ExpectedIs ==
  ASSUME LedgerAssumption, ChainsOK, LedgersOK, NEW c \in chains
  PROVE  /\ TipMhp(c) \in Nat /\ ExpectedMhp(c, ledgers[c]) \in Nat
         /\ TipMhp(c) <= ExpectedMhp(c, ledgers[c])
         /\ \A h \in Prevoted(ledgers[c]) : h <= ExpectedMhp(c, ledgers[c])
<1>1. TipMhp(c) \in Nat
  <2>1. CASE c = <<>>
    BY <2>1 DEF TipMhp
  <2>2. CASE c # <<>>
    BY <2>2, LastIs DEF ForgedHeader
  <2> QED BY <2>1, <2>2
<1>2. Len(c) \in Nat /\ IsLedger(ledgers[c], Len(c)) /\ RankOK(ledgers[c], TipMhp(c), Len(c))
  BY ForgedChainIs DEF LedgersOK
<1> QED BY <1>1, <1>2, MaxHeightPrevotedIs DEF ExpectedMhp, RankOK

\* The header that a validator forges on a chain, whatever it claims.
LEMMA NewHeaderIs ==
  ASSUME LedgerAssumption, ChainsOK, LedgersOK, NEW links \in chains,
         NEW v \in Validator, NEW mhpf \in Nat
  PROVE  LET header == NewHeader(v, links, mhpf)
         IN  /\ header \in ForgedHeader /\ IsNextHeader(links, header)
             /\ header.gen = v /\ header.mhpf = mhpf /\ header.height = Len(links) + 1
             /\ header.mhp = ExpectedMhp(links, ledgers[links])
             /\ Len(header.id) = Len(links) + 1
<1> DEFINE header == NewHeader(v, links, mhpf)
           signed == [h \in 1..Len(links) |-> <<links[h].gen, links[h].mhpf>>]
<1>1. /\ header.gen = v /\ header.mhpf = mhpf /\ header.height = Len(links) + 1
      /\ header.mhp = ExpectedMhp(links, ledgers[links])
      /\ header.id = Append(signed, <<v, mhpf>>)
  BY DEF NewHeader
<1>2. Len(links) \in Nat /\ ExpectedMhp(links, ledgers[links]) \in Nat
  BY ForgedChainIs, ExpectedIs
<1>3. \A h \in 1..Len(links) : <<links[h].gen, links[h].mhpf>> \in Validator \X Nat
  BY ForgedChainIs DEF ForgedHeader
<1>4. signed \in Seq(Validator \X Nat) /\ Len(signed) = Len(links)
  BY <1>2, <1>3
<1>5. <<v, mhpf>> \in Validator \X Nat
  OBVIOUS
<1> HIDE DEF signed
<1>6. header.id \in Seq(Validator \X Nat) /\ Len(header.id) = Len(links) + 1
  BY <1>1, <1>4, <1>5, AppendProperties
<1>7. header \in ForgedHeader
  BY <1>1, <1>2, <1>6 DEF ForgedHeader, NewHeader
<1> HIDE DEF header
<1>8. IsNextHeader(links, header)
  BY <1>1, <1>2, <1>7 DEF IsNextHeader, IsHeader, ForgedHeader
<1> QED BY <1>1, <1>6, <1>7, <1>8 DEF header

\* A chain that is there already has the ledger that the block would give it.
LEMMA BlockAdded ==
  ASSUME LedgerAssumption, FinalityAssumption, ChainsOK, LedgersOK, NEW links \in chains,
         NEW v \in Validator, NEW mhpf \in Nat,
         NEW header, header = NewHeader(v, links, mhpf),
         AddBlock(links, header),
         NEW longer, Extends(longer, links, header)
  PROVE  /\ chains' = chains \cup {longer}
         /\ \A c \in chains : ledgers'[c] = ledgers[c]
         /\ ledgers'[longer] = UpdatePrevotesPrecommits(links, ledgers[links], header)
         /\ VerifyBlockHeaders(links, ledgers[links], header)
         /\ longer \in Seq(ForgedHeader) /\ Len(longer) = Len(links) + 1 /\ longer # <<>>
         /\ Len(longer) <= MaxChainLength
<1>1. /\ ledgers' = [c \in chains \cup {longer} |->
           IF c = longer
             THEN UpdatePrevotesPrecommits(links, ledgers[links], header)
             ELSE ledgers[c]]
      /\ Len(links) < MaxChainLength
      /\ VerifyBlockHeaders(links, ledgers[links], header)
  BY DEF AddBlock, Extends
<1>2. chains' = chains \cup {longer}
  BY <1>1 DEF chains
<1>3. header \in ForgedHeader /\ links \in Seq(ForgedHeader) /\ Len(links) \in Nat
  BY NewHeaderIs, ForgedChainIs
<1>4. /\ longer \in Seq(ForgedHeader) /\ Len(longer) = Len(links) + 1 /\ longer # <<>>
      /\ Last(longer) = header /\ Cut(longer, Len(links)) = links
  <2>1. Len(links) \in 0..Len(links)
    BY <1>3
  <2>2. Cut(links, Len(links)) = links
    BY <1>3, <2>1, CutIs
  <2>3. Cut(longer, Len(links)) = Cut(links, Len(links))
    BY <1>3, <2>1, AppendIs
  <2> QED BY <1>3, <2>2, <2>3, AppendIs
<1>5. longer \in chains =>
        ledgers[longer] = UpdatePrevotesPrecommits(links, ledgers[links], header)
  <2>1. Len(longer) - 1 = Len(links)
    BY <1>3, <1>4
  <2> QED BY <1>4, <2>1 DEF LedgersOK, Grown
<1>6. \A c \in chains : ledgers'[c] = ledgers[c]
  BY <1>1, <1>5
<1>7. Len(longer) <= MaxChainLength
  <2>1. Len(links) + 1 <= MaxChainLength
    BY <1>1, <1>3 DEF FinalityAssumption
  <2> QED BY <1>4, <2>1
<1> QED BY <1>1, <1>2, <1>4, <1>6, <1>7

\* A block starts from a chain of the set.
LEMMA ChainsKept ==
  ASSUME LedgerAssumption, FinalityAssumption, ChainsOK, LedgersOK, NEW links \in chains,
         NEW v \in Validator, NEW mhpf \in Nat,
         AddBlock(links, NewHeader(v, links, mhpf)), UNCHANGED faulty
  PROVE  ChainsOK'
<1> PICK header : header = NewHeader(v, links, mhpf)
  OBVIOUS
<1> PICK longer : Extends(longer, links, header)
  BY DEF Extends
<1>1. /\ chains' = chains \cup {longer}
      /\ longer \in Seq(ForgedHeader) /\ Len(longer) = Len(links) + 1
      /\ Len(longer) <= MaxChainLength
  BY BlockAdded
<1>2. /\ header \in ForgedHeader /\ header.height = Len(links) + 1
      /\ Len(header.id) = Len(links) + 1
      /\ links \in Seq(ForgedHeader) /\ Len(links) \in Nat
  BY NewHeaderIs, ForgedChainIs
<1>3. /\ \A k \in 1..Len(links) : longer[k] = links[k]
      /\ longer[Len(links) + 1] = header
      /\ \A k \in 0..Len(links) : Cut(longer, k) = Cut(links, k)
      /\ Cut(longer, Len(links) + 1) = longer
  BY <1>2, AppendIs
<1>4. \A k \in 1..Len(longer) : k \in 1..Len(links) \/ k = Len(links) + 1
  BY <1>1, <1>2
<1>5. \A k \in 0..Len(longer) : k \in 0..Len(links) \/ k = Len(links) + 1
  BY <1>1, <1>2
<1>6. \A k \in 1..Len(longer) : longer[k].height = k /\ Len(longer[k].id) = k
  <2>1. \A k \in 1..Len(links) : links[k].height = k /\ Len(links[k].id) = k
    BY DEF ChainsOK
  <2> QED BY <1>2, <1>3, <1>4, <2>1
<1>7. \A k \in 0..Len(longer) : Cut(longer, k) \in chains'
  BY <1>1, <1>3, <1>5 DEF ChainsOK
<1>8. \A c \in chains : \A k \in 0..Len(c) : Cut(c, k) \in chains'
  BY <1>1 DEF ChainsOK
<1> QED BY <1>1, <1>6, <1>7, <1>8 DEF ChainsOK

\* Ledgers are built once and say no less than the tip.
LEMMA LedgersKept ==
  ASSUME LedgerAssumption, FinalityAssumption, ChainsOK, LedgersOK, NEW links \in chains,
         NEW v \in Validator, NEW mhpf \in Nat,
         AddBlock(links, NewHeader(v, links, mhpf))
  PROVE  LedgersOK'
<1> PICK header : header = NewHeader(v, links, mhpf)
  OBVIOUS
<1> PICK longer : Extends(longer, links, header)
  BY DEF Extends
<1>1. /\ chains' = chains \cup {longer}
      /\ \A c \in chains : ledgers'[c] = ledgers[c]
      /\ ledgers'[longer] = UpdatePrevotesPrecommits(links, ledgers[links], header)
      /\ longer \in Seq(ForgedHeader) /\ Len(longer) = Len(links) + 1 /\ longer # <<>>
  <2>1. AddBlock(links, header)
    OBVIOUS
  <2>2. chains' = chains \cup {longer}
    BY <2>1, BlockAdded
  <2>3. \A c \in chains : ledgers'[c] = ledgers[c]
    BY <2>1, BlockAdded
  <2>4. ledgers'[longer] = UpdatePrevotesPrecommits(links, ledgers[links], header)
    BY <2>1 DEF AddBlock, Extends
  <2>5. longer \in Seq(ForgedHeader) /\ Len(longer) = Len(links) + 1 /\ longer # <<>>
    BY <2>1, BlockAdded
  <2> QED BY <2>2, <2>3, <2>4, <2>5
<1>2. /\ header \in ForgedHeader /\ IsNextHeader(links, header) /\ header.height = Len(links) + 1
      /\ header.mhp = ExpectedMhp(links, ledgers[links])
      /\ links \in Seq(ForgedHeader) /\ Len(links) \in Nat /\ IsChain(links)
      /\ TipMhp(links) \in Nat
  BY NewHeaderIs, ForgedChainIs, ExpectedIs
<1>3. /\ \A k \in 1..Len(links) : longer[k] = links[k]
      /\ longer[Len(links) + 1] = header /\ Last(longer) = header
      /\ Cut(longer, Len(links)) = links
  <2>1. Len(links) \in 0..Len(links)
    BY <1>2
  <2>2. Cut(links, Len(links)) = links
    BY <1>2, <2>1, CutIs
  <2> QED BY <1>2, <2>1, <2>2, AppendIs
<1>4. /\ TipMhp(longer) = header.mhp /\ Len(longer) - 1 = Len(links)
      /\ header.mhp \in Nat
  BY <1>1, <1>2, <1>3 DEF TipMhp, ForgedHeader
<1>5. /\ TipMhp(links) <= header.mhp
      /\ IsLedger(ledgers'[longer], header.height)
      /\ RankOK(ledgers'[longer], header.mhp, header.height)
  <2>1. IsLedger(ledgers[links], Len(links)) /\ RankOK(ledgers[links], TipMhp(links), Len(links))
    BY DEF LedgersOK
  <2>2. header.mhp = MaxHeightPrevoted(ledgers[links], TipMhp(links))
    BY <1>2 DEF ExpectedMhp
  <2> QED BY <1>1, <1>2, <2>1, <2>2, RankKept
<1>6. \A k \in 1..Len(longer) : longer[k].mhp <= TipMhp(longer)
  <2> SUFFICES ASSUME NEW k \in 1..Len(longer) PROVE longer[k].mhp <= header.mhp
    BY <1>4
  <2>1. CASE k \in 1..Len(links)
    <3>1. links[k].mhp <= TipMhp(links) /\ links[k].mhp \in Nat
      BY <2>1, ForgedChainIs DEF LedgersOK, ForgedHeader
    <3> QED BY <1>2, <1>3, <1>4, <1>5, <2>1, <3>1
  <2>2. CASE k = Len(links) + 1
    BY <1>3, <1>4, <2>2
  <2> QED BY <1>1, <1>2, <2>1, <2>2
<1>7. Grown(longer, Cut(longer, Len(longer) - 1))'
  BY <1>1, <1>2, <1>3, <1>4 DEF Grown
<1>8. ASSUME NEW c \in chains, c # <<>>
      PROVE  Grown(c, Cut(c, Len(c) - 1))'
  <2>1. Cut(c, Len(c) - 1) \in chains
    BY <1>8, LastIs
  <2> QED BY <1>1, <1>8, <2>1 DEF Grown, LedgersOK
<1>9. ledgers'[<<>>] = EmptyLedger
  BY <1>1 DEF ChainsOK, LedgersOK
<1>10. ASSUME NEW c \in chains'
       PROVE  /\ IsLedger(ledgers'[c], Len(c))
              /\ RankOK(ledgers'[c], TipMhp(c), Len(c))
              /\ \A k \in 1..Len(c) : c[k].mhp <= TipMhp(c)
              /\ c # <<>> => Grown(c, Cut(c, Len(c) - 1))'
  <2>1. CASE c \in chains
    BY <1>1, <1>8, <2>1 DEF LedgersOK
  <2>2. CASE c = longer
    BY <1>1, <1>2, <1>4, <1>5, <1>6, <1>7, <2>2
  <2> QED BY <1>1, <2>1, <2>2
<1> QED BY <1>9, <1>10 DEF LedgersOK

\* The voters of a longer chain are those of the chain and, where the header
\* votes, its generator.
LEMMA PrevotersGrow ==
  ASSUME ChainsOK, NEW links \in chains, NEW header \in ForgedHeader,
         NEW longer, Extends(longer, links, header), NEW h \in 1..MaxChainLength
  PROVE  Prevoters(longer)[h]
           = WithVote(Prevoters(links), header, PreVoteHeights(header), h)
<1>0. links \in Seq(ForgedHeader) /\ Len(links) \in Nat
  BY ForgedChainIs
<1>1. /\ \A k \in 1..Len(links) : longer[k] = links[k]
      /\ longer[Len(links) + 1] = header
      /\ Len(longer) = Len(links) + 1 /\ Len(links) \in Nat
  BY <1>0, AppendIs
<1>2. 1..Len(longer) = 1..Len(links) \cup {Len(links) + 1}
  BY <1>1
<1> DEFINE old == {j \in 1..Len(links) : CanVote(links[j]) /\ h \in PreVoteHeights(links[j])}
           new == {j \in 1..Len(longer) : CanVote(longer[j]) /\ h \in PreVoteHeights(longer[j])}
<1>3. /\ Prevoters(longer)[h] = {longer[k].gen : k \in new}
      /\ Prevoters(links)[h] = {links[k].gen : k \in old}
  BY DEF Prevoters
<1>4. new = IF CanVote(header) /\ h \in PreVoteHeights(header)
              THEN old \cup {Len(links) + 1} ELSE old
  BY <1>1, <1>2
<1>5. \A k \in old : longer[k] = links[k]
  BY <1>1
<1> HIDE DEF old, new
<1>6. /\ {longer[k].gen : k \in old} = {links[k].gen : k \in old}
      /\ {longer[k].gen : k \in old \cup {Len(links) + 1}}
           = {links[k].gen : k \in old} \cup {header.gen}
  BY <1>1, <1>5
<1> QED BY <1>3, <1>4, <1>6 DEF WithVote

\* The same for precommits, which the ledger below a header decides
\* (getMinValidHeightToPreCommit).
LEMMA PrecommittersGrow ==
  ASSUME ChainsOK, LedgersOK, NEW links \in chains, NEW header \in ForgedHeader,
         NEW longer, Extends(longer, links, header), NEW h \in 1..MaxChainLength,
         \A c \in chains : ledgers'[c] = ledgers[c]
  PROVE  Precommitters(longer)'[h]
           = WithVote(Precommitters(links), header,
                      PreCommitHeights(links, ledgers[links], header), h)
<1>0. links \in Seq(ForgedHeader) /\ Len(links) \in Nat
  BY ForgedChainIs
<1>1. /\ \A k \in 1..Len(links) : longer[k] = links[k]
      /\ longer[Len(links) + 1] = header
      /\ \A k \in 0..Len(links) : Cut(longer, k) = Cut(links, k)
      /\ Len(longer) = Len(links) + 1
  BY <1>0, AppendIs
<1>2. 1..Len(longer) = 1..Len(links) \cup {Len(links) + 1}
  BY <1>0, <1>1
<1>3. Cut(longer, Len(links)) = links
  <2>1. Len(links) \in 0..Len(links)
    BY <1>0
  <2> QED BY <1>0, <1>1, <2>1, CutIs
<1>4. \A k \in 1..Len(links) : PrecommitsOf(longer, k)' = PrecommitsOf(links, k)
  <2> SUFFICES ASSUME NEW k \in 1..Len(links)
               PROVE  PrecommitsOf(longer, k)' = PrecommitsOf(links, k)
    OBVIOUS
  <2>1. k - 1 \in 0..Len(links)
    BY <1>0
  <2>2. Cut(longer, k - 1) = Cut(links, k - 1) /\ Cut(links, k - 1) \in chains
    BY <1>1, <2>1 DEF ChainsOK
  <2>3. ledgers'[Cut(links, k - 1)] = ledgers[Cut(links, k - 1)] /\ longer[k] = links[k]
    BY <1>1, <2>2
  <2> QED BY <2>2, <2>3 DEF PrecommitsOf
<1>5. PrecommitsOf(longer, Len(links) + 1)' = PreCommitHeights(links, ledgers[links], header)
  <2>1. Len(links) + 1 - 1 = Len(links)
    BY <1>0
  <2> QED BY <1>1, <1>3, <2>1 DEF PrecommitsOf
<1> DEFINE old == {j \in 1..Len(links) : CanVote(links[j]) /\ h \in PrecommitsOf(links, j)}
           new == {j \in 1..Len(longer) : CanVote(longer[j]) /\ h \in PrecommitsOf(longer, j)'}
<1>6. /\ Precommitters(longer)'[h] = {longer[k].gen : k \in new}
      /\ Precommitters(links)[h] = {links[k].gen : k \in old}
  BY DEF Precommitters
<1>7. new = IF CanVote(header) /\ h \in PreCommitHeights(links, ledgers[links], header)
              THEN old \cup {Len(links) + 1} ELSE old
  BY <1>1, <1>2, <1>4, <1>5
<1>8. \A k \in old : longer[k] = links[k]
  BY <1>1
<1> HIDE DEF old, new
<1>9. /\ {longer[k].gen : k \in old} = {links[k].gen : k \in old}
      /\ {longer[k].gen : k \in old \cup {Len(links) + 1}}
           = {links[k].gen : k \in old} \cup {header.gen}
  BY <1>1, <1>8
<1> QED BY <1>6, <1>7, <1>9 DEF WithVote

\* The ledgers below a chain stay, so a step elsewhere leaves its precommitters.
LEMMA PrecommittersKept ==
  ASSUME ChainsOK, NEW links \in chains, \A c \in chains : ledgers'[c] = ledgers[c]
  PROVE  Precommitters(links)' = Precommitters(links)
<1>1. \A k \in 1..Len(links) : PrecommitsOf(links, k)' = PrecommitsOf(links, k)
  <2> SUFFICES ASSUME NEW k \in 1..Len(links)
               PROVE  PrecommitsOf(links, k)' = PrecommitsOf(links, k)
    OBVIOUS
  <2>1. Len(links) \in Nat
    BY ForgedChainIs
  <2>2. Cut(links, k - 1) \in chains
    BY <2>1 DEF ChainsOK
  <2> QED BY <2>2 DEF PrecommitsOf
<1>2. \A h : {j \in 1..Len(links) : CanVote(links[j]) /\ h \in PrecommitsOf(links, j)'}
           = {j \in 1..Len(links) : CanVote(links[j]) /\ h \in PrecommitsOf(links, j)}
  BY <1>1
<1> QED BY <1>2 DEF Precommitters

\* Every vote is counted once: the prevotes of a header lie above the earlier
\* headers of its generator, because its maxHeightPrevoted has not fallen.
LEMMA VotesKept ==
  ASSUME LedgerAssumption, FinalityAssumption, ChainsOK, LedgersOK, VotesCounted,
         NEW links \in chains,
         NEW v \in Validator, NEW mhpf \in Nat,
         AddBlock(links, NewHeader(v, links, mhpf))
  PROVE  VotesCounted'
<1>a. PICK header : header = NewHeader(v, links, mhpf)
  OBVIOUS
<1>b. PICK longer : Extends(longer, links, header)
  BY DEF Extends
<1>c. PICK record : record = ledgers[links]
  OBVIOUS
<1>d. PICK next : next = UpdatePrevotesPrecommits(links, record, header)
  OBVIOUS
<1>1. /\ chains' = chains \cup {longer}
      /\ \A c \in chains : ledgers'[c] = ledgers[c]
      /\ ledgers'[longer] = next
      /\ VerifyBlockHeaders(links, record, header)
      /\ Len(longer) = Len(links) + 1
  <2>1. AddBlock(links, header)
    BY <1>a
  <2>2. ledgers'[longer] = next
    BY <1>b, <1>c, <1>d, <2>1 DEF AddBlock, Extends
  <2>3. /\ chains' = chains \cup {longer}
        /\ \A c \in chains : ledgers'[c] = ledgers[c]
        /\ Len(longer) = Len(links) + 1
    BY <1>a, <1>b, <2>1, BlockAdded
  <2>4. VerifyBlockHeaders(links, record, header)
    BY <1>c, <2>1 DEF AddBlock, Extends
  <2> QED BY <2>2, <2>3, <2>4
<1>2. /\ header \in ForgedHeader /\ IsNextHeader(links, header) /\ header.height = Len(links) + 1
      /\ header.mhp = ExpectedMhp(links, record) /\ Len(header.id) = Len(links) + 1
      /\ links \in Seq(ForgedHeader) /\ Len(links) \in Nat /\ IsChain(links)
      /\ TipMhp(links) \in Nat /\ TipMhp(links) <= header.mhp /\ header.mhp \in Nat
      /\ IsLedger(record, Len(links))
  BY <1>a, <1>c, NewHeaderIs, ForgedChainIs, ExpectedIs DEF LedgersOK
<1>3. \A k \in 1..Len(links) :
        /\ links[k].mhp <= header.mhp /\ links[k].id # header.id
        /\ links[k].height = k /\ IsHeader(links[k]) /\ links[k].gen \in Validator
  <2> SUFFICES ASSUME NEW k \in 1..Len(links)
               PROVE  /\ links[k].mhp <= header.mhp /\ links[k].id # header.id
                      /\ links[k].height = k /\ IsHeader(links[k]) /\ links[k].gen \in Validator
    OBVIOUS
  <2>1. links[k].height = k /\ IsHeader(links[k]) /\ links[k].gen \in Validator
    BY <1>2 DEF IsChain
  <2>2. links[k].mhp <= TipMhp(links) /\ Len(links[k].id) = k
    BY DEF LedgersOK, ChainsOK
  <2>3. links[k].mhp <= header.mhp
    BY <1>2, <2>1, <2>2 DEF IsHeader
  <2>4. links[k].id # header.id
    BY <1>2, <2>2
  <2> QED BY <2>1, <2>3, <2>4
<1>4. PrevotesCounted(record, Prevoters(links), Len(links))
      /\ PrecommitsCounted(record, Precommitters(links), Len(links))
  BY <1>c DEF VotesCounted
<1>5. /\ DOMAIN Prevoters(links) = 1..MaxChainLength /\ DOMAIN Prevoters(longer) = 1..MaxChainLength
      /\ DOMAIN Precommitters(links) = 1..MaxChainLength
      /\ DOMAIN Precommitters(longer)' = 1..MaxChainLength
      /\ 1..MaxChainLength \subseteq Nat
  BY DEF Prevoters, Precommitters, FinalityAssumption
<1>6. \A h \in 1..MaxChainLength :
        Prevoters(longer)[h] = WithVote(Prevoters(links), header, PreVoteHeights(header), h)
  BY <1>b, <1>2, PrevotersGrow
<1>7. \A h \in 1..MaxChainLength :
        Precommitters(longer)'[h] =
          WithVote(Precommitters(links), header, PreCommitHeights(links, record, header), h)
  BY <1>b, <1>c, <1>1, <1>2, PrecommittersGrow
<1>8. PrevotesCounted(next, Prevoters(longer), Len(longer))
      /\ PrecommitsCounted(next, Precommitters(longer)', Len(longer))
  <2>1. ASSUME NEW h \in 1..MaxChainLength, h \in PreVoteHeights(header)
        PROVE  header.gen \notin Prevoters(links)[h]
    <3> SUFFICES ASSUME NEW k \in 1..Len(links), links[k].gen = header.gen,
                        h \in PreVoteHeights(links[k])
                 PROVE  FALSE
      BY DEF Prevoters
    <3>1. ~ContradictsChain(links, header)
      BY <1>1 DEF VerifyBlockHeaders
    <3>2. k < h
      BY <1>2, <1>3, <2>1, <3>1, NewVotesAboveOld
    <3>3. h <= k
      BY <1>3, PreVoteHeightsAre
    <3> QED BY <1>2, <3>2, <3>3
  <2>a. PICK who : who = Prevoters(links)
    OBVIOUS
  <2>b. PICK after : after = Prevoters(longer)
    OBVIOUS
  <2>c. PICK whoCommit : whoCommit = Precommitters(links)
    OBVIOUS
  <2>d. PICK afterCommit : afterCommit = Precommitters(longer)'
    OBVIOUS
  <2>2. /\ DOMAIN who \subseteq Nat /\ DOMAIN after = DOMAIN who
        /\ DOMAIN whoCommit \subseteq Nat /\ DOMAIN afterCommit = DOMAIN whoCommit
        /\ PrevotesCounted(record, who, Len(links))
        /\ PrecommitsCounted(record, whoCommit, Len(links))
    BY <1>4, <1>5, <2>a, <2>b, <2>c, <2>d
  <2>3. /\ \A h \in DOMAIN who : after[h] = WithVote(who, header, PreVoteHeights(header), h)
        /\ \A h \in DOMAIN who :
             CanVote(header) /\ h \in PreVoteHeights(header) => header.gen \notin who[h]
    BY <1>5, <1>6, <2>1, <2>a, <2>b
  <2>4. \A h \in DOMAIN whoCommit :
           afterCommit[h] =
             WithVote(whoCommit, header, PreCommitHeights(links, record, header), h)
    BY <1>5, <1>7, <2>c, <2>d
  <2>5. /\ PrevotesCounted(next, after, header.height)
        /\ PrecommitsCounted(next, afterCommit, header.height)
    BY <1>2, <1>d, <2>2, <2>3, <2>4, VotesStayCounted
  <2> QED BY <1>1, <1>2, <2>5, <2>b, <2>d
<1>9. ASSUME NEW c \in chains
      PROVE  /\ PrevotesCounted(ledgers'[c], Prevoters(c), Len(c))
             /\ PrecommitsCounted(ledgers'[c], Precommitters(c)', Len(c))
  BY <1>1, PrecommittersKept DEF VotesCounted
<1> QED BY <1>1, <1>8, <1>9 DEF VotesCounted

\* What an honest validator forges comes after all it has forged.
LEMMA HonestForge ==
  ASSUME LedgerAssumption, FinalityAssumption, ChainsOK, LedgersOK, HonestOK,
         NEW links \in chains, NEW v \in Validator \ faulty,
         MayStandOn(v, links),
         NEW header, header = NewHeader(v, links, MaxHeightPreviouslyForged(v)),
         NEW longer, Extends(longer, links, header)
  PROVE  /\ MaxHeightPreviouslyForged(v) \in Nat
         /\ \A x \in OwnChains(v) : Before(x, longer)
         /\ header.mhpf = 0 \/ \E e \in OwnChains(v) : Len(e) = header.mhpf
<1> DEFINE forged == {Len(c) : c \in OwnChains(v)}
<1>1. /\ forged \subseteq 1..MaxChainLength /\ MaxChainLength \in Nat /\ forged \subseteq Nat
  BY LastIs, ForgedChainIs DEF FinalityAssumption, ChainsOK, OwnChains
<1>2. IsFiniteSet(forged)
  <2> HIDE DEF forged
  <2> QED BY <1>1, HeightsFinite
<1>3. /\ MaxHeightPreviouslyForged(v) \in {0} \cup forged
      /\ \A n \in forged : n <= MaxHeightPreviouslyForged(v)
      /\ MaxHeightPreviouslyForged(v) \in Nat
  <2>1. MaxHeightPreviouslyForged(v) = AtLeast(0, forged)
    BY DEF MaxHeightPreviouslyForged
  <2> HIDE DEF forged
  <2>2. forged \subseteq Int
    BY <1>1
  <2>3. /\ AtLeast(0, forged) = 0 \/ AtLeast(0, forged) \in forged
        /\ \A n \in forged : n <= AtLeast(0, forged)
    <3>1. 0 \in Int
      OBVIOUS
    <3> QED BY <1>2, <2>2, <3>1, AtLeastIs, Zenon
  <2>4. /\ MaxHeightPreviouslyForged(v) = 0 \/ MaxHeightPreviouslyForged(v) \in forged
        /\ \A n \in forged : n <= MaxHeightPreviouslyForged(v)
    BY <2>1, <2>3, Zenon
  <2>5. MaxHeightPreviouslyForged(v) \in forged => MaxHeightPreviouslyForged(v) \in Nat
    BY <1>1, Zenon
  <2>6. 0 \in Nat
    OBVIOUS
  <2> QED BY <2>4, <2>5, <2>6, Zenon
<1>4. /\ header \in ForgedHeader /\ header.gen = v /\ header.mhpf = MaxHeightPreviouslyForged(v)
      /\ header.mhp = ExpectedMhp(links, ledgers[links])
      /\ links \in Seq(ForgedHeader) /\ Len(links) \in Nat
      /\ TipMhp(links) \in Nat /\ TipMhp(links) <= header.mhp /\ header.mhp \in Nat
  BY <1>3, NewHeaderIs, ForgedChainIs, ExpectedIs
<1>5. Last(longer) = header /\ Len(longer) = Len(links) + 1
  BY <1>4, AppendIs
<1>6. ASSUME NEW x \in OwnChains(v) PROVE Before(x, longer)
  <2>1. /\ x \in chains /\ x # <<>> /\ Last(x) \in ForgedHeader
        /\ Last(x).mhp \in Nat /\ Last(x).mhpf \in Nat
        /\ TipMhp(x) = Last(x).mhp /\ Len(x) \in Nat
    BY LastIs, ForgedChainIs DEF OwnChains, ForgedHeader
  <2>2. Len(x) <= header.mhpf
    BY <1>3, <1>4
  <2>3. Last(x).mhpf <= header.mhpf
    <3>1. CASE Last(x).mhpf = 0
      BY <1>3, <1>4, <3>1
    <3>2. CASE \E e \in OwnChains(v) : Len(e) = Last(x).mhpf
      BY <1>3, <1>4, <3>2
    <3> QED BY <3>1, <3>2 DEF HonestOK
  <2>4. \/ links = x
        \/ TipMhp(links) > TipMhp(x)
        \/ TipMhp(links) = TipMhp(x) /\ Len(links) > Len(x)
    <3>1. links = x \/ ChainOutranks(links, x)
      BY DEF MayStandOn
    <3> QED BY <3>1 DEF ChainOutranks
  <2>5. Last(x).mhp <= header.mhp /\ (Last(x).mhp = header.mhp => Len(x) < Len(links) + 1)
    BY <1>4, <2>1, <2>4
  <2> QED BY <1>5, <2>2, <2>3, <2>5 DEF Before
<1> QED BY <1>3, <1>4, <1>6

\* Every block forged keeps what the honest validators have forged in order.
LEMMA HonestKept ==
  ASSUME LedgerAssumption, FinalityAssumption, ChainsOK, LedgersOK, HonestOK,
         NEW links \in chains, NEW v \in Validator, NEW mhpf \in Nat,
         v \in faulty \/ (mhpf = MaxHeightPreviouslyForged(v) /\ MayStandOn(v, links)),
         AddBlock(links, NewHeader(v, links, mhpf)), UNCHANGED faulty
  PROVE  HonestOK'
<1> PICK header : header = NewHeader(v, links, mhpf)
  OBVIOUS
<1> PICK longer : Extends(longer, links, header)
  BY DEF Extends
<1>1. /\ chains' = chains \cup {longer} /\ longer # <<>>
  BY BlockAdded
<1>2. Last(longer) = header /\ header.gen = v
  BY NewHeaderIs, ForgedChainIs, AppendIs
<1>3. ASSUME NEW w \in Validator
      PROVE  OwnChains(w)' = IF w = v THEN OwnChains(w) \cup {longer} ELSE OwnChains(w)
  BY <1>1, <1>2 DEF OwnChains
<1>4. SUFFICES ASSUME NEW w \in Validator \ faulty
               PROVE  /\ \A x, y \in OwnChains(w)' : x = y \/ Before(x, y) \/ Before(y, x)
                      /\ \A x \in OwnChains(w)' :
                           Last(x).mhpf = 0 \/ \E e \in OwnChains(w)' : Len(e) = Last(x).mhpf
  BY DEF HonestOK
<1>5. CASE w = v
  <2>1. /\ \A x \in OwnChains(v) : Before(x, longer)
        /\ header.mhpf = 0 \/ \E e \in OwnChains(v) : Len(e) = header.mhpf
    BY <1>5, HonestForge
  <2>2. OwnChains(v)' = OwnChains(v) \cup {longer}
    BY <1>3
  <2>3. /\ \A x, y \in OwnChains(v) : x = y \/ Before(x, y) \/ Before(y, x)
        /\ \A x \in OwnChains(v) :
             Last(x).mhpf = 0 \/ \E e \in OwnChains(v) : Len(e) = Last(x).mhpf
    BY <1>5 DEF HonestOK
  <2>4. \A x, y \in OwnChains(v)' : x = y \/ Before(x, y) \/ Before(y, x)
    BY <2>1, <2>2, <2>3
  <2>5. \A x \in OwnChains(v)' :
          Last(x).mhpf = 0 \/ \E e \in OwnChains(v)' : Len(e) = Last(x).mhpf
    BY <1>2, <2>1, <2>2, <2>3
  <2> QED BY <1>5, <2>4, <2>5
<1>6. CASE w # v
  BY <1>3, <1>6 DEF HonestOK
<1> QED BY <1>5, <1>6

-----------------------------------------------------------------------------
(* NetworkInvariance.                                                             *)

\* The network starts from the genesis block alone.
LEMMA NetworkInitInductive ==
  ASSUME LedgerAssumption, FinalityAssumption, NetworkInit
  PROVE  NetworkInductive
<1>1. /\ chains = {<<>>} /\ ledgers[<<>>] = EmptyLedger
      /\ faulty \subseteq Validator
  BY DEF NetworkInit, chains
<1>2. /\ <<>> \in Seq(ForgedHeader) /\ Len(<<>>) = 0 /\ MaxChainLength \in Nat
      /\ 0 \in 0..Len(<<>>)
  BY EmptySeq DEF FinalityAssumption
<1>3. ChainsOK
  <2>1. Cut(<<>>, 0) = <<>>
    BY SubSeqEmpty DEF Cut
  <2> QED BY <1>1, <1>2, <2>1 DEF ChainsOK
<1>4. DOMAIN EmptyLedger.votes = {} /\ EmptyLedger.maxPreCommitHeight \in [Validator -> Nat]
  BY DEF EmptyLedger
<1>5. Prevoted(EmptyLedger) = {}
  BY <1>4 DEF Prevoted
<1>6. LedgersOK
  <2>1. IsLedger(EmptyLedger, 0)
    BY <1>4 DEF IsLedger
  <2>2. TipMhp(<<>>) = 0
    BY DEF TipMhp
  <2>3. RankOK(EmptyLedger, 0, 0)
    BY <1>5 DEF RankOK, MaxHeightPrevoted
  <2> QED BY <1>1, <1>2, <2>1, <2>2, <2>3 DEF LedgersOK
<1>7. VotesCounted
  <2>1. 1..Len(<<>>) = {}
    BY <1>2
  <2>2. \A h \in 1..MaxChainLength : Prevoters(<<>>)[h] = {} /\ Precommitters(<<>>)[h] = {}
    BY <2>1 DEF Prevoters, Precommitters
  <2>3. DOMAIN Prevoters(<<>>) = 1..MaxChainLength /\ DOMAIN Precommitters(<<>>) = 1..MaxChainLength
    BY DEF Prevoters, Precommitters
  <2> QED BY <1>1, <1>4, <2>2, <2>3 DEF VotesCounted, PrevotesCounted, PrecommitsCounted
<1>8. HonestOK
  BY <1>1 DEF HonestOK, OwnChains
<1> QED BY <1>3, <1>6, <1>7, <1>8 DEF NetworkInductive

\* Whoever forges it, a block that verifyBlockHeaders accepts keeps the chains,
\* the ledgers and the votes in order.
LEMMA BlockKeepsInductive ==
  ASSUME LedgerAssumption, FinalityAssumption, NetworkInductive,
         NEW links \in chains, NEW v \in Validator, NEW mhpf \in Nat,
         v \in faulty \/ (mhpf = MaxHeightPreviouslyForged(v) /\ MayStandOn(v, links)),
         AddBlock(links, NewHeader(v, links, mhpf)), UNCHANGED faulty
  PROVE  NetworkInductive'
<1>1. ChainsOK /\ LedgersOK /\ VotesCounted /\ HonestOK
  BY DEF NetworkInductive
<1>2. ChainsOK'
  BY <1>1, ChainsKept
<1>3. LedgersOK'
  BY <1>1, LedgersKept
<1>4. VotesCounted'
  BY <1>1, VotesKept
<1>5. HonestOK'
  BY <1>1, HonestKept
<1> QED BY <1>2, <1>3, <1>4, <1>5 DEF NetworkInductive

\* Forger.forge of an honest validator, and any block of a faulty one.
LEMMA NetworkNextInductive ==
  ASSUME LedgerAssumption, FinalityAssumption, NetworkInductive, [NetworkNext]_networkVars
  PROVE  NetworkInductive'
<1>1. ChainsOK /\ LedgersOK /\ HonestOK
  BY DEF NetworkInductive
<1>2. ASSUME NEW v \in Validator, NEW links \in chains, Forge(v, links), UNCHANGED faulty
      PROVE  NetworkInductive'
  <2>1. /\ v \in Validator \ faulty /\ MayStandOn(v, links)
        /\ AddBlock(links, NewHeader(v, links, MaxHeightPreviouslyForged(v)))
    BY <1>2 DEF Forge
  <2>2. MaxHeightPreviouslyForged(v) \in Nat
    BY <1>1, <2>1, HonestForge DEF Extends
  <2> QED BY <1>2, <2>1, <2>2, BlockKeepsInductive
<1>3. ASSUME NEW v \in Validator, NEW links \in chains, NEW mhpf \in 0..MaxChainLength,
             ForgeFaulty(v, links, mhpf), UNCHANGED faulty
      PROVE  NetworkInductive'
  <2>1. v \in faulty /\ AddBlock(links, NewHeader(v, links, mhpf))
    BY <1>3 DEF ForgeFaulty
  <2>2. mhpf \in Nat
    BY DEF FinalityAssumption
  <2> QED BY <1>3, <2>1, <2>2, BlockKeepsInductive
<1>4. CASE UNCHANGED networkVars
  <2>1. ledgers' = ledgers /\ faulty' = faulty
    BY <1>4 DEF networkVars
  <2>2. chains' = chains
    BY <2>1 DEF chains
  <2>3. ChainsOK' /\ LedgersOK' /\ HonestOK'
    BY <1>1, <2>1, <2>2 DEF ChainsOK, LedgersOK, HonestOK, Grown, OwnChains
  <2>4. VotesCounted'
    <3>1. \A c \in chains : Precommitters(c)' = Precommitters(c)
      BY <1>1, <2>1, PrecommittersKept
    <3> QED BY <2>1, <2>2, <3>1 DEF NetworkInductive, VotesCounted
  <2> QED BY <2>3, <2>4 DEF NetworkInductive
<1>5. CASE NetworkNext
  BY <1>2, <1>3, <1>5 DEF NetworkNext
<1> QED BY <1>4, <1>5

\* The strengthening that both results rest on: chains begin with chains, every
\* ledger is the one its headers give and counts one vote for each voter, and an
\* honest validator's chains stand in the order it forged them
\* (updatePrevotesPrecommits, Forger.forge).
THEOREM NetworkInvariance ==
  ASSUME LedgerAssumption, FinalityAssumption
  PROVE  NetworkSpec => []NetworkInductive
<1>1. NetworkInit => NetworkInductive
  BY NetworkInitInductive
<1>2. NetworkInductive /\ [NetworkNext]_networkVars => NetworkInductive'
  BY NetworkNextInductive
<1> QED BY <1>1, <1>2, PTL DEF NetworkSpec

-----------------------------------------------------------------------------
(* No contradictions.                                                      *)

\* What is forged in that order is no contradiction (areHeadersContradicting).
LEMMA BeforeDoesNotContradict ==
  ASSUME NEW x, NEW y, Len(x) \in Nat, Len(y) \in Nat, IsHeader(Last(x)), IsHeader(Last(y)),
         Last(x).height = Len(x), Last(y).height = Len(y), Before(x, y)
  PROVE  ~Contradicting(Last(x), Last(y))
  BY DEF Before, Contradicting, SignedBefore, BreaksSigningRules, IsHeader

\* A validator that follows the fork choice rule and remembers the greatest
\* height it forged is never caught by areHeadersContradicting, on whichever
\* chains it forges and however many of the others are faulty.
THEOREM HonestValidatorsNeverContradict ==
  ASSUME LedgerAssumption, FinalityAssumption
  PROVE  NetworkSpec => []HonestNeverContradicts
<1>1. NetworkInductive => HonestNeverContradicts
  <2> SUFFICES ASSUME NetworkInductive, NEW c \in chains, NEW d \in chains, c # <<>>, d # <<>>,
                      Last(c).gen \notin faulty, Contradicting(Last(c), Last(d))
               PROVE  FALSE
    BY DEF HonestNeverContradicts
  <2>1. ChainsOK /\ HonestOK
    BY DEF NetworkInductive
  <2>2. /\ Len(c) \in Nat /\ Len(d) \in Nat
        /\ Last(c) \in ForgedHeader /\ Last(d) \in ForgedHeader
        /\ IsHeader(Last(c)) /\ IsHeader(Last(d))
        /\ Last(c).height = Len(c) /\ Last(d).height = Len(d)
    BY <2>1, ForgedChainIs, LastIs DEF ForgedHeader, IsHeader
  <2>3. Last(c).gen = Last(d).gen /\ Last(c).id # Last(d).id
    BY DEF Contradicting
  <2>4. PICK v : v = Last(c).gen
    OBVIOUS
  <2>5. v \in Validator \ faulty /\ c \in OwnChains(v) /\ d \in OwnChains(v)
    BY <2>2, <2>3, <2>4 DEF OwnChains, ForgedHeader
  <2>6. Before(c, d) \/ Before(d, c)
    BY <2>1, <2>3, <2>5 DEF HonestOK
  <2>7. ~Before(c, d)
    BY <2>2, BeforeDoesNotContradict
  <2>8. ~Before(d, c)
    BY <2>2, BeforeDoesNotContradict, ContradictingSymmetric
  <2> QED BY <2>6, <2>7, <2>8
<1>2. NetworkSpec => []NetworkInductive
  BY NetworkInvariance
<1> QED BY <1>1, <1>2, PTL

-----------------------------------------------------------------------------
(* Finality.                                                               *)

\* Two quorums share a validator that is not faulty.
LEMMA QuorumsMeet ==
  ASSUME LedgerAssumption, QuorumAssumption, ChainsOK, FewFaulty,
         NEW P \in SUBSET Participant, NEW Q \in SUBSET Participant,
         Cardinality(P) >= Threshold, Cardinality(Q) >= Threshold
  PROVE  \E v \in Validator \ faulty : v \in P /\ v \in Q
<1>1. /\ IsFiniteSet(Validator) /\ IsFiniteSet(Participant) /\ IsFiniteSet(faulty)
      /\ IsFiniteSet(P) /\ IsFiniteSet(Q) /\ IsFiniteSet(P \cap Q)
      /\ IsFiniteSet(P \cup Q)
  <2>1. IsFiniteSet(Validator) /\ Participant \subseteq Validator /\ faulty \subseteq Validator
    BY DEF LedgerAssumption, ChainsOK
  <2>2. /\ P \subseteq Validator /\ Q \subseteq Validator
        /\ P \cap Q \subseteq Validator /\ P \cup Q \subseteq Validator
    BY <2>1
  <2> QED BY <2>1, <2>2, FS_Subset
<1>2. /\ Cardinality(P) \in Nat /\ Cardinality(Q) \in Nat /\ Cardinality(P \cap Q) \in Nat
      /\ Cardinality(P \cup Q) \in Nat /\ Cardinality(Participant) \in Nat
      /\ Cardinality(faulty) \in Nat /\ Cardinality(Validator) \in Nat
      /\ Threshold \in Nat
  BY <1>1, FS_CardinalityType, Bounds
<1>3. Cardinality(P \cup Q) = Cardinality(P) + Cardinality(Q) - Cardinality(P \cap Q)
  BY <1>1, FS_Union
<1>4. Cardinality(P \cup Q) <= Cardinality(Participant)
  <2>1. P \cup Q \subseteq Participant
    OBVIOUS
  <2> QED BY <1>1, <2>1, FS_Subset
<1>5. Cardinality(faulty) <= Cardinality(Validator)
  BY <1>1, FS_Subset DEF ChainsOK
<1>6. 2 * Threshold > Cardinality(Participant) + Cardinality(faulty)
  <2>1. Cardinality(faulty) \in 0..Cardinality(Validator)
    BY <1>2, <1>5
  <2> QED BY <2>1 DEF QuorumAssumption, FewFaulty
<1>7. Cardinality(P \cap Q) > Cardinality(faulty)
  BY <1>2, <1>3, <1>4, <1>6
<1>8. ~(P \cap Q \subseteq faulty)
  <2> SUFFICES ASSUME P \cap Q \subseteq faulty PROVE FALSE
    OBVIOUS
  <2>1. Cardinality(P \cap Q) <= Cardinality(faulty)
    BY <1>1, FS_Subset
  <2> QED BY <1>2, <1>7, <2>1
<1> QED BY <1>8, Bounds

\* A validator that precommits a height on one chain has not prevoted that height
\* or a higher one on a chain that parts below it, and still had a lower
\* maxHeightPrevoted: getMinValidHeightToPreCommit walks down its blocks.
LEMMA PrecommitBinds ==
  ASSUME LedgerAssumption, FinalityAssumption, NetworkInductive,
         NEW v \in Validator \ faulty,
         NEW c \in chains, NEW k1 \in 1..Len(c), c[k1].gen = v, CanVote(c[k1]),
         NEW h \in PrecommitsOf(c, k1),
         NEW d \in chains, NEW k2 \in 1..Len(d), d[k2].gen = v,
         NEW g \in PreVoteHeights(d[k2]), h <= g,
         d[k2].mhp < h
  PROVE  /\ h <= k1 /\ h <= k2 /\ \A i \in 1..h : c[i] = d[i]
<1> DEFINE from == Cut(c, k1 - 1)
           x == Cut(c, k1)
           y == Cut(d, k2)
           s == MinValidSearch(from, c[k1])
<1>1. ChainsOK /\ LedgersOK /\ HonestOK
  BY DEF NetworkInductive
<1>2. /\ c \in Seq(ForgedHeader) /\ Len(c) \in Nat /\ IsChain(c)
      /\ d \in Seq(ForgedHeader) /\ Len(d) \in Nat /\ IsChain(d)
  BY <1>1, ForgedChainIs
<1>3. k1 \in Nat /\ k2 \in Nat /\ k1 - 1 \in 0..Len(c) /\ k1 \in 0..Len(c) /\ k2 \in 0..Len(d)
  BY <1>2
<1>4. /\ from \in chains /\ x \in chains /\ y \in chains
      /\ from \in Seq(ForgedHeader) /\ Len(from) = k1 - 1 /\ IsChain(from)
      /\ \A j \in 1..(k1 - 1) : from[j] = c[j]
      /\ Len(x) = k1 /\ Len(y) = k2
      /\ \A j \in 1..k1 : x[j] = c[j]
      /\ \A j \in 1..k2 : y[j] = d[j]
  <2>1. from \in chains /\ x \in chains /\ y \in chains
    BY <1>1, <1>3 DEF ChainsOK
  <2>2. from \in Seq(ForgedHeader) /\ IsChain(from)
    BY <1>1, <2>1, ForgedChainIs
  <2>3. Len(from) = k1 - 1 /\ \A j \in 1..(k1 - 1) : from[j] = c[j]
    BY <1>2, <1>3, CutIs
  <2>4. /\ Len(x) = k1 /\ Len(y) = k2
        /\ \A j \in 1..k1 : x[j] = c[j]
        /\ \A j \in 1..k2 : y[j] = d[j]
    BY <1>2, <1>3, CutIs
  <2> QED BY <2>1, <2>2, <2>3, <2>4
<1> HIDE DEF from, x, y
<1>5. x \in OwnChains(v) /\ y \in OwnChains(v) /\ Last(x) = c[k1] /\ Last(y) = d[k2]
  <2>1. x # <<>> /\ y # <<>>
    BY <1>3, <1>4
  <2>2. Last(x) = c[k1] /\ Last(y) = d[k2]
    BY <1>3, <1>4 DEF Last
  <2> QED BY <1>4, <2>1, <2>2 DEF OwnChains
<1>6. /\ c[k1] \in ForgedHeader /\ d[k2] \in ForgedHeader /\ IsHeader(c[k1]) /\ IsHeader(d[k2])
      /\ c[k1].height = k1 /\ d[k2].height = k2
      /\ c[k1].mhpf \in Nat /\ d[k2].mhpf \in Nat /\ c[k1].mhp \in Nat /\ d[k2].mhp \in Nat
  BY <1>1, <1>2, ForgedChainIs DEF IsChain, IsHeader
<1>7. IsLedger(ledgers[from], Len(from)) /\ IsNextHeader(from, c[k1])
  BY <1>1, <1>2, <1>3, <1>4, <1>6, SMTT(30) DEF LedgersOK, IsNextHeader, IsChain
<1>8. /\ h \in Prevoted(ledgers[from]) /\ h < k1
      /\ k1 - ProcessingThreshold <= h
      /\ s[c[k1].mhpf] <= h /\ h \in Int
  <2>1. h \in PreCommitHeights(from, ledgers[from], c[k1])
    BY DEF PrecommitsOf, from
  <2>2. /\ h \in DOMAIN ledgers[from].votes /\ ledgers[from].votes[h].prevotes >= Threshold
        /\ c[k1].height - ProcessingThreshold <= h
        /\ s[c[k1].mhpf] <= h /\ h < c[k1].height
    BY <1>4, <1>7, <2>1, PreCommitHeightsAre
  <2>3. h \in Int
    BY <1>7, <2>2 DEF IsLedger
  <2> QED BY <1>6, <2>2, <2>3 DEF Prevoted
<1>9. c[k1].mhp >= h
  <2>1. Cut(x, Len(x) - 1) = from
    <3>1. k1 - 1 \in 0..k1
      BY <1>3
    <3>2. Cut(x, k1 - 1) = Cut(c, k1 - 1)
      BY <1>2, <1>3, <3>1, CutIs DEF x
    <3> QED BY <1>4, <3>2 DEF from
  <2>2. c[k1].mhp = ExpectedMhp(from, ledgers[from])
    <3>1. x \in chains /\ x # <<>>
      BY <1>5 DEF OwnChains
    <3>2. Grown(x, from)
      BY <1>1, <2>1, <3>1 DEF LedgersOK
    <3>3. Last(x).mhp = ExpectedMhp(from, ledgers[from])
      BY <3>2, Zenon DEF Grown
    <3> QED BY <1>5, <3>3
  <2>3. h <= ExpectedMhp(from, ledgers[from]) /\ ExpectedMhp(from, ledgers[from]) \in Nat
    BY <1>1, <1>4, <1>8, ExpectedIs
  <2> QED BY <1>8, <2>2, <2>3
<1>10. k2 <= c[k1].mhpf /\ c[k1].mhpf < k1
  <2>1. x = y \/ Before(x, y) \/ Before(y, x)
    BY <1>1, <1>5 DEF HonestOK
  <2>2. ~(c[k1].mhp <= d[k2].mhp)
    BY <1>6, <1>8, <1>9
  <2>3. Last(x).mhp \in Nat /\ Last(y).mhp \in Nat /\ ~(Last(x).mhp <= Last(y).mhp)
    BY <1>5, <1>6, <2>2
  <2>4. x # y
    BY <2>3
  <2>5. ~Before(x, y)
    BY <2>3, Zenon DEF Before
  <2>6. Before(y, x)
    BY <2>1, <2>4, <2>5, Zenon
  <2> QED BY <1>4, <1>5, <1>6, <2>6 DEF Before, CanVote
<1>11. g \in Int /\ d[k2].mhpf < g /\ g <= k2 /\ h <= k2
  <2>1. g \in Int /\ d[k2].mhpf < g /\ g <= k2
    BY <1>2, <1>6, PreVoteHeightsAre DEF IsChain
  <2> QED BY <1>3, <1>8, <2>1
<1> DEFINE within == {z \in 0..(k1 - 1) : k2 <= z /\ s[z] <= h}
<1>12. PICK z \in within : \A w \in within : z <= w
  <2>1. within \in SUBSET Nat
    BY <1>3
  <2>2. c[k1].mhpf \in within
    BY <1>3, <1>6, <1>8, <1>10
  <2> HIDE DEF within
  <2> QED BY <2>1, <2>2, LeastNatural
<1>13. z \in Nat /\ z < k1 /\ k2 <= z /\ s[z] <= h
  BY <1>3
<1>14. \A w \in 0..(k1 - 1) : k2 <= w /\ s[w] <= h => z <= w
  BY <1>12
<1> HIDE DEF within
<1>15. s[z] = SearchStep(from, c[k1], s, z)
  <2>1. z \in 0..Len(from)
    BY <1>3, <1>4, <1>13
  <2> QED BY <1>4, <1>6, <2>1, SearchIs
<1> HIDE DEF s
<1>16. /\ SearchTill(c[k1]) \in Nat /\ SearchTill(c[k1]) >= 1
       /\ SearchTill(c[k1]) >= k1 - ProcessingThreshold
  <2>1. ProcessingThreshold \in Int
    BY Bounds
  <2> QED BY <1>3, <1>6, <2>1, SearchTillIs
<1>17. ~(z < SearchTill(c[k1]))
  BY <1>3, <1>8, <1>11, <1>13, <1>15, <1>16 DEF SearchStep
<1>18. /\ z \in DOMAIN LastBlockHeaders(from)
       /\ LastBlockHeaders(from)[z] = c[z] /\ z \in 1..(k1 - 1)
  <2>1. z \in 1..(k1 - 1) /\ k1 - 1 - 3 * NumberOfValidators <= z
    BY <1>3, <1>13, <1>16, <1>17, Bounds, SMTT(30)
  <2>2. z \in DOMAIN LastBlockHeaders(from) /\ LastBlockHeaders(from)[z] = from[z]
    BY <1>3, <1>4, <2>1, WindowIs, SMTT(30)
  <2> QED BY <1>4, <2>1, <2>2
<1>19. z \in 1..Len(c) /\ z \in 0..Len(c) /\ c[z].mhpf \in Nat
  BY <1>2, <1>3, <1>18 DEF IsChain, IsHeader
<1>20. c[z].gen = v /\ c[z].mhpf < z /\ s[z] = s[c[z].mhpf]
  <2>1. CASE c[z].gen # v \/ c[z].mhpf >= z
    <3>1. s[z] = z + 1
      BY <1>15, <1>17, <1>18, <2>1 DEF SearchStep
    <3> QED BY <1>3, <1>8, <1>11, <1>13, <3>1
  <2>2. CASE ~(c[z].gen # v \/ c[z].mhpf >= z)
    <3>1. s[z] = s[c[z].mhpf]
      BY <1>15, <1>17, <1>18, <2>2 DEF SearchStep
    <3> QED BY <1>13, <1>19, <2>2, <3>1
  <2> QED BY <2>1, <2>2
<1>21. c[z].mhpf < k2
  <2>1. c[z].mhpf \in 0..(k1 - 1) /\ ~(z <= c[z].mhpf)
    BY <1>3, <1>13, <1>19, <1>20
  <2>2. s[c[z].mhpf] <= h
    BY <1>13, <1>20
  <2> QED BY <1>3, <1>14, <1>19, <2>1, <2>2
<1>22. /\ Cut(c, z) \in OwnChains(v) /\ Len(Cut(c, z)) = z /\ Last(Cut(c, z)) = c[z]
       /\ \A i \in 1..z : Cut(c, z)[i] = c[i]
  <2>1. /\ Cut(c, z) \in chains /\ Len(Cut(c, z)) = z
        /\ \A i \in 1..z : Cut(c, z)[i] = c[i]
    BY <1>1, <1>2, <1>19, CutIs DEF ChainsOK
  <2>2. Last(Cut(c, z)) = c[z] /\ Cut(c, z) # <<>>
    BY <1>18, <2>1 DEF Last
  <2> QED BY <1>20, <2>1, <2>2 DEF OwnChains
<1>23. Cut(c, z) = y
  <2>1. Cut(c, z) = y \/ Before(Cut(c, z), y) \/ Before(y, Cut(c, z))
    BY <1>1, <1>5, <1>22 DEF HonestOK
  <2>2. ~Before(Cut(c, z), y)
    BY <1>3, <1>5, <1>6, <1>11, <1>13, <1>22 DEF Before
  <2>3. ~Before(y, Cut(c, z))
    BY <1>3, <1>4, <1>19, <1>21, <1>22 DEF Before
  <2> QED BY <2>1, <2>2, <2>3
<1>24. z = k2
  BY <1>4, <1>22, <1>23
<1> QED BY <1>3, <1>4, <1>8, <1>11, <1>22, <1>23, <1>24, SMTT(30)

\* A height prevoted on a chain for the first time makes a quorum of prevotes.
LEMMA FirstPrevoted ==
  ASSUME LedgerAssumption, FinalityAssumption, NetworkInductive,
         NEW d \in chains, NEW h \in Nat, h > 0, ExpectedMhp(d, ledgers[d]) >= h
  PROVE  \/ d # <<>> /\ ExpectedMhp(Cut(d, Len(d) - 1), ledgers[Cut(d, Len(d) - 1)]) >= h
         \/ /\ \A k \in 1..Len(d) : d[k].mhp < h
            /\ \E g \in 1..MaxChainLength :
                 /\ h <= g /\ Prevoters(d)[g] \subseteq Participant
                 /\ Cardinality(Prevoters(d)[g]) >= Threshold
<1>1. ChainsOK /\ LedgersOK /\ VotesCounted
  BY DEF NetworkInductive
<1>2. /\ Len(d) \in Nat /\ Len(d) <= MaxChainLength /\ MaxChainLength \in Nat
      /\ TipMhp(d) \in Nat /\ ExpectedMhp(d, ledgers[d]) \in Nat
      /\ IsLedger(ledgers[d], Len(d))
  BY <1>1, ForgedChainIs, ExpectedIs DEF ChainsOK, LedgersOK, FinalityAssumption
<1>3. CASE TipMhp(d) >= h
  <2>1. d # <<>>
    BY <1>3 DEF TipMhp
  <2>2. Grown(d, Cut(d, Len(d) - 1)) /\ TipMhp(d) = Last(d).mhp
    BY <1>1, <2>1, LastIs DEF LedgersOK
  <2> QED BY <1>3, <2>1, <2>2 DEF Grown
<1>4. CASE ~(TipMhp(d) >= h)
  <2>1. ASSUME NEW k \in 1..Len(d) PROVE d[k].mhp < h
    <3>1. d[k].mhp <= TipMhp(d) /\ d[k].mhp \in Nat
      BY <1>1, ForgedChainIs DEF LedgersOK, ForgedHeader
    <3> QED BY <1>2, <1>4, <3>1
  <2> DEFINE g == ExpectedMhp(d, ledgers[d])
  <2>2. g \in Prevoted(ledgers[d])
    <3>1. Prevoted(ledgers[d]) # {}
      BY <1>4 DEF ExpectedMhp, MaxHeightPrevoted
    <3> QED BY <1>2, <3>1, MaxHeightPrevotedIs DEF ExpectedMhp
  <2>3. /\ g \in DOMAIN ledgers[d].votes /\ ledgers[d].votes[g].prevotes >= Threshold
        /\ g \in 1..MaxChainLength
    <3>1. g \in DOMAIN ledgers[d].votes /\ ledgers[d].votes[g].prevotes >= Threshold
      BY <2>2 DEF Prevoted
    <3>2. g \in 1..Len(d)
      BY <1>2, <3>1 DEF IsLedger
    <3> QED BY <1>2, <3>1, <3>2
  <2> HIDE DEF g
  <2>4. DOMAIN Prevoters(d) = 1..MaxChainLength
    BY DEF Prevoters
  <2>5. /\ Prevoters(d)[g] \subseteq Participant
        /\ Cardinality(Prevoters(d)[g]) = ledgers[d].votes[g].prevotes
    BY <1>1, <2>3, <2>4 DEF VotesCounted, PrevotesCounted
  <2>6. h <= g
    BY DEF g
  <2> QED BY <2>1, <2>3, <2>5, <2>6
<1> QED BY <1>3, <1>4

\* What is finalized was precommitted by a quorum and prevoted by one.
LEMMA FinalizedIs ==
  ASSUME LedgerAssumption, FinalityAssumption, NetworkInductive,
         NEW c \in chains, FinalizedHeight(c) > 0
  PROVE  LET h == FinalizedHeight(c)
         IN  /\ h \in 1..MaxChainLength
             /\ Precommitters(c)[h] \subseteq Participant
             /\ Cardinality(Precommitters(c)[h]) >= Threshold
             /\ h <= ExpectedMhp(c, ledgers[c])
<1> DEFINE h == FinalizedHeight(c)
<1>1. ChainsOK /\ LedgersOK /\ VotesCounted
  BY DEF NetworkInductive
<1>2. /\ Len(c) \in Nat /\ Len(c) <= MaxChainLength /\ MaxChainLength \in Nat
      /\ IsLedger(ledgers[c], Len(c))
  BY <1>1, ForgedChainIs DEF ChainsOK, LedgersOK, FinalityAssumption
<1>3. h \in Precommitted(ledgers[c])
  <2>1. Precommitted(ledgers[c]) \subseteq 1..Len(c) /\ IsFiniteSet(Precommitted(ledgers[c]))
    BY <1>2, PrevotedIs
  <2>2. Precommitted(ledgers[c]) \subseteq Int
    BY <2>1
  <2>3. h = 0 \/ h \in Precommitted(ledgers[c])
    BY <2>1, <2>2, 0 \in Int, AtLeastIs DEF FinalizedHeight, HighestPrecommitted
  <2> QED BY <2>3
<1> HIDE DEF h
<1>4. /\ h \in DOMAIN ledgers[c].votes /\ ledgers[c].votes[h].precommits >= Threshold
      /\ h \in 1..MaxChainLength
  <2>1. h \in DOMAIN ledgers[c].votes /\ ledgers[c].votes[h].precommits >= Threshold
    BY <1>3 DEF Precommitted
  <2>2. h \in 1..Len(c)
    BY <1>2, <2>1 DEF IsLedger
  <2> QED BY <1>2, <2>1, <2>2
<1>5. DOMAIN Precommitters(c) = 1..MaxChainLength
  BY DEF Precommitters
<1>6. /\ Precommitters(c)[h] \subseteq Participant
      /\ Cardinality(Precommitters(c)[h]) = ledgers[c].votes[h].precommits
  BY <1>1, <1>4, <1>5 DEF VotesCounted, PrecommitsCounted
<1>7. h \in Prevoted(ledgers[c])
  <2>1. ledgers[c].votes[h].precommits # 0
    BY <1>2, <1>4, Bounds DEF IsLedger
  <2> QED BY <1>2, <1>4, <2>1 DEF IsLedger, Prevoted
<1>8. h <= ExpectedMhp(c, ledgers[c])
  BY <1>1, <1>7, ExpectedIs
<1> QED BY <1>4, <1>6, <1>8 DEF h

\* The first block that would make a height prevoted again on a chain without
\* the finalized block needs a quorum of prevotes, and the honest validator it
\* shares with the quorum of precommits cannot have given both.
LEMMA FinalizedBinds ==
  ASSUME LedgerAssumption, FinalityAssumption, QuorumAssumption, NetworkInductive, FewFaulty,
         NEW c \in chains, FinalizedHeight(c) > 0
  PROVE  \A d \in chains : ExpectedMhp(d, ledgers[d]) >= FinalizedHeight(c)
           => SharePrefix(c, d, FinalizedHeight(c))
<1>a. PICK h : h = FinalizedHeight(c)
  OBVIOUS
<1>1. ChainsOK /\ LedgersOK
  BY DEF NetworkInductive
<1>2. /\ h \in 1..MaxChainLength /\ h \in Nat /\ h > 0
      /\ Precommitters(c)[h] \subseteq Participant
      /\ Cardinality(Precommitters(c)[h]) >= Threshold
  BY <1>a, FinalizedIs
<1>3. Len(c) \in Nat
  BY <1>1, ForgedChainIs
<1> DEFINE Parts(d) == ExpectedMhp(d, ledgers[d]) >= h /\ ~SharePrefix(c, d, h)
           lengths == {n \in Nat : \E d \in chains : Parts(d) /\ n = Len(d)}
<1>4. SUFFICES ASSUME NEW e \in chains, Parts(e) PROVE FALSE
  BY <1>a
<1>5. PICK n \in lengths : \A m \in lengths : n <= m
  <2>1. Len(e) \in Nat
    BY <1>1, ForgedChainIs
  <2>2. lengths \in SUBSET Nat /\ Len(e) \in lengths
    BY <1>4, <2>1
  <2> HIDE DEF lengths
  <2> QED BY <2>2, LeastNatural
<1>6. PICK d \in chains : Parts(d) /\ n = Len(d)
  BY <1>5
<1>7. Len(d) \in Nat
  BY <1>1, ForgedChainIs
<1>8. ~ (d # <<>> /\ ExpectedMhp(Cut(d, Len(d) - 1), ledgers[Cut(d, Len(d) - 1)]) >= h)
  <2> SUFFICES ASSUME d # <<>>,
                      ExpectedMhp(Cut(d, Len(d) - 1), ledgers[Cut(d, Len(d) - 1)]) >= h
               PROVE  FALSE
    OBVIOUS
  <2>a. PICK p : p = Cut(d, Len(d) - 1)
    OBVIOUS
  <2>1. /\ p \in chains /\ d \in Seq(ForgedHeader) /\ Len(d) - 1 \in 0..Len(d)
        /\ Len(d) \in 1..Len(d)
    BY <1>1, <2>a, ForgedChainIs, LastIs
  <2>2. Len(p) = Len(d) - 1 /\ \A i \in 1..Len(p) : p[i] = d[i]
    <3>1. /\ Len(Cut(d, Len(d) - 1)) = Len(d) - 1
          /\ \A i \in 1..(Len(d) - 1) : Cut(d, Len(d) - 1)[i] = d[i]
      BY <2>1, CutIs
    <3> QED BY <2>a, <3>1
  <2>3. Len(p) \in Nat /\ ~(n <= Len(p))
    BY <1>6, <1>7, <2>1, <2>2
  <2>4. ~Parts(p)
    BY <1>5, <2>1, <2>3
  <2>5. SharePrefix(c, p, h)
    BY <2>a, <2>4
  <2>6. SharePrefix(c, d, h)
    BY <1>2, <1>7, <2>2, <2>3, <2>5 DEF SharePrefix
  <2> QED BY <1>6, <2>6
<1>9. /\ \A k \in 1..Len(d) : d[k].mhp < h
      /\ \E g \in 1..MaxChainLength :
           /\ h <= g /\ Prevoters(d)[g] \subseteq Participant
           /\ Cardinality(Prevoters(d)[g]) >= Threshold
  BY <1>2, <1>6, <1>8, FirstPrevoted
<1>10. PICK g \in 1..MaxChainLength :
         /\ h <= g /\ Prevoters(d)[g] \subseteq Participant
         /\ Cardinality(Prevoters(d)[g]) >= Threshold
  BY <1>9
<1>11. PICK v \in Validator \ faulty : v \in Precommitters(c)[h] /\ v \in Prevoters(d)[g]
  BY <1>1, <1>2, <1>10, QuorumsMeet
<1>12. PICK k1 \in 1..Len(c) : c[k1].gen = v /\ CanVote(c[k1]) /\ h \in PrecommitsOf(c, k1)
  BY <1>2, <1>11 DEF Precommitters
<1>13. PICK k2 \in 1..Len(d) : d[k2].gen = v /\ g \in PreVoteHeights(d[k2])
  BY <1>10, <1>11 DEF Prevoters
<1>14. h <= k1 /\ h <= k2 /\ \A i \in 1..h : c[i] = d[i]
  BY <1>9, <1>10, <1>12, <1>13, PrecommitBinds
<1>15. SharePrefix(c, d, h)
  BY <1>2, <1>3, <1>7, <1>14 DEF SharePrefix
<1> QED BY <1>6, <1>15

\* With less than a third of the validators faulty, and a threshold that makes
\* quorums meet: no two chains finalize different blocks, and a chain without a
\* finalized block is never as high in maxHeightPrevoted, whatever the faulty
\* ones forge and whichever blocks a validator has not seen
\* (updateFinalizedHeight, getMinValidHeightToPreCommit).
THEOREM FinalityIsSafe ==
  ASSUME LedgerAssumption, FinalityAssumption, QuorumAssumption
  PROVE  NetworkSpec => []FinalitySafe
<1>1. NetworkInductive => FinalitySafe
  <2> SUFFICES ASSUME NetworkInductive, FewFaulty,
                      NEW c \in chains, NEW d \in chains, FinalizedHeight(c) > 0
               PROVE  /\ FinalizedHeight(d) >= FinalizedHeight(c)
                           => SharePrefix(c, d, FinalizedHeight(c))
                      /\ ExpectedMhp(d, ledgers[d]) >= FinalizedHeight(c)
                           => SharePrefix(c, d, FinalizedHeight(c))
    BY DEF FinalitySafe, Agreement, FinalizedNeverOutvoted
  <2>1. ExpectedMhp(d, ledgers[d]) >= FinalizedHeight(c)
          => SharePrefix(c, d, FinalizedHeight(c))
    BY FinalizedBinds
  <2>2. ASSUME FinalizedHeight(d) >= FinalizedHeight(c)
        PROVE  ExpectedMhp(d, ledgers[d]) >= FinalizedHeight(c)
    <3>1. FinalizedHeight(c) \in Nat /\ FinalizedHeight(c) > 0
      BY FinalizedIs
    <3>2. ChainsOK /\ LedgersOK
      BY DEF NetworkInductive
    <3>3. ExpectedMhp(d, ledgers[d]) \in Nat
      BY <3>2, ExpectedIs
    <3>4. FinalizedHeight(d) \in Int
      <4>1. IsLedger(ledgers[d], Len(d)) /\ Len(d) \in Nat
        BY <3>2, ForgedChainIs DEF LedgersOK
      <4>2. Precommitted(ledgers[d]) \subseteq 1..Len(d) /\ IsFiniteSet(Precommitted(ledgers[d]))
        BY <4>1, PrevotedIs
      <4>3. Precommitted(ledgers[d]) \subseteq Int
        BY <4>2
      <4> QED BY <4>2, <4>3, 0 \in Int, AtLeastIs DEF FinalizedHeight, HighestPrecommitted
    <3>5. FinalizedHeight(d) > 0
      BY <2>2, <3>1, <3>4
    <3>6. FinalizedHeight(d) <= ExpectedMhp(d, ledgers[d])
      BY <3>5, FinalizedIs
    <3> QED BY <2>2, <3>1, <3>3, <3>4, <3>6
  <2> QED BY <2>1, <2>2
<1>2. NetworkSpec => []NetworkInductive
  BY NetworkInvariance
<1> QED BY <1>1, <1>2, PTL

-----------------------------------------------------------------------------
(* The tip.                                                                *)

\* Slots are whole numbers, negative before the genesis block.
LEMMA SlotIsInt ==
  ASSUME NEW time \in Int
  PROVE  SlotNumber(time) \in Int
BY TimeAssumption DEF SlotNumber

\* Rank is a lexicographic order, hence transitive.
LEMMA OutranksTransitive ==
  ASSUME NEW a \in Block, NEW b \in Block, NEW c \in Block,
         Outranks(a, b), Outranks(b, c)
  PROVE  Outranks(a, c)
<1>1. \A x \in {a, b, c} : /\ x.mhp \in Nat /\ x.height \in Nat
                           /\ SlotNumber(x.timestamp) \in Int
  BY SlotIsInt, AdoptionAssumption
<1>. QED  BY <1>1 DEF Outranks

\* No header outranks itself.
LEMMA OutranksIrreflexive ==
  ASSUME NEW a \in Block
  PROVE  ~Outranks(a, a)
BY SlotIsInt, AdoptionAssumption DEF Outranks

\* Whatever replaces the tip outranks it, and whatever extends it too.
LEMMA ReplacementOutranks ==
  ASSUME NEW last \in Block, NEW block \in Block, NEW at, NEW now,
         ForkStatus(last, at, block, now) \in {"TIE_BREAK", "DIFFERENT_CHAIN"}
  PROVE  Outranks(block, last)
<1>1. \/ IsTieBreak(last, at, block, TimeSinceGenesis(now))
      \/ IsDifferentChain(last, block)
  BY DEF ForkStatus
<1>2. /\ \A x \in {last, block} : x.mhp \in Nat /\ x.height \in Nat
      /\ \A x \in {last, block} : SlotNumber(x.timestamp) \in Int
  BY SlotIsInt, AdoptionAssumption
<1>3. CASE IsTieBreak(last, at, block, TimeSinceGenesis(now))
  BY <1>2, <1>3 DEF IsTieBreak, IsDuplicateBlock, Outranks
<1>4. CASE IsDifferentChain(last, block)
  BY <1>2, <1>4 DEF IsDifferentChain, Outranks
<1>. QED  BY <1>1, <1>3, <1>4

LEMMA ExtensionOutranks ==
  ASSUME NEW last \in Block, NEW block \in Block, NEW at, NEW now,
         ForkStatus(last, at, block, now) = "VALID_BLOCK",
         block.mhp >= last.mhp
  PROVE  Outranks(block, last)
<1>1. block.height = last.height + 1
  BY DEF ForkStatus, IsValidBlock
<1>. QED  BY <1>1, AdoptionAssumption DEF Outranks

-----------------------------------------------------------------------------
\* The part of TypeOK the proofs need: headers stay headers of the model.
HeadersOK ==
  /\ tip \in Block
  /\ dropped \subseteq Block

\* Every header that was ever replaced is outranked by the tip.
DroppedOutranked == \A old \in dropped : Outranks(tip, old)

TipInductive == HeadersOK /\ DroppedOutranked

LEMMA StepRaisesRank ==
  ASSUME HeadersOK, [TipNext]_tipVars
  PROVE  /\ HeadersOK'
         /\ \/ tip' = tip /\ dropped' = dropped
            \/ Outranks(tip', tip) /\ dropped' \subseteq dropped \cup {tip}
<1>1. CASE Tick
  BY <1>1 DEF Tick, HeadersOK
<1>2. ASSUME NEW block \in Block, Extend(block)
      PROVE  HeadersOK' /\ Outranks(tip', tip) /\ dropped' = dropped
  BY <1>2, ExtensionOutranks DEF Extend, AdoptReceived, HeadersOK
<1>3. ASSUME NEW block \in Block, ReplaceTip(block)
      PROVE  HeadersOK' /\ Outranks(tip', tip) /\ dropped' = dropped \cup {tip}
  BY <1>3, ReplacementOutranks DEF ReplaceTip, AdoptReceived, HeadersOK
<1>4. ASSUME NEW block \in Block, MoveToChainOf(block)
      PROVE  HeadersOK' /\ Outranks(tip', tip) /\ dropped' = dropped \cup {tip}
  BY <1>4, ReplacementOutranks DEF MoveToChainOf, HeadersOK
<1>5. CASE UNCHANGED tipVars
  BY <1>5 DEF tipVars, HeadersOK
<1>. QED  BY <1>1, <1>2, <1>3, <1>4, <1>5 DEF TipNext

\* A replaced tip never comes back (forkChoice): the rank of the tip grows
\* with every replacement, so no header in dropped can be the tip again.
THEOREM TipNeverReadopted == TipSpec => []NeverReadopted
<1>1. TipInit => TipInductive
  BY AdoptionAssumption DEF TipInit, TipInductive, HeadersOK, DroppedOutranked
<1>2. TipInductive /\ [TipNext]_tipVars => TipInductive'
  <2> SUFFICES ASSUME TipInductive, [TipNext]_tipVars
               PROVE  TipInductive'
    OBVIOUS
  <2>1. HeadersOK'
    BY StepRaisesRank DEF TipInductive
  <2>2. DroppedOutranked'
    <3>1. CASE tip' = tip /\ dropped' = dropped
      BY <3>1 DEF TipInductive, DroppedOutranked, Outranks
    <3>2. CASE Outranks(tip', tip) /\ dropped' \subseteq dropped \cup {tip}
      <4> SUFFICES ASSUME NEW old \in dropped'
                   PROVE  Outranks(tip', old)
        BY DEF DroppedOutranked, Outranks
      <4>1. CASE old = tip
        BY <4>1, <3>2
      <4>2. CASE old \in dropped
        BY <4>2, <3>2, <2>1, OutranksTransitive
           DEF TipInductive, HeadersOK, DroppedOutranked
      <4>. QED  BY <4>1, <4>2, <3>2
    <3>. QED  BY <3>1, <3>2, StepRaisesRank DEF TipInductive
  <2>. QED  BY <2>1, <2>2 DEF TipInductive
<1>3. TipInductive => NeverReadopted
  BY OutranksIrreflexive DEF TipInductive, HeadersOK, DroppedOutranked, NeverReadopted
<1>. QED  BY <1>1, <1>2, <1>3, PTL DEF TipSpec

\* Whenever the tip changes it moves up in rank (forkChoice).
THEOREM TipRankGrows == TipSpec => AdoptionRaisesRank
<1>1. TipInit => HeadersOK
  BY AdoptionAssumption DEF TipInit, HeadersOK
<1>2. HeadersOK /\ [TipNext]_tipVars => HeadersOK'
  BY StepRaisesRank
<1>3. HeadersOK /\ [TipNext]_tipVars => [tip' # tip => Outranks(tip', tip)]_tipVars
  BY StepRaisesRank
<1>. QED  BY <1>1, <1>2, <1>3, PTL DEF TipSpec, AdoptionRaisesRank

-----------------------------------------------------------------------------
(* The votes of a chain: the inductive invariant.                          *)

Header ==
  [id : Nat, height : Nat, gen : Validator, mhpf : Nat, mhp : Nat]

ChainOK ==
  /\ chain \in Seq(Header) /\ Len(chain) <= MaxHeight
  /\ \A k \in 1..Len(chain) : chain[k].height = k /\ chain[k].id = k
  /\ MhpNeverFalls => \A k \in 1..Len(chain) : chain[k].mhp <= TipMhp(chain)

\* The histories are those of the headers.
VotersOK ==
  /\ DOMAIN prevoters = Heights /\ DOMAIN precommitters = Heights
  /\ \A h \in Heights :
       prevoters[h] =
         {chain[k].gen : k \in {j \in 1..Len(chain) :
                                  CanVote(chain[j]) /\ h \in PreVoteHeights(chain[j])}}

CountsOK ==
  /\ IsLedger(ledger, Len(chain))
  /\ MhpNeverFalls => PrevotesCounted(ledger, prevoters, Len(chain))
  /\ PrecommitsCounted(ledger, precommitters, Len(chain))

FinalizedOK ==
  \/ finalizedHeight = 0
  \/ /\ finalizedHeight \in Heights
     /\ Cardinality(precommitters[finalizedHeight]) >= Threshold

Inductive ==
  ChainOK /\ VotersOK /\ CountsOK /\ PrecommitsFollowPrevotes /\ FinalizedOK

-----------------------------------------------------------------------------
(* The walk of getMinValidHeightToPreCommit.                               *)

\* A height that a header precommits is one that it prevotes, or that an earlier
\* header of its generator on this chain prevoted: the walk goes down through the
\* generator's headers, and the one on which it passes the height prevoted it.
LEMMA PrecommitWasPrevoted ==
  ASSUME LedgerAssumption, NEW c, IsChain(c),
         NEW header, IsNextHeader(c, header), CanVote(header),
         NEW l, IsLedger(l, Len(c)),
         NEW h \in PreCommitHeights(c, l, header)
  PROVE  \/ h \in PreVoteHeights(header)
         \/ \E k \in 1..Len(c) : /\ c[k].gen = header.gen
                                 /\ CanVote(c[k]) /\ h \in PreVoteHeights(c[k])
<1> DEFINE s == MinValidSearch(c, header)
<1>1. /\ header.height - ProcessingThreshold <= h /\ ActiveFrom[header.gen] <= h
      /\ s[header.mhpf] <= h /\ h < header.height
      /\ h \in DOMAIN l.votes
  BY PreCommitHeightsAre
<1>2. /\ Len(c) \in Nat /\ header.height = Len(c) + 1 /\ IsHeader(header)
      /\ header.mhpf \in Nat /\ header.mhpf < header.height
      /\ header.gen \in Validator /\ header.gen \in Participant
      /\ NumberOfValidators \in Nat /\ ProcessingThreshold = 3 * NumberOfValidators - 1
  BY Bounds DEF IsChain, IsNextHeader, IsHeader, CanVote
<1>3. h \in Int
  BY <1>1, <1>2 DEF IsLedger
<1>4. CASE header.mhpf < h
  BY <1>1, <1>2, <1>3, <1>4, PreVoteHeightsAre
<1>5. CASE ~(header.mhpf < h)
  <2> DEFINE within == {z \in 0..Len(c) : h <= z /\ s[z] <= h}
  <2>1. PICK z \in within : \A w \in within : z <= w
    <3>1. within \in SUBSET Nat /\ header.mhpf \in within
      BY <1>1, <1>2, <1>3, <1>5
    <3> HIDE DEF within
    <3> QED BY <3>1, LeastNatural
  <2>2. z \in 0..Len(c) /\ h <= z /\ s[z] <= h
    OBVIOUS
  <2>3. \A w \in 0..Len(c) : h <= w /\ s[w] <= h => z <= w
    BY <2>1
  <2> HIDE DEF within
  <2>4. s[z] = SearchStep(c, header, s, z)
    BY <1>2, <2>2, SearchIs
  <2> HIDE DEF s
  <2>5. /\ SearchTill(header) \in Nat /\ SearchTill(header) >= 1
        /\ SearchTill(header) >= header.height - ProcessingThreshold
    BY <1>2, SearchTillIs
  <2>6. ~(z < SearchTill(header))
    BY <1>2, <1>3, <2>2, <2>4, <2>5 DEF SearchStep
  <2>7. z \in 1..Len(c) /\ Len(c) - 3 * NumberOfValidators <= z
    BY <1>2, <2>2, <2>5, <2>6
  <2>8. z \in DOMAIN LastBlockHeaders(c) /\ LastBlockHeaders(c)[z] = c[z]
    BY <1>2, <2>7, WindowIs
  <2>9. IsHeader(c[z]) /\ c[z].height = z /\ c[z].mhpf \in Nat /\ z \in Nat
    BY <1>2, <2>7 DEF IsChain, IsHeader
  <2>10. c[z].gen = header.gen /\ c[z].mhpf < z /\ s[z] = s[c[z].mhpf]
    <3>1. CASE c[z].gen # header.gen \/ c[z].mhpf >= z
      <4>1. s[z] = z + 1
        BY <2>4, <2>6, <2>8, <3>1 DEF SearchStep
      <4> QED BY <1>3, <2>2, <2>9, <4>1
    <3>2. CASE ~(c[z].gen # header.gen \/ c[z].mhpf >= z)
      <4>1. s[z] = s[c[z].mhpf]
        BY <2>4, <2>6, <2>8, <3>2 DEF SearchStep
      <4> QED BY <2>9, <3>2, <4>1
    <3> QED BY <3>1, <3>2
  <2>11. c[z].mhpf < h
    <3>1. c[z].mhpf \in 0..Len(c) /\ ~(z <= c[z].mhpf)
      BY <1>2, <2>7, <2>9, <2>10
    <3> QED BY <1>3, <2>2, <2>3, <2>9, <2>10, <3>1
  <2>12. CanVote(c[z])
    BY <1>2, <2>9, <2>10 DEF CanVote
  <2>13. h \in PreVoteHeights(c[z])
    BY <1>1, <1>2, <1>3, <2>2, <2>7, <2>9, <2>10, <2>11, PreVoteHeightsAre
  <2> QED BY <2>7, <2>10, <2>12, <2>13
<1> QED BY <1>4, <1>5

-----------------------------------------------------------------------------
(* One more header.                                                        *)

\* The chain as the lemmas about the ledger know it.
LEMMA ChainIs ==
  ASSUME LedgerAssumption, ChainOK
  PROVE  /\ Len(chain) \in Nat /\ IsChain(chain)
         /\ \A k \in 1..Len(chain) : chain[k] \in Header
<1>1. chain \in Seq(Header) /\ Len(chain) \in Nat
  BY DEF ChainOK
<1>2. \A k \in 1..Len(chain) : chain[k] \in Header
  BY <1>1, ElementOfSeq
<1> QED BY <1>1, <1>2 DEF ChainOK, IsChain, IsHeader, Header

\* The chain after addBlockHeader.
Longer(header) ==
  /\ chain' \in Seq(Header) /\ Len(chain') = Len(chain) + 1
  /\ \A k \in 1..Len(chain) : chain'[k] = chain[k]
  /\ chain'[Len(chain) + 1] = header

\* Headers on the chain are not changed by later ones, and as long as their
\* maxHeightPrevoted does not fall the tip's is the greatest.
LEMMA ChainGrows ==
  ASSUME LedgerAssumption, VotingAssumption, ChainOK, Len(chain) < MaxHeight,
         NEW header \in Header,
         header.height = Len(chain) + 1, header.id = Len(chain) + 1,
         chain' = Append(chain, header)
  PROVE  /\ ChainOK' /\ Longer(header)
         /\ MhpNeverFalls' => /\ MhpNeverFalls
                              /\ \A k \in 1..Len(chain) : chain[k].mhp <= header.mhp
<1>1. chain \in Seq(Header) /\ Len(chain) \in Nat /\ MaxHeight \in Nat
  BY DEF ChainOK, VotingAssumption
<1>2. Longer(header)
  BY <1>1, AppendProperties DEF Longer
<1>3. ASSUME MhpNeverFalls'
      PROVE  /\ MhpNeverFalls
             /\ \A k \in 1..Len(chain) : chain[k].mhp <= header.mhp
  <2>1. MhpNeverFalls
    BY <1>1, <1>2, <1>3 DEF MhpNeverFalls, Longer
  <2>2. ASSUME NEW k \in 1..Len(chain) PROVE chain[k].mhp <= header.mhp
    <3>1. chain[k].mhp <= TipMhp(chain) /\ chain # <<>>
      BY <1>1, <2>1, EmptySeq DEF ChainOK
    <3>2. TipMhp(chain) = chain[Len(chain)].mhp /\ Len(chain) \in 1..Len(chain)
      BY <1>1, <3>1 DEF TipMhp
    <3>3. chain[Len(chain)].mhp <= header.mhp
      <4>1. Len(chain) + 1 \in 2..Len(chain')
        BY <1>1, <1>2, <3>2 DEF Longer
      <4>2. chain'[Len(chain) + 1].mhp >= chain'[Len(chain) + 1 - 1].mhp
        BY <1>3, <4>1 DEF MhpNeverFalls
      <4>3. Len(chain) + 1 - 1 = Len(chain)
        BY <1>1
      <4>4. chain'[Len(chain)] = chain[Len(chain)] /\ chain'[Len(chain) + 1] = header
        BY <1>2, <3>2 DEF Longer
      <4> QED BY <1>1, <3>2, <4>2, <4>3, <4>4
    <3>4. chain[k].mhp \in Nat /\ chain[Len(chain)].mhp \in Nat /\ header.mhp \in Nat
      BY <3>2, ChainIs DEF Header
    <3> QED BY <3>1, <3>2, <3>3, <3>4
  <2> QED BY <2>1, <2>2
<1>4. ChainOK'
  <2>1. chain' \in Seq(Header) /\ Len(chain') <= MaxHeight
    BY <1>1, <1>2 DEF Longer
  <2>2. \A k \in 1..Len(chain') : chain'[k].height = k /\ chain'[k].id = k
    BY <1>1, <1>2 DEF Longer, ChainOK
  <2>3. ASSUME MhpNeverFalls'
        PROVE  \A k \in 1..Len(chain') : chain'[k].mhp <= TipMhp(chain')
    <3>1. TipMhp(chain') = header.mhp /\ header.mhp \in Nat
      <4>1. chain' # <<>>
        BY <1>1, <1>2 DEF Longer
      <4> QED BY <1>2, <4>1 DEF TipMhp, Longer, Header
    <3> QED BY <1>1, <1>2, <1>3, <2>3, <3>1 DEF Longer
  <2> QED BY <2>1, <2>2, <2>3 DEF ChainOK
<1> QED BY <1>2, <1>3, <1>4

\* The history of prevotes is that of the headers on the longer chain too.
LEMMA VotersGrow ==
  ASSUME LedgerAssumption, VotingAssumption, ChainOK, VotersOK,
         NEW header \in Header, Longer(header), AddBlockHeader(header)
  PROVE  VotersOK'
<1>1. Len(chain) \in Nat
  BY ChainIs
<1>2. 1..Len(chain') = 1..Len(chain) \cup {Len(chain) + 1}
  BY <1>1 DEF Longer
<1>3. /\ \A k \in 1..Len(chain) : chain'[k] = chain[k]
      /\ chain'[Len(chain) + 1] = header
  BY DEF Longer
<1>4. DOMAIN prevoters' = Heights /\ DOMAIN precommitters' = Heights
  BY DEF AddBlockHeader, Voted
<1>5. ASSUME NEW h \in Heights
      PROVE  prevoters'[h] =
               {chain'[k].gen : k \in {j \in 1..Len(chain') :
                                  CanVote(chain'[j]) /\ h \in PreVoteHeights(chain'[j])}}
  <2> DEFINE old == {j \in 1..Len(chain) : CanVote(chain[j]) /\ h \in PreVoteHeights(chain[j])}
             new == {j \in 1..Len(chain') : CanVote(chain'[j]) /\ h \in PreVoteHeights(chain'[j])}
  <2>1. new = IF CanVote(header) /\ h \in PreVoteHeights(header)
                THEN old \cup {Len(chain) + 1} ELSE old
    BY <1>1, <1>2, <1>3
  <2>2. \A k \in old : chain'[k] = chain[k]
    BY <1>3
  <2>3. prevoters[h] = {chain[k].gen : k \in old}
    BY DEF VotersOK
  <2>4. prevoters'[h] = IF CanVote(header) /\ h \in PreVoteHeights(header)
                          THEN prevoters[h] \cup {header.gen} ELSE prevoters[h]
    BY DEF AddBlockHeader, Voted
  <2> HIDE DEF old, new
  <2>5. /\ {chain'[k].gen : k \in old} = {chain[k].gen : k \in old}
        /\ {chain'[k].gen : k \in old \cup {Len(chain) + 1}}
             = {chain[k].gen : k \in old} \cup {header.gen}
    BY <1>3, <2>2
  <2>6. prevoters'[h] = {chain'[k].gen : k \in new}
    BY <2>1, <2>3, <2>4, <2>5
  <2> QED BY <2>6 DEF new
<1> QED BY <1>4, <1>5 DEF VotersOK

\* addBlockHeader, as the lemmas about the ledger see it.
LEMMA HeaderAdded ==
  ASSUME LedgerAssumption, VotingAssumption, ChainOK, CountsOK,
         NEW header \in Header, AddBlockHeader(header), Longer(header),
         header.height = Len(chain) + 1
  PROVE  /\ IsNextHeader(chain, header) /\ IsHeader(header)
         /\ IsLedger(ledger', Len(chain'))
         /\ ~CanVote(header) => ledger' = ledger
         /\ ledger' = UpdatePrevotesPrecommits(chain, ledger, header)
         /\ ~ContradictsChain(chain, header)
         /\ \A h \in Heights :
              /\ prevoters'[h] = WithVote(prevoters, header, PreVoteHeights(header), h)
              /\ precommitters'[h] = WithVote(precommitters, header,
                                       PreCommitHeights(chain, ledger, header), h)
<1>1. IsNextHeader(chain, header) /\ IsHeader(header)
  BY DEF IsNextHeader, IsHeader, Header
<1>2. /\ ledger' = UpdatePrevotesPrecommits(chain, ledger, header)
      /\ ~ContradictsChain(chain, header)
  BY DEF AddBlockHeader, VerifyBlockHeaders
<1>3. ~CanVote(header) => ledger' = ledger
  BY <1>2 DEF UpdatePrevotesPrecommits
<1>4. IsLedger(ledger', Len(chain'))
  <2>1. IsLedger(ledger, Len(chain)) /\ IsChain(chain) /\ Len(chain) \in Nat
    BY ChainIs DEF CountsOK
  <2>2. CASE CanVote(header)
    <3>1. IsLedger(ledger', header.height)
      BY <1>1, <1>2, <2>1, <2>2, AddVotesIs
    <3> QED BY <3>1 DEF Longer
  <2>3. CASE ~CanVote(header)
    BY <1>3, <2>1, <2>3, LedgerGrows DEF Longer
  <2> QED BY <2>2, <2>3
<1>5. \A h \in Heights :
        /\ prevoters'[h] = WithVote(prevoters, header, PreVoteHeights(header), h)
        /\ precommitters'[h] = WithVote(precommitters, header,
                                 PreCommitHeights(chain, ledger, header), h)
  BY DEF AddBlockHeader, Voted, WithVote
<1> QED BY <1>1, <1>2, <1>3, <1>4, <1>5

\* Counts stay counts of different validators: of precommits always, of prevotes
\* where maxHeightPrevoted has not fallen.
LEMMA CountsKept ==
  ASSUME LedgerAssumption, VotingAssumption, ChainOK, VotersOK, CountsOK,
         NEW header \in Header, AddBlockHeader(header), Longer(header),
         header.height = Len(chain) + 1, header.id = Len(chain) + 1,
         MhpNeverFalls' => /\ MhpNeverFalls
                           /\ \A k \in 1..Len(chain) : chain[k].mhp <= header.mhp
  PROVE  CountsOK'
<1>a. PICK next : next = ledger'
  OBVIOUS
<1>b. PICK after : after = prevoters'
  OBVIOUS
<1>c. PICK afterCommit : afterCommit = precommitters'
  OBVIOUS
<1>1. /\ IsNextHeader(chain, header) /\ IsHeader(header)
      /\ IsLedger(next, Len(chain'))
      /\ ~CanVote(header) => next = ledger
      /\ next = UpdatePrevotesPrecommits(chain, ledger, header)
      /\ ~ContradictsChain(chain, header)
  BY <1>a, HeaderAdded
<1>2. /\ \A h \in Heights : after[h] = WithVote(prevoters, header, PreVoteHeights(header), h)
      /\ \A h \in Heights :
           afterCommit[h] = WithVote(precommitters, header,
                              PreCommitHeights(chain, ledger, header), h)
  BY <1>b, <1>c, HeaderAdded
<1>3. /\ DOMAIN prevoters = Heights /\ DOMAIN precommitters = Heights
      /\ DOMAIN after = DOMAIN prevoters /\ DOMAIN afterCommit = DOMAIN precommitters
      /\ Heights \subseteq Nat
  BY <1>b, <1>c DEF VotersOK, AddBlockHeader, Voted, Heights
<1>4. /\ IsLedger(ledger, Len(chain)) /\ PrecommitsCounted(ledger, precommitters, Len(chain))
      /\ IsChain(chain) /\ Len(chain) \in Nat /\ Len(chain') = header.height
      /\ header.height = Len(chain) + 1 /\ MaxHeaders \in Nat
  BY ChainIs, Bounds DEF CountsOK, Longer
<1>5. PrecommitsCounted(next, afterCommit, header.height)
  <2>1. CASE CanVote(header)
    <3>1. \A h \in DOMAIN precommitters :
            afterCommit[h] = IF h \in PreCommitHeights(chain, ledger, header)
                               THEN precommitters[h] \cup {header.gen}
                               ELSE precommitters[h]
      BY <1>2, <1>3, <2>1 DEF WithVote
    <3>2. DOMAIN precommitters \subseteq Nat
      BY <1>3
    <3> QED BY <1>1, <1>3, <1>4, <2>1, <3>1, <3>2, PrecommitsStayCounted, ZenonT(60)
  <2>2. CASE ~CanVote(header)
    <3>1. \A h \in Heights : afterCommit[h] = precommitters[h]
      BY <1>2, <2>2 DEF WithVote
    <3>2. next = ledger
      BY <1>1, <2>2
    <3> SUFFICES PrecommitsCounted(ledger, afterCommit, header.height)
      BY <3>2
    <3>3. \A h \in Heights : h \in Nat
      BY <1>3, Zenon
    <3>4. \A h \in Heights : h + MaxHeaders <= Len(chain) => h + MaxHeaders <= header.height
      BY <1>4, <3>3
    <3> QED BY <1>3, <1>4, <3>1, <3>4 DEF PrecommitsCounted
  <2> QED BY <2>1, <2>2
<1>6. ASSUME MhpNeverFalls' PROVE PrevotesCounted(next, after, header.height)
  <2>1. /\ PrevotesCounted(ledger, prevoters, Len(chain))
        /\ \A k \in 1..Len(chain) : chain[k].mhp <= header.mhp
    BY <1>6 DEF CountsOK
  <2>2. ASSUME NEW h \in Heights, h \in PreVoteHeights(header)
        PROVE  header.gen \notin prevoters[h]
    <3> SUFFICES ASSUME NEW k \in 1..Len(chain), chain[k].gen = header.gen,
                        h \in PreVoteHeights(chain[k])
                 PROVE  FALSE
      BY DEF VotersOK
    <3>1. \A j \in 1..Len(chain) : chain[j].id # header.id
      BY <1>4 DEF ChainOK
    <3>2. k < h
      BY <1>1, <1>4, <2>1, <2>2, <3>1, NewVotesAboveOld
    <3>3. IsHeader(chain[k]) /\ chain[k].gen \in Validator /\ chain[k].height = k
      BY <1>4 DEF IsChain
    <3>4. h <= k /\ h \in Int
      BY <3>3, PreVoteHeightsAre
    <3> QED BY <1>4, <3>2, <3>4
  <2>3. CASE CanVote(header)
    BY <1>1, <1>2, <1>3, <1>4, <2>1, <2>2, <2>3, PrevotesStayCounted DEF WithVote
  <2>4. CASE ~CanVote(header)
    <3>1. \A h \in Heights : after[h] = prevoters[h]
      BY <1>2, <2>4 DEF WithVote
    <3>2. next = ledger
      BY <1>1, <2>4
    <3> SUFFICES PrevotesCounted(ledger, after, header.height)
      BY <3>2
    <3>3. \A h \in Heights : h \in Nat
      BY <1>3, Zenon
    <3>4. \A h \in Heights : h + MaxHeaders <= Len(chain) => h + MaxHeaders <= header.height
      BY <1>4, <3>3
    <3> QED BY <1>3, <2>1, <3>1, <3>4 DEF PrevotesCounted
  <2> QED BY <2>3, <2>4
<1> QED BY <1>1, <1>4, <1>5, <1>6, <1>a, <1>b, <1>c DEF CountsOK

\* A precommit comes from a validator that has prevoted the height here.
LEMMA PrevotedBeforeKept ==
  ASSUME LedgerAssumption, VotingAssumption, ChainOK, VotersOK, CountsOK,
         PrecommitsFollowPrevotes,
         NEW header \in Header, AddBlockHeader(header), Longer(header),
         header.height = Len(chain) + 1
  PROVE  PrecommitsFollowPrevotes'
<1>1. /\ IsNextHeader(chain, header) /\ IsChain(chain) /\ IsLedger(ledger, Len(chain))
      /\ \A h \in Heights :
           /\ prevoters'[h] = WithVote(prevoters, header, PreVoteHeights(header), h)
           /\ precommitters'[h] = WithVote(precommitters, header,
                                    PreCommitHeights(chain, ledger, header), h)
  BY HeaderAdded, ChainIs DEF CountsOK
<1> SUFFICES ASSUME NEW h \in Heights, NEW v \in precommitters'[h] PROVE v \in prevoters'[h]
  BY DEF PrecommitsFollowPrevotes, Heights
<1>2. CASE v \in precommitters[h]
  BY <1>1, <1>2 DEF PrecommitsFollowPrevotes, WithVote
<1>3. CASE /\ CanVote(header) /\ v = header.gen
           /\ h \in PreCommitHeights(chain, ledger, header)
  <2>1. \/ h \in PreVoteHeights(header)
        \/ \E k \in 1..Len(chain) : /\ chain[k].gen = header.gen
                                    /\ CanVote(chain[k]) /\ h \in PreVoteHeights(chain[k])
    BY <1>1, <1>3, PrecommitWasPrevoted
  <2>2. CASE h \in PreVoteHeights(header)
    BY <1>1, <1>3, <2>2 DEF WithVote
  <2>3. ASSUME NEW k \in 1..Len(chain), chain[k].gen = header.gen,
               CanVote(chain[k]), h \in PreVoteHeights(chain[k])
        PROVE  v \in prevoters'[h]
    <3>1. header.gen \in prevoters[h]
      BY <2>3 DEF VotersOK
    <3> QED BY <1>1, <1>3, <3>1 DEF WithVote
  <2> QED BY <2>1, <2>2, <2>3
<1> QED BY <1>1, <1>2, <1>3 DEF WithVote

\* Precommits are only ever added, and updateFinalizedHeight takes a height that
\* has a threshold of them.
LEMMA FinalizedKept ==
  ASSUME LedgerAssumption, VotingAssumption, ChainOK, VotersOK, CountsOK, FinalizedOK,
         CountsOK', VotersOK', ChainOK',
         NEW header \in Header, AddBlockHeader(header), Longer(header),
         header.height = Len(chain) + 1
  PROVE  FinalizedOK'
<1>1. /\ IsLedger(ledger', Len(chain')) /\ Len(chain') \in Nat
      /\ Len(chain') <= MaxHeight /\ MaxHeight \in Nat /\ Len(chain) \in Nat
      /\ PrecommitsCounted(ledger', precommitters', Len(chain'))
  BY HeaderAdded, ChainIs DEF CountsOK, ChainOK, VotingAssumption, Longer
<1>2. /\ Precommitted(ledger') \subseteq 1..Len(chain') /\ IsFiniteSet(Precommitted(ledger'))
      /\ Precommitted(ledger') \subseteq Int
  <2>1. Precommitted(ledger') \subseteq 1..Len(chain') /\ IsFiniteSet(Precommitted(ledger'))
    BY <1>1, PrevotedIs
  <2>2. Precommitted(ledger') \subseteq Int
    BY <2>1
  <2> QED BY <2>1, <2>2
<1> DEFINE top == HighestPrecommitted(ledger')
<1>3. top \in Int /\ (top = 0 \/ top \in Precommitted(ledger'))
  BY <1>2, 0 \in Int, AtLeastIs DEF HighestPrecommitted
<1> HIDE DEF top
<1>4. finalizedHeight \in Int
  BY DEF FinalizedOK, Heights
<1>5. finalizedHeight' = finalizedHeight \/ finalizedHeight' = top
  <2>1. finalizedHeight' = AtLeast(finalizedHeight, {top})
    BY DEF AddBlockHeader, UpdateFinalizedHeight, top
  <2> QED BY <1>3, <1>4, <2>1, AtLeastOne
<1>6. ASSUME NEW h \in Heights
      PROVE  /\ Cardinality(precommitters[h]) \in Nat /\ Cardinality(precommitters'[h]) \in Nat
             /\ Cardinality(precommitters'[h]) >= Cardinality(precommitters[h])
  <2>1. /\ precommitters[h] \subseteq Participant /\ precommitters'[h] \subseteq Participant
    BY DEF CountsOK, PrecommitsCounted, VotersOK
  <2>2. precommitters[h] \subseteq precommitters'[h]
    BY DEF AddBlockHeader, Voted
  <2>3. IsFiniteSet(precommitters'[h])
    BY <2>1, FS_Subset DEF LedgerAssumption
  <2> QED BY <2>2, <2>3, FS_Subset, FS_CardinalityType
<1>7. CASE finalizedHeight' = finalizedHeight
  <2>1. CASE finalizedHeight = 0
    BY <1>7, <2>1 DEF FinalizedOK
  <2>2. CASE finalizedHeight \in Heights
             /\ Cardinality(precommitters[finalizedHeight]) >= Threshold
    <3>1. /\ Cardinality(precommitters'[finalizedHeight]) \in Nat
          /\ Cardinality(precommitters[finalizedHeight]) \in Nat
          /\ Cardinality(precommitters'[finalizedHeight])
               >= Cardinality(precommitters[finalizedHeight])
      BY <1>6, <2>2
    <3>2. Cardinality(precommitters'[finalizedHeight]) >= Threshold
      BY <2>2, <3>1, Bounds
    <3> QED BY <1>7, <2>2, <3>2 DEF FinalizedOK, Heights
  <2> QED BY <2>1, <2>2 DEF FinalizedOK
<1>8. CASE finalizedHeight' = top /\ top \in Precommitted(ledger')
  <2>1. /\ top \in DOMAIN ledger'.votes /\ ledger'.votes[top].precommits >= Threshold
        /\ top \in 1..Len(chain')
    BY <1>2, <1>8 DEF Precommitted
  <2>2. top \in Heights
    BY <1>1, <2>1 DEF Heights
  <2>3. Cardinality(precommitters'[top]) = ledger'.votes[top].precommits
    BY <1>1, <2>1, <2>2 DEF PrecommitsCounted, VotersOK
  <2> QED BY <1>8, <2>1, <2>2, <2>3 DEF FinalizedOK
<1>9. CASE finalizedHeight' = 0
  BY <1>9 DEF FinalizedOK
<1> QED BY <1>3, <1>5, <1>7, <1>8, <1>9

-----------------------------------------------------------------------------
(* Invariance.                                                             *)

\* Nothing has been voted for at the genesis block.
LEMMA InitInductive ==
  ASSUME LedgerAssumption, VotingAssumption, Init
  PROVE  Inductive
<1>1. /\ chain = <<>> /\ Len(chain) = 0 /\ 1..Len(chain) = {} /\ chain \in Seq(Header)
  BY EmptySeq DEF Init
<1>2. ChainOK
  BY <1>1 DEF ChainOK, VotingAssumption
<1>3. \A h \in Heights : prevoters[h] = {} /\ precommitters[h] = {}
  BY DEF Init
<1>4. VotersOK
  <2>1. DOMAIN prevoters = Heights /\ DOMAIN precommitters = Heights
    BY DEF Init
  <2> QED BY <1>1, <1>3, <2>1 DEF VotersOK
<1>5. DOMAIN ledger.votes = {} /\ ledger.maxPreCommitHeight \in [Validator -> Nat]
  BY DEF Init, EmptyLedger
<1>6. CountsOK
  BY <1>1, <1>3, <1>4, <1>5 DEF CountsOK, IsLedger, PrevotesCounted, PrecommitsCounted, VotersOK
<1>7. PrecommitsFollowPrevotes
  BY <1>3 DEF PrecommitsFollowPrevotes, Heights
<1>8. FinalizedOK
  BY DEF Init, FinalizedOK
<1> QED BY <1>2, <1>4, <1>6, <1>7, <1>8 DEF Inductive

\* Whatever a generator claims, its header is one of the lemmas' headers.
LEMMA ClaimsAre ==
  ASSUME LedgerAssumption, VotingAssumption, ChainOK, CountsOK,
         NEW gen \in Validator, NEW mhpf \in ClaimedMhpf(gen), NEW mhp \in ClaimedMhp(gen)
  PROVE  /\ NextHeader(gen, mhpf, mhp) \in Header
         /\ NextHeader(gen, mhpf, mhp).height = Len(chain) + 1
         /\ NextHeader(gen, mhpf, mhp).id = Len(chain) + 1
<1>1. Len(chain) \in Nat /\ IsChain(chain) /\ \A k \in 1..Len(chain) : chain[k] \in Header
  BY ChainIs
<1>2. mhpf \in Nat
  <2>1. LastForgedHeight(gen) \in Nat
    <3> DEFINE own == {h \in 1..Len(chain) : chain[h].gen = gen}
    <3>1. IsFiniteSet(own)
      BY <1>1, HeightsFinite
    <3>2. own \subseteq Int
      OBVIOUS
    <3>3. LastForgedHeight(gen) = AtLeast(0, own)
      BY DEF LastForgedHeight
    <3> HIDE DEF own
    <3>4. AtLeast(0, own) \in Int /\ 0 <= AtLeast(0, own)
      BY <3>1, <3>2, 0 \in Int, AtLeastIs
    <3> QED BY <3>3, <3>4
  <2> QED BY <1>1, <2>1 DEF ClaimedMhpf, VotingAssumption
<1>3. mhp \in Nat
  <2>1. TipMhp(chain) \in Nat
    <3>1. CASE chain = <<>>
      BY <3>1 DEF TipMhp
    <3>2. CASE chain # <<>>
      <4>1. Len(chain) \in 1..Len(chain)
        BY <1>1, <3>2, EmptySeq DEF ChainOK
      <4> QED BY <1>1, <3>2, <4>1 DEF TipMhp, Header
    <3> QED BY <3>1, <3>2
  <2>2. ExpectedMhp(chain, ledger) \in Nat
    BY <1>1, <2>1, MaxHeightPrevotedIs DEF ExpectedMhp, CountsOK
  <2> QED BY <1>1, <2>2 DEF ClaimedMhp
<1> QED BY <1>1, <1>2, <1>3 DEF NextHeader, Header

\* addBlockHeader of a header with any of these claims.
LEMMA NextInductive ==
  ASSUME LedgerAssumption, VotingAssumption, Inductive, [Next]_vars
  PROVE  Inductive'
<1>1. CASE UNCHANGED vars
  BY <1>1 DEF vars, Inductive, ChainOK, VotersOK, CountsOK, PrecommitsFollowPrevotes,
              FinalizedOK, MhpNeverFalls
<1>2. CASE Next
  <2>1. /\ ChainOK /\ VotersOK /\ CountsOK /\ PrecommitsFollowPrevotes /\ FinalizedOK
        /\ Len(chain) < MaxHeight
    BY <1>2 DEF Inductive, Next
  <2>2. PICK header \in Header :
          /\ header.height = Len(chain) + 1 /\ header.id = Len(chain) + 1
          /\ AddBlockHeader(header)
    BY <1>2, <2>1, ClaimsAre DEF Next
  <2>3. /\ ChainOK' /\ Longer(header)
        /\ MhpNeverFalls' => /\ MhpNeverFalls
                             /\ \A k \in 1..Len(chain) : chain[k].mhp <= header.mhp
    <3>1. chain' = Append(chain, header)
      BY <2>2 DEF AddBlockHeader
    <3> QED BY <2>1, <2>2, <3>1, ChainGrows
  <2>4. VotersOK'
    BY <2>1, <2>2, <2>3, VotersGrow
  <2>5. CountsOK'
    BY <2>1, <2>2, <2>3, CountsKept
  <2>6. PrecommitsFollowPrevotes'
    BY <2>1, <2>2, <2>3, PrevotedBeforeKept
  <2>7. FinalizedOK'
    BY <2>1, <2>2, <2>3, <2>4, <2>5, FinalizedKept
  <2> QED BY <2>3, <2>4, <2>5, <2>6, <2>7 DEF Inductive
<1> QED BY <1>1, <1>2

\* Headers are counted as the votes of their generators, however they lie.
THEOREM Invariance ==
  ASSUME LedgerAssumption, VotingAssumption
  PROVE  Spec => []Inductive
<1>1. Init => Inductive
  BY InitInductive
<1>2. Inductive /\ [Next]_vars => Inductive'
  BY NextInductive
<1> QED BY <1>1, <1>2, PTL DEF Spec

\* The ledger of a chain is sound for any claims of any number of generators: no
\* height has two prevotes or two precommits of one validator (the prevotes where
\* maxHeightPrevoted has not fallen), nobody precommits what it has not prevoted
\* on this chain, and what is final had both thresholds
\* (updatePrevotesPrecommits, getMinValidHeightToPreCommit, updateFinalizedHeight).
THEOREM VotesStaySound ==
  ASSUME LedgerAssumption, VotingAssumption
  PROVE  Spec => []VotesSound
<1>1. Inductive => VotesSound
  <2> SUFFICES ASSUME Inductive PROVE VotesSound
    OBVIOUS
  <2>1. /\ ChainOK /\ VotersOK /\ CountsOK /\ PrecommitsFollowPrevotes /\ FinalizedOK
    BY DEF Inductive
  <2>2. OneVoteEach
    <3>1. DOMAIN ledger.votes \subseteq Heights
      BY <2>1, ChainIs DEF CountsOK, IsLedger, ChainOK, Heights, VotingAssumption
    <3>2. /\ DOMAIN prevoters = Heights /\ DOMAIN precommitters = Heights
          /\ MhpNeverFalls => PrevotesCounted(ledger, prevoters, Len(chain))
          /\ PrecommitsCounted(ledger, precommitters, Len(chain))
      BY <2>1 DEF VotersOK, CountsOK
    <3> QED BY <3>1, <3>2 DEF OneVoteEach, PrevotesCounted, PrecommitsCounted
  <2>3. FinalizedWasPrevoted
    <3> SUFFICES ASSUME finalizedHeight > 0
                 PROVE  /\ Cardinality(prevoters[finalizedHeight]) >= Threshold
                        /\ Cardinality(precommitters[finalizedHeight]) >= Threshold
      BY DEF FinalizedWasPrevoted
    <3> DEFINE h == finalizedHeight
    <3>1. h \in Heights /\ Cardinality(precommitters[h]) >= Threshold
      BY <2>1 DEF FinalizedOK
    <3>2. /\ prevoters[h] \subseteq Participant
          /\ precommitters[h] \subseteq prevoters[h]
      <4>1. prevoters[h] \subseteq Participant
        BY <2>1, <3>1 DEF VotersOK, CanVote
      <4> QED BY <2>1, <3>1, <4>1 DEF PrecommitsFollowPrevotes, Heights
    <3>3. IsFiniteSet(prevoters[h])
      BY <3>2, FS_Subset DEF LedgerAssumption
    <3>4. /\ Cardinality(precommitters[h]) <= Cardinality(prevoters[h])
          /\ Cardinality(precommitters[h]) \in Nat /\ Cardinality(prevoters[h]) \in Nat
      BY <3>2, <3>3, FS_Subset, FS_CardinalityType
    <3> QED BY <3>1, <3>4, Bounds
  <2> QED BY <2>1, <2>2, <2>3 DEF VotesSound
<1>2. Spec => []Inductive
  BY Invariance
<1> QED BY <1>1, <1>2, PTL

-----------------------------------------------------------------------------
(* Pruning.                                                                *)

\* What pruning keeps fits: above the lowest height kept lie fewer than MaxHeaders.
LEMMA PruningFits ==
  ASSUME LedgerAssumption, NEW n \in Nat, NEW votes, DOMAIN votes \subseteq 1..n
  PROVE  Cardinality(DOMAIN PruneVotes(votes)) <= MaxHeaders
<1> DEFINE Above(k) == {m \in DOMAIN votes : m > k}
           kept == {k \in DOMAIN votes : Cardinality(Above(k)) < MaxHeaders}
<1>1. DOMAIN PruneVotes(votes) = kept
  BY DEF PruneVotes
<1>2. IsFiniteSet(DOMAIN votes) /\ MaxHeaders \in Nat
  <2>1. IsFiniteSet(DOMAIN votes)
    BY HeightsFinite
  <2>2. MaxHeaders \in Nat
    BY Bounds
  <2> QED BY <2>1, <2>2
<1>3. IsFiniteSet(kept) /\ Cardinality(kept) \in Nat
  <2>1. kept \subseteq DOMAIN votes
    OBVIOUS
  <2> QED BY <1>2, <2>1, FS_Subset, FS_CardinalityType
<1>4. CASE kept = {}
  <2>1. DOMAIN PruneVotes(votes) = {}
    BY <1>1, <1>4
  <2>2. Cardinality(DOMAIN PruneVotes(votes)) = 0
    BY <2>1, FS_EmptySet
  <2> QED BY <1>2, <2>2
<1>5. CASE kept # {}
  <2>1. PICK low \in kept : \A k \in kept : low <= k
    <3>1. kept \in SUBSET Nat
      OBVIOUS
    <3> HIDE DEF kept
    <3> QED BY <1>5, <3>1, LeastNatural
  <2>2. kept \ {low} \subseteq Above(low)
    BY <2>1
  <2>3. Above(low) \subseteq DOMAIN votes /\ Cardinality(Above(low)) < MaxHeaders
    BY <2>1
  <2> HIDE DEF kept, Above
  <2>4. IsFiniteSet(Above(low)) /\ Cardinality(Above(low)) \in Nat
    BY <1>2, <2>3, FS_Subset, FS_CardinalityType
  <2>5. Cardinality(kept \ {low}) <= Cardinality(Above(low))
    BY <2>2, <2>4, FS_Subset
  <2>6. Cardinality(kept \ {low}) = Cardinality(kept) - 1
    BY <1>3, FS_RemoveElement
  <2> QED BY <1>1, <1>2, <1>3, <2>3, <2>4, <2>5, <2>6
<1> QED BY <1>4, <1>5

\* The ledger never holds more than five rounds.
Pruned == Cardinality(DOMAIN ledger.votes) <= MaxHeaders

\* While everybody tells the truth, maxHeightPrevoted says what the ledger says.
RankTold == MhpNeverFalls /\ RankOK(ledger, TipMhp(chain), Len(chain))

\* addBlockHeader prunes the ledger whenever it adds to it.
LEMMA PrunedKept ==
  ASSUME LedgerAssumption, VotingAssumption, ChainOK, CountsOK, Pruned,
         NEW header \in Header, AddBlockHeader(header), Longer(header),
         header.height = Len(chain) + 1
  PROVE  Pruned'
<1>1. /\ IsNextHeader(chain, header) /\ IsChain(chain) /\ IsLedger(ledger, Len(chain))
      /\ ledger' = UpdatePrevotesPrecommits(chain, ledger, header)
      /\ ~CanVote(header) => ledger' = ledger
      /\ Len(chain) \in Nat
  BY HeaderAdded, ChainIs DEF CountsOK
<1>2. CASE ~CanVote(header)
  BY <1>1, <1>2 DEF Pruned
<1>3. CASE CanVote(header)
  <2> DEFINE precommits == PreCommitHeights(chain, ledger, header)
             prevotes == PreVoteHeights(header)
  <2>1. DOMAIN ledger.votes \cup precommits \cup prevotes \subseteq 1..header.height
    <3>1. DOMAIN ledger.votes \subseteq 1..header.height
      BY <1>1 DEF IsLedger
    <3>2. precommits \subseteq DOMAIN ledger.votes
      BY <1>1, <1>3, PreCommitHeightsAre
    <3>3. prevotes \subseteq 1..header.height
      <4> SUFFICES ASSUME NEW h \in prevotes PROVE h \in 1..header.height
        OBVIOUS
      <4>1. /\ h \in Int /\ ActiveFrom[header.gen] <= h /\ h <= header.height
            /\ ActiveFrom[header.gen] \in Nat /\ ActiveFrom[header.gen] > 0
        BY <1>1, PreVoteHeightsAre, Bounds DEF IsNextHeader
      <4> QED BY <1>1, <4>1
    <3> QED BY <3>1, <3>2, <3>3
  <2> HIDE DEF precommits, prevotes
  <2> DEFINE votes == [h \in DOMAIN ledger.votes \cup precommits \cup prevotes |->
        [ prevotes   |-> VotesAt(ledger, h).prevotes
                           + (IF h \in prevotes THEN 1 ELSE 0),
          precommits |-> VotesAt(ledger, h).precommits
                           + (IF h \in precommits THEN 1 ELSE 0) ]]
  <2>2. ledger'.votes = PruneVotes(votes)
    BY <1>1, <1>3 DEF UpdatePrevotesPrecommits, AddVotes, precommits, prevotes
  <2>3. DOMAIN votes \subseteq 1..header.height /\ header.height \in Nat
    BY <1>1, <2>1
  <2> HIDE DEF votes
  <2> QED BY <2>2, <2>3, PruningFits DEF Pruned
<1> QED BY <1>2, <1>3

\* A true claim about maxHeightPrevoted is the next one's lower bound.
LEMMA RankToldKept ==
  ASSUME LedgerAssumption, VotingAssumption, ChainOK, CountsOK, RankTold,
         NEW header \in Header, AddBlockHeader(header), Longer(header),
         header.height = Len(chain) + 1,
         header.mhp = ExpectedMhp(chain, ledger)
  PROVE  RankTold'
<1>1. /\ IsNextHeader(chain, header) /\ IsChain(chain) /\ IsLedger(ledger, Len(chain))
      /\ ledger' = UpdatePrevotesPrecommits(chain, ledger, header)
      /\ Len(chain) \in Nat /\ chain \in Seq(Header)
  BY HeaderAdded, ChainIs DEF CountsOK, ChainOK
<1>2. TipMhp(chain) \in Nat
  <2>1. CASE chain = <<>>
    BY <2>1 DEF TipMhp
  <2>2. CASE chain # <<>>
    <3>1. Len(chain) \in 1..Len(chain)
      BY <1>1, <2>2, EmptySeq
    <3> QED BY <2>2, <3>1, ChainIs DEF TipMhp, Header
  <2> QED BY <2>1, <2>2
<1>3. TipMhp(chain') = header.mhp /\ Len(chain') = header.height
  <2>1. chain' # <<>>
    BY <1>1 DEF Longer
  <2> QED BY <2>1 DEF Longer, TipMhp
<1>4. header.mhp = MaxHeightPrevoted(ledger, TipMhp(chain))
  BY DEF ExpectedMhp
<1>5. RankOK(ledger, TipMhp(chain), Len(chain))
  BY DEF RankTold
<1>6. TipMhp(chain) <= header.mhp /\ RankOK(ledger', header.mhp, header.height)
  BY <1>1, <1>2, <1>4, <1>5, RankKept
<1>7. MhpNeverFalls'
  <2> SUFFICES ASSUME NEW h \in 2..Len(chain') PROVE chain'[h].mhp >= chain'[h - 1].mhp
    BY DEF MhpNeverFalls
  <2>1. CASE h \in 2..Len(chain)
    <3>1. chain'[h] = chain[h] /\ chain'[h - 1] = chain[h - 1]
      BY <1>1, <2>1 DEF Longer
    <3> QED BY <2>1, <3>1 DEF RankTold, MhpNeverFalls
  <2>2. CASE h = Len(chain) + 1
    <3>1. Len(chain) \in 1..Len(chain) /\ chain # <<>> /\ h - 1 = Len(chain)
      BY <1>1, <2>2
    <3>2. chain'[h] = header /\ chain'[h - 1] = chain[Len(chain)]
      BY <2>2, <3>1 DEF Longer
    <3>3. TipMhp(chain) = chain[Len(chain)].mhp
      BY <3>1 DEF TipMhp
    <3>4. header.mhp \in Nat
      BY DEF Header
    <3> QED BY <1>2, <1>6, <3>2, <3>3, <3>4
  <2> QED BY <1>1, <2>1, <2>2 DEF Longer
<1> QED BY <1>3, <1>6, <1>7 DEF RankTold

\* The ledger keeps its bounds, and where nobody lies it forgets nothing that the
\* fork choice rule compares by: along a chain of any length maxHeightPrevoted
\* never decreases, also when the heights it came from were pruned
\* (updatePrevotesPrecommits, calculateMaxHeightPrevoted).
THEOREM LedgerStaysPruned ==
  ASSUME LedgerAssumption, VotingAssumption
  PROVE  Spec => []LedgerPruned
<1> DEFINE IInv == Inductive /\ Pruned /\ (liars = {} => RankTold)
<1>1. Init => IInv
  <2> SUFFICES ASSUME Init PROVE IInv
    OBVIOUS
  <2>1. Inductive
    BY InitInductive
  <2>2. DOMAIN ledger.votes = {} /\ chain = <<>> /\ Len(chain) = 0
    BY DEF Init, EmptyLedger
  <2>3. Pruned
    BY <2>2, FS_EmptySet, Bounds DEF Pruned
  <2>4. RankTold
    <3>1. TipMhp(chain) = 0 /\ Prevoted(ledger) = {}
      BY <2>2 DEF TipMhp, Prevoted
    <3> QED BY <2>2, <3>1 DEF RankTold, MhpNeverFalls, RankOK, MaxHeightPrevoted
  <2> QED BY <2>1, <2>3, <2>4
<1>2. IInv /\ [Next]_vars => IInv'
  <2> SUFFICES ASSUME Inductive, Pruned, liars = {} => RankTold, [Next]_vars PROVE IInv'
    OBVIOUS
  <2>1. Inductive'
    BY NextInductive
  <2>2. CASE UNCHANGED vars
    <3>1. Pruned' /\ (liars' = {} => RankTold')
      BY <2>2 DEF vars, Pruned, RankTold, MhpNeverFalls
    <3> QED BY <2>1, <3>1
  <2>3. CASE Next
    <3>1. ChainOK /\ VotersOK /\ CountsOK /\ Len(chain) < MaxHeight
      BY <2>3 DEF Inductive, Next
    <3>2. PICK header \in Header :
            /\ header.height = Len(chain) + 1 /\ header.id = Len(chain) + 1
            /\ liars = {} => header.mhp = ExpectedMhp(chain, ledger)
            /\ AddBlockHeader(header)
      <4>a. PICK gen \in Validator :
              \E mhpf \in ClaimedMhpf(gen), mhp \in ClaimedMhp(gen) :
                AddBlockHeader(NextHeader(gen, mhpf, mhp))
        BY <2>3 DEF Next
      <4>1. PICK mhpf \in ClaimedMhpf(gen), mhp \in ClaimedMhp(gen) :
              AddBlockHeader(NextHeader(gen, mhpf, mhp))
        BY <4>a
      <4>2. liars = {} => mhp = ExpectedMhp(chain, ledger)
        BY <4>1 DEF ClaimedMhp
      <4>3. NextHeader(gen, mhpf, mhp).mhp = mhp
        BY DEF NextHeader
      <4> QED BY <3>1, <4>1, <4>2, <4>3, ClaimsAre
    <3>3. Longer(header)
      <4>1. chain' = Append(chain, header)
        BY <3>2 DEF AddBlockHeader
      <4> QED BY <3>1, <3>2, <4>1, ChainGrows
    <3>4. Pruned'
      BY <3>1, <3>2, <3>3, PrunedKept
    <3>5. liars' = {} => RankTold'
      <4>1. liars' = liars
        BY <2>3 DEF Next
      <4> QED BY <3>1, <3>2, <3>3, <4>1, RankToldKept
    <3> QED BY <2>1, <3>4, <3>5
  <2> QED BY <2>2, <2>3
<1>3. IInv => LedgerPruned
  <2> SUFFICES ASSUME Inductive, Pruned, liars = {} => RankTold PROVE LedgerPruned
    OBVIOUS
  <2>1. ChainOK /\ VotersOK /\ CountsOK /\ FinalizedOK /\ PrecommitsFollowPrevotes
    BY DEF Inductive
  <2>2. MaxHeightPrevotedGrows
    BY DEF RankTold, MhpNeverFalls, MaxHeightPrevotedGrows
  <2>3. Len(chain) <= MaxHeight /\ Len(chain) \in Nat /\ MaxHeight \in Nat
    BY <2>1, ChainIs DEF ChainOK, VotingAssumption
  <2>4. DOMAIN ledger.votes \subseteq Heights
    BY <2>1, <2>3 DEF CountsOK, IsLedger, Heights
  <2>5. finalizedHeight \in 0..MaxHeight
    BY <2>1, <2>3 DEF FinalizedOK, Heights
  <2>6. \A h \in Heights : prevoters[h] \cup precommitters[h] \subseteq Participant
    BY <2>1 DEF VotersOK, CountsOK, PrecommitsCounted, CanVote
  <2> QED BY <2>2, <2>3, <2>4, <2>5, <2>6 DEF LedgerPruned, TypeOK, Pruned
<1> QED BY <1>1, <1>2, <1>3, PTL DEF Spec
=============================================================================
