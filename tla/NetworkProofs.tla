---------------------------- MODULE NetworkProofs ---------------------------
(***************************************************************************)
(* Proofs about P2P, for any peers, addresses and buckets, about Peer, for *)
(* any limits, and about Relay, for any transactions and answers.          *)
(*                                                                         *)
(* What the pool and the book go through in one step is mostly a fold over *)
(* a set of peers. Each fold is unfolded by the lemmas of the first        *)
(* section; what is left are invariants of one more peer in the pool and   *)
(* of one more entry in a list.                                            *)
(***************************************************************************)
EXTENDS P2P, Peer, Relay, FiniteSetTheorems, SequenceTheorems, WellFoundedInduction, TLAPS

-----------------------------------------------------------------------------
(* Folding over a finite set D: base is combined with one element after    *)
(* the other, in the order in which pick takes them out of the set. The    *)
(* folds of the community modules are solutions of such a recursion; that  *)
(* it has one, that it has only one, and that its values stay in the set   *)
(* the steps stay in, is proved without an induction theorem, from a       *)
(* smallest counterexample.                                                *)

\* h folds the subsets of D with the steps G.
IsFold(h, D, pick, base, G) ==
  /\ h[{}] = base
  /\ \A s \in SUBSET D : s # {} => h[s] = G[<<pick[s], h[s \ {pick[s]}]>>]

\* g takes these steps as long as its values are in X.
FoldsIn(X, g, D, pick, base, G) ==
  /\ g[{}] = base
  /\ \A s \in SUBSET D :
       s # {} /\ g[s \ {pick[s]}] \in X => g[s] = G[<<pick[s], g[s \ {pick[s]}]>>]

\* pick takes an element of every set.
Picks(pick, D) == \A s \in SUBSET D : s # {} => pick[s] \in s

-----------------------------------------------------------------------------
\* Of some subsets of a finite set one is smallest.
LEMMA SmallestSet ==
  ASSUME NEW D, IsFiniteSet(D), NEW C \in SUBSET SUBSET D, C # {}
  PROVE  \E s \in C : \A x \in s : s \ {x} \notin C
<1>1. IsWellFoundedOn(StrictSubsetOrdering(D), FiniteSubsetsOf(D))
  BY FS_StrictSubsetOrderingWellFounded
<1>2. C \subseteq FiniteSubsetsOf(D)
  BY FS_FiniteSubsetsOfFinite
<1>3. PICK s \in C : \A y \in C : ~(<<y, s>> \in StrictSubsetOrdering(D))
  BY <1>1, <1>2, WFMin
<1>4. ASSUME NEW x \in s, s \ {x} \in C PROVE FALSE
  <2>1. <<s \ {x}, s>> \in StrictSubsetOrdering(D)
    BY DEF StrictSubsetOrdering
  <2> QED  BY <1>3, <1>4, <2>1
<1> QED  BY <1>4

\* Of some numbers one is the least.
LEMMA LeastNumber ==
  ASSUME NEW C \in SUBSET Nat, C # {}
  PROVE  \E n \in C : n - 1 \notin C
<1> DEFINE Less == {p \in Nat \X Nat : p[1] < p[2]}
<1>1. IsWellFoundedOn(Less, Nat)
  BY NatLessThanWellFounded DEF OpToRel
<1>2. PICK n \in C : \A m \in C : ~(<<m, n>> \in Less)
  BY <1>1, WFMin, Zenon
<1>3. ASSUME n - 1 \in C PROVE FALSE
  <2>1. <<n - 1, n>> \in Less
    BY <1>3
  <2> QED  BY <1>2, <1>3, <2>1, Zenon
<1> QED  BY <1>3

\* The recursion has a solution up to any size, hence for all subsets of D.
\* Its values are in X if base is and every step leads from X to X.
LEMMA FoldExists ==
  ASSUME NEW D, IsFiniteSet(D), NEW pick, Picks(pick, D),
         NEW X, NEW base \in X, NEW G \in [D \X X -> X]
  PROVE  \E h \in [SUBSET D -> X] : IsFold(h, D, pick, base, G)
<1> DEFINE Small(n) == {s \in SUBSET D : Cardinality(s) <= n}
           Upto(h, n) == /\ h[{}] = base
                         /\ \A s \in Small(n) :
                              s # {} => h[s] = G[<<pick[s], h[s \ {pick[s]}]>>]
           Solved(n) == \E h \in [SUBSET D -> X] : Upto(h, n)
<1>1. \A s \in SUBSET D : IsFiniteSet(s) /\ Cardinality(s) \in Nat
  BY FS_Subset, FS_CardinalityType
<1>2. \A s \in SUBSET D : s # {} =>
        /\ pick[s] \in s /\ s \ {pick[s]} \in SUBSET D
        /\ Cardinality(s \ {pick[s]}) = Cardinality(s) - 1
  BY <1>1, FS_RemoveElement DEF Picks
<1>3. \A s \in SUBSET D : Cardinality(s) = 0 => s = {}
  BY <1>1, FS_EmptySet
<1>4. \A n \in Nat : Solved(n)
  <2> SUFFICES ASSUME {n \in Nat : ~Solved(n)} # {} PROVE FALSE
    OBVIOUS
  <2>1. PICK n \in {m \in Nat : ~Solved(m)} : n - 1 \notin {m \in Nat : ~Solved(m)}
    <3> HIDE DEF Solved
    <3> QED  BY LeastNumber
  <2>2. CASE n = 0
    <3> DEFINE h == [s \in SUBSET D |-> base]
    <3>1. h \in [SUBSET D -> X] /\ Upto(h, 0)
      BY <1>1, <1>3
    <3> QED  BY <2>1, <2>2, <3>1
  <2>3. CASE n # 0
    <3>1. n - 1 \in Nat
      BY <2>3
    <3>2. Solved(n - 1)
      BY <2>1, <3>1
    <3>3. PICK g \in [SUBSET D -> X] : Upto(g, n - 1)
      BY <3>2
    <3> DEFINE h == [s \in SUBSET D |->
                       IF s = {} THEN base ELSE G[<<pick[s], g[s \ {pick[s]}]>>]]
    <3>4. h \in [SUBSET D -> X] /\ h[{}] = base
      <4>1. ASSUME NEW s \in SUBSET D, s # {}
            PROVE  G[<<pick[s], g[s \ {pick[s]}]>>] \in X
        <5>1. pick[s] \in D /\ s \ {pick[s]} \in SUBSET D
          BY <1>2, <4>1
        <5>2. g[s \ {pick[s]}] \in X
          BY <5>1
        <5> QED  BY <5>1, <5>2
      <4> QED  BY <4>1
    <3>5. ASSUME NEW s \in Small(n - 1) PROVE h[s] = g[s]
      BY <3>3, <3>5
    <3>6. \A s \in SUBSET D : s # {} => h[s] = G[<<pick[s], g[s \ {pick[s]}]>>]
      OBVIOUS
    <3> HIDE DEF h
    <3>7. ASSUME NEW s \in Small(n), s # {}
          PROVE  h[s] = G[<<pick[s], h[s \ {pick[s]}]>>]
      <4>1. s \ {pick[s]} \in Small(n - 1)
        BY <1>1, <1>2, <3>1, <3>7
      <4>2. h[s \ {pick[s]}] = g[s \ {pick[s]}]
        BY <3>5, <4>1
      <4> QED  BY <3>6, <3>7, <4>2
    <3>8. Upto(h, n)
      BY <3>4, <3>7
    <3> QED  BY <2>1, <3>4, <3>8
  <2> QED  BY <2>2, <2>3
<1>5. Cardinality(D) \in Nat /\ Small(Cardinality(D)) = SUBSET D
  <2>1. \A s \in SUBSET D : Cardinality(s) <= Cardinality(D)
    BY FS_Subset
  <2> QED  BY <1>1, <2>1
<1>6. PICK h \in [SUBSET D -> X] : Upto(h, Cardinality(D))
  BY <1>4, <1>5
<1> QED  BY <1>5, <1>6 DEF IsFold

\* Whatever takes the same steps where the values are in X is this solution.
LEMMA FoldOnly ==
  ASSUME NEW D, IsFiniteSet(D), NEW pick, Picks(pick, D),
         NEW X, NEW base \in X, NEW G,
         NEW h \in [SUBSET D -> X], IsFold(h, D, pick, base, G),
         NEW g, FoldsIn(X, g, D, pick, base, G)
  PROVE  g[D] = h[D]
<1> DEFINE C == {s \in SUBSET D : g[s] # h[s]}
<1>1. ASSUME C # {} PROVE FALSE
  <2>1. PICK s \in C : \A x \in s : s \ {x} \notin C
    <3> HIDE DEF C
    <3>1. C \in SUBSET SUBSET D
      BY DEF C
    <3> QED  BY <1>1, <3>1, SmallestSet
  <2>2. s # {}
    BY <2>1 DEF IsFold, FoldsIn
  <2>3. pick[s] \in s
    BY <2>2 DEF Picks
  <2>4. g[s \ {pick[s]}] = h[s \ {pick[s]}] /\ h[s \ {pick[s]}] \in X
    BY <2>1, <2>3
  <2>5. g[s] = h[s]
    BY <2>2, <2>4 DEF IsFold, FoldsIn
  <2> QED  BY <2>1, <2>5
<1> QED  BY <1>1
-----------------------------------------------------------------------------
(* The book. A list keeps its table and its buckets together, and of an    *)
(* address in banned it holds bare entries only.                           *)

Address == {IP[p] : p \in Peer}

List == [in : SUBSET Peer, known : SUBSET Peer, bare : SUBSET Peer,
         failures : [Peer -> 0..(MaxReconnectTries - 1)]]

ListOK(list, barred) ==
  /\ list \in List
  /\ list.in \cup list.bare \subseteq list.known
  /\ \A p \in list.in : IP[p] \in barred => p \in list.bare

Book == [new : List, tried : List, banned : SUBSET Address]

BookOK(b) ==
  /\ b \in Book
  /\ ListOK(b.new, b.banned)
  /\ ListOK(b.tried, b.banned)

\* A change of the book that neither bans nor ends a ban.
KeepsBans(b, c) == BookOK(c) /\ c.banned = b.banned

LEMMA PutOK ==
  ASSUME NEW barred, NEW list, ListOK(list, barred), NEW p \in Peer, IP[p] \notin barred
  PROVE  ListOK(Put(list, p), barred)
<1>1. 0 \in 0..(MaxReconnectTries - 1)
  BY BookAssumption
<1> QED  BY <1>1 DEF ListOK, List, Put

LEMMA EvictOK ==
  ASSUME NEW barred, NEW list, ListOK(list, barred), NEW q \in Peer
  PROVE  ListOK(Evict(list, q), barred)
BY DEF ListOK, List, Evict

LEMMA AddedOK ==
  ASSUME NEW barred, NEW list, ListOK(list, barred), NEW p \in Peer, IP[p] \notin barred,
         NEW kind, NEW bucketOf, NEW after \in Added(kind, bucketOf, list, p)
  PROVE  ListOK(after, barred)
<1>1. \/ after = Put(list, p)
      \/ \E q \in Bucketmates(bucketOf, list, p) : after = Put(Evict(list, q), p)
  BY DEF Added, Evictable
<1>2. Bucketmates(bucketOf, list, p) \subseteq Peer
  BY DEF Bucketmates, ListOK, List
<1> QED  BY <1>1, <1>2, PutOK, EvictOK

LEMMA UpdatedOK ==
  ASSUME NEW barred, NEW list, ListOK(list, barred), NEW p \in Peer
  PROVE  ListOK(Updated(list, p), barred)
BY DEF ListOK, List, Updated, HasBucket

LEMMA RemovedOK ==
  ASSUME NEW barred, NEW list, ListOK(list, barred), NEW p \in Peer
  PROVE  ListOK(Removed(list, p), barred)
<1>1. 0 \in 0..(MaxReconnectTries - 1)
  BY BookAssumption
<1> QED  BY <1>1 DEF ListOK, List, Removed, HasBucket

LEMMA FailedOK ==
  ASSUME NEW barred, NEW list, ListOK(list, barred), NEW p \in Peer
  PROVE  ListOK(Failed(list, p), barred)
<1>1. 0 \in 0..(MaxReconnectTries - 1)
  BY BookAssumption
<1>2. CASE p \notin list.in \ list.bare
  BY <1>2 DEF Failed
<1>3. CASE p \in list.in \ list.bare /\ FailedTooOften(list, p)
  BY <1>1, <1>3 DEF Failed, ListOK, List
<1>4. CASE p \in list.in \ list.bare /\ ~FailedTooOften(list, p)
  <2>1. list.failures[p] + 1 \in 0..(MaxReconnectTries - 1)
    BY <1>4, BookAssumption DEF FailedTooOften, ListOK, List
  <2> QED  BY <1>4, <2>1 DEF Failed, ListOK, List
<1> QED  BY <1>2, <1>3, <1>4

LEMMA RemoveAllOK ==
  ASSUME NEW barred, NEW list, ListOK(list, barred), NEW ip
  PROVE  \A ps \in SUBSET Peer :
           {p \in list.in : IP[p] = ip} \subseteq ps =>
             ListOK(RemoveAll(list, ps), barred \cup {ip})
<1>1. 0 \in 0..(MaxReconnectTries - 1)
  BY BookAssumption
<1> TAKE ps \in SUBSET Peer
<1> HAVE {p \in list.in : IP[p] = ip} \subseteq ps
<1> DEFINE gone == {p \in ps : HasBucket(list, p) /\ p \in list.in}
           count == [p \in Peer |-> IF p \in gone THEN 0 ELSE list.failures[p]]
           after == RemoveAll(list, ps)
<1>2. count \in [Peer -> 0..(MaxReconnectTries - 1)]
  BY <1>1 DEF ListOK, List
<1>3. /\ list \in List
      /\ after = [list EXCEPT !.in = @ \ gone, !.known = @ \ gone, !.failures = count]
  BY DEF RemoveAll, ListOK
<1>4. gone \cap list.bare = {}
  BY DEF HasBucket
<1>5. \A p \in list.in \ gone : IP[p] = ip => p \in list.bare
  BY DEF HasBucket, ListOK
<1> HIDE DEF gone, count, after
<1>6. after \in List
  BY <1>2, <1>3 DEF List
<1>7. after.in = list.in \ gone /\ after.known = list.known \ gone /\ after.bare = list.bare
  BY <1>3 DEF List
<1>8. ListOK(after, barred \cup {ip})
  BY <1>4, <1>5, <1>6, <1>7 DEF ListOK
<1> QED  BY <1>8 DEF after

LEMMA EmptyListOK ==
  ASSUME NEW barred
  PROVE  ListOK(EmptyList, barred)
<1>1. 0 \in 0..(MaxReconnectTries - 1)
  BY BookAssumption
<1> QED  BY <1>1 DEF ListOK, List, EmptyList

LEMMA BookParts ==
  ASSUME NEW b, BookOK(b), NEW list, ListOK(list, b.banned)
  PROVE  /\ KeepsBans(b, [b EXCEPT !.new = list])
         /\ KeepsBans(b, [b EXCEPT !.tried = list])
<1>1. b \in Book /\ list \in List
  BY DEF BookOK, ListOK
<1>2. /\ [b EXCEPT !.new = list] \in Book
      /\ [b EXCEPT !.new = list].new = list
      /\ [b EXCEPT !.new = list].tried = b.tried
      /\ [b EXCEPT !.new = list].banned = b.banned
  BY <1>1 DEF Book
<1>3. /\ [b EXCEPT !.tried = list] \in Book
      /\ [b EXCEPT !.tried = list].new = b.new
      /\ [b EXCEPT !.tried = list].tried = list
      /\ [b EXCEPT !.tried = list].banned = b.banned
  BY <1>1 DEF Book
<1> QED  BY <1>2, <1>3 DEF BookOK, KeepsBans

LEMMA KeepsItself ==
  ASSUME NEW b, BookOK(b)
  PROVE  KeepsBans(b, b)
BY DEF KeepsBans

LEMMA AddPeerKeeps ==
  ASSUME NEW b, BookOK(b), NEW p \in Peer, NEW c \in AddPeer(b, p)
  PROVE  KeepsBans(b, c)
<1>1. CASE IP[p] \in b.banned
  BY <1>1, KeepsItself DEF AddPeer
<1>2. CASE IP[p] \notin b.banned
  <2>1. PICK list \in Added("new", NewBucket, b.new, p) : c = [b EXCEPT !.new = list]
    BY <1>2 DEF AddPeer
  <2>2. ListOK(list, b.banned)
    BY <1>2, AddedOK DEF BookOK
  <2> QED  BY <2>1, <2>2, BookParts
<1> QED  BY <1>1, <1>2

LEMMA RemovePeerKeeps ==
  ASSUME NEW b, BookOK(b), NEW p \in Peer
  PROVE  KeepsBans(b, RemovePeer(b, p))
<1> DEFINE c == [b EXCEPT !.new = Removed(b.new, p)]
<1>1. ListOK(Removed(b.new, p), b.banned) /\ ListOK(Removed(b.tried, p), b.banned)
  BY RemovedOK DEF BookOK
<1>2. KeepsBans(b, c) /\ c.tried = b.tried
  <2>1. KeepsBans(b, c)
    BY <1>1, BookParts
  <2>2. c.tried = b.tried
    BY DEF BookOK, Book
  <2> QED  BY <2>1, <2>2
<1> HIDE DEF c
<1>3. KeepsBans(c, [c EXCEPT !.tried = Removed(b.tried, p)])
  BY <1>1, <1>2, BookParts DEF KeepsBans
<1>4. RemovePeer(b, p) = [c EXCEPT !.tried = Removed(b.tried, p)]
  BY <1>2 DEF RemovePeer, c
<1> QED  BY <1>2, <1>3, <1>4 DEF KeepsBans

LEMMA UpdatePeerKeeps ==
  ASSUME NEW b, BookOK(b), NEW p \in Peer
  PROVE  KeepsBans(b, UpdatePeer(b, p))
<1>1. ListOK(Updated(b.new, p), b.banned) /\ ListOK(Updated(b.tried, p), b.banned)
  BY UpdatedOK DEF BookOK
<1>2. \/ UpdatePeer(b, p) = [b EXCEPT !.tried = Updated(b.tried, p)]
      \/ UpdatePeer(b, p) = [b EXCEPT !.new = Updated(b.new, p)]
      \/ UpdatePeer(b, p) = b
  BY DEF UpdatePeer
<1>3. /\ KeepsBans(b, [b EXCEPT !.tried = Updated(b.tried, p)])
      /\ KeepsBans(b, [b EXCEPT !.new = Updated(b.new, p)])
  BY <1>1, BookParts
<1> QED  BY <1>2, <1>3, KeepsItself

LEMMA UpgradePeerKeeps ==
  ASSUME NEW b, BookOK(b), NEW p \in Peer, NEW c \in UpgradePeer(b, p)
  PROVE  KeepsBans(b, c)
<1> DEFINE rest == RemovePeer(b, p)
<1>1. KeepsBans(b, rest) /\ BookOK(rest)
  BY RemovePeerKeeps DEF KeepsBans
<1>2. \/ c = b \/ c = rest
      \/ /\ IP[p] \notin BannedIPs(b)
         /\ \E list \in Added("tried", TriedBucket, rest.tried, p) :
              c = [rest EXCEPT !.tried = list]
  BY DEF UpgradePeer
<1> HIDE DEF rest
<1>3. ASSUME IP[p] \notin BannedIPs(b),
             NEW list \in Added("tried", TriedBucket, rest.tried, p),
             c = [rest EXCEPT !.tried = list]
      PROVE  KeepsBans(b, c)
  <2>1. IP[p] \notin rest.banned
    BY <1>1, <1>3 DEF BannedIPs, KeepsBans
  <2>2. ListOK(list, rest.banned)
    BY <1>1, <2>1, AddedOK DEF BookOK
  <2>3. KeepsBans(rest, c)
    BY <1>1, <1>3, <2>2, BookParts
  <2> QED  BY <1>1, <2>3 DEF KeepsBans
<1> QED  BY <1>1, <1>2, <1>3, KeepsItself

LEMMA DowngradePeerKeeps ==
  ASSUME NEW b, BookOK(b), NEW p \in Peer, NEW c \in DowngradePeer(b, p)
  PROVE  KeepsBans(b, c)
<1> DEFINE failed == [b EXCEPT !.tried = Failed(b.tried, p)]
<1>1. KeepsBans(b, failed) /\ BookOK(failed)
  <2>1. ListOK(Failed(b.tried, p), b.banned)
    BY FailedOK DEF BookOK
  <2> QED  BY <2>1, BookParts DEF KeepsBans
<1>2. KeepsBans(b, [b EXCEPT !.new = Removed(b.new, p)])
  <2>1. ListOK(Removed(b.new, p), b.banned)
    BY RemovedOK DEF BookOK
  <2> QED  BY <2>1, BookParts
<1>3. \/ c = b \/ c = [b EXCEPT !.new = Removed(b.new, p)]
      \/ c = failed \/ c \in AddPeer(failed, p)
  BY DEF DowngradePeer
<1> HIDE DEF failed
<1>4. c \in AddPeer(failed, p) => KeepsBans(b, c)
  BY <1>1, AddPeerKeeps DEF KeepsBans
<1> QED  BY <1>1, <1>2, <1>3, <1>4, KeepsItself

LEMMA AddIfUnknownKeeps ==
  ASSUME NEW b, BookOK(b), NEW p \in Peer, NEW c \in AddIfUnknown(b, p)
  PROVE  KeepsBans(b, c)
<1>1. c = b \/ c \in AddPeer(b, p)
  BY DEF AddIfUnknown, AddOrThrow
<1> QED  BY <1>1, AddPeerKeeps, KeepsItself

LEMMA InfoUpdatedKeeps ==
  ASSUME NEW b, BookOK(b), NEW p \in Peer, NEW c \in InfoUpdated(b, p)
  PROVE  KeepsBans(b, c)
<1>1. PICK d \in AddIfUnknown(b, p) : c = d \/ c \in UpgradePeer(UpdatePeer(d, p), p)
  BY DEF InfoUpdated
<1>2. KeepsBans(b, d) /\ KeepsBans(d, UpdatePeer(d, p))
  BY AddIfUnknownKeeps, UpdatePeerKeeps DEF KeepsBans
<1>3. c \in UpgradePeer(UpdatePeer(d, p), p) => KeepsBans(UpdatePeer(d, p), c)
  BY <1>2, UpgradePeerKeeps DEF KeepsBans
<1> QED  BY <1>1, <1>2, <1>3 DEF KeepsBans

LEMMA BanOK ==
  ASSUME NEW b, BookOK(b), NEW ip \in Address
  PROVE  /\ BookOK(Ban(b, ip))
         /\ b.banned \subseteq Ban(b, ip).banned
         /\ ip \in BannedIPs(Ban(b, ip))
<1>1. CASE ip \in BannedIPs(b)
  BY <1>1 DEF Ban
<1>2. CASE ip \notin BannedIPs(b)
  <2> DEFINE ps == {p \in b.new.in \cup b.tried.in : IP[p] = ip}
             new == RemoveAll(b.new, ps)
             tried == RemoveAll(b.tried, ps)
             c == [b EXCEPT !.banned = b.banned \cup {ip}, !.new = new, !.tried = tried]
  <2>1. /\ b \in Book /\ ps \in SUBSET Peer
        /\ {p \in b.new.in : IP[p] = ip} \subseteq ps
        /\ {p \in b.tried.in : IP[p] = ip} \subseteq ps
    BY DEF BookOK, Book, List
  <2>2. Ban(b, ip) = c
    BY <1>2, <2>1 DEF Ban, Book
  <2> HIDE DEF ps
  <2>3. ListOK(new, b.banned \cup {ip}) /\ ListOK(tried, b.banned \cup {ip})
    BY <2>1, RemoveAllOK DEF BookOK
  <2> HIDE DEF new, tried
  <2>4. new \in List /\ tried \in List
    BY <2>3 DEF ListOK
  <2>5. /\ c \in Book /\ c.new = new /\ c.tried = tried
        /\ c.banned = b.banned \cup {ip}
    BY <2>1, <2>4 DEF Book
  <2> HIDE DEF c
  <2> QED  BY <2>2, <2>3, <2>5 DEF BookOK, BannedIPs
<1> QED  BY <1>1, <1>2

LEMMA UnbanOK ==
  ASSUME NEW b, BookOK(b), NEW ip
  PROVE  BookOK(Unban(b, ip)) /\ Unban(b, ip).banned = b.banned \ {ip}
<1> DEFINE c == [b EXCEPT !.banned = b.banned \ {ip}]
<1>1. b \in Book
  BY DEF BookOK
<1>2. /\ c \in Book /\ c.new = b.new /\ c.tried = b.tried
      /\ c.banned = b.banned \ {ip}
  BY <1>1 DEF Book
<1>3. Unban(b, ip) = c
  BY DEF Unban
<1> HIDE DEF c
<1>4. ListOK(c.new, c.banned) /\ ListOK(c.tried, c.banned)
  BY <1>2 DEF BookOK, ListOK
<1> QED  BY <1>2, <1>3, <1>4 DEF BookOK

LEMMA FirstBookOK == BookOK(FirstBook) /\ FirstBook.banned = {}
<1> DEFINE kept == {p \in Fixed \cup Whitelisted : IP[p] \notin Blacklisted}
           tried == [EmptyList EXCEPT !.in = kept, !.known = kept]
<1>1. EmptyList \in List /\ ListOK(EmptyList, {}) /\ kept \in SUBSET Peer
  BY EmptyListOK, BookAssumption DEF ListOK
<1>2. FirstBook = [new |-> EmptyList, banned |-> {}, tried |-> tried]
  BY DEF FirstBook
<1> HIDE DEF kept
<1>3. tried \in List /\ tried.in = kept /\ tried.known = kept /\ tried.bare = {}
  BY <1>1 DEF List, EmptyList
<1>4. ListOK(tried, {})
  BY <1>3 DEF ListOK
<1> HIDE DEF tried
<1>5. FirstBook \in Book
  BY <1>1, <1>2, <1>3 DEF Book
<1> QED  BY <1>1, <1>2, <1>4, <1>5 DEF BookOK

-----------------------------------------------------------------------------
(* Discovery: the peers of a list are added one after the other. The order *)
(* is not known, and each may be added in several ways or not at all.      *)

AddToAll(books, p) == UNION {AddIfUnknown(c, p) : c \in books}

IsDiscovery(g, b, ps) ==
  g = [s \in SUBSET ps |->
         IF s = {} THEN {b}
         ELSE AddToAll(g[s \ {CHOOSE p \in s : TRUE}], CHOOSE p \in s : TRUE)]

LEMMA DiscoveredKeeps ==
  ASSUME NEW b, BookOK(b), NEW ps \in SUBSET Peer, NEW c \in Discovered(b, ps)
  PROVE  KeepsBans(b, c)
<1> DEFINE Same == {d \in Book : KeepsBans(b, d)}
           X == SUBSET Same
           pick == [s \in SUBSET ps |-> CHOOSE p \in s : TRUE]
           G == [z \in ps \X X |-> AddToAll(z[2], z[1])]
<1>1. IsFiniteSet(ps)
  BY BookAssumption, FS_Subset
<1>2. Picks(pick, ps)
  BY DEF Picks
<1>3. {b} \in X
  BY KeepsItself DEF BookOK
<1>4. G \in [ps \X X -> X]
  <2> SUFFICES ASSUME NEW p \in ps, NEW S \in X, NEW d \in S, NEW e \in AddIfUnknown(d, p)
               PROVE  e \in Same
    BY DEF AddToAll
  <2>1. KeepsBans(b, d) /\ KeepsBans(d, e)
    BY AddIfUnknownKeeps DEF KeepsBans
  <2> QED  BY <2>1 DEF KeepsBans, BookOK
<1> HIDE DEF Same, G, pick, X
<1>5. PICK h \in [SUBSET ps -> X] : IsFold(h, ps, pick, {b}, G)
  BY <1>1, <1>2, <1>3, <1>4, FoldExists
<1>6. \A s \in SUBSET ps : s # {} =>
        /\ pick[s] = (CHOOSE p \in s : TRUE) /\ pick[s] \in ps
        /\ s \ {pick[s]} \in SUBSET ps
  BY <1>2 DEF Picks, pick
<1>7. \A p \in ps, S \in X : G[<<p, S>>] = AddToAll(S, p)
  BY DEF G
<1>8. IsDiscovery(h, b, ps)
  <2>1. \A s \in SUBSET ps : s # {} =>
          h[s] = AddToAll(h[s \ {CHOOSE p \in s : TRUE}], CHOOSE p \in s : TRUE)
    <3> SUFFICES ASSUME NEW s \in SUBSET ps, s # {}
                 PROVE  h[s] = AddToAll(h[s \ {pick[s]}], pick[s])
      BY <1>6
    <3>1. h[s \ {pick[s]}] \in X
      BY <1>6
    <3>2. h[s] = G[<<pick[s], h[s \ {pick[s]}]>>]
      BY <1>5 DEF IsFold
    <3> QED  BY <1>6, <1>7, <3>1, <3>2
  <2>2. h[{}] = {b}
    BY <1>5 DEF IsFold
  <2>3. h = [s \in SUBSET ps |-> h[s]]
    OBVIOUS
  <2> QED  BY <2>1, <2>2, <2>3 DEF IsDiscovery
<1> DEFINE g == CHOOSE f : IsDiscovery(f, b, ps)
<1>9. IsDiscovery(g, b, ps)
  BY <1>8
<1>10. Discovered(b, ps) = g[ps]
  BY DEF Discovered, FoldSet, MapThenFoldSet, IsDiscovery, AddToAll
<1> HIDE DEF g
<1>11. g[{}] = {b}
  BY <1>9 DEF IsDiscovery
<1>12. FoldsIn(X, g, ps, pick, {b}, G)
  <2> SUFFICES ASSUME NEW s \in SUBSET ps, s # {}, g[s \ {pick[s]}] \in X
               PROVE  g[s] = G[<<pick[s], g[s \ {pick[s]}]>>]
    BY <1>11 DEF FoldsIn
  <2>1. g[s] = AddToAll(g[s \ {pick[s]}], pick[s])
    BY <1>6, <1>9 DEF IsDiscovery
  <2> QED  BY <1>6, <1>7, <2>1
<1>13. g[ps] = h[ps]
  BY <1>1, <1>2, <1>3, <1>5, <1>12, FoldOnly
<1>14. h[ps] \in X
  OBVIOUS
<1> QED  BY <1>10, <1>13, <1>14 DEF X, Same

-----------------------------------------------------------------------------
(* Connecting to the peers of a list, one after the other.                 *)

Stage == OutboundStage \cup {"none", "in", "exempt"}
Pool == [Peer -> Stage]

OneEachIP(conns) ==
  \A p, q \in Outbound(conns) : p # q => IP[p] # IP[q] \/ IP[p] = LocalIP

\* after differs from before in peers of ps that are now being connected to.
ConnectsTo(ps, before, after) ==
  /\ after \in Pool
  /\ \A p \in Peer :
       \/ after[p] = before[p]
       \/ /\ p \in ps /\ before[p] = "none" /\ after[p] = "connecting"
          /\ IP[p] \notin BannedIPs(book)
  /\ OneEachIP(before) => OneEachIP(after)

LEMMA AddOutboundConnects ==
  ASSUME NEW ps \in SUBSET Peer, NEW before \in Pool, NEW conns, NEW p \in ps,
         ConnectsTo(ps, before, conns)
  PROVE  ConnectsTo(ps, before, AddOutbound(conns, p))
<1>1. CASE AddOutbound(conns, p) = conns
  BY <1>1
<1>2. CASE /\ conns[p] = "none" /\ IP[p] \notin BannedIPs(book)
           /\ \A q \in Outbound(conns) : IP[q] # IP[p] \/ IP[p] = LocalIP
           /\ AddOutbound(conns, p) = [conns EXCEPT ![p] = "connecting"]
  <2> DEFINE c == AddOutbound(conns, p)
  <2>1. /\ c \in Pool /\ c[p] = "connecting"
        /\ \A q \in Peer : q # p => c[q] = conns[q]
    BY <1>2 DEF ConnectsTo, Pool, Stage, OutboundStage
  <2>2. before[p] = "none"
    BY <1>2 DEF ConnectsTo
  <2> HIDE DEF c
  <2>3. OneEachIP(before) => OneEachIP(c)
    <3> SUFFICES ASSUME OneEachIP(conns) PROVE OneEachIP(c)
      BY DEF ConnectsTo
    <3>1. Outbound(c) = Outbound(conns) \cup {p}
      BY <2>1 DEF Outbound, OutboundStage
    <3> QED  BY <1>2, <3>1 DEF OneEachIP
  <2>4. ConnectsTo(ps, before, c)
    BY <1>2, <2>1, <2>2, <2>3 DEF ConnectsTo
  <2> QED  BY <2>4 DEF c
<1> QED  BY <1>1, <1>2 DEF AddOutbound

IsConnecting(g, conns, seq) ==
  g = [s \in SUBSET DOMAIN seq |->
         IF s = {} THEN conns
         ELSE AddOutbound(g[s \ {Max(s)}], seq[Max(s)])]

LEMMA Greatest ==
  ASSUME NEW n \in Nat, NEW s \in SUBSET (1..n), s # {}
  PROVE  Max(s) \in s
<1> DEFINE C == {n - x : x \in s}
<1>1. C \in SUBSET Nat /\ C # {}
  <2>1. \A x \in s : n - x \in Nat
    OBVIOUS
  <2> QED  BY <2>1
<1>2. \E x \in s : \A y \in s : x >= y
  <2> SUFFICES ASSUME \A x \in s : \E y \in s : x < y PROVE FALSE
    OBVIOUS
  <2> DEFINE Less == {p \in Nat \X Nat : p[1] < p[2]}
  <2>1. IsWellFoundedOn(Less, Nat)
    BY NatLessThanWellFounded DEF OpToRel
  <2>2. PICK m \in C : \A k \in C : ~(<<k, m>> \in Less)
    BY <1>1, <2>1, WFMin, Zenon
  <2>3. PICK x \in s : m = n - x
    OBVIOUS
  <2>4. PICK y \in s : x < y
    OBVIOUS
  <2>5. n - y \in C /\ <<n - y, m>> \in Less
    BY <2>3, <2>4
  <2> QED  BY <2>2, <2>5
<1> QED  BY <1>2 DEF Max

Lists(seq, ps) == seq \in Seq(Peer) /\ \A i \in 1..Len(seq) : seq[i] \in ps

LEMMA AddEachConnects ==
  ASSUME NEW conns \in Pool, NEW ps \in SUBSET Peer, NEW seq, Lists(seq, ps)
  PROVE  ConnectsTo(ps, conns, AddEach(conns, seq))
<1> DEFINE D == 1..Len(seq)
           X == {c \in Pool : ConnectsTo(ps, conns, c)}
           pick == [s \in SUBSET D |-> Max(s)]
           G == [z \in D \X X |-> AddOutbound(z[2], seq[z[1]])]
<1>1. /\ IsFiniteSet(D) /\ DOMAIN seq = D
      /\ \A s \in SUBSET D : s # {} => Max(s) \in s
  <2>1. Len(seq) \in Nat /\ IsFiniteSet(D) /\ DOMAIN seq = D
    BY FS_Interval DEF Lists
  <2> QED  BY <2>1, Greatest
<1>2. Picks(pick, D)
  BY <1>1 DEF Picks
<1>3. conns \in X
  BY DEF ConnectsTo
<1>4. G \in [D \X X -> X]
  <2> SUFFICES ASSUME NEW i \in D, NEW c \in X PROVE AddOutbound(c, seq[i]) \in X
    OBVIOUS
  <2>1. ConnectsTo(ps, conns, AddOutbound(c, seq[i]))
    BY AddOutboundConnects DEF Lists
  <2> QED  BY <2>1 DEF ConnectsTo
<1> HIDE DEF D, X, pick, G
<1>5. PICK h \in [SUBSET D -> X] : IsFold(h, D, pick, conns, G)
  BY <1>1, <1>2, <1>3, <1>4, FoldExists
<1>6. \A s \in SUBSET D : s # {} =>
        /\ pick[s] = Max(s) /\ pick[s] \in D /\ s \ {pick[s]} \in SUBSET D
  BY <1>2 DEF Picks, pick
<1>7. \A i \in D, c \in X : G[<<i, c>>] = AddOutbound(c, seq[i])
  BY DEF G
<1>8. IsConnecting(h, conns, seq)
  <2>1. \A s \in SUBSET D : s # {} => h[s] = AddOutbound(h[s \ {Max(s)}], seq[Max(s)])
    <3> SUFFICES ASSUME NEW s \in SUBSET D, s # {}
                 PROVE  h[s] = AddOutbound(h[s \ {pick[s]}], seq[pick[s]])
      BY <1>6
    <3>1. h[s \ {pick[s]}] \in X
      BY <1>6
    <3>2. h[s] = G[<<pick[s], h[s \ {pick[s]}]>>]
      BY <1>5 DEF IsFold
    <3> QED  BY <1>6, <1>7, <3>1, <3>2
  <2>2. h[{}] = conns
    BY <1>5 DEF IsFold
  <2>3. h = [s \in SUBSET D |-> h[s]]
    OBVIOUS
  <2> QED  BY <1>1, <2>1, <2>2, <2>3 DEF IsConnecting
<1> DEFINE g == CHOOSE f : IsConnecting(f, conns, seq)
<1>9. IsConnecting(g, conns, seq)
  BY <1>8
<1>10. AddEach(conns, seq) = g[D]
  BY <1>1 DEF AddEach, FoldLeft, MapThenFoldSet, IsConnecting
<1> HIDE DEF g
<1>11. g[{}] = conns
  BY <1>9 DEF IsConnecting
<1>12. FoldsIn(X, g, D, pick, conns, G)
  <2> SUFFICES ASSUME NEW s \in SUBSET D, s # {}, g[s \ {pick[s]}] \in X
               PROVE  g[s] = G[<<pick[s], g[s \ {pick[s]}]>>]
    BY <1>11 DEF FoldsIn
  <2>1. g[s] = AddOutbound(g[s \ {pick[s]}], seq[pick[s]])
    BY <1>1, <1>6, <1>9 DEF IsConnecting
  <2> QED  BY <1>6, <1>7, <2>1
<1>13. g[D] = h[D]
  <2>1. IsFiniteSet(D)
    BY <1>1
  <2> QED  BY <1>2, <1>3, <1>5, <1>12, <2>1, FoldOnly
<1>14. h[D] \in X
  OBVIOUS
<1> QED  BY <1>10, <1>13, <1>14 DEF X

LEMMA ListOfSet ==
  ASSUME NEW S \in SUBSET Peer
  PROVE  /\ Lists(SetToSeq(S), S)
         /\ Len(SetToSeq(S)) = Cardinality(S) /\ Cardinality(S) \in Nat
<1>1. IsFiniteSet(S) /\ Cardinality(S) \in Nat
  BY BookAssumption, FS_Subset, FS_CardinalityType
<1>2. ExistsBijection(1..Cardinality(S), S)
  BY <1>1, FS_CardinalityType
<1>3. PICK f : f \in Bijection(1..Cardinality(S), S)
  BY <1>2 DEF ExistsBijection
<1>4. f \in [1..Cardinality(S) -> S] /\ IsInjective(f)
  BY <1>3 DEF Bijection, Injection, IsInjective
<1>5. SetToSeq(S) \in [1..Cardinality(S) -> S]
  BY <1>4 DEF SetToSeq
<1>6. SetToSeq(S) \in Seq(Peer) /\ Len(SetToSeq(S)) = Cardinality(S)
  BY <1>1, <1>5
<1> QED  BY <1>1, <1>5, <1>6 DEF Lists

LEMMA ListOfBoth ==
  ASSUME NEW S \in SUBSET Peer, NEW T \in SUBSET Peer
  PROVE  Lists(SetToSeq(S) \o SetToSeq(T), S \cup T)
<1> DEFINE a == SetToSeq(S)
           b == SetToSeq(T)
<1>1. Lists(a, S) /\ Lists(b, T)
  BY ListOfSet
<1> HIDE DEF a, b
<1>2. a \o b \in Seq(Peer) /\ Len(a \o b) = Len(a) + Len(b)
  BY <1>1 DEF Lists
<1>3. \A i \in 1..Len(a \o b) :
        (a \o b)[i] = IF i <= Len(a) THEN a[i] ELSE b[i - Len(a)]
  BY <1>1 DEF Lists
<1>4. ASSUME NEW i \in 1..Len(a \o b)
      PROVE  (a \o b)[i] \in S \cup T
  <2>1. Len(a) \in Nat /\ Len(b) \in Nat
    BY <1>1 DEF Lists
  <2>2. CASE i <= Len(a)
    BY <1>1, <1>3, <2>1, <2>2 DEF Lists
  <2>3. CASE ~(i <= Len(a))
    <3>1. i - Len(a) \in 1..Len(b)
      BY <1>2, <2>1, <2>3
    <3> QED  BY <1>1, <1>3, <2>3, <3>1 DEF Lists
  <2> QED  BY <2>2, <2>3
<1> QED  BY <1>2, <1>4 DEF Lists, a, b

-----------------------------------------------------------------------------
(* Choosing whom to connect to.                                            *)

WithinSlots(conns) == Cardinality(Outbound(conns) \ Fixed) <= MaxOutbound

\* What looking for peers does to the pool: inbound connections stay, new
\* outbound ones are to other addresses, none of them banned.
Reconnects(before, after) ==
  /\ after \in Pool
  /\ \A p \in Peer :
       /\ before[p] \in {"in", "exempt"} \/ after[p] \in {"in", "exempt"} =>
            after[p] = before[p]
       /\ p \in Outbound(after) =>
            p \in Outbound(before) \/ IP[p] \notin BannedIPs(book)
  /\ OneEachIP(before) => OneEachIP(after)

LEMMA ReconnectsTransitive ==
  ASSUME NEW a, NEW b, NEW c, Reconnects(a, b), Reconnects(b, c)
  PROVE  Reconnects(a, c)
BY DEF Reconnects

LEMMA Sizes ==
  ASSUME NEW S \in SUBSET Peer, NEW T \in SUBSET Peer
  PROVE  /\ Cardinality(S) \in Nat /\ Cardinality(T) \in Nat
         /\ Cardinality(S \cup T) <= Cardinality(S) + Cardinality(T)
         /\ S \subseteq T => Cardinality(S) <= Cardinality(T)
<1>1. IsFiniteSet(S) /\ IsFiniteSet(T)
  BY BookAssumption, FS_Subset
<1>2. Cardinality(S) \in Nat /\ Cardinality(T) \in Nat
  BY <1>1, FS_CardinalityType
<1>3. /\ Cardinality(S \cup T) = Cardinality(S) + Cardinality(T) - Cardinality(S \cap T)
      /\ Cardinality(S \cap T) \in Nat
  BY <1>1, FS_Union, FS_Intersection, FS_CardinalityType
<1>4. S \subseteq T => Cardinality(S) <= Cardinality(T)
  BY <1>1, FS_Subset
<1> QED  BY <1>2, <1>3, <1>4

LEMMA FreeSlots ==
  ASSUME NEW conns \in Pool
  PROVE  /\ FreeOutboundSlots(conns) \in Int
         /\ FreeOutboundSlots(conns) + Cardinality(Outbound(conns)) <= MaxOutbound
         /\ FreeOutboundSlots(conns) =
              MaxOutbound - Cardinality(Disconnected(Fixed, conns))
                          - Cardinality(Outbound(conns))
<1>1. /\ Outbound(conns) \in SUBSET Peer
      /\ Disconnected(Fixed, conns) \in SUBSET Peer
  BY BookAssumption DEF Outbound, Disconnected
<1>2. /\ Cardinality(Outbound(conns)) \in Nat
      /\ Cardinality(Disconnected(Fixed, conns)) \in Nat
  BY <1>1, Sizes
<1>3. MaxOutbound \in Nat
  BY P2PAssumption
<1> QED  BY <1>2, <1>3 DEF FreeOutboundSlots

LEMMA SelectedFew ==
  ASSUME NEW candidates \in SUBSET Peer, NEW limit \in Int,
         NEW s \in SelectForConnection(candidates, limit)
  PROVE  /\ s \in SUBSET Peer
         /\ limit > 0 => Cardinality(s) <= limit
         /\ limit <= 0 => s = {}
<1>1. CASE limit < 0
  BY <1>1 DEF SelectForConnection
<1>2. CASE limit >= 0
  <2>1. \/ limit >= Cardinality(candidates) /\ s \subseteq candidates
        \/ \E drawn \in SUBSET candidates : Cardinality(drawn) = limit /\ s \subseteq drawn
    BY <1>2 DEF SelectForConnection
  <2>2. PICK drawn \in SUBSET Peer : s \subseteq drawn /\ Cardinality(drawn) <= limit
    <3>1. CASE limit >= Cardinality(candidates) /\ s \subseteq candidates
      BY <3>1
    <3>2. CASE \E drawn \in SUBSET candidates : Cardinality(drawn) = limit /\ s \subseteq drawn
      BY <3>2
    <3> QED  BY <2>1, <3>1, <3>2
  <2>3. s \in SUBSET Peer
    BY <2>2
  <2>4. Cardinality(s) <= limit /\ Cardinality(s) \in Nat
    <3>1. /\ Cardinality(s) <= Cardinality(drawn)
          /\ Cardinality(s) \in Nat /\ Cardinality(drawn) \in Nat
      BY <2>2, <2>3, Sizes
    <3> QED  BY <2>2, <3>1
  <2>5. limit <= 0 => s = {}
    <3>1. IsFiniteSet(s)
      BY <2>3, BookAssumption, FS_Subset
    <3> QED  BY <1>2, <2>4, <3>1, FS_EmptySet
  <2> QED  BY <2>3, <2>4, <2>5
<1> QED  BY <1>1, <1>2

LEMMA WithoutSeedsReconnects ==
  ASSUME NEW conns \in Pool
  PROVE  /\ Reconnects(conns, WithoutSeeds(conns))
         /\ Outbound(WithoutSeeds(conns)) \subseteq Outbound(conns)
<1> DEFINE rest == WithoutSeeds(conns)
<1>1. /\ rest \in Pool
      /\ \A p \in Peer : rest[p] = conns[p] \/ (rest[p] = "none" /\ p \in Outbound(conns))
  BY DEF WithoutSeeds, Pool, Stage
<1> HIDE DEF rest
<1>2. Outbound(rest) \subseteq Outbound(conns)
  BY <1>1 DEF Outbound, OutboundStage
<1>3. \A p \in Peer : conns[p] \in {"in", "exempt"} \/ rest[p] \in {"in", "exempt"} =>
                        rest[p] = conns[p]
  BY <1>1 DEF Outbound, OutboundStage
<1>4. OneEachIP(conns) => OneEachIP(rest)
  BY <1>2 DEF OneEachIP
<1>5. Reconnects(conns, rest)
  BY <1>1, <1>2, <1>3, <1>4 DEF Reconnects
<1> QED  BY <1>2, <1>5 DEF rest

LEMMA ConnectsReconnects ==
  ASSUME NEW before, NEW after, NEW ps, ConnectsTo(ps, before, after)
  PROVE  /\ Reconnects(before, after)
         /\ Outbound(after) \subseteq Outbound(before) \cup ps
BY DEF ConnectsTo, Reconnects, Outbound

\* The limit is kept if few are added, or fixed ones only.
LEMMA SlotsKept ==
  ASSUME NEW before, NEW after, NEW s \in SUBSET Peer,
         Outbound(after) \subseteq Outbound(before) \cup s \cup Fixed,
         \/ Cardinality(Outbound(before)) + Cardinality(s) <= MaxOutbound
         \/ s = {},
         WithinSlots(before)
  PROVE  WithinSlots(after)
<1> DEFINE A == Outbound(after) \ Fixed
           B == Outbound(before) \ Fixed
           O == Outbound(before)
<1>1. /\ A \in SUBSET Peer /\ B \in SUBSET Peer /\ O \in SUBSET Peer
      /\ O \cup s \in SUBSET Peer
      /\ A \subseteq O \cup s
      /\ s = {} => A \subseteq B
  BY DEF Outbound
<1>2. Cardinality(B) <= MaxOutbound
  BY DEF WithinSlots
<1>3. WithinSlots(after) <=> Cardinality(A) <= MaxOutbound
  BY DEF WithinSlots
<1>4. Cardinality(O) + Cardinality(s) <= MaxOutbound \/ s = {}
  OBVIOUS
<1> HIDE DEF A, B, O
<1>5. Cardinality(A) <= Cardinality(O \cup s) /\ Cardinality(O \cup s) \in Nat
  BY <1>1, Sizes
<1>6. Cardinality(O \cup s) <= Cardinality(O) + Cardinality(s)
  BY <1>1, Sizes
<1>7. /\ s = {} => Cardinality(A) <= Cardinality(B)
      /\ Cardinality(A) \in Nat /\ Cardinality(B) \in Nat
  BY <1>1, Sizes
<1>8. Cardinality(O) \in Nat /\ Cardinality(s) \in Nat
  BY <1>1, Sizes
<1>9. MaxOutbound \in Nat
  BY P2PAssumption
<1> QED  BY <1>2, <1>3, <1>4, <1>5, <1>6, <1>7, <1>8, <1>9

LEMMA NewConnectionsReconnect ==
  ASSUME NEW conns \in Pool, BookOK(book), NEW after \in NewConnections(conns)
  PROVE  /\ Reconnects(conns, after)
         /\ WithinSlots(conns) => WithinSlots(after)
<1> DEFINE free == FreeOutboundSlots(conns)
           candidates == Disconnected(NewPeers(book) \cup TriedPeers(book), conns)
           rest == IF free = 0 THEN WithoutSeeds(conns) ELSE conns
           fixed == Disconnected(Fixed, conns)
<1>1. PICK s \in SelectForConnection(candidates, free) :
        after = AddEach(rest, SetToSeq(s) \o SetToSeq(fixed))
  BY DEF NewConnections
<1>2. candidates \in SUBSET Peer /\ fixed \in SUBSET Fixed /\ fixed \in SUBSET Peer
  BY BookAssumption DEF Disconnected, NewPeers, TriedPeers, BookOK, Book, List
<1>3. free \in Int /\ free + Cardinality(Outbound(conns)) <= MaxOutbound
  BY FreeSlots
<1>4. /\ rest \in Pool /\ Reconnects(conns, rest)
      /\ Outbound(rest) \subseteq Outbound(conns)
  <2>1. Reconnects(conns, conns) /\ Reconnects(conns, WithoutSeeds(conns))
    BY WithoutSeedsReconnects DEF Reconnects
  <2> QED  BY <2>1, WithoutSeedsReconnects DEF Reconnects
<1> HIDE DEF free, candidates, rest, fixed
<1>5. s \in SUBSET Peer /\ (free > 0 => Cardinality(s) <= free) /\ (free <= 0 => s = {})
  BY <1>1, <1>2, <1>3, SelectedFew
<1>6. ConnectsTo(s \cup fixed, rest, after)
  <2>1. Lists(SetToSeq(s) \o SetToSeq(fixed), s \cup fixed) /\ s \cup fixed \in SUBSET Peer
    BY <1>2, <1>5, ListOfBoth
  <2> QED  BY <1>1, <1>4, <2>1, AddEachConnects
<1>7. /\ Reconnects(rest, after)
      /\ Outbound(after) \subseteq Outbound(conns) \cup s \cup Fixed
  BY <1>2, <1>4, <1>6, ConnectsReconnects
<1>8. \/ Cardinality(Outbound(conns)) + Cardinality(s) <= MaxOutbound
      \/ s = {}
  <2>1. Outbound(conns) \in SUBSET Peer
    BY DEF Outbound
  <2>2. Cardinality(Outbound(conns)) \in Nat /\ Cardinality(s) \in Nat
    BY <1>5, <2>1, Sizes
  <2>3. MaxOutbound \in Nat
    BY P2PAssumption
  <2> QED  BY <1>3, <1>5, <2>2, <2>3
<1>9. WithinSlots(conns) => WithinSlots(after)
  BY <1>5, <1>7, <1>8, SlotsKept
<1> QED  BY <1>4, <1>7, <1>9, ReconnectsTransitive

LEMMA SeedConnectionsReconnect ==
  ASSUME NEW conns \in Pool
  PROVE  /\ Reconnects(conns, SeedConnections(conns))
         /\ FreeOutboundSlots(conns) >= 0 /\ WithinSlots(conns) =>
              WithinSlots(SeedConnections(conns))
<1> DEFINE free == FreeOutboundSlots(conns)
           k == IF free < 0 THEN Len(SeedSeq) + free
                ELSE IF free < Len(SeedSeq) THEN free ELSE Len(SeedSeq)
           seq == SubSeq(SeedSeq, 1, k)
           s == {SeedSeq[i] : i \in 1..k}
           after == SeedConnections(conns)
<1>1. CASE free = 0
  BY <1>1 DEF SeedConnections, Reconnects
<1>2. CASE free # 0
  <2>1. free \in Int /\ free + Cardinality(Outbound(conns)) <= MaxOutbound
    BY FreeSlots
  <2>2. Lists(SeedSeq, Seed) /\ Len(SeedSeq) \in Nat
    <3>1. Seed \in SUBSET Peer
      BY BookAssumption
    <3> QED  BY <3>1, ListOfSet DEF SeedSeq
  <2>3. after = AddEach(conns, seq)
    BY <1>2 DEF SeedConnections, SeedsFor
  <2>4. k \in Int /\ k <= Len(SeedSeq) /\ (free >= 0 => k \in Nat /\ k <= free)
    BY <2>1, <2>2
  <2> HIDE DEF k, free, after
  <2>5. s \in SUBSET Peer
    BY <2>2, <2>4 DEF Lists
  <2>6. k \in Nat => Cardinality(s) <= k
    <3> SUFFICES ASSUME k \in Nat PROVE Cardinality(s) <= k
      OBVIOUS
    <3> DEFINE f == [i \in 1..k |-> SeedSeq[i]]
    <3>1. f \in Surjection(1..k, s)
      BY DEF Surjection
    <3>2. ExistsSurjection(1..k, s)
      BY <3>1 DEF ExistsSurjection
    <3> QED  BY <3>2, FS_SurjCardinalityBound
  <2>7. Lists(seq, s)
    <3>1. CASE k \in Nat
      <4>1. Len(seq) = k /\ \A i \in 1..k : seq[i] = SeedSeq[i]
        BY <2>2, <2>4, <3>1 DEF Lists
      <4>2. seq \in Seq(Peer)
        BY <2>2, <2>4, <3>1 DEF Lists
      <4> QED  BY <4>1, <4>2 DEF Lists
    <3>2. CASE k \notin Nat
      <4>1. seq = <<>>
        BY <2>2, <2>4, <3>2 DEF Lists
      <4> HIDE DEF seq, s
      <4>2. Len(seq) = 0 /\ seq \in Seq(Peer)
        BY <4>1
      <4> QED  BY <4>2 DEF Lists
    <3> QED  BY <3>1, <3>2
  <2> HIDE DEF s, seq
  <2>8. ConnectsTo(s, conns, after)
    BY <2>3, <2>5, <2>7, AddEachConnects
  <2>9. Reconnects(conns, after) /\ Outbound(after) \subseteq Outbound(conns) \cup s \cup Fixed
    BY <2>8, ConnectsReconnects
  <2>10. free >= 0 => Cardinality(Outbound(conns)) + Cardinality(s) <= MaxOutbound
    <3>1. Outbound(conns) \in SUBSET Peer
      BY DEF Outbound
    <3>2. Cardinality(Outbound(conns)) \in Nat /\ Cardinality(s) \in Nat
      BY <2>5, <3>1, Sizes
    <3>3. MaxOutbound \in Nat
      BY P2PAssumption
    <3> QED  BY <2>1, <2>4, <2>6, <3>2, <3>3
  <2>11. free >= 0 /\ WithinSlots(conns) => WithinSlots(after)
    BY <2>5, <2>9, <2>10, SlotsKept
  <2> QED  BY <2>9, <2>11 DEF free, after
<1> QED  BY <1>1, <1>2

-----------------------------------------------------------------------------
(* The invariant.                                                          *)

Ins(conns) == {p \in Peer : conns[p] = "in"}

InBounded(conns) ==
  ~Protection => Cardinality(Inbound(conns)) <= MaxInbound \/ Cardinality(Ins(conns)) <= 1

PoolOK(conns) == conns \in Pool /\ OneEachIP(conns) /\ InBounded(conns)

\* Who was expelled has a banned address, so nobody connects to it, and is not
\* connected to.
Barred(conns, b, out) ==
  \A p \in out : IP[p] \in BannedIPs(b) /\ p \notin Outbound(conns)

NetTypes ==
  /\ handshaken \in SUBSET Peer /\ asked \in SUBSET Peer /\ expelled \in SUBSET Peer
  /\ active \in {"stopped", "starting", "on", "stopping", "done"}

NetInv ==
  /\ NetTypes
  /\ PoolOK(pool)
  /\ BookOK(book)
  /\ Barred(pool, book, expelled)

\* No connection is made that was not there.
Calmer(before, after) ==
  /\ after \in Pool
  /\ Outbound(after) \subseteq Outbound(before)
  /\ Inbound(after) \subseteq Inbound(before)
  /\ Ins(after) \subseteq Ins(before)

LEMMA InBoundedKept ==
  ASSUME NEW before, NEW after, InBounded(before),
         Inbound(after) \subseteq Inbound(before), Ins(after) \subseteq Ins(before)
  PROVE  InBounded(after)
<1>1. /\ Inbound(before) \in SUBSET Peer /\ Inbound(after) \in SUBSET Peer
      /\ Ins(before) \in SUBSET Peer /\ Ins(after) \in SUBSET Peer
  BY DEF Inbound, Ins
<1>2. /\ Cardinality(Inbound(after)) <= Cardinality(Inbound(before))
      /\ Cardinality(Inbound(after)) \in Nat /\ Cardinality(Inbound(before)) \in Nat
  BY <1>1, Sizes
<1>3. /\ Cardinality(Ins(after)) <= Cardinality(Ins(before))
      /\ Cardinality(Ins(after)) \in Nat /\ Cardinality(Ins(before)) \in Nat
  BY <1>1, Sizes
<1>4. MaxInbound \in Nat
  BY P2PAssumption
<1> QED  BY <1>2, <1>3, <1>4 DEF InBounded

LEMMA CalmerKeeps ==
  ASSUME NEW before, NEW after, Calmer(before, after), PoolOK(before)
  PROVE  PoolOK(after)
<1>1. InBounded(after)
  BY InBoundedKept DEF Calmer, PoolOK
<1> QED  BY <1>1 DEF Calmer, PoolOK, OneEachIP

LEMMA ReconnectsKeeps ==
  ASSUME NEW before, NEW after, Reconnects(before, after), PoolOK(before)
  PROVE  PoolOK(after)
<1>1. Inbound(after) \subseteq Inbound(before) /\ Ins(after) \subseteq Ins(before)
  BY DEF Reconnects, Inbound, Ins
<1>2. InBounded(after)
  BY <1>1, InBoundedKept DEF PoolOK
<1> QED  BY <1>2 DEF Reconnects, PoolOK

\* A connection that changes its stage, or ends.
LEMMA StageCalmer ==
  ASSUME NEW before, PoolOK(before), NEW p \in Peer, NEW stage
  PROVE  /\ stage = "none" => Calmer(before, [before EXCEPT ![p] = stage])
         /\ p \in Outbound(before) /\ stage \in OutboundStage =>
              Calmer(before, [before EXCEPT ![p] = stage])
<1> DEFINE after == [before EXCEPT ![p] = stage]
<1>1. before \in Pool
  BY DEF PoolOK
<1>2. after[p] = stage /\ \A q \in Peer : q # p => after[q] = before[q]
  BY <1>1 DEF Pool
<1>3. stage \in Stage => after \in Pool
  BY <1>1 DEF Pool
<1> HIDE DEF after
<1>4. stage = "none" => Calmer(before, after)
  BY <1>2, <1>3 DEF Calmer, Stage, OutboundStage, Outbound, Inbound, Ins
<1>5. p \in Outbound(before) /\ stage \in OutboundStage => Calmer(before, after)
  BY <1>2, <1>3 DEF Calmer, Stage, OutboundStage, Outbound, Inbound, Ins
<1> QED  BY <1>4, <1>5 DEF after

LEMMA NoneCalmer ==
  ASSUME NEW before, NEW after, after = [p \in Peer |-> "none"]
  PROVE  Calmer(before, after)
<1>1. after \in Pool
  BY DEF Pool, Stage
<1>2. \A p \in Peer : after[p] = "none"
  OBVIOUS
<1> QED  BY <1>1, <1>2 DEF Calmer, OutboundStage, Outbound, Inbound, Ins

\* An inbound connection takes the place of another when there is no more room.
LEMMA InboundKeeps ==
  ASSUME NEW before, PoolOK(before), NEW p \in Peer, before[p] = "none",
         NEW conns \in EvictInbound(before), NEW stage \in {"in", "exempt"}
  PROVE  /\ PoolOK([conns EXCEPT ![p] = stage])
         /\ Outbound([conns EXCEPT ![p] = stage]) \subseteq Outbound(before)
<1> DEFINE free == Ins(before)
           after == [conns EXCEPT ![p] = stage]
<1>1. before \in Pool /\ OneEachIP(before) /\ InBounded(before)
  BY DEF PoolOK
<1>2. \/ conns = before /\ Cardinality(Inbound(before)) < MaxInbound
      \/ conns = before /\ (Protection \/ free = {})
      \/ \E q \in free : conns = [before EXCEPT ![q] = "none"]
  BY DEF EvictInbound, Ins
<1>3. /\ conns \in Pool
      /\ Outbound(conns) \subseteq Outbound(before)
      /\ conns[p] = "none"
  <2>1. ASSUME NEW q \in free PROVE Calmer(before, [before EXCEPT ![q] = "none"])
    BY <2>1, StageCalmer DEF Ins
  <2>2. CASE conns = before
    BY <1>1, <2>2
  <2>3. CASE \E q \in free : conns = [before EXCEPT ![q] = "none"]
    BY <1>1, <2>1, <2>3 DEF Calmer, Pool
  <2> QED  BY <1>2, <2>2, <2>3
<1>4. /\ after \in Pool /\ after[p] = stage
      /\ \A q \in Peer : q # p => after[q] = conns[q]
  BY <1>3 DEF Pool, Stage
<1> HIDE DEF after
<1>5. Outbound(after) \subseteq Outbound(before)
  BY <1>3, <1>4 DEF Outbound, OutboundStage
<1>6. OneEachIP(after)
  BY <1>1, <1>5 DEF OneEachIP
<1>7. /\ Inbound(after) = Inbound(conns) \cup {p} /\ p \notin Inbound(conns)
      /\ Ins(after) \subseteq Ins(conns) \cup {p}
  BY <1>3, <1>4 DEF Inbound, Ins
<1>8. /\ IsFiniteSet(Inbound(before)) /\ IsFiniteSet(Ins(before))
      /\ IsFiniteSet(Inbound(conns)) /\ IsFiniteSet(Ins(conns))
      /\ IsFiniteSet(Ins(after))
  <2>1. /\ Inbound(before) \in SUBSET Peer /\ Ins(before) \in SUBSET Peer
        /\ Inbound(conns) \in SUBSET Peer /\ Ins(conns) \in SUBSET Peer
        /\ Ins(after) \in SUBSET Peer
    BY DEF Inbound, Ins
  <2> QED  BY <2>1, BookAssumption, FS_Subset
<1>9. /\ Cardinality(Inbound(after)) = Cardinality(Inbound(conns)) + 1
      /\ Cardinality(Inbound(conns)) \in Nat
      /\ Cardinality(Inbound(before)) \in Nat
  BY <1>7, <1>8, FS_AddElement, FS_CardinalityType
<1>10. MaxInbound \in Nat
  BY P2PAssumption
<1>11. InBounded(after)
  <2> SUFFICES ASSUME ~Protection
               PROVE  \/ Cardinality(Inbound(after)) <= MaxInbound
                      \/ Cardinality(Ins(after)) <= 1
    BY DEF InBounded
  <2>1. CASE conns = before /\ Cardinality(Inbound(before)) < MaxInbound
    BY <1>9, <1>10, <2>1
  <2>2. CASE conns = before /\ (Protection \/ free = {})
    <3>1. Ins(after) \in SUBSET {p}
      BY <1>7, <2>2
    <3>2. Cardinality(Ins(after)) <= 1
      <4>1. IsFiniteSet({p}) /\ Cardinality({p}) = 1
        BY FS_Singleton
      <4> QED  BY <3>1, <4>1, FS_Subset
    <3> QED  BY <3>2
  <2>3. CASE \E q \in free : conns = [before EXCEPT ![q] = "none"]
    <3>1. PICK q \in free : conns = [before EXCEPT ![q] = "none"]
      BY <2>3
    <3>2. /\ Inbound(conns) = Inbound(before) \ {q} /\ q \in Inbound(before)
          /\ Ins(conns) = Ins(before) \ {q} /\ q \in Ins(before)
      BY <1>1, <3>1 DEF Inbound, Ins, Pool
    <3>3. Cardinality(Inbound(conns)) = Cardinality(Inbound(before)) - 1
      BY <1>8, <3>2, FS_RemoveElement
    <3>4. CASE Cardinality(Inbound(before)) <= MaxInbound
      BY <1>9, <1>10, <3>3, <3>4
    <3>5. CASE Cardinality(Ins(before)) <= 1
      <4>1. Cardinality(Ins(conns)) = Cardinality(Ins(before)) - 1
        BY <1>8, <3>2, FS_RemoveElement
      <4>2. Cardinality(Ins(conns)) \in Nat /\ Cardinality(Ins(before)) \in Nat
        BY <1>8, FS_CardinalityType
      <4>3. Cardinality(Ins(conns)) = 0
        BY <3>5, <4>1, <4>2
      <4>4. Ins(conns) = {}
        BY <1>8, <4>3, FS_EmptySet
      <4>5. Ins(after) \in SUBSET {p}
        BY <1>7, <4>4
      <4>6. IsFiniteSet({p}) /\ Cardinality({p}) = 1
        BY FS_Singleton
      <4> QED  BY <4>5, <4>6, FS_Subset
    <3> QED  BY <1>1, <3>4, <3>5 DEF InBounded
  <2> QED  BY <1>2, <2>1, <2>2, <2>3
<1>12. PoolOK(after)
  BY <1>4, <1>6, <1>11 DEF PoolOK
<1> QED  BY <1>5, <1>12 DEF after

-----------------------------------------------------------------------------
(* The steps.                                                              *)

LEMMA CalmStep ==
  ASSUME NetInv, Calmer(pool, pool'), KeepsBans(book, book'), NetTypes',
         expelled' = expelled
  PROVE  NetInv'
<1>1. PoolOK(pool')
  BY CalmerKeeps DEF NetInv
<1>2. BookOK(book') /\ BannedIPs(book') = BannedIPs(book)
  BY DEF KeepsBans, BannedIPs
<1>3. Barred(pool', book', expelled')
  BY <1>2 DEF NetInv, Barred, Calmer
<1> QED  BY <1>1, <1>2, <1>3 DEF NetInv

LEMMA ReconnectStep ==
  ASSUME NetInv, Reconnects(pool, pool'), book' = book, NetTypes', expelled' = expelled
  PROVE  NetInv'
<1>1. PoolOK(pool')
  BY ReconnectsKeeps DEF NetInv
<1>2. Barred(pool', book', expelled')
  <2>1. NetTypes /\ Barred(pool, book, expelled)
    BY DEF NetInv
  <2> QED  BY <2>1 DEF Barred, Reconnects, NetTypes
<1> QED  BY <1>1, <1>2 DEF NetInv

LEMMA SameCalmer ==
  ASSUME NetInv
  PROVE  Calmer(pool, pool)
BY DEF NetInv, PoolOK, Calmer

LEMMA SameBook ==
  ASSUME NetInv
  PROVE  KeepsBans(book, book)
BY KeepsItself DEF NetInv

LEMMA StartedReconnects ==
  ASSUME NetInv, Started \/ Populate
  PROVE  /\ Reconnects(pool, pool') /\ NetTypes'
         /\ UNCHANGED <<book, expelled>>
<1>1. pool \in Pool /\ BookOK(book) /\ NetTypes
  BY DEF NetInv, PoolOK
<1>2. SeedsAsked(pool) \subseteq Peer /\ \A conns : SeedsAsked(conns) \subseteq Peer
  BY BookAssumption DEF SeedsAsked
<1>3. CASE Started
  <2>1. \/ pool' \in NewConnections(SeedConnections(pool))
        \/ pool' \in NewConnections(pool)
    BY <1>3 DEF Started
  <2>2. Reconnects(pool, SeedConnections(pool)) /\ SeedConnections(pool) \in Pool
    BY <1>1, SeedConnectionsReconnect DEF Reconnects
  <2>3. CASE pool' \in NewConnections(SeedConnections(pool))
    <3>1. Reconnects(SeedConnections(pool), pool')
      BY <1>1, <2>2, <2>3, NewConnectionsReconnect
    <3>2. Reconnects(pool, pool')
      BY <2>2, <3>1, ReconnectsTransitive
    <3> QED  BY <1>1, <1>2, <1>3, <3>2 DEF Started, NetTypes
  <2>4. CASE pool' \in NewConnections(pool)
    <3>1. Reconnects(pool, pool')
      BY <1>1, <2>4, NewConnectionsReconnect
    <3> QED  BY <1>1, <1>2, <1>3, <3>1 DEF Started, NetTypes
  <2> QED  BY <2>1, <2>3, <2>4
<1>4. CASE Populate
  <2>1. PICK conns \in NewConnections(pool) :
          \/ pool' = conns /\ asked' = asked
          \/ /\ pool' = SeedConnections(conns)
             /\ asked' = asked \cup SeedsAsked(conns)
    BY <1>4 DEF Populate
  <2>2. Reconnects(pool, conns) /\ conns \in Pool
    BY <1>1, NewConnectionsReconnect DEF Reconnects
  <2>3. Reconnects(conns, SeedConnections(conns))
    BY <2>2, SeedConnectionsReconnect
  <2>4. Reconnects(pool, SeedConnections(conns))
    BY <2>2, <2>3, ReconnectsTransitive
  <2>5. Reconnects(pool, pool')
    BY <2>1, <2>2, <2>4
  <2>6. UNCHANGED <<book, handshaken, active, expelled>>
    BY <1>4 DEF Populate
  <2>7. asked' \subseteq Peer
    BY <1>1, <1>2, <2>1 DEF NetTypes
  <2> QED  BY <1>1, <2>5, <2>6, <2>7 DEF NetTypes
<1> QED  BY <1>3, <1>4

LEMMA RunningKeeps ==
  ASSUME NetInv,
         Start \/ StartFails \/ Started \/ Populate \/ Stop \/ Stopped
  PROVE  NetInv'
<1>1. CASE Started \/ Populate
  BY <1>1, StartedReconnects, ReconnectStep
<1>2. CASE Start \/ StartFails
  BY <1>2, CalmStep, SameCalmer, SameBook DEF Start, StartFails, NetInv, NetTypes
<1>3. CASE Stop \/ Stopped
  <2>1. pool' = [p \in Peer |-> "none"]
    BY <1>3 DEF Stop, Stopped
  <2>2. Calmer(pool, pool')
    BY <2>1, NoneCalmer
  <2>3. NetTypes' /\ UNCHANGED <<book, expelled>>
    BY <1>3 DEF Stop, Stopped, NetInv, NetTypes
  <2> QED  BY <2>2, <2>3, CalmStep, SameBook
<1> QED  BY <1>1, <1>2, <1>3

LEMMA OutboundKeeps ==
  ASSUME NetInv, NEW p \in Peer,
         \/ Connect(p) \/ ConnectAbort(p) \/ StatusFetched(p) \/ StatusFails(p)
         \/ PeersFetched(p) \/ SeedAnswers(p) \/ NodeInfoPosted(p) \/ Close(p)
         \/ Shuffle(p)
  PROVE  NetInv'
<1>1. PoolOK(pool) /\ pool \in Pool /\ BookOK(book) /\ NetTypes
  BY DEF NetInv, PoolOK
<1>2. /\ asked' \subseteq asked
      /\ UNCHANGED <<handshaken, active, expelled>>
  BY DEF Connect, ConnectAbort, StatusFetched, StatusFails, PeersFetched, SeedAnswers,
         NodeInfoPosted, Close, Shuffle
<1>3. NetTypes'
  BY <1>1, <1>2 DEF NetTypes
<1>4. Calmer(pool, pool')
  <2>1. \/ pool' = pool
        \/ pool' = [pool EXCEPT ![p] = "none"]
        \/ p \in Outbound(pool) /\ \E stage \in OutboundStage : pool' = [pool EXCEPT ![p] = stage]
    BY DEF Connect, ConnectAbort, StatusFetched, StatusFails, PeersFetched, SeedAnswers,
           NodeInfoPosted, Close, Shuffle, Outbound, OutboundStage
  <2> QED  BY <1>1, <2>1, StageCalmer, SameCalmer
<1>5. KeepsBans(book, book')
  <2>1. CASE Connect(p) \/ StatusFails(p) \/ Shuffle(p)
    BY <2>1, SameBook DEF Connect, StatusFails, Shuffle
  <2>2. CASE ConnectAbort(p)
    <3>1. PICK b : b \in DowngradePeer(book, p) \cup {book} /\ book' = UpdatePeer(b, p)
      BY <2>2 DEF ConnectAbort
    <3>2. KeepsBans(book, b)
      BY <1>1, <3>1, DowngradePeerKeeps, KeepsItself
    <3>3. KeepsBans(b, book')
      BY <3>1, <3>2, UpdatePeerKeeps DEF KeepsBans
    <3> QED  BY <3>2, <3>3 DEF KeepsBans
  <2>3. CASE StatusFetched(p) \/ NodeInfoPosted(p)
    BY <1>1, <2>3, InfoUpdatedKeeps DEF StatusFetched, NodeInfoPosted
  <2>4. CASE PeersFetched(p)
    <3>1. PICK ps \in SUBSET Peer : \E b \in Discovered(book, ps) :
            \E c \in AddIfUnknown(b, p) : book' \in UpgradePeer(c, p)
      BY <2>4 DEF PeersFetched, PeerLists
    <3> PICK b \in Discovered(book, ps) :
            \E c \in AddIfUnknown(b, p) : book' \in UpgradePeer(c, p)
      BY <3>1
    <3> PICK c \in AddIfUnknown(b, p) : book' \in UpgradePeer(c, p)
      OBVIOUS
    <3>2. KeepsBans(book, b)
      BY <1>1, DiscoveredKeeps
    <3>3. KeepsBans(b, c)
      BY <3>2, AddIfUnknownKeeps DEF KeepsBans
    <3>4. KeepsBans(c, book')
      BY <3>3, UpgradePeerKeeps DEF KeepsBans
    <3> QED  BY <3>2, <3>3, <3>4 DEF KeepsBans
  <2>5. CASE SeedAnswers(p)
    <3>1. PICK ps \in SUBSET Peer : book' \in Discovered(book, ps) \cup {book}
      BY <2>5 DEF SeedAnswers, PeerLists
    <3> QED  BY <1>1, <3>1, DiscoveredKeeps, KeepsItself
  <2>6. CASE Close(p)
    BY <1>1, <2>6, UpdatePeerKeeps DEF Close
  <2> QED  BY <2>1, <2>2, <2>3, <2>4, <2>5, <2>6
<1> QED  BY <1>2, <1>3, <1>4, <1>5, CalmStep

LEMMA InboundStepKeeps ==
  ASSUME NetInv, NEW p \in Peer, Handshake(p) \/ Reject(p) \/ Connection(p)
  PROVE  NetInv'
<1>1. PoolOK(pool) /\ BookOK(book) /\ NetTypes /\ Barred(pool, book, expelled)
  BY DEF NetInv
<1>2. UNCHANGED <<asked, active, expelled>> /\ handshaken' \subseteq handshaken \cup {p}
  BY DEF Handshake, Reject, Connection
<1>3. NetTypes'
  BY <1>1, <1>2 DEF NetTypes
<1>4. CASE UNCHANGED <<pool, book>>
  BY <1>2, <1>3, <1>4, CalmStep, SameCalmer, SameBook
<1>5. CASE Connection(p) /\ pool[p] = "none"
  <2>1. PICK conns \in EvictInbound(pool), stage \in {"in", "exempt"} :
          pool' = [conns EXCEPT ![p] = stage]
    BY <1>5 DEF Connection
  <2>2. PoolOK(pool') /\ Outbound(pool') \subseteq Outbound(pool)
    BY <1>1, <1>5, <2>1, InboundKeeps
  <2>3. KeepsBans(book, book')
    BY <1>1, <1>5, AddIfUnknownKeeps DEF Connection
  <2>4. BookOK(book') /\ BannedIPs(book') = BannedIPs(book)
    BY <2>3 DEF KeepsBans, BannedIPs
  <2>5. Barred(pool', book', expelled')
    BY <1>1, <1>2, <2>2, <2>4 DEF Barred
  <2> QED  BY <1>3, <2>2, <2>4, <2>5 DEF NetInv
<1>6. (UNCHANGED <<pool, book>>) \/ (Connection(p) /\ pool[p] = "none")
  BY DEF Handshake, Reject, Connection
<1> QED  BY <1>4, <1>5, <1>6

LEMMA BansKeep ==
  ASSUME NetInv,
         \/ \E p \in Peer : BanPeer(p) \/ BanSocket(p)
         \/ \E ip \in Address : BanOver(ip)
  PROVE  NetInv'
<1>1. PoolOK(pool) /\ BookOK(book) /\ NetTypes /\ Barred(pool, book, expelled)
  BY DEF NetInv
<1>2. ASSUME NEW p \in Peer, BanPeer(p)
      PROVE  NetInv'
  <2>1. pool' = [pool EXCEPT ![p] = "none"]
    BY <1>2 DEF BanPeer
  <2>2. Calmer(pool, pool') /\ p \notin Outbound(pool')
    <3>1. Calmer(pool, pool')
      BY <1>1, <2>1, StageCalmer
    <3> QED  BY <1>1, <2>1, <3>1 DEF Outbound, OutboundStage, PoolOK, Pool
  <2>3. PoolOK(pool')
    BY <1>1, <2>2, CalmerKeeps
  <2>4. /\ BookOK(Ban(book, IP[p])) /\ IP[p] \in BannedIPs(Ban(book, IP[p]))
        /\ BannedIPs(book) \subseteq BannedIPs(Ban(book, IP[p]))
    <3>1. IP[p] \in Address
      BY DEF Address
    <3> QED  BY <1>1, <3>1, BanOK DEF BannedIPs
  <2>5. /\ book' = (IF MayBan(p) THEN Ban(book, IP[p]) ELSE book)
        /\ expelled' = (IF MayBan(p) THEN expelled \cup {p} ELSE expelled)
        /\ UNCHANGED <<handshaken, asked, active>>
    BY <1>2 DEF BanPeer
  <2>6. BookOK(book') /\ BannedIPs(book) \subseteq BannedIPs(book')
    BY <1>1, <2>4, <2>5
  <2>7. Barred(pool', book', expelled')
    BY <1>1, <2>2, <2>4, <2>5, <2>6 DEF Barred, Calmer
  <2>8. NetTypes'
    BY <1>1, <2>5 DEF NetTypes
  <2> QED  BY <2>3, <2>6, <2>7, <2>8 DEF NetInv
<1>3. ASSUME NEW p \in Peer, BanSocket(p)
      PROVE  NetInv'
  <2>1. /\ book' = Ban(book, IP[p]) /\ handshaken' \subseteq handshaken
        /\ UNCHANGED <<pool, asked, active, expelled>>
    BY <1>3 DEF BanSocket
  <2>2. BookOK(book') /\ BannedIPs(book) \subseteq BannedIPs(book')
    <3>1. IP[p] \in Address
      BY DEF Address
    <3> QED  BY <1>1, <2>1, <3>1, BanOK DEF BannedIPs
  <2>3. Barred(pool', book', expelled')
    BY <1>1, <2>1, <2>2 DEF Barred
  <2>4. NetTypes' /\ PoolOK(pool')
    BY <1>1, <2>1 DEF NetTypes
  <2> QED  BY <2>2, <2>3, <2>4 DEF NetInv
<1>4. ASSUME NEW ip \in Address, BanOver(ip)
      PROVE  NetInv'
  <2>1. /\ book' = Unban(book, ip) /\ expelled' = {p \in expelled : IP[p] # ip}
        /\ UNCHANGED <<pool, handshaken, asked, active>>
    BY <1>4 DEF BanOver
  <2>2. BookOK(book') /\ book'.banned = book.banned \ {ip}
    BY <1>1, <2>1, UnbanOK
  <2>3. Barred(pool', book', expelled')
    BY <1>1, <2>1, <2>2 DEF Barred, BannedIPs
  <2>4. NetTypes' /\ PoolOK(pool')
    BY <1>1, <2>1 DEF NetTypes
  <2> QED  BY <2>2, <2>3, <2>4 DEF NetInv
<1> QED  BY <1>2, <1>3, <1>4

LEMMA NetInvHolds == Spec => []NetInv
<1>1. Init => NetInv
  <2> SUFFICES ASSUME Init PROVE NetInv
    OBVIOUS
  <2>1. pool \in Pool /\ \A p \in Peer : pool[p] = "none"
    BY DEF Init, Pool, Stage
  <2>2. Outbound(pool) = {} /\ Inbound(pool) = {} /\ Ins(pool) = {}
    BY <2>1 DEF Outbound, OutboundStage, Inbound, Ins
  <2>3. PoolOK(pool)
    <3>1. OneEachIP(pool)
      BY <2>2 DEF OneEachIP
    <3>2. InBounded(pool)
      BY <2>2, FS_EmptySet, P2PAssumption DEF InBounded
    <3> QED  BY <2>1, <3>1, <3>2 DEF PoolOK
  <2>4. BookOK(book)
    BY FirstBookOK DEF Init
  <2>5. NetTypes /\ Barred(pool, book, expelled)
    BY DEF Init, NetTypes, Barred
  <2> QED  BY <2>3, <2>4, <2>5 DEF NetInv
<1>2. NetInv /\ [Next]_vars => NetInv'
  <2> SUFFICES ASSUME NetInv, [Next]_vars PROVE NetInv'
    OBVIOUS
  <2>1. CASE Start \/ StartFails \/ Started \/ Populate \/ Stop \/ Stopped
    BY <2>1, RunningKeeps
  <2>2. ASSUME NEW p \in Peer,
               \/ Connect(p) \/ ConnectAbort(p) \/ StatusFetched(p) \/ StatusFails(p)
               \/ PeersFetched(p) \/ SeedAnswers(p) \/ NodeInfoPosted(p) \/ Close(p)
               \/ Shuffle(p)
        PROVE  NetInv'
    BY <2>2, OutboundKeeps
  <2>3. ASSUME NEW p \in Peer, Handshake(p) \/ Reject(p) \/ Connection(p)
        PROVE  NetInv'
    BY <2>3, InboundStepKeeps
  <2>4. ASSUME NEW p \in Peer, BanPeer(p) \/ BanSocket(p)
        PROVE  NetInv'
    BY <2>4, BansKeep
  <2>5. ASSUME NEW ip \in Address, BanOver(ip)
        PROVE  NetInv'
    BY <2>5, BansKeep
  <2>6. CASE UNCHANGED vars
    BY <2>6, CalmStep, SameCalmer, SameBook DEF vars, NetInv, NetTypes
  <2> QED  BY <2>1, <2>2, <2>3, <2>4, <2>5, <2>6 DEF Next, Address
<1> QED  BY <1>1, <1>2, PTL DEF Spec

\* For any configuration, whatever peers connect, fail and are discovered: who
\* was expelled has no outbound connection until its ban is over, by whatever
\* way it is known, and no banned address is in the lists that are handed out,
\* but for bare entries (_handleBanPeer, addBannedPeer, _addOutboundPeer).
THEOREM BansAlwaysHold == Spec => []BansHold
<1>1. NetInv => BansHold
  <2> SUFFICES ASSUME NetInv PROVE BansHold
    OBVIOUS
  <2>1. ExpelledStaysOut
    BY DEF NetInv, Barred, ExpelledStaysOut
  <2>2. BannedNotListed
    BY DEF NetInv, BookOK, ListOK, BannedNotListed
  <2> QED  BY <2>1, <2>2 DEF BansHold
<1> QED  BY <1>1, NetInvHolds, PTL

-----------------------------------------------------------------------------
(* The slots. A slot is reserved for every fixed peer, so the fixed peers  *)
(* have to fit: if they do not, the seeds are cut from the wrong end, and  *)
(* more of them are connected to than there are slots.                     *)

\* Before the node runs nobody is called.
NoneYet == active \in {"stopped", "starting"} => Outbound(pool) = {}

SlotsInv == WithinSlots(pool) /\ NoneYet

LEMMA CalmSlots ==
  ASSUME SlotsInv, Outbound(pool') \subseteq Outbound(pool),
         \/ active' = active
         \/ Outbound(pool) = {} \/ active' \notin {"stopped", "starting"}
  PROVE  SlotsInv'
<1>1. WithinSlots(pool')
  <2> DEFINE none == {}
  <2>1. none \in SUBSET Peer /\ Outbound(pool') \subseteq Outbound(pool) \cup none \cup Fixed
    OBVIOUS
  <2>2. WithinSlots(pool) /\ none = {}
    BY DEF SlotsInv
  <2> HIDE DEF none
  <2> QED  BY <2>1, <2>2, SlotsKept
<1>2. NoneYet'
  BY DEF SlotsInv, NoneYet
<1> QED  BY <1>1, <1>2 DEF SlotsInv

LEMMA FreeAtFirst ==
  ASSUME Cardinality(Fixed) <= MaxOutbound, NetInv, Outbound(pool) = {}
  PROVE  FreeOutboundSlots(pool) >= 0
<1>1. /\ pool \in Pool /\ Fixed \in SUBSET Peer
      /\ Disconnected(Fixed, pool) \in SUBSET Peer
      /\ Disconnected(Fixed, pool) \subseteq Fixed
  BY BookAssumption DEF NetInv, PoolOK, Disconnected
<1>2. FreeOutboundSlots(pool) = MaxOutbound - Cardinality(Disconnected(Fixed, pool)) - 0
  BY <1>1, FreeSlots, FS_EmptySet
<1>3. /\ Cardinality(Disconnected(Fixed, pool)) <= Cardinality(Fixed)
      /\ Cardinality(Disconnected(Fixed, pool)) \in Nat /\ Cardinality(Fixed) \in Nat
  BY <1>1, Sizes
<1>4. MaxOutbound \in Nat
  BY P2PAssumption
<1> QED  BY <1>2, <1>3, <1>4

\* For any configuration whose fixed peers fit into the outbound slots: the
\* pool never has more outbound connections to other peers than slots, no two
\* to one address, and no more inbound ones than slots while somebody can be
\* evicted, whatever peers connect, fail, are banned and are discovered
\* (triggerNewConnections, discoverFromSeedPeers, addInboundPeer).
THEOREM SlotsStayBounded ==
  ASSUME Cardinality(Fixed) <= MaxOutbound
  PROVE  Spec => []SlotsBounded
<1>1. Init => SlotsInv
  <2> SUFFICES ASSUME Init PROVE SlotsInv
    OBVIOUS
  <2>1. Outbound(pool) = {}
    BY DEF Init, Outbound, OutboundStage
  <2>2. WithinSlots(pool)
    <3>1. Outbound(pool) \ Fixed = {}
      BY <2>1
    <3> QED  BY <3>1, FS_EmptySet, P2PAssumption DEF WithinSlots
  <2> QED  BY <2>1, <2>2 DEF SlotsInv, NoneYet
<1>2. NetInv /\ SlotsInv /\ [Next]_vars => SlotsInv'
  <2> SUFFICES ASSUME NetInv, SlotsInv, [Next]_vars PROVE SlotsInv'
    OBVIOUS
  <2>1. PoolOK(pool) /\ pool \in Pool /\ BookOK(book) /\ WithinSlots(pool)
    BY DEF NetInv, PoolOK, SlotsInv
  <2>2. CASE Started
    <3>1. active = "starting" /\ active' = "on"
      BY <2>2 DEF Started
    <3>2. FreeOutboundSlots(pool) >= 0
      BY <3>1, FreeAtFirst DEF SlotsInv, NoneYet
    <3>3. SeedConnections(pool) \in Pool /\ WithinSlots(SeedConnections(pool))
      BY <2>1, <3>2, SeedConnectionsReconnect DEF Reconnects
    <3>4. WithinSlots(pool')
      BY <2>1, <2>2, <3>3, NewConnectionsReconnect DEF Started
    <3> QED  BY <3>1, <3>4 DEF SlotsInv, NoneYet
  <2>3. CASE Populate
    <3>1. PICK conns \in NewConnections(pool) :
            \/ pool' = conns
            \/ FreeOutboundSlots(conns) > 0 /\ pool' = SeedConnections(conns)
      BY <2>3 DEF Populate
    <3>2. conns \in Pool /\ WithinSlots(conns)
      BY <2>1, NewConnectionsReconnect DEF Reconnects
    <3>3. FreeOutboundSlots(conns) > 0 => WithinSlots(SeedConnections(conns))
      BY <3>2, FreeSlots, SeedConnectionsReconnect
    <3>4. WithinSlots(pool') /\ active' = "on"
      BY <2>3, <3>1, <3>2, <3>3 DEF Populate
    <3> QED  BY <3>4 DEF SlotsInv, NoneYet
  <2>4. CASE Start \/ StartFails \/ Stop \/ Stopped
    <3>1. CASE Start \/ StartFails
      BY <3>1, CalmSlots DEF Start, StartFails, SlotsInv, NoneYet
    <3>2. CASE Stop \/ Stopped
      <4>1. pool' = [p \in Peer |-> "none"] /\ active' \notin {"stopped", "starting"}
        BY <3>2 DEF Stop, Stopped
      <4>2. Outbound(pool') \subseteq Outbound(pool)
        BY <4>1, NoneCalmer DEF Calmer
      <4> QED  BY <4>1, <4>2, CalmSlots
    <3> QED  BY <2>4, <3>1, <3>2
  <2>5. ASSUME NEW p \in Peer,
               \/ Connect(p) \/ ConnectAbort(p) \/ StatusFetched(p) \/ StatusFails(p)
               \/ PeersFetched(p) \/ SeedAnswers(p) \/ NodeInfoPosted(p) \/ Close(p)
               \/ Shuffle(p)
        PROVE  SlotsInv'
    <3>1. \/ pool' = pool
          \/ pool' = [pool EXCEPT ![p] = "none"]
          \/ /\ p \in Outbound(pool)
             /\ \E stage \in OutboundStage : pool' = [pool EXCEPT ![p] = stage]
      BY <2>5 DEF Connect, ConnectAbort, StatusFetched, StatusFails, PeersFetched,
             SeedAnswers, NodeInfoPosted, Close, Shuffle, Outbound, OutboundStage
    <3>2. Outbound(pool') \subseteq Outbound(pool)
      BY <2>1, <3>1, StageCalmer DEF Calmer
    <3>3. active' = active
      BY <2>5 DEF Connect, ConnectAbort, StatusFetched, StatusFails, PeersFetched,
             SeedAnswers, NodeInfoPosted, Close, Shuffle
    <3> QED  BY <3>2, <3>3, CalmSlots
  <2>6. ASSUME NEW p \in Peer, Handshake(p) \/ Reject(p) \/ Connection(p)
        PROVE  SlotsInv'
    <3>1. CASE pool' = pool
      BY <2>6, <3>1, CalmSlots DEF Handshake, Reject, Connection
    <3>2. CASE Connection(p) /\ pool[p] = "none"
      <4>1. PICK conns \in EvictInbound(pool), stage \in {"in", "exempt"} :
              pool' = [conns EXCEPT ![p] = stage]
        BY <3>2 DEF Connection
      <4>2. Outbound(pool') \subseteq Outbound(pool)
        BY <2>1, <3>2, <4>1, InboundKeeps
      <4> QED  BY <3>2, <4>2, CalmSlots DEF Connection
    <3> QED  BY <2>6, <3>1, <3>2 DEF Handshake, Reject, Connection
  <2>7. ASSUME NEW p \in Peer, BanPeer(p) \/ BanSocket(p)
        PROVE  SlotsInv'
    <3>1. pool' = pool \/ pool' = [pool EXCEPT ![p] = "none"]
      BY <2>7 DEF BanPeer, BanSocket
    <3>2. Outbound(pool') \subseteq Outbound(pool)
      BY <2>1, <3>1, StageCalmer DEF Calmer
    <3> QED  BY <2>7, <3>2, CalmSlots DEF BanPeer, BanSocket
  <2>8. ASSUME NEW ip \in Address, BanOver(ip)
        PROVE  SlotsInv'
    BY <2>8, CalmSlots DEF BanOver
  <2>9. CASE UNCHANGED vars
    BY <2>9, CalmSlots DEF vars
  <2> QED  BY <2>2, <2>3, <2>4, <2>5, <2>6, <2>7, <2>8, <2>9 DEF Next, Address
<1>3. NetInv /\ SlotsInv => SlotsBounded
  <2> SUFFICES ASSUME NetInv, SlotsInv PROVE SlotsBounded
    OBVIOUS
  <2>1. TypeOK
    <3>1. pool \in [Peer -> OutboundStage \cup {"none", "in", "exempt"}] /\ NetTypes
      BY DEF NetInv, PoolOK, Pool, Stage
    <3>2. ASSUME NEW list, ListOK(list, book.banned)
          PROVE  /\ list.in \cup list.bare \subseteq list.known
                 /\ \A p \in Peer : list.failures[p] < MaxReconnectTries
      <4>1. list.failures \in [Peer -> 0..(MaxReconnectTries - 1)]
        BY <3>2 DEF ListOK, List
      <4> QED  BY <3>2, <4>1, BookAssumption DEF ListOK
    <3>3. ListOK(book.new, book.banned) /\ ListOK(book.tried, book.banned)
      BY DEF NetInv, BookOK
    <3> QED  BY <3>1, <3>2, <3>3 DEF TypeOK, NetTypes
  <2>2. OutboundBounded
    BY DEF SlotsInv, WithinSlots, OutboundBounded
  <2>3. OneOutboundPerIP
    BY DEF NetInv, PoolOK, OneEachIP, OneOutboundPerIP
  <2>4. InboundBounded
    BY DEF NetInv, PoolOK, InBounded, InboundBounded, Ins
  <2> QED  BY <2>1, <2>2, <2>3, <2>4 DEF SlotsBounded
<1> QED  BY <1>1, <1>2, <1>3, NetInvHolds, PTL DEF Spec

-----------------------------------------------------------------------------
(* The peer that is watched: what its connection counts, next to what it    *)
(* sent in the last ticks whatever the timers did.                          *)

\* What is known of the behaviour of a peer.
InternalState == [rep : Int, rpc : [Discovery -> 0..2], ws : Nat]

Conn ==
  [open : BOOLEAN, live : InternalState, shared : BOOLEAN, count : [Kind -> Nat],
   due : SUBSET {"rate", "status"}, clock : Nat, passed : [Discovery -> Nat],
   spotless : BOOLEAN]

\* The timers of connection c: the status timer is due on time.
Timed(c) ==
  /\ c.clock < StatusTicks
  /\ "status" \in c.due => c.clock = 0

\* One request of a kind is passed on until the counters of the kind start again.
Limited(c) ==
  \A k \in Discovery : c.passed[k] <= 1 /\ (c.passed[k] = 1 => c.live.rpc[k] >= 1)

\* The ticks since the status timer last reset the counters of c.
Span(c) == IF "status" \in c.due THEN StatusTicks ELSE c.clock

\* Every message counted since the reset is among the newest of its kind.
Dated(c, a, k) ==
  /\ c.count[k] <= Free(k)
  /\ \A i \in 1..Free(k) : i <= c.count[k] => a[k][i] <= Span(c)

\* The counters of c are no more than what a peer within the limits sent.
Honest(c, a, last, this) ==
  /\ c.open
  /\ c.live.rep = Full
  /\ c.live.ws <= WsMaxRate
  /\ c.live.ws <= this + (IF "rate" \in c.due THEN last ELSE 0)
  /\ c.live.rpc["getNodeInfo"] <= c.count["getNodeInfo"]
  /\ c.count["getNodeInfo"] <= 1
  /\ c.live.rpc["getPeers"] <= 1
  /\ c.live.rpc["getPeers"] = 1 => a["getPeers"][1] <= (IF "rate" \in c.due THEN 1 ELSE 0)
  /\ Dated(c, a, "getPeers")
  /\ Dated(c, a, "post")

ConnOK(c, a, last, this) ==
  /\ c \in Conn
  /\ Timed(c)
  /\ Limited(c)
  /\ c.spotless => Honest(c, a, last, this)

\* How long ago the newest messages were sent.
Ages(a) == \A k \in Renewed : \A i \in 1..Free(k) : a[k][i] \in 0..Long

PeerInv ==
  /\ ConnOK(conn, age, burst[1], burst[2])
  /\ saved \subseteq InternalState
  /\ age = [k \in Renewed |-> [i \in 1..Free(k) |-> age[k][i]]]
  /\ Ages(age)
  /\ burst = <<burst[1], burst[2]>> /\ burst[1] \in Nat /\ burst[2] \in Nat
\* What a connection is made of when it begins.
LEMMA NewFields ==
  ASSUME NEW s \in InternalState, NEW u \in BOOLEAN, NEW a, NEW x \in Nat, NEW y \in Nat,
         u => s = Fresh
  PROVE  ConnOK(NewConnection(s, u), a, x, y)
<1> DEFINE c == NewConnection(s, u)
<1>1. Zero(Kind) \in [Kind -> Nat] /\ Zero(Discovery) \in [Discovery -> Nat]
  BY SMT DEF Zero
<1>2. /\ c.open = TRUE /\ c.live = s /\ c.shared = TRUE /\ c.due = {} /\ c.clock = 0
      /\ c.spotless = u /\ c.count = Zero(Kind) /\ c.passed = Zero(Discovery)
  BY DEF NewConnection
<1>3. c \in Conn
  BY <1>1 DEF NewConnection, Conn
<1>4. Timed(c)
  BY <1>2, PeerAssumption DEF Timed
<1>5. Limited(c)
  BY <1>2 DEF Limited, Zero
<1>6. ASSUME u
      PROVE  Honest(c, a, x, y)
  <2>1. s.rep = Full /\ s.ws = 0 /\ s.rpc = Zero(Discovery)
    BY <1>6 DEF Fresh
  <2>2. /\ s.rpc["getNodeInfo"] = 0 /\ s.rpc["getPeers"] = 0 /\ c.count["getNodeInfo"] = 0
        /\ c.count["getPeers"] = 0 /\ c.count["post"] = 0
    BY <2>1, <1>2 DEF Zero, Discovery, Kind
  <2>3. Dated(c, a, "getPeers") /\ Dated(c, a, "post")
    BY <2>2, PeerAssumption DEF Dated, Free
  <2> QED
    BY <1>2, <2>1, <2>2, <2>3, PeerAssumption DEF Honest
<1> HIDE DEF c
<1> QED
  BY <1>2, <1>3, <1>4, <1>5, <1>6 DEF ConnOK, c

LEMMA NoFields ==
  ASSUME NEW a, NEW x \in Nat, NEW y \in Nat
  PROVE  ConnOK(NoConnection, a, x, y)
<1> DEFINE c == NewConnection(Fresh, FALSE)
<1>1. Fresh \in InternalState
  BY PeerAssumption DEF Fresh, InternalState, Zero
<1>2. ConnOK(c, a, x, y)
  BY <1>1, NewFields
<1>3. /\ c.spotless = FALSE
      /\ NoConnection = [c EXCEPT !.open = FALSE]
  BY DEF NewConnection, NoConnection
<1> HIDE DEF c
<1>4. /\ NoConnection \in Conn
      /\ NoConnection.clock = c.clock /\ NoConnection.due = c.due
      /\ NoConnection.passed = c.passed /\ NoConnection.live = c.live
      /\ NoConnection.spotless = FALSE
  BY <1>2, <1>3 DEF ConnOK, Conn
<1> QED
  BY <1>2, <1>4 DEF ConnOK, Timed, Limited

LEMMA PeerInitHolds == PeerInit => PeerInv
<1> SUFFICES ASSUME PeerInit PROVE PeerInv
  OBVIOUS
<1>1. ConnOK(conn, age, burst[1], burst[2])
  BY NoFields DEF PeerInit
<1>2. Ages(age) /\ age = [k \in Renewed |-> [i \in 1..Free(k) |-> age[k][i]]]
  BY PeerAssumption DEF PeerInit, Ages, Long
<1> QED
  BY <1>1, <1>2 DEF PeerInit, PeerInv

\* The connection settles with c, unless c has no reputation left.
LEMMA Settles ==
  ASSUME NEW c \in Conn, NEW b \in SUBSET InternalState, Settle(c, b), NEW a, NEW x \in Nat,
         NEW y \in Nat, saved \subseteq InternalState,
         c.live.rep > 0 => ConnOK(c, a, x, y)
  PROVE  ConnOK(conn', a, x, y) /\ saved' \subseteq InternalState
<1>1. CASE c.live.rep <= 0
  BY <1>1, NoFields DEF Settle, ForgetsBanned
<1>2. CASE ~(c.live.rep <= 0)
  <2>1. c.live.rep > 0
    BY <1>2 DEF Conn, InternalState
  <2> QED
    BY <2>1, <1>2 DEF Settle
<1> QED
  BY <1>1, <1>2

\* The clock goes on: the window of the status timer grows by one.
LEMMA Ticked ==
  ASSUME NEW c, NEW a, NEW x \in Nat, NEW y \in Nat, ConnOK(c, a, x, y), Ages(a),
         c.due = {}, NEW b,
         \A k \in Renewed : \A i \in 1..Free(k) :
           b[k][i] = IF a[k][i] < Long THEN a[k][i] + 1 ELSE Long,
         c.open, NEW d \in Conn,
         /\ d.open = TRUE /\ d.live = c.live /\ d.count = c.count /\ d.passed = c.passed
         /\ d.spotless = c.spotless /\ "rate" \in d.due
         /\ d.clock = (c.clock + 1) % StatusTicks
         /\ "status" \in d.due <=> c.clock + 1 = StatusTicks
  PROVE  ConnOK(d, b, y, 0)
<1>1. /\ c \in Conn /\ Timed(c) /\ Limited(c)
      /\ c.spotless => Honest(c, a, x, y)
  BY DEF ConnOK
<1>2. /\ c.clock + 1 = StatusTicks => (c.clock + 1) % StatusTicks = 0
      /\ c.clock + 1 < StatusTicks => (c.clock + 1) % StatusTicks = c.clock + 1
      /\ c.clock + 1 <= StatusTicks /\ c.clock \in Nat
  BY <1>1, PeerAssumption DEF Timed, Conn
<1>3. Timed(d) /\ Span(d) = Span(c) + 1
  BY <1>2, PeerAssumption DEF Timed, Span
<1>4. Limited(d)
  BY <1>1 DEF Limited
<1>5. ASSUME c.spotless
      PROVE  Honest(d, b, y, 0)
  <2>1. Honest(c, a, x, y)
    BY <1>1, <1>5
  <2>2. ASSUME NEW k \in Renewed, Dated(c, a, k)
        PROVE  Dated(d, b, k)
    <3> SUFFICES ASSUME NEW i \in 1..Free(k), i <= c.count[k]
                 PROVE  b[k][i] <= Span(d)
      BY <2>2 DEF Dated
    <3>1. a[k][i] <= Span(c) /\ Span(c) \in Nat /\ a[k][i] \in Int
      BY <2>2, <1>1, PeerAssumption DEF Dated, Ages, Span, Conn
    <3>2. b[k][i] = IF a[k][i] < Long THEN a[k][i] + 1 ELSE Long
      OBVIOUS
    <3> QED
      BY <3>1, <3>2, <1>3, PeerAssumption DEF Long
  <2>3. Dated(d, b, "getPeers") /\ Dated(d, b, "post")
    BY <2>1, <2>2 DEF Honest, Renewed, Kind, Discovery
  <2>4. c.live.rpc["getPeers"] = 1 => b["getPeers"][1] <= 1
    <3>1. "getPeers" \in Renewed /\ 1 \in 1..Free("getPeers")
      BY DEF Renewed, Kind, Discovery, Free
    <3>2. a["getPeers"][1] \in 0..Long
      BY <3>1 DEF Ages
    <3>3. c.live.rpc["getPeers"] = 1 => a["getPeers"][1] <= 0
      BY <2>1 DEF Honest
    <3> QED
      BY <3>1, <3>2, <3>3, PeerAssumption DEF Long
  <2>5. c.live.ws <= y /\ c.live.ws \in Nat
    BY <2>1, <1>1 DEF Honest, Conn, InternalState
  <2> QED
    BY <2>1, <2>3, <2>4, <2>5 DEF Honest
<1> QED
  BY <1>3, <1>4, <1>5 DEF ConnOK

LEMMA TickKeeps ==
  ASSUME PeerInv, Tick
  PROVE  PeerInv'
<1>1. /\ ConnOK(conn, age, burst[1], burst[2])
      /\ burst[1] \in Nat /\ burst[2] \in Nat /\ Ages(age)
  BY DEF PeerInv
<1>2. /\ \A k \in Renewed : \A i \in 1..Free(k) :
           age'[k][i] = IF age[k][i] < Long THEN age[k][i] + 1 ELSE Long
      /\ age' = [k \in Renewed |-> [i \in 1..Free(k) |-> age'[k][i]]]
  BY Zenon DEF Tick
<1>3. Ages(age')
  BY <1>1, <1>2, PeerAssumption DEF Ages, Long
<1>4. burst'[1] = burst[2] /\ burst'[2] = 0 /\ burst' = <<burst'[1], burst'[2]>>
  BY DEF Tick
<1>5. saved' \subseteq InternalState
  BY DEF Tick, PeerInv
<1>6. ConnOK(conn', age', burst[2], 0)
  <2>1. conn.due = {} /\ conn \in Conn
    BY <1>1 DEF Tick, ConnOK
  <2>2. CASE ~conn.open
    BY <2>2, <1>1 DEF Tick, ConnOK, Honest
  <2>3. CASE conn.open
    <3>1. conn' = [conn EXCEPT
                     !.due = {"rate"} \cup
                       (IF conn.clock + 1 = StatusTicks THEN {"status"} ELSE {}),
                     !.clock = (@ + 1) % StatusTicks]
      BY <2>3 DEF Tick
    <3>2. conn.clock \in Nat /\ (conn.clock + 1) % StatusTicks \in Nat
      BY <2>1, PeerAssumption DEF Conn
    <3>3. /\ conn' \in Conn
          /\ conn'.open = TRUE /\ conn'.live = conn.live /\ conn'.count = conn.count
          /\ conn'.passed = conn.passed
          /\ conn'.spotless = conn.spotless /\ "rate" \in conn'.due
          /\ conn'.clock = (conn.clock + 1) % StatusTicks
          /\ "status" \in conn'.due <=> conn.clock + 1 = StatusTicks
      BY <2>1, <2>3, <3>1, <3>2 DEF Conn
    <3> QED
      BY <1>1, <1>2, <2>1, <2>3, <3>3, Ticked
  <2> QED
    BY <2>2, <2>3
<1> QED
  BY <1>1, <1>2, <1>3, <1>4, <1>5, <1>6 DEF PeerInv

-----------------------------------------------------------------------------
(* A message more.                                                         *)

\* The newest n messages of a kind, with one more.
OneNewer(s, n) == <<0>> \o SubSeq(s, 1, n - 1)

LEMMA Newest ==
  ASSUME NEW n \in Nat \ {0}, NEW s \in [1..n -> 0..Long], NEW t, t = OneNewer(s, n)
  PROVE  /\ t \in [1..n -> 0..Long]
         /\ t[1] = 0
         /\ \A i \in 2..n : t[i] = s[i - 1]
<1>1. s \in Seq(0..Long) /\ Len(s) = n
  <2>1. s \in Seq(0..Long)
    BY SeqDef
  <2> QED
    BY <2>1, LenProperties
<1> DEFINE r == SubSeq(s, 1, n - 1)
<1>2. r \in Seq(0..Long) /\ Len(r) = n - 1 /\ \A i \in 1..(n - 1) : r[i] = s[i]
  BY <1>1, SubSeqProperties
<1>3. 0 \in 0..Long
  BY PeerAssumption DEF Long
<1>4. t = <<0>> \o r
  BY DEF OneNewer
<1> HIDE DEF r
<1>5. t \in Seq(0..Long) /\ Len(t) = n
  BY <1>2, <1>3, <1>4
<1>6. t[1] = 0 /\ \A i \in 2..n : t[i] = r[i - 1]
  BY <1>2, <1>4
<1>7. \A i \in 2..n : i - 1 \in 1..(n - 1)
  OBVIOUS
<1>8. \A i \in 2..n : t[i] = s[i - 1]
  BY <1>2, <1>6, <1>7
<1>9. t \in [1..n -> 0..Long]
  BY <1>5, LenProperties
<1> QED
  BY <1>6, <1>8, <1>9

\* A peer that keeps to the limits has not used up what is free.
LEMMA NothingMore ==
  ASSUME NEW c, NEW a, NEW x \in Nat, NEW y \in Nat, c \in Conn, Timed(c), Honest(c, a, x, y),
         NEW k \in Kind,
         k \in Renewed => ~(a[k][Free(k)] < Long), Ages(a),
         k = "getNodeInfo" => c.count[k] = 0
  PROVE  c.count[k] < Free(k) /\ (k \in Discovery => c.live.rpc[k] = 0)
<1>1. c.count[k] \in Nat /\ \A l \in Discovery : c.live.rpc[l] \in 0..2
  BY DEF Conn, InternalState
<1>2. CASE k = "getNodeInfo"
  <2>1. c.live.rpc["getNodeInfo"] <= c.count["getNodeInfo"]
    BY DEF Honest
  <2>2. c.count[k] = 0 /\ Free(k) = 1 /\ "getNodeInfo" \in Discovery
    BY <1>2 DEF Free, Discovery
  <2> QED
    BY <1>1, <1>2, <2>1, <2>2
<1>3. CASE k # "getNodeInfo"
  <2>1. k \in Renewed /\ Dated(c, a, k) /\ Free(k) \in Nat \ {0} /\ Free("getPeers") = 1
    BY <1>3, PeerAssumption DEF Renewed, Kind, Discovery, Honest, Free
  <2>2. Free(k) \in 1..Free(k)
    BY <2>1
  <2>3. a[k][Free(k)] \in 0..Long /\ ~(a[k][Free(k)] < Long) /\ Long = StatusTicks + 1
    BY <2>1, <2>2 DEF Ages, Long
  <2>4. Span(c) <= StatusTicks /\ Span(c) \in Nat
    BY PeerAssumption DEF Span, Timed, Conn
  <2>5. ~(Free(k) <= c.count[k])
    <3>1. Free(k) <= c.count[k] => a[k][Free(k)] <= Span(c)
      BY <2>1, <2>2 DEF Dated
    <3> QED
      BY <3>1, <2>3, <2>4, PeerAssumption
  <2>6. k \in Discovery => k = "getPeers"
    BY <1>3 DEF Discovery
  <2>7. c.live.rpc["getPeers"] = 1 => a["getPeers"][1] <= 1
    <3>1. c.live.rpc["getPeers"] = 1 =>
            a["getPeers"][1] <= (IF "rate" \in c.due THEN 1 ELSE 0)
      BY DEF Honest
    <3>2. 1 \in 1..Free("getPeers") /\ "getPeers" \in Renewed
      BY DEF Free, Renewed, Kind, Discovery
    <3>3. a["getPeers"][1] \in 0..Long
      BY <3>2 DEF Ages
    <3> QED
      BY <3>1, <3>3
  <2>8. c.live.rpc["getPeers"] <= 1
    BY DEF Honest
  <2>9. k = "getPeers" => c.live.rpc[k] = 0
    <3> SUFFICES ASSUME k = "getPeers" PROVE c.live.rpc["getPeers"] = 0
      OBVIOUS
    <3>1. ~(a["getPeers"][1] <= 1)
      BY <2>1, <2>3, PeerAssumption
    <3>2. c.live.rpc["getPeers"] \in 0..2
      BY <1>1 DEF Discovery
    <3> QED
      BY <3>1, <3>2, <2>7, <2>8
  <2> QED
    BY <1>1, <2>1, <2>5, <2>6, <2>9
<1> QED
  BY <1>2, <1>3

\* One message of a kind more is counted and is the newest.
LEMMA OneMore ==
  ASSUME NEW c \in Conn, NEW a, NEW k \in Renewed, Dated(c, a, k), Timed(c), Ages(a),
         c.count[k] < Free(k), NEW d, d.count[k] = c.count[k] + 1,
         d.clock = c.clock, d.due = c.due, NEW b, b[k][1] = 0,
         \A i \in 2..Free(k) : b[k][i] = a[k][i - 1]
  PROVE  Dated(d, b, k)
<1>1. c.count[k] \in Nat /\ Free(k) \in Nat \ {0}
  BY PeerAssumption DEF Conn, Free, Renewed
<1>2. Span(d) = Span(c) /\ Span(c) \in Nat
  BY PeerAssumption DEF Span, Conn
<1>3. d.count[k] <= Free(k)
  BY <1>1
<1>4. ASSUME NEW i \in 1..Free(k), i <= d.count[k]
      PROVE  b[k][i] <= Span(d)
  <2>1. CASE i = 1
    BY <2>1, <1>2
  <2>2. CASE i # 1
    <3>1. i \in 2..Free(k) /\ i - 1 \in 1..Free(k) /\ i - 1 <= c.count[k]
      BY <2>2, <1>1, <1>4
    <3>2. a[k][i - 1] <= Span(c)
      BY <3>1 DEF Dated
    <3> QED
      BY <3>1, <3>2, <1>2
  <2> QED
    BY <2>1, <2>2
<1> QED
  BY <1>3, <1>4 DEF Dated

\* A kind of which nothing is sent stays as it is.
LEMMA NoMore ==
  ASSUME NEW c, NEW a, NEW k, Dated(c, a, k), NEW d, NEW b, d.count[k] = c.count[k],
         d.clock = c.clock, d.due = c.due, b[k] = a[k]
  PROVE  Dated(d, b, k)
BY DEF Dated, Span

\* A counter goes on by one, or stays at its bound.
LEMMA MoreBounds ==
  ASSUME NEW n \in Nat, NEW most \in Nat
  PROVE  /\ More(n, most) \in Nat
         /\ n < most => More(n, most) = n + 1
         /\ More(n, most) <= n + 1
         /\ n <= most => More(n, most) <= most
         /\ More(n, most) >= n
         /\ (most >= 1) => (More(n, most) >= 1)
BY DEF More

LEMMA CountedFields ==
  ASSUME conn \in Conn, NEW k \in Kind, NEW c, c = Counted(k)
  PROVE  /\ c \in Conn
         /\ c.open = conn.open /\ c.live.rep = conn.live.rep /\ c.live.rpc = conn.live.rpc
         /\ c.live.ws = More(conn.live.ws, MaxCounted) /\ c.shared = conn.shared
         /\ c.count[k] = More(conn.count[k], Free(k))
         /\ \A l \in Kind \ {k} : c.count[l] = conn.count[l]
         /\ c.due = conn.due /\ c.clock = conn.clock /\ c.passed = conn.passed
         /\ c.spotless = Kept(k)
<1>1. Kept(k) \in BOOLEAN
  BY DEF Kept
<1>2. More(conn.live.ws, MaxCounted) \in Nat /\ More(conn.count[k], Free(k)) \in Nat
  BY MoreBounds, PeerAssumption DEF Conn, InternalState, Free
<1> QED
  BY <1>1, <1>2 DEF Counted, Conn, InternalState

\* What a message of kind k does to the history and to the counters: the
\* connection becomes d, the history of the kinds b.
Follows(c, a, k, d, b) ==
  /\ \A l \in Renewed \ {k} : b[l] = a[l]
  /\ k \in Renewed => b[k][1] = 0 /\ \A i \in 2..Free(k) : b[k][i] = a[k][i - 1]
  /\ d.open = c.open /\ d.due = c.due /\ d.clock = c.clock
  /\ d.live.ws <= c.live.ws + 1
  /\ d.count[k] = More(c.count[k], Free(k))
  /\ \A l \in Kind \ {k} : d.count[l] = c.count[l]
  /\ \A l \in Discovery \ {k} : d.live.rpc[l] = c.live.rpc[l] /\ d.passed[l] = c.passed[l]
  /\ k \in Discovery =>
       /\ d.live.rpc[k] = More(c.live.rpc[k], 2)
       /\ d.passed[k] = IF c.live.rpc[k] > 0 THEN c.passed[k] ELSE c.passed[k] + 1

\* Nor does the message cost a peer that has kept to the limits.
Blameless(c, a, x, y, k, d) ==
  /\ c.spotless
  /\ x + y < WsMaxRate
  /\ k \in Renewed => ~(a[k][Free(k)] < Long)
  /\ k = "getNodeInfo" => c.count[k] = 0
  /\ c.live.rep = Full /\ c.count[k] < Free(k) => d.live.rep = Full

LEMMA FollowsLimited ==
  ASSUME NEW c \in Conn, NEW a, NEW k, NEW d \in Conn, NEW b, Follows(c, a, k, d, b), Limited(c)
  PROVE  Limited(d)
<1> SUFFICES ASSUME NEW l \in Discovery
             PROVE  d.passed[l] <= 1 /\ (d.passed[l] = 1 => d.live.rpc[l] >= 1)
  BY DEF Limited
<1>1. /\ c.passed[l] <= 1 /\ (c.passed[l] = 1 => c.live.rpc[l] >= 1)
      /\ c.passed[l] \in Nat /\ c.live.rpc[l] \in Nat
  BY DEF Limited, Conn, InternalState
<1>2. CASE l # k
  BY <1>1, <1>2 DEF Follows
<1>3. CASE l = k
  <2>1. /\ d.live.rpc[l] = More(c.live.rpc[l], 2)
        /\ d.passed[l] = IF c.live.rpc[l] > 0 THEN c.passed[l] ELSE c.passed[l] + 1
    BY <1>3 DEF Follows
  <2> QED
    BY <1>1, <2>1 DEF More
<1> QED
  BY <1>2, <1>3

LEMMA FollowsHonest ==
  ASSUME NEW c \in Conn, NEW a, NEW x \in Nat, NEW y \in Nat, Timed(c), Honest(c, a, x, y),
         Ages(a), NEW k \in Kind, NEW d \in Conn, NEW b, Follows(c, a, k, d, b),
         Blameless(c, a, x, y, k, d)
  PROVE  Honest(d, b, x, y + 1)
<1>1. c.count[k] < Free(k) /\ (k \in Discovery => c.live.rpc[k] = 0)
  BY NothingMore DEF Blameless
<1>2. d.live.rep = Full
  BY <1>1 DEF Blameless, Honest
<1>3. Free(k) \in Nat \ {0} /\ \A l \in Kind : c.count[l] \in Nat
  BY PeerAssumption DEF Free, Conn
<1>4. d.count[k] = c.count[k] + 1
  BY <1>1, <1>3, MoreBounds DEF Follows
<1>5. ASSUME NEW l \in Renewed
      PROVE  Dated(d, b, l)
  <2>1. Dated(c, a, l)
    BY DEF Honest, Renewed, Kind, Discovery
  <2>2. CASE l = k
    BY <2>1, <2>2, <1>1, <1>4, OneMore DEF Follows
  <2>3. CASE l # k
    <3>1. d.count[l] = c.count[l] /\ b[l] = a[l] /\ d.clock = c.clock /\ d.due = c.due
      BY <2>3 DEF Follows, Renewed
    <3> QED
      BY <2>1, <3>1, NoMore
  <2> QED
    BY <2>2, <2>3
<1>6. d.live.ws <= WsMaxRate /\ d.live.ws <= (y + 1) + (IF "rate" \in d.due THEN x ELSE 0)
  <2>1. /\ d.live.ws \in Nat /\ c.live.ws \in Nat /\ d.live.ws <= c.live.ws + 1
        /\ d.due = c.due /\ x + y < WsMaxRate
        /\ c.live.ws <= y + (IF "rate" \in c.due THEN x ELSE 0)
    BY DEF Follows, Blameless, Honest, Conn, InternalState
  <2> QED
    BY <2>1, PeerAssumption
<1>7. k \in Discovery => d.live.rpc[k] = 1
  BY <1>1 DEF Follows, More
<1>8. d.live.rpc["getNodeInfo"] <= d.count["getNodeInfo"] /\ d.count["getNodeInfo"] <= 1
  <2>1. "getNodeInfo" \in Discovery \cap Kind
    BY DEF Discovery, Kind
  <2>2. CASE k = "getNodeInfo"
    BY <2>1, <2>2, <1>1, <1>3, <1>4, <1>7 DEF Free
  <2>3. CASE k # "getNodeInfo"
    BY <2>1, <2>3 DEF Follows, Honest
  <2> QED
    BY <2>2, <2>3
<1>9. /\ d.live.rpc["getPeers"] <= 1
      /\ d.live.rpc["getPeers"] = 1 => b["getPeers"][1] <= (IF "rate" \in d.due THEN 1 ELSE 0)
  <2>1. "getPeers" \in Discovery \cap Renewed
    BY DEF Discovery, Kind, Renewed
  <2>2. CASE k = "getPeers"
    <3>1. b["getPeers"][1] = 0 /\ d.live.rpc["getPeers"] = 1
      BY <2>1, <2>2, <1>7 DEF Follows
    <3> QED
      BY <3>1
  <2>3. CASE k # "getPeers"
    <3>1. /\ b["getPeers"] = a["getPeers"] /\ d.due = c.due
          /\ d.live.rpc["getPeers"] = c.live.rpc["getPeers"]
      BY <2>1, <2>3 DEF Follows
    <3> QED
      BY <3>1 DEF Honest
  <2> QED
    BY <2>2, <2>3
<1>10. Dated(d, b, "getPeers") /\ Dated(d, b, "post")
  BY <1>5 DEF Renewed, Kind, Discovery
<1>11. d.open
  BY DEF Follows, Honest
<1> QED
  BY <1>2, <1>6, <1>8, <1>9, <1>10, <1>11 DEF Honest

LEMMA FollowsOK ==
  ASSUME NEW c, NEW a, NEW x \in Nat, NEW y \in Nat, ConnOK(c, a, x, y), Ages(a),
         NEW k \in Kind, NEW d \in Conn, NEW b, Follows(c, a, k, d, b),
         d.spotless => Blameless(c, a, x, y, k, d)
  PROVE  ConnOK(d, b, x, y + 1)
<1>1. /\ c \in Conn /\ Timed(c) /\ Limited(c)
      /\ c.spotless => Honest(c, a, x, y)
  BY DEF ConnOK
<1>2. Timed(d)
  BY <1>1 DEF Timed, Follows
<1>3. d.spotless => Honest(d, b, x, y + 1)
  BY <1>1, FollowsHonest DEF Blameless
<1> QED
  BY <1>1, <1>2, <1>3, FollowsLimited DEF ConnOK

-----------------------------------------------------------------------------
(* The steps.                                                              *)

\* Sending sets the history.
LEMMA SentSets ==
  ASSUME PeerInv, NEW k \in Kind, Sent(k)
  PROVE  /\ age' = [l \in Renewed |-> [i \in 1..Free(l) |-> age'[l][i]]]
         /\ Ages(age')
         /\ \A l \in Renewed \ {k} : age'[l] = age[l]
         /\ k \in Renewed => age'[k][1] = 0 /\ \A i \in 2..Free(k) : age'[k][i] = age[k][i - 1]
         /\ burst'[1] = burst[1] /\ burst'[2] = burst[2] + 1
         /\ burst' = <<burst'[1], burst'[2]>>
<1>1. /\ age = [l \in Renewed |-> [i \in 1..Free(l) |-> age[l][i]]] /\ Ages(age)
      /\ burst = <<burst[1], burst[2]>>
  BY DEF PeerInv
<1>2. burst' = [burst EXCEPT ![2] = burst[2] + 1]
  BY DEF Sent
<1>3. burst'[1] = burst[1] /\ burst'[2] = burst[2] + 1 /\ burst' = <<burst'[1], burst'[2]>>
  BY <1>1, <1>2
<1>4. CASE k \notin Renewed
  BY <1>1, <1>3, <1>4 DEF Sent
<1>5. CASE k \in Renewed
  <2> DEFINE t == OneNewer(age[k], Free(k))
  <2>1. age' = [age EXCEPT ![k] = t]
    BY <1>5 DEF Sent, OneNewer
  <2>2. Free(k) \in Nat \ {0}
    BY PeerAssumption DEF Free
  <2>3. age[k] \in [1..Free(k) -> 0..Long]
    <3>1. /\ age[k] = [i \in 1..Free(k) |-> age[k][i]]
          /\ \A i \in 1..Free(k) : age[k][i] \in 0..Long
      BY <1>1, <1>5 DEF Ages
    <3> QED
      BY <3>1
  <2>4. /\ t \in [1..Free(k) -> 0..Long]
        /\ t[1] = 0
        /\ \A i \in 2..Free(k) : t[i] = age[k][i - 1]
    BY <2>2, <2>3, Newest
  <2> HIDE DEF t
  <2>5. /\ age'[k] = t /\ DOMAIN age' = Renewed
        /\ \A l \in Renewed \ {k} : age'[l] = age[l]
    BY <1>1, <1>5, <2>1
  <2>6. Ages(age')
    BY <1>1, <2>4, <2>5 DEF Ages
  <2>7. \A l \in Renewed : age'[l] = [i \in 1..Free(l) |-> age'[l][i]]
    BY <1>1, <2>4, <2>5
  <2>8. age' = [l \in Renewed |-> [i \in 1..Free(l) |-> age'[l][i]]]
    BY <1>1, <1>5, <2>1, <2>7
  <2> QED
    BY <1>3, <2>4, <2>5, <2>6, <2>8
<1> QED
  BY <1>4, <1>5

\* A message of a kind that is limited, after which the connection is c.
LEMMA KeptBy ==
  ASSUME PeerInv, NEW k \in Kind, Sent(k), NEW c \in Conn, NEW b \in SUBSET InternalState,
         Settle(c, b), c.live.ws <= conn.live.ws + 1,
         c.open = conn.open, c.due = conn.due, c.clock = conn.clock,
         c.count[k] = More(conn.count[k], Free(k)),
         \A l \in Kind \ {k} : c.count[l] = conn.count[l],
         \A l \in Discovery \ {k} :
           c.live.rpc[l] = conn.live.rpc[l] /\ c.passed[l] = conn.passed[l],
         k \in Discovery =>
           /\ c.live.rpc[k] = More(conn.live.rpc[k], 2)
           /\ c.passed[k] = IF conn.live.rpc[k] > 0 THEN conn.passed[k] ELSE conn.passed[k] + 1,
         c.spotless = Kept(k),
         c.live.rep > 0 /\ conn.live.rep = Full /\ conn.count[k] < Free(k) => c.live.rep = Full
  PROVE  PeerInv'
<1>1. /\ ConnOK(conn, age, burst[1], burst[2]) /\ saved \subseteq InternalState
      /\ burst[1] \in Nat /\ burst[2] \in Nat /\ Ages(age)
  BY DEF PeerInv
<1>2. Follows(conn, age, k, c, age')
  BY SentSets DEF Follows
<1>3. c.live.rep > 0 /\ c.spotless => Blameless(conn, age, burst[1], burst[2], k, c)
  BY DEF Blameless, Kept, TooSoon
<1>4. c.live.rep > 0 => ConnOK(c, age', burst[1], burst[2] + 1)
  BY <1>1, <1>2, <1>3, FollowsOK
<1>5. burst[2] + 1 \in Nat
  BY <1>1
<1>6. ConnOK(conn', age', burst[1], burst[2] + 1) /\ saved' \subseteq InternalState
  BY <1>1, <1>4, <1>5, Settles
<1>7. /\ age' = [l \in Renewed |-> [i \in 1..Free(l) |-> age'[l][i]]] /\ Ages(age')
      /\ burst'[1] = burst[1] /\ burst'[2] = burst[2] + 1
      /\ burst' = <<burst'[1], burst'[2]>>
  BY SentSets
<1> QED
  BY <1>1, <1>5, <1>6, <1>7 DEF PeerInv

LEMMA RequestKeeps ==
  ASSUME PeerInv, NEW k \in Discovery, Request(k)
  PROVE  PeerInv'
<1> DEFINE rpc == [conn.live.rpc EXCEPT ![k] = More(@, 2)]
           n   == Counted(k)
           c   == [n EXCEPT !.live.rep = @ - Surplus(k), !.live.rpc = rpc,
                            !.passed[k] = IF Drops(k) THEN @ ELSE @ + 1]
           b   == IF conn.shared THEN {[s EXCEPT !.rpc = rpc] : s \in saved} ELSE saved
<1>1. Sent(k) /\ Settle(c, b) /\ k \in Kind
  BY DEF Request, Kind
<1>2. conn \in Conn /\ saved \subseteq InternalState
  BY DEF PeerInv, ConnOK
<1>3. /\ n \in Conn
      /\ n.open = conn.open /\ n.live.rep = conn.live.rep /\ n.live.rpc = conn.live.rpc
      /\ n.live.ws = More(conn.live.ws, MaxCounted) /\ n.shared = conn.shared
      /\ n.count[k] = More(conn.count[k], Free(k))
      /\ \A l \in Kind \ {k} : n.count[l] = conn.count[l]
      /\ n.due = conn.due /\ n.clock = conn.clock /\ n.passed = conn.passed
      /\ n.spotless = Kept(k)
  BY <1>1, <1>2, CountedFields
<1>4. /\ rpc \in [Discovery -> 0..2] /\ rpc[k] = More(conn.live.rpc[k], 2)
      /\ \A l \in Discovery \ {k} : rpc[l] = conn.live.rpc[l]
  BY <1>2 DEF More, Conn, InternalState
<1>5. Surplus(k) \in {0, 1} /\ (conn.count[k] < Free(k) => Surplus(k) = 0)
  BY <1>1, <1>2, PeerAssumption DEF Surplus, Conn, Free
<1>6. b \subseteq InternalState
  BY <1>2, <1>4 DEF InternalState
<1>7. conn.live.ws \in Nat /\ More(conn.live.ws, MaxCounted) <= conn.live.ws + 1
  BY <1>2, MoreBounds, PeerAssumption DEF Conn, InternalState
<1> HIDE DEF rpc, n, b
<1>8. /\ c \in Conn
      /\ c.open = n.open /\ c.due = n.due /\ c.clock = n.clock /\ c.count = n.count
      /\ c.live.ws = n.live.ws /\ c.live.rpc = rpc /\ c.spotless = n.spotless
      /\ c.live.rep = n.live.rep - Surplus(k)
      /\ c.passed[k] = IF Drops(k) THEN n.passed[k] ELSE n.passed[k] + 1
      /\ \A l \in Discovery \ {k} : c.passed[l] = n.passed[l]
  <2> DEFINE passed == [n.passed EXCEPT ![k] = IF Drops(k) THEN @ ELSE @ + 1]
             live   == [n.live EXCEPT !.rep = @ - Surplus(k), !.rpc = rpc]
  <2>1. n.passed \in [Discovery -> Nat] /\ n.live \in InternalState
    BY <1>3 DEF Conn
  <2>2. /\ passed \in [Discovery -> Nat]
        /\ passed[k] = IF Drops(k) THEN n.passed[k] ELSE n.passed[k] + 1
        /\ \A l \in Discovery \ {k} : passed[l] = n.passed[l]
    BY <2>1
  <2>3. live \in InternalState
    <3>1. n.live.rep - Surplus(k) \in Int
      BY <2>1, <1>5 DEF InternalState
    <3>2. rpc \in [Discovery -> 0..2]
      BY <1>4
    <3> QED
      BY <2>1, <3>1, <3>2 DEF InternalState
  <2>4. c = [n EXCEPT !.live = live, !.passed = passed]
    BY <1>3, <2>1 DEF Conn, InternalState
  <2>5. live.rep = n.live.rep - Surplus(k) /\ live.rpc = rpc /\ live.ws = n.live.ws
    BY <2>1, <1>4, <1>5 DEF InternalState
  <2> HIDE DEF passed, live, c
  <2> QED
    BY <1>3, <2>2, <2>3, <2>4, <2>5 DEF Conn
<1> HIDE DEF c
<1>9. conn.live.rep = Full /\ conn.count[k] < Free(k) => c.live.rep = Full
  BY <1>3, <1>5, <1>8, PeerAssumption
<1>10. Drops(k) <=> conn.live.rpc[k] > 0
  BY DEF Drops
<1> QED
  BY <1>1, <1>3, <1>4, <1>6, <1>7, <1>8, <1>9, <1>10, KeptBy

LEMMA PostKeeps ==
  ASSUME PeerInv, NEW wellFormed \in BOOLEAN, Post(wellFormed)
  PROVE  PeerInv'
<1> DEFINE cost == Surplus("post") + (IF wellFormed THEN 0 ELSE Full)
           n    == Counted("post")
           c    == [n EXCEPT !.live.rep = @ - cost, !.shared = TRUE]
<1>1. Sent("post") /\ Settle(c, {c.live}) /\ "post" \in Kind /\ "post" \notin Discovery
  BY DEF Post, Kind, Discovery
<1>2. conn \in Conn
  BY DEF PeerInv, ConnOK
<1>3. /\ n \in Conn
      /\ n.open = conn.open /\ n.live.rep = conn.live.rep /\ n.live.rpc = conn.live.rpc
      /\ n.live.ws = More(conn.live.ws, MaxCounted) /\ n.shared = conn.shared
      /\ n.count["post"] = More(conn.count["post"], Free("post"))
      /\ \A l \in Kind \ {"post"} : n.count[l] = conn.count[l]
      /\ n.due = conn.due /\ n.clock = conn.clock /\ n.passed = conn.passed
      /\ n.spotless = Kept("post")
  BY <1>1, <1>2, CountedFields
<1>4. /\ cost \in Int
      /\ conn.count["post"] < Free("post") => cost = IF wellFormed THEN 0 ELSE Full
  <2>1. conn.count["post"] \in Nat /\ Free("post") \in Nat
    BY <1>1, <1>2, PeerAssumption DEF Conn, Free
  <2> QED
    BY <2>1, PeerAssumption DEF Surplus
<1>5. conn.live.ws \in Nat /\ More(conn.live.ws, MaxCounted) <= conn.live.ws + 1
  BY <1>2, MoreBounds, PeerAssumption DEF Conn, InternalState
<1> HIDE DEF n, cost
<1>6. /\ c \in Conn
      /\ c.open = n.open /\ c.due = n.due /\ c.clock = n.clock /\ c.count = n.count
      /\ c.live.ws = n.live.ws /\ c.live.rpc = n.live.rpc /\ c.spotless = n.spotless
      /\ c.live.rep = n.live.rep - cost /\ c.passed = n.passed
  <2> DEFINE live == [n.live EXCEPT !.rep = @ - cost]
  <2>1. n.live \in InternalState
    BY <1>3 DEF Conn
  <2>2. n.live.rep - cost \in Int
    BY <2>1, <1>4 DEF InternalState
  <2>3. /\ live \in InternalState
        /\ live.rep = n.live.rep - cost /\ live.rpc = n.live.rpc /\ live.ws = n.live.ws
    BY <2>1, <2>2 DEF InternalState
  <2>4. c = [n EXCEPT !.live = live, !.shared = TRUE]
    BY <1>3, <2>1 DEF Conn, InternalState
  <2> HIDE DEF live, c
  <2> QED
    BY <1>3, <2>3, <2>4 DEF Conn
<1> HIDE DEF c
<1>7. c.live.rep > 0 /\ conn.live.rep = Full /\ conn.count["post"] < Free("post") =>
        c.live.rep = Full
  BY <1>3, <1>4, <1>6, PeerAssumption
<1>8. {c.live} \subseteq InternalState
  BY <1>6 DEF Conn
<1> QED
  BY <1>1, <1>3, <1>5, <1>6, <1>7, <1>8, KeptBy

LEMMA MessageKeeps ==
  ASSUME PeerInv, Message
  PROVE  PeerInv'
<1>1. /\ ConnOK(conn, age, burst[1], burst[2]) /\ conn \in Conn
      /\ burst[1] \in Nat /\ burst[2] \in Nat
      /\ burst = <<burst[1], burst[2]>>
  BY DEF PeerInv, ConnOK
<1>2. /\ age' = age /\ saved' = saved
      /\ burst'[1] = burst[1] /\ burst'[2] = burst[2] + 1
      /\ burst' = <<burst'[1], burst'[2]>>
  BY <1>1 DEF Message, Sent, Renewed, Kind, Discovery
<1> DEFINE ws == More(conn.live.ws, MaxCounted)
           c  == [conn EXCEPT !.live.ws = ws, !.spotless = Kept("message")]
<1>3. conn' = c
  BY DEF Message
<1>4. conn.live.ws \in Nat /\ ws \in Nat /\ ws <= conn.live.ws + 1
  BY <1>1, MoreBounds, PeerAssumption DEF Conn, InternalState
<1>5. Kept("message") \in BOOLEAN
  BY DEF Kept
<1> HIDE DEF ws
<1>6. /\ c \in Conn
      /\ c.open = conn.open /\ c.due = conn.due /\ c.clock = conn.clock
      /\ c.count = conn.count /\ c.live.ws = ws /\ c.live.rpc = conn.live.rpc
      /\ c.live.rep = conn.live.rep /\ c.passed = conn.passed
      /\ c.spotless = Kept("message")
  BY <1>1, <1>4, <1>5 DEF Conn, InternalState
<1> HIDE DEF c
<1>7. Timed(c) /\ Limited(c)
  BY <1>1, <1>6 DEF ConnOK, Timed, Limited
<1>8. ASSUME c.spotless
      PROVE  Honest(c, age, burst[1], burst[2] + 1)
  <2>1. conn.spotless /\ burst[1] + burst[2] < WsMaxRate
    BY <1>6, <1>8 DEF Kept
  <2>2. Honest(conn, age, burst[1], burst[2])
    BY <1>1, <2>1 DEF ConnOK
  <2>3. Dated(c, age, "getPeers") /\ Dated(c, age, "post")
    BY <1>6, <2>2, NoMore DEF Honest
  <2>4. /\ c.live.ws <= WsMaxRate
        /\ c.live.ws <= (burst[2] + 1) + (IF "rate" \in c.due THEN burst[1] ELSE 0)
    <3>1. conn.live.ws <= burst[2] + (IF "rate" \in c.due THEN burst[1] ELSE 0)
      BY <1>6, <2>2 DEF Honest
    <3> QED
      BY <1>1, <1>4, <1>6, <2>1, <3>1, PeerAssumption
  <2> QED
    BY <1>6, <2>2, <2>3, <2>4 DEF Honest
<1>9. ConnOK(conn', age, burst[1], burst[2] + 1)
  BY <1>3, <1>6, <1>7, <1>8 DEF ConnOK
<1>10. burst[2] + 1 \in Nat
  BY <1>1
<1> QED
  BY <1>1, <1>2, <1>9, <1>10 DEF PeerInv

\* The rate of the socket and the requests counted begin again.
LEMMA ResetCountersKeeps ==
  ASSUME PeerInv, ResetCounters
  PROVE  PeerInv'
<1> DEFINE flood == IF conn.live.ws > WsMaxRate THEN conn.live.ws \div WsMaxRate ELSE 0
           many  == {k \in Discovery : conn.live.rpc[k] > 1}
           extra == Cardinality(many)
           c     == [conn EXCEPT !.live = [rep |-> @.rep - flood - extra,
                                           rpc |-> Zero(Discovery), ws |-> 0],
                                 !.shared = FALSE,
                                 !.due = @ \ {"rate"},
                                 !.passed = Zero(Discovery)]
<1>1. /\ ConnOK(conn, age, burst[1], burst[2]) /\ conn \in Conn /\ saved \subseteq InternalState
      /\ burst[1] \in Nat /\ burst[2] \in Nat
  BY DEF PeerInv, ConnOK
<1>2. Settle(c, saved) /\ age' = age /\ burst' = burst
  BY DEF ResetCounters
<1>3. flood \in Int
  BY <1>1, PeerAssumption DEF Conn, InternalState
<1>4. IsFiniteSet(many) /\ extra \in Nat
  <2>1. IsFiniteSet(Discovery) /\ many \subseteq Discovery
    <3>1. Discovery = {"getNodeInfo"} \cup {"getPeers"}
      BY DEF Discovery
    <3> QED
      BY <3>1, FS_Singleton, FS_Union
  <2> QED
    BY <2>1, FS_Subset, FS_CardinalityType
<1>5. conn.spotless => flood = 0 /\ many = {}
  <2> SUFFICES ASSUME conn.spotless PROVE flood = 0 /\ many = {}
    OBVIOUS
  <2>1. Honest(conn, age, burst[1], burst[2])
    BY <1>1 DEF ConnOK
  <2>2. flood = 0
    BY <2>1, <1>1, PeerAssumption DEF Honest, Conn, InternalState
  <2>3. conn.live.rpc["getNodeInfo"] <= 1 /\ conn.live.rpc["getPeers"] <= 1
    <3>1. /\ conn.live.rpc["getNodeInfo"] <= conn.count["getNodeInfo"]
          /\ conn.count["getNodeInfo"] <= 1 /\ conn.live.rpc["getPeers"] <= 1
      BY <2>1 DEF Honest
    <3>2. conn.live.rpc["getNodeInfo"] \in Nat /\ conn.count["getNodeInfo"] \in Nat
      BY <1>1 DEF Conn, InternalState, Discovery, Kind
    <3> QED
      BY <3>1, <3>2
  <2>4. \A k \in Discovery : ~(conn.live.rpc[k] > 1)
    <3>1. conn.live.rpc["getNodeInfo"] \in Nat /\ conn.live.rpc["getPeers"] \in Nat
      BY <1>1 DEF Conn, InternalState, Discovery
    <3> QED
      BY <2>3, <3>1 DEF Discovery
  <2> QED
    BY <2>2, <2>4
<1>6. conn.spotless => extra = 0
  BY <1>5, FS_EmptySet
<1> HIDE DEF flood, extra
<1>7. /\ c \in Conn
      /\ c.open = conn.open /\ c.due = conn.due \ {"rate"} /\ c.clock = conn.clock
      /\ c.count = conn.count /\ c.live.ws = 0 /\ c.live.rpc = Zero(Discovery)
      /\ c.live.rep = conn.live.rep - flood - extra /\ c.passed = Zero(Discovery)
      /\ c.spotless = conn.spotless
  <2> DEFINE live == [rep |-> conn.live.rep - flood - extra, rpc |-> Zero(Discovery), ws |-> 0]
  <2>1. Zero(Discovery) \in [Discovery -> 0..2] /\ Zero(Discovery) \in [Discovery -> Nat]
    BY DEF Zero
  <2>2. conn.live.rep - flood - extra \in Int
    BY <1>1, <1>3, <1>4 DEF Conn, InternalState
  <2>3. /\ live \in InternalState /\ live.ws = 0 /\ live.rpc = Zero(Discovery)
        /\ live.rep = conn.live.rep - flood - extra
    BY <2>1, <2>2 DEF InternalState
  <2>4. c = [conn EXCEPT !.live = live, !.shared = FALSE, !.due = @ \ {"rate"},
                         !.passed = Zero(Discovery)]
    BY <1>1 DEF Conn, InternalState
  <2> HIDE DEF live, c
  <2> QED
    BY <1>1, <2>1, <2>3, <2>4 DEF Conn
<1> HIDE DEF c
<1>8. Timed(c) /\ Limited(c)
  BY <1>1, <1>7 DEF ConnOK, Timed, Limited, Zero
<1>9. ASSUME c.spotless
      PROVE  Honest(c, age, burst[1], burst[2])
  <2>1. Honest(conn, age, burst[1], burst[2])
    BY <1>1, <1>7, <1>9 DEF ConnOK
  <2>2. c.live.rep = Full
    <3>1. conn.live.rep = Full /\ flood = 0 /\ extra = 0
      BY <2>1, <1>5, <1>6, <1>7, <1>9 DEF Honest
    <3> QED
      BY <3>1, <1>7, PeerAssumption
  <2>3. Span(c) = Span(conn)
    BY <1>7 DEF Span
  <2>4. Dated(c, age, "getPeers") /\ Dated(c, age, "post")
    BY <1>7, <2>1, <2>3 DEF Honest, Dated
  <2>5. c.live.rpc["getNodeInfo"] = 0 /\ c.live.rpc["getPeers"] = 0
    BY <1>7 DEF Zero, Discovery
  <2>6. c.count["getNodeInfo"] \in Nat /\ c.count["getNodeInfo"] <= 1 /\ c.open
    BY <1>1, <1>7, <2>1 DEF Honest, Conn, Kind, Discovery
  <2> QED
    BY <1>1, <1>7, <2>2, <2>4, <2>5, <2>6, PeerAssumption DEF Honest
<1>10. ConnOK(c, age, burst[1], burst[2])
  BY <1>7, <1>8, <1>9 DEF ConnOK
<1>11. ConnOK(conn', age, burst[1], burst[2]) /\ saved' \subseteq InternalState
  BY <1>1, <1>2, <1>7, <1>10, Settles
<1> QED
  BY <1>2, <1>11 DEF PeerInv

\* The kinds that may be sent again begin again.
LEMMA ResetStatusKeeps ==
  ASSUME PeerInv, ResetStatus
  PROVE  PeerInv'
<1>1. /\ ConnOK(conn, age, burst[1], burst[2]) /\ conn \in Conn
  BY DEF PeerInv, ConnOK
<1> DEFINE c == [conn EXCEPT !.due = @ \ {"status"}, !.count["post"] = 0,
                             !.count["getPeers"] = 0]
<1>2. conn' = c /\ saved' = saved /\ age' = age /\ burst' = burst
  BY DEF ResetStatus
<1>3. /\ c \in Conn
      /\ c.open = conn.open /\ c.live = conn.live /\ c.passed = conn.passed
      /\ c.due = conn.due \ {"status"} /\ c.clock = conn.clock /\ c.spotless = conn.spotless
      /\ c.count["post"] = 0 /\ c.count["getPeers"] = 0
      /\ c.count["getNodeInfo"] = conn.count["getNodeInfo"]
  BY <1>1 DEF Conn, Kind, Discovery
<1> HIDE DEF c
<1>4. Timed(c) /\ Limited(c)
  BY <1>1, <1>3 DEF ConnOK, Timed, Limited
<1>5. Dated(c, age, "getPeers") /\ Dated(c, age, "post")
  BY <1>3, PeerAssumption DEF Dated, Free
<1>6. c.spotless => Honest(c, age, burst[1], burst[2])
  BY <1>1, <1>3, <1>5 DEF ConnOK, Honest
<1> QED
  BY <1>2, <1>3, <1>4, <1>6 DEF PeerInv, ConnOK

LEMMA OthersKeep ==
  ASSUME PeerInv, PeerConnects \/ PeerCloses \/ PeerRemoved \/ Forgotten \/ PeerBanOver
  PROVE  PeerInv'
<1>1. /\ ConnOK(conn, age, burst[1], burst[2])
      /\ conn.live \in InternalState /\ saved \subseteq InternalState
      /\ burst[1] \in Nat /\ burst[2] \in Nat
  BY DEF PeerInv, ConnOK, Conn
<1>2. age' = age /\ burst' = burst
  BY DEF PeerConnects, PeerCloses, PeerRemoved, Forgotten, PeerBanOver
<1>3. ConnOK(conn', age, burst[1], burst[2]) /\ saved' \subseteq InternalState
  <2>1. CASE PeerConnects
    <3>1. PICK s \in IF saved = {} THEN {Fresh} ELSE saved :
            conn' = NewConnection(s, saved = {}) /\ saved' = {s}
      BY <2>1 DEF PeerConnects
    <3>2. Fresh \in InternalState
      BY PeerAssumption DEF Fresh, InternalState, Zero
    <3>3. s \in InternalState /\ (saved = {} => s = Fresh) /\ (saved = {}) \in BOOLEAN
      BY <1>1, <3>1, <3>2
    <3>4. ConnOK(NewConnection(s, saved = {}), age, burst[1], burst[2])
      BY <1>1, <3>3, NewFields
    <3> QED
      BY <3>1, <3>3, <3>4
  <2>2. CASE PeerCloses
    BY <2>2, <1>1, NoFields DEF PeerCloses
  <2>3. CASE PeerRemoved
    BY <2>3, <1>1, NoFields DEF PeerRemoved
  <2>4. CASE Forgotten
    BY <2>4, <1>1 DEF Forgotten
  <2>5. CASE PeerBanOver
    BY <2>5, <1>1 DEF PeerBanOver
  <2> QED
    BY <2>1, <2>2, <2>3, <2>4, <2>5
<1> QED
  BY <1>2, <1>3 DEF PeerInv

LEMMA PeerInvHolds == PeerSpec => []PeerInv
<1>1. ASSUME PeerInv, [PeerNext]_peerVars
      PROVE  PeerInv'
  <2>1. CASE PeerNext
    BY <2>1, <1>1, TickKeeps, RequestKeeps, PostKeeps, MessageKeeps, ResetCountersKeeps,
       ResetStatusKeeps, OthersKeep DEF PeerNext
  <2>2. CASE UNCHANGED peerVars
    BY <2>2, <1>1 DEF peerVars, PeerInv
  <2> QED
    BY <1>1, <2>1, <2>2
<1> QED
  BY <1>1, PeerInitHolds, PTL DEF PeerSpec

\* PenaltiesEarned: whatever the limits, the order in which the timers of a connection
\* fire, and whatever the book hands on from one connection to the next, a peer
\* that was unknown and kept to the limits in every window has lost no reputation
\* (_resetCounters, _resetStatusMessageRate, updateRPCCounter of peer/base.ts), and
\* no more than one discovery request of a kind is passed on in an interval.
THEOREM PenaltiesAreEarned == PeerSpec => []PenaltiesEarned
<1>1. PeerInv => PenaltiesEarned
  BY DEF PeerInv, ConnOK, Honest, Limited, PenaltiesEarned, NoPenaltyUnearned, DiscoveryLimited
<1> QED
  BY <1>1, PeerInvHolds, PTL

-----------------------------------------------------------------------------
(* The announcements of transactions. Filter is a recursion over the queue: *)
(* that it has a solution follows from the fold over the first positions,  *)
(* and what it keeps of the first n from a least counterexample.           *)

Keeping(kept, t, S) == IF t \in S THEN Append(kept, t) ELSE kept

IsFiltering(g, s, S) ==
  g = [n \in 0..Len(s) |-> IF n = 0 THEN <<>> ELSE Keeping(g[n - 1], s[n], S)]

\* kept is what S keeps of the first n of s.
KeptOf(kept, s, S, n) ==
  /\ ToSet(kept) = {s[i] : i \in 1..n} \cap S
  /\ IsInjective(s) => IsInjective(kept)

LEMMA AppendedOne ==
  ASSUME NEW T, NEW s \in Seq(T), NEW t \in T
  PROVE  /\ Append(s, t) \in Seq(T)
         /\ ToSet(Append(s, t)) = ToSet(s) \cup {t}
         /\ IsInjective(s) /\ t \notin ToSet(s) => IsInjective(Append(s, t))
<1> DEFINE after == Append(s, t)
<1>1. /\ after \in Seq(T) /\ Len(after) = Len(s) + 1 /\ Len(s) \in Nat
      /\ \A i \in 1..Len(s) : after[i] = s[i]
      /\ after[Len(s) + 1] = t
      /\ DOMAIN s = 1..Len(s) /\ DOMAIN after = 1..(Len(s) + 1)
  OBVIOUS
<1> HIDE DEF after
<1>2. \A i \in DOMAIN after : i \in DOMAIN s \/ i = Len(s) + 1
  BY <1>1
<1>3. \A i \in DOMAIN s : i \in DOMAIN after /\ after[i] = s[i]
  BY <1>1
<1>4. Len(s) + 1 \in DOMAIN after
  BY <1>1
<1>5. ToSet(after) = ToSet(s) \cup {t}
  BY <1>1, <1>2, <1>3, <1>4 DEF ToSet
<1>6. ASSUME IsInjective(s), t \notin ToSet(s) PROVE IsInjective(after)
  <2>1. \A i \in DOMAIN s : s[i] # t
    BY <1>6 DEF ToSet
  <2> QED  BY <1>1, <1>2, <1>3, <1>6, <2>1 DEF IsInjective
<1> QED  BY <1>1, <1>5, <1>6 DEF after

LEMMA FilterSolved ==
  ASSUME NEW T, NEW s \in Seq(T), NEW S
  PROVE  \E g : IsFiltering(g, s, S)
<1> DEFINE D == 1..Len(s)
           X == Seq(T)
           pick == [e \in SUBSET D |-> Max(e)]
           G == [z \in D \X X |-> Keeping(z[2], s[z[1]], S)]
<1>1. Len(s) \in Nat /\ IsFiniteSet(D) /\ \A i \in D : s[i] \in T
  BY FS_Interval
<1>2. Picks(pick, D)
  BY <1>1, Greatest DEF Picks
<1>3. PICK base : base = <<>> /\ base \in X
  <2>1. <<>> \in Seq(T)
    OBVIOUS
  <2> QED  BY <2>1
<1>4. G \in [D \X X -> X]
  <2> SUFFICES ASSUME NEW i \in D, NEW k \in X PROVE Keeping(k, s[i], S) \in X
    OBVIOUS
  <2> QED  BY <1>1 DEF Keeping
<1>5. \A n \in D : /\ 1..n \in SUBSET D /\ 1..n # {} /\ n - 1 \in 0..Len(s)
                   /\ 1..(n - 1) \in SUBSET D /\ pick[1..n] = n /\ (1..n) \ {n} = 1..(n - 1)
  <2> SUFFICES ASSUME NEW n \in D
               PROVE  /\ 1..n \in SUBSET D /\ 1..n # {} /\ n - 1 \in 0..Len(s)
                      /\ 1..(n - 1) \in SUBSET D /\ pick[1..n] = n
                      /\ (1..n) \ {n} = 1..(n - 1)
    OBVIOUS
  <2>1. 1..n \in SUBSET D /\ n \in 1..n /\ n \in Nat
    BY <1>1
  <2>2. Max(1..n) = n
    BY <2>1 DEF Max
  <2>3. pick[1..n] = n
    BY <2>1, <2>2
  <2> HIDE DEF pick
  <2>4. n - 1 \in 0..Len(s) /\ 1..(n - 1) \in SUBSET D /\ (1..n) \ {n} = 1..(n - 1)
    BY <1>1, <2>1
  <2> QED  BY <2>1, <2>3, <2>4
<1>6. \A i \in D, k \in X : G[<<i, k>>] = Keeping(k, s[i], S)
  OBVIOUS
<1>7. \A n \in 0..Len(s) : n # 0 => n \in D
  BY <1>1
<1> HIDE DEF D, X, pick, G
<1>8. PICK h \in [SUBSET D -> X] : IsFold(h, D, pick, base, G)
  BY <1>1, <1>2, <1>3, <1>4, FoldExists
<1> DEFINE g == [n \in 0..Len(s) |-> h[1..n]]
<1>9. \A n \in D : h[1..n] = Keeping(h[1..(n - 1)], s[n], S)
  <2> SUFFICES ASSUME NEW n \in D PROVE h[1..n] = Keeping(h[1..(n - 1)], s[n], S)
    OBVIOUS
  <2>1. /\ 1..n \in SUBSET D /\ 1..n # {} /\ 1..(n - 1) \in SUBSET D
        /\ pick[1..n] = n /\ (1..n) \ {n} = 1..(n - 1)
    BY <1>5
  <2>2. h[1..n] = G[<<pick[1..n], h[(1..n) \ {pick[1..n]}]>>]
    BY <1>8, <2>1 DEF IsFold
  <2>3. h[1..(n - 1)] \in X
    BY <2>1
  <2> QED  BY <1>6, <2>1, <2>2, <2>3
<1>10. h[1..0] = <<>>
  BY <1>3, <1>8 DEF IsFold
<1>11. \A n \in 0..Len(s) : g[n] = IF n = 0 THEN <<>> ELSE Keeping(g[n - 1], s[n], S)
  BY <1>5, <1>7, <1>9, <1>10
<1>12. g = [n \in 0..Len(s) |-> g[n]]
  OBVIOUS
<1> HIDE DEF g
<1>13. IsFiltering(g, s, S)
  BY <1>11, <1>12 DEF IsFiltering
<1> QED  BY <1>13

LEMMA FilterKeeps ==
  ASSUME NEW T, NEW s \in Seq(T), NEW S
  PROVE  /\ Filter(s, S) \in Seq(T)
         /\ ToSet(Filter(s, S)) = ToSet(s) \cap S
         /\ IsInjective(s) => IsInjective(Filter(s, S))
<1> DEFINE g == CHOOSE f : IsFiltering(f, s, S)
<1>1. IsFiltering(g, s, S)
  BY FilterSolved
<1>2. Filter(s, S) = g[Len(s)]
  BY DEF Filter, IsFiltering, Keeping
<1> HIDE DEF g
<1>3. Len(s) \in Nat /\ DOMAIN s = 1..Len(s)
  OBVIOUS
<1>4. g[0] = <<>> /\ \A n \in 1..Len(s) : g[n] = Keeping(g[n - 1], s[n], S)
  BY <1>1, <1>3 DEF IsFiltering
<1> DEFINE C == {n \in 0..Len(s) : ~(g[n] \in Seq(T) /\ KeptOf(g[n], s, S, n))}
<1>5. ASSUME C # {} PROVE FALSE
  <2>1. PICK n \in C : n - 1 \notin C
    <3> HIDE DEF C
    <3>1. C \in SUBSET Nat
      BY <1>3 DEF C
    <3> QED  BY <1>5, <3>1, LeastNumber
  <2>2. <<>> \in Seq(T) /\ KeptOf(<<>>, s, S, 0)
    BY DEF KeptOf, ToSet, IsInjective
  <2>3. n # 0
    BY <1>4, <2>1, <2>2
  <2>4. n \in 1..Len(s) /\ n - 1 \in 0..Len(s)
    BY <1>3, <2>1, <2>3
  <2> DEFINE k == g[n - 1]
             t == s[n]
  <2>5. k \in Seq(T) /\ KeptOf(k, s, S, n - 1)
    BY <2>1, <2>4
  <2>6. t \in T /\ g[n] = Keeping(k, t, S)
    BY <1>4, <2>4
  <2>7. {s[i] : i \in 1..n} = {s[i] : i \in 1..(n - 1)} \cup {t}
    <3>1. 1..n = (1..(n - 1)) \cup {n}
      BY <2>4
    <3> QED  BY <3>1
  <2>8. ASSUME IsInjective(s) PROVE t \notin {s[i] : i \in 1..(n - 1)}
    <3>1. \A i \in 1..(n - 1) : i \in DOMAIN s /\ i # n
      BY <1>3, <2>4
    <3> QED  BY <1>3, <2>4, <2>8, <3>1 DEF IsInjective
  <2> HIDE DEF k, t
  <2>9. CASE t \notin S
    <3>1. g[n] = k
      BY <2>6, <2>9 DEF Keeping
    <3>2. {s[i] : i \in 1..n} \cap S = {s[i] : i \in 1..(n - 1)} \cap S
      BY <2>7, <2>9
    <3> QED  BY <2>1, <2>5, <3>1, <3>2 DEF KeptOf
  <2>10. CASE t \in S
    <3>1. g[n] = Append(k, t)
      BY <2>6, <2>10 DEF Keeping
    <3>2. /\ g[n] \in Seq(T) /\ ToSet(g[n]) = ToSet(k) \cup {t}
          /\ IsInjective(k) /\ t \notin ToSet(k) => IsInjective(g[n])
      BY <2>5, <2>6, <3>1, AppendedOne
    <3>3. /\ ToSet(k) = {s[i] : i \in 1..(n - 1)} \cap S
          /\ IsInjective(s) => IsInjective(k)
      BY <2>5 DEF KeptOf
    <3>4. ToSet(g[n]) = {s[i] : i \in 1..n} \cap S
      BY <2>7, <2>10, <3>2, <3>3
    <3>5. IsInjective(s) => IsInjective(g[n])
      BY <2>8, <3>2, <3>3
    <3> QED  BY <2>1, <3>2, <3>4, <3>5 DEF KeptOf
  <2> QED  BY <2>9, <2>10
<1>6. g[Len(s)] \in Seq(T) /\ KeptOf(g[Len(s)], s, S, Len(s))
  BY <1>3, <1>5
<1>7. ToSet(s) = {s[i] : i \in 1..Len(s)}
  BY <1>3 DEF ToSet
<1> QED  BY <1>2, <1>6, <1>7 DEF KeptOf

\* What a handler may be waiting for; one that adds has a transaction to add.
Task ==
  {NoTask} \cup [pc : {"lookup"}, ids : (SUBSET Tx) \ {{}}] \cup [pc : {"asked"}]
    \cup [pc : {"taking"}, txs : Seq(Tx)] \cup [pc : {"adding"}, txs : Seq(Tx) \ {<<>>}]

\* What is being added waits in the queue, unless a release came meanwhile; with
\* it whatever is accepted and in the pool is announced, queued or missed.
RelayInv ==
  /\ txPool \in SUBSET Tx /\ confirmed \in SUBSET Tx
  /\ accepted \in SUBSET txPool /\ announced \in SUBSET Tx
  /\ queue \in Seq(Tx) /\ IsInjective(queue)
  /\ task \in [Owner -> Task]
  /\ BeingAdded \subseteq ToSet(queue) \cup missed
  /\ OnlyReleaseMisses

LEMMA RelayInvInit == RelayInit => RelayInv
<1> SUFFICES ASSUME RelayInit PROVE RelayInv
  OBVIOUS
<1>1. task \in [Owner -> Task] /\ \A o \in Owner : task[o].pc = "idle"
  BY DEF RelayInit, Task, NoTask
<1>2. BeingAdded = {}
  BY <1>1 DEF BeingAdded
<1>3. queue \in Seq(Tx) /\ IsInjective(queue)
  BY DEF RelayInit, IsInjective
<1> QED  BY <1>1, <1>2, <1>3 DEF RelayInit, RelayInv, OnlyReleaseMisses

LEMMA RelayInvImplies == RelayInv => RelayTypeOK /\ OnlyReleaseMisses
<1> SUFFICES ASSUME RelayInv PROVE RelayTypeOK
  BY DEF RelayInv
<1>1. ASSUME NEW o \in Owner
      PROVE  \/ task[o] = NoTask
             \/ task[o].pc = "lookup" /\ task[o].ids # {}
             \/ task[o].pc \in {"asked", "taking"}
             \/ task[o].pc = "adding" /\ task[o].txs # <<>>
  <2>1. task[o] \in Task
    BY DEF RelayInv
  <2>2. ASSUME task[o] \in [pc : {"lookup"}, ids : (SUBSET Tx) \ {{}}]
        PROVE  task[o].pc = "lookup" /\ task[o].ids # {}
    BY <2>2
  <2>3. ASSUME task[o] \in [pc : {"asked"}] PROVE task[o].pc = "asked"
    BY <2>3
  <2>4. ASSUME task[o] \in [pc : {"taking"}, txs : Seq(Tx)] PROVE task[o].pc = "taking"
    BY <2>4
  <2>5. ASSUME task[o] \in [pc : {"adding"}, txs : Seq(Tx) \ {<<>>}]
        PROVE  task[o].pc = "adding" /\ task[o].txs # <<>>
    BY <2>5
  <2> QED  BY <2>1, <2>2, <2>3, <2>4, <2>5 DEF Task
<1> QED  BY <1>1 DEF RelayInv, RelayTypeOK

\* The kinds of task a handler can be at, by what it waits for.
LEMMA TaskKinds ==
  ASSUME RelayInv, NEW o \in Owner
  PROVE  /\ task[o].pc = "lookup" => task[o].ids \in SUBSET Tx
         /\ task[o].pc \in {"taking", "adding"} => task[o].txs \in Seq(Tx)
         /\ task[o].pc = "adding" => task[o].txs # <<>>
         /\ task[o].pc = "taking" => [task[o] EXCEPT !.pc = "adding"].pc = "adding"
         /\ task[o].pc = "taking" => [task[o] EXCEPT !.pc = "adding"].txs = task[o].txs
         /\ task[o].pc = "taking" /\ task[o].txs # <<>> =>
              /\ [task[o] EXCEPT !.pc = "adding"] \in Task
              /\ [task[o] EXCEPT !.txs = Tail(@)] \in Task
              /\ [task[o] EXCEPT !.txs = Tail(@)].pc = "taking"
<1>1. task[o] \in Task
  BY DEF RelayInv
<1>2. CASE task[o] = NoTask
  BY <1>2 DEF NoTask
<1>3. CASE task[o] \in [pc : {"lookup"}, ids : (SUBSET Tx) \ {{}}]
  BY <1>3
<1>4. CASE task[o] \in [pc : {"asked"}]
  BY <1>4
<1>5. CASE task[o] \in [pc : {"taking"}, txs : Seq(Tx)]
  <2>1. task[o].txs \in Seq(Tx) /\ task[o].pc = "taking"
    BY <1>5
  <2>2. /\ [task[o] EXCEPT !.pc = "adding"].pc = "adding"
        /\ [task[o] EXCEPT !.pc = "adding"].txs = task[o].txs
        /\ [task[o] EXCEPT !.txs = Tail(@)].pc = "taking"
    BY <1>5
  <2>3. ASSUME task[o].txs # <<>>
        PROVE  /\ [task[o] EXCEPT !.pc = "adding"] \in [pc : {"adding"}, txs : Seq(Tx) \ {<<>>}]
               /\ [task[o] EXCEPT !.txs = Tail(@)] \in [pc : {"taking"}, txs : Seq(Tx)]
    <3>1. Tail(task[o].txs) \in Seq(Tx)
      BY <2>1, <2>3
    <3> QED  BY <1>5, <2>3, <3>1
  <2> QED  BY <2>1, <2>2, <2>3 DEF Task
<1>6. CASE task[o] \in [pc : {"adding"}, txs : Seq(Tx) \ {<<>>}]
  BY <1>6
<1> QED  BY <1>1, <1>2, <1>3, <1>4, <1>5, <1>6 DEF Task

\* A handler goes on to r, which is not adding: no more is being added than before.
LEMMA OneTaskChanges ==
  ASSUME RelayInv, NEW o \in Owner, NEW r \in Task, r.pc # "adding",
         task' = [task EXCEPT ![o] = r]
  PROVE  task' \in [Owner -> Task] /\ BeingAdded' \subseteq BeingAdded
<1>1. task' \in [Owner -> Task] /\ task'[o] = r
      /\ \A q \in Owner : q # o => task'[q] = task[q]
  BY DEF RelayInv
<1>2. {q \in Owner : task'[q].pc = "adding"} \subseteq {q \in Owner : task[q].pc = "adding"} \ {o}
  BY <1>1
<1>3. BeingAdded' \subseteq BeingAdded
  BY <1>1, <1>2 DEF BeingAdded
<1> QED  BY <1>1, <1>3

\* Where only a task changed, and to one that is not adding, all is kept.
LEMMA OnlyTaskChanges ==
  ASSUME RelayInv, task' \in [Owner -> Task], BeingAdded' \subseteq BeingAdded,
         UNCHANGED <<txPool, confirmed, queue, accepted, announced, missed>>
  PROVE  RelayInv'
BY DEF RelayInv, OnlyReleaseMisses, ToSet, IsInjective

LEMMA TasksOfPeers ==
  /\ NoTask \in Task /\ NoTask.pc = "idle"
  /\ \A txs \in Seq(Tx) : [pc |-> "taking", txs |-> txs] \in Task
  /\ \A ids \in SUBSET Tx : ids # {} => [pc |-> "lookup", ids |-> ids] \in Task
  /\ [pc |-> "asked"] \in Task
<1>1. NoTask \in Task /\ NoTask.pc = "idle"
  BY DEF Task, NoTask
<1>2. ASSUME NEW txs \in Seq(Tx)
      PROVE  [pc |-> "taking", txs |-> txs] \in [pc : {"taking"}, txs : Seq(Tx)]
  OBVIOUS
<1>3. ASSUME NEW ids \in SUBSET Tx, ids # {}
      PROVE  [pc |-> "lookup", ids |-> ids] \in [pc : {"lookup"}, ids : (SUBSET Tx) \ {{}}]
  BY <1>3
<1>4. [pc |-> "asked"] \in [pc : {"asked"}]
  OBVIOUS
<1> QED  BY <1>1, <1>2, <1>3, <1>4 DEF Task

\* The actions of Relay, one by one.
LEMMA HandlersKeep ==
  ASSUME RelayInv, NEW o \in Owner, Handle(o)
  PROVE  RelayInv'
<1>1. CASE Take(o)
  <2> DEFINE t == Head(task[o].txs)
  <2>1. /\ task[o].pc = "taking" /\ task[o].txs \in Seq(Tx) /\ task[o].txs # <<>>
        /\ t \in Tx
    <3>1. task[o].pc = "taking" /\ task[o].txs # <<>>
      BY <1>1 DEF Take
    <3>2. task[o].txs \in Seq(Tx)
      BY <3>1, TaskKinds
    <3> QED  BY <3>1, <3>2
  <2>2. CASE t \in Malformed /\ task' = [task EXCEPT ![o] = NoTask] /\ UNCHANGED queue
    <3>1. task' \in [Owner -> Task] /\ BeingAdded' \subseteq BeingAdded
      BY <2>2, TasksOfPeers, OneTaskChanges
    <3> QED  BY <1>1, <2>2, <3>1, OnlyTaskChanges DEF Take
  <2>3. CASE task' = [task EXCEPT ![o].txs = Tail(@)] /\ UNCHANGED queue
    <3> DEFINE r == [task[o] EXCEPT !.txs = Tail(@)]
    <3>1. r \in Task /\ r.pc = "taking"
      BY <2>1, TaskKinds
    <3>2. task' = [task EXCEPT ![o] = r]
      BY <2>3
    <3> HIDE DEF r
    <3>3. task' \in [Owner -> Task] /\ BeingAdded' \subseteq BeingAdded
      BY <3>1, <3>2, OneTaskChanges
    <3> QED  BY <1>1, <2>3, <3>3, OnlyTaskChanges DEF Take
  <2>4. CASE /\ t \notin txPool \cup Malformed
             /\ task' = [task EXCEPT ![o].pc = "adding"]
             /\ queue' = Enqueued(t)
    <3> DEFINE r == [task[o] EXCEPT !.pc = "adding"]
    <3>1. r \in Task /\ r.pc = "adding" /\ Head(r.txs) = t
      BY <2>1, TaskKinds
    <3>2. task' = [task EXCEPT ![o] = r]
      BY <2>4
    <3> HIDE DEF r, t
    <3>3. /\ task' \in [Owner -> Task] /\ task'[o] = r
          /\ \A q \in Owner : q # o => task'[q] = task[q]
      BY <3>1, <3>2 DEF RelayInv
    <3>4. BeingAdded' \subseteq BeingAdded \cup {t}
      BY <3>1, <3>3 DEF BeingAdded
    <3>5. /\ queue' \in Seq(Tx) /\ IsInjective(queue')
          /\ ToSet(queue') = ToSet(queue) \cup {t}
      <4>1. CASE t \in ToSet(queue)
        BY <2>4, <4>1 DEF Enqueued, RelayInv
      <4>2. CASE t \notin ToSet(queue)
        <5>1. queue' = Append(queue, t)
          BY <2>4, <4>2 DEF Enqueued
        <5> QED  BY <2>1, <4>2, <5>1, AppendedOne DEF RelayInv
      <4> QED  BY <4>1, <4>2
    <3>6. UNCHANGED <<txPool, confirmed, accepted, announced, missed>>
      BY <1>1 DEF Take
    <3> QED  BY <3>3, <3>4, <3>5, <3>6 DEF RelayInv, OnlyReleaseMisses
  <2> QED  BY <1>1, <2>2, <2>3, <2>4 DEF Take
<1>2. CASE TakenAll(o) \/ PoolRefuses(o)
  <2>1. task' = [task EXCEPT ![o] = NoTask]
    BY <1>2 DEF TakenAll, PoolRefuses
  <2>2. task' \in [Owner -> Task] /\ BeingAdded' \subseteq BeingAdded
    BY <2>1, TasksOfPeers, OneTaskChanges
  <2> QED  BY <1>2, <2>2, OnlyTaskChanges DEF TakenAll, PoolRefuses
<1>3. CASE PoolAdds(o)
  <2> DEFINE t == Head(task[o].txs)
             r == [pc |-> "taking", txs |-> Tail(task[o].txs)]
  <2>1. /\ task[o].pc = "adding" /\ task[o].txs \in Seq(Tx) /\ task[o].txs # <<>>
        /\ t \in Tx /\ Tail(task[o].txs) \in Seq(Tx)
    <3>1. task[o].pc = "adding"
      BY <1>3 DEF PoolAdds
    <3>2. task[o].txs \in Seq(Tx) /\ task[o].txs # <<>>
      BY <3>1, TaskKinds
    <3> QED  BY <3>1, <3>2
  <2>2. r \in Task /\ r.pc = "taking"
    BY <2>1, TasksOfPeers
  <2>3. task' = [task EXCEPT ![o] = r]
    BY <1>3 DEF PoolAdds
  <2>4. t \in BeingAdded
    BY <2>1 DEF BeingAdded
  <2>5. /\ t \notin txPool /\ txPool' = txPool \cup {t}
        /\ accepted' = accepted \cup {t} /\ announced' = announced \ {t}
        /\ UNCHANGED <<confirmed, queue, missed>>
    BY <1>3 DEF PoolAdds
  <2> HIDE DEF t, r
  <2>6. task' \in [Owner -> Task] /\ BeingAdded' \subseteq BeingAdded
    BY <2>2, <2>3, OneTaskChanges
  <2>7. t \in ToSet(queue) \cup missed /\ t \in Tx
    BY <2>1, <2>4 DEF RelayInv
  <2>8. ToSet(queue') = ToSet(queue) /\ IsInjective(queue') = IsInjective(queue)
    BY <2>5
  <2> QED  BY <2>5, <2>6, <2>7, <2>8 DEF RelayInv, OnlyReleaseMisses
<1> QED  BY <1>1, <1>2, <1>3 DEF Handle

LEMMA PeersKeep ==
  ASSUME RelayInv, NEW p \in Announcer,
         \/ \E ids \in SUBSET Tx : Announcement(p, ids)
         \/ Lookup(p) \/ NoAnswer(p)
         \/ \E txs \in Answers : Answer(p, txs)
  PROVE  RelayInv'
<1>1. p \in Owner
  BY DEF Owner
<1>2. task' = task \/ \E r \in Task : r.pc # "adding" /\ task' = [task EXCEPT ![p] = r]
  <2>1. ASSUME NEW ids \in SUBSET Tx, Announcement(p, ids), ~(ids \subseteq txPool)
        PROVE  \E r \in Task : r.pc # "adding" /\ task' = [task EXCEPT ![p] = r]
    <3> DEFINE r == [pc |-> "lookup", ids |-> ids \ txPool]
    <3>1. r \in Task /\ r.pc # "adding"
      BY <2>1, TasksOfPeers
    <3>2. task' = [task EXCEPT ![p] = r]
      BY <2>1 DEF Announcement
    <3> QED  BY <3>1, <3>2
  <2>2. ASSUME NEW ids \in SUBSET Tx, Announcement(p, ids), ids \subseteq txPool
        PROVE  task' = task
    BY <2>2 DEF Announcement
  <2>3. ASSUME Lookup(p) \/ NoAnswer(p)
        PROVE  \E r \in Task : r.pc # "adding" /\ task' = [task EXCEPT ![p] = r]
    <3> DEFINE asking == [pc |-> "asked"]
    <3>1. asking \in Task /\ asking.pc # "adding" /\ NoTask \in Task /\ NoTask.pc # "adding"
      BY TasksOfPeers
    <3>2. task' = [task EXCEPT ![p] = asking] \/ task' = [task EXCEPT ![p] = NoTask]
      BY <2>3 DEF Lookup, NoAnswer
    <3> QED  BY <3>1, <3>2
  <2>4. ASSUME NEW txs \in Answers, Answer(p, txs)
        PROVE  \E r \in Task : r.pc # "adding" /\ task' = [task EXCEPT ![p] = r]
    <3> DEFINE r == [pc |-> "taking", txs |-> txs]
    <3>1. r \in Task /\ r.pc # "adding"
      BY RelayAssumption, TasksOfPeers
    <3>2. task' = [task EXCEPT ![p] = r]
      BY <2>4 DEF Answer
    <3> QED  BY <3>1, <3>2
  <2> QED  BY <2>1, <2>2, <2>3, <2>4
<1>3. UNCHANGED <<txPool, confirmed, queue, accepted, announced, missed>>
  BY DEF Announcement, Lookup, NoAnswer, Answer
<1>4. task' \in [Owner -> Task] /\ BeingAdded' \subseteq BeingAdded
  <2>1. CASE task' = task
    BY <2>1 DEF RelayInv, BeingAdded
  <2>2. CASE \E r \in Task : r.pc # "adding" /\ task' = [task EXCEPT ![p] = r]
    BY <1>1, <2>2, OneTaskChanges
  <2> QED  BY <1>2, <2>1, <2>2
<1> QED  BY <1>3, <1>4, OnlyTaskChanges

LEMMA TransactionsKeep ==
  ASSUME RelayInv, NEW t \in Tx,
         PostTransaction(t) \/ Confirm(t) \/ Unconfirm(t) \/ Leave(t)
  PROVE  RelayInv'
<1>1. CASE PostTransaction(t)
  <2> DEFINE r == [pc |-> "taking", txs |-> <<t>>]
  <2>1. r \in Task /\ r.pc # "adding" /\ "api" \in Owner
    <3>1. <<t>> \in Seq(Tx)
      OBVIOUS
    <3> QED  BY <3>1, TasksOfPeers DEF Owner
  <2>2. task' = [task EXCEPT !["api"] = r]
    BY <1>1 DEF PostTransaction
  <2> HIDE DEF r
  <2>3. task' \in [Owner -> Task] /\ BeingAdded' \subseteq BeingAdded
    BY <2>1, <2>2, OneTaskChanges
  <2> QED  BY <1>1, <2>3, OnlyTaskChanges DEF PostTransaction
<1>2. CASE Confirm(t) \/ Unconfirm(t) \/ Leave(t)
  <2>1. /\ UNCHANGED <<queue, task, announced>>
        /\ ToSet(queue') = ToSet(queue) /\ IsInjective(queue') = IsInjective(queue)
        /\ BeingAdded' = BeingAdded
    BY <1>2 DEF Confirm, Unconfirm, Leave, BeingAdded
  <2>2. CASE Confirm(t) \/ Leave(t)
    <3>1. /\ txPool' = txPool \ {t} /\ accepted' = accepted \ {t}
          /\ missed' = missed \ ({t} \ BeingAdded)
          /\ confirmed' \in {confirmed, confirmed \cup {t}}
      BY <2>2 DEF Confirm, Leave
    <3> QED  BY <2>1, <3>1 DEF RelayInv, OnlyReleaseMisses
  <2>3. CASE Unconfirm(t)
    <3>1. /\ confirmed' = confirmed \ {t} /\ txPool' \in {txPool, txPool \cup {t}}
          /\ UNCHANGED <<accepted, missed>>
      BY <2>3 DEF Unconfirm
    <3> QED  BY <2>1, <3>1 DEF RelayInv, OnlyReleaseMisses
  <2> QED  BY <1>2, <2>2, <2>3
<1> QED  BY <1>1, <1>2

LEMMA ReleaseKeeps ==
  ASSUME RelayInv, Release
  PROVE  RelayInv' /\ announced' \ announced \subseteq txPool
<1> DEFINE kept == Filter(queue, txPool)
           n == IF Len(kept) < ReleaseLimit THEN Len(kept) ELSE ReleaseLimit
           sent == ToSet(SubSeq(kept, 1, n))
<1>1. queue \in Seq(Tx) /\ IsInjective(queue)
  BY DEF RelayInv
<1>2. kept \in Seq(Tx) /\ ToSet(kept) = ToSet(queue) \cap txPool /\ IsInjective(kept)
  BY <1>1, FilterKeeps
<1>3. /\ announced' = announced \cup sent /\ queue' = Filter(kept, Tx \ sent)
      /\ missed' = missed \cup BeingAdded
      /\ UNCHANGED <<txPool, confirmed, task, accepted>>
  BY DEF Release
<1> HIDE DEF kept
<1>4. /\ queue' \in Seq(Tx) /\ IsInjective(queue')
      /\ ToSet(queue') = ToSet(kept) \cap (Tx \ sent)
  <2> HIDE DEF sent
  <2> QED  BY <1>2, <1>3, FilterKeeps
<1>5. sent \subseteq ToSet(kept)
  <2>1. n \in Nat /\ n <= Len(kept)
    BY <1>2, RelayAssumption
  <2> HIDE DEF n
  <2>2. \A i \in 1..n : i \in DOMAIN kept
    BY <1>2, <2>1
  <2>3. DOMAIN SubSeq(kept, 1, n) = 1..n /\ \A i \in 1..n : SubSeq(kept, 1, n)[i] = kept[i]
    BY <1>2, <2>1
  <2> QED  BY <2>2, <2>3 DEF ToSet
<1> HIDE DEF sent
<1>6. ToSet(kept) \subseteq txPool /\ txPool \in SUBSET Tx
  BY <1>2 DEF RelayInv
<1>7. BeingAdded' = BeingAdded /\ BeingAdded \subseteq ToSet(queue') \cup missed'
  BY <1>3 DEF BeingAdded
<1>8. OnlyReleaseMisses'
  BY <1>2, <1>3, <1>4, <1>6 DEF RelayInv, OnlyReleaseMisses
<1>9. announced' \in SUBSET Tx /\ announced' \ announced \subseteq txPool
  BY <1>3, <1>5, <1>6 DEF RelayInv
<1> QED  BY <1>3, <1>4, <1>7, <1>8, <1>9 DEF RelayInv

LEMMA RelayInvNext ==
  ASSUME RelayInv, [RelayNext]_relayVars
  PROVE  RelayInv' /\ announced' \ announced \subseteq txPool
<1>1. CASE \E p \in Announcer :
             \/ \E ids \in SUBSET Tx : Announcement(p, ids)
             \/ Lookup(p) \/ NoAnswer(p)
             \/ \E txs \in Answers : Answer(p, txs)
  <2>1. announced' = announced
    BY <1>1 DEF Announcement, Lookup, NoAnswer, Answer
  <2> QED  BY <1>1, <2>1, PeersKeep
<1>2. CASE \E t \in Tx : PostTransaction(t) \/ Confirm(t) \/ Unconfirm(t) \/ Leave(t)
  <2>1. announced' = announced
    BY <1>2 DEF PostTransaction, Confirm, Unconfirm, Leave
  <2> QED  BY <1>2, <2>1, TransactionsKeep
<1>3. CASE \E o \in Owner : Handle(o)
  <2>1. announced' \subseteq announced
    BY <1>3 DEF Handle, Take, TakenAll, PoolAdds, PoolRefuses
  <2> QED  BY <1>3, <2>1, HandlersKeep
<1>4. CASE Release
  BY <1>4, ReleaseKeeps
<1>5. CASE UNCHANGED relayVars
  <2>1. UNCHANGED <<txPool, confirmed, queue, task, accepted, announced, missed>>
    BY <1>5 DEF relayVars
  <2>2. task' \in [Owner -> Task] /\ BeingAdded' \subseteq BeingAdded
    BY <2>1 DEF RelayInv, BeingAdded
  <2> QED  BY <2>1, <2>2, OnlyTaskChanges
<1> QED  BY <1>1, <1>2, <1>3, <1>4, <1>5 DEF RelayNext

\* What is announced is in the pool when it is, and what the node has accepted is
\* announced or waits in the queue unless a release came while it was being added:
\* _receiveTransaction and _broadcast, for any peers, transactions and answers and
\* any release limit.
THEOREM AnnouncementsAreRight == RelaySpec => AnnouncedRightly
<1>1. RelayInit => RelayInv
  BY RelayInvInit
<1>2. RelayInv /\ [RelayNext]_relayVars => RelayInv'
  BY RelayInvNext
<1>3. RelayInv /\ [RelayNext]_relayVars => [announced' \ announced \subseteq txPool]_relayVars
  BY RelayInvNext
<1>4. RelayInv => RelayTypeOK /\ OnlyReleaseMisses
  BY RelayInvImplies
<1> QED
  BY <1>1, <1>2, <1>3, <1>4, PTL DEF RelaySpec, AnnouncedRightly, OnlyHeldAnnounced
=============================================================================
