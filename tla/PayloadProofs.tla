--------------------------- MODULE PayloadProofs ---------------------------
(***************************************************************************)
(* Proofs about what a block carries.                                      *)
(*                                                                         *)
(* TransactionPool, for any senders, transactions, callers and limits:     *)
(* PoolOK collects what every operation on the pool needs and keeps: the   *)
(* map, the lists and the queue fit together and are within their limits.  *)
(* The invariant adds what is known of the transactions a reorganization   *)
(* waits to promote: as long as it has noticed no change they are in the   *)
(* pool, and verified.                                                     *)
(*                                                                         *)
(* SparseMerkleTree, for keys of any length, any values and any order of   *)
(* updates and removals: the node at every depth of a key's way is the     *)
(* node of the keys that share its digits so far (Sharing, NodeAt).  A     *)
(* change of k replaces the nodes on the way of k and no others; the       *)
(* invariant says that the root is the map's and the database has the leaf *)
(* of every key and the branch of every place several keys share.          *)
(***************************************************************************)
EXTENDS TransactionPool, SparseMerkleTree, FiniteSetTheorems, WellFoundedInduction, TLAPS

PoolType ==
  [txs : SUBSET Tx, listed : [Sender -> SUBSET Tx],
   processable : [Sender -> SUBSET {t.nonce : t \in Tx}], feeQueue : SUBSET Tx]

PoolOK(p) ==
  /\ p \in PoolType
  /\ IsFiniteSet(p.txs)
  /\ Cardinality(p.txs) <= MaxTransactions
  /\ \A s \in Sender : Cardinality(p.listed[s]) <= MaxTransactionsPerAccount
  /\ \A s \in Sender : p.listed[s] = {t \in p.txs : t.sender = s}
  /\ \A t, u \in p.txs : t.sender = u.sender /\ t.nonce = u.nonce => t = u
  /\ \A s \in Sender : p.processable[s] \subseteq {t.nonce : t \in p.listed[s]}
  /\ p.txs \subseteq p.feeQueue

PromotingKnown ==
  reorganizing # NoCall /\ ~reorganizing.changed
    => reorganizing.promoting \subseteq pool.txs \cap verified

IInv == TypeOK /\ PoolOK(pool) /\ OnlyVerifiedForgeable /\ PromotingKnown

-----------------------------------------------------------------------------
\* Non-empty sets of naturals have a least element.
Smaller == {ss \in Nat \X Nat : ss[1] < ss[2]}

LEMMA LeastNatural ==
  ASSUME NEW S \in SUBSET Nat, S # {}
  PROVE  \E m \in S : \A k \in S : m <= k
<1>1. IsWellFoundedOn(Smaller, Nat)
  BY NatLessThanWellFounded DEF OpToRel, Smaller
<1>2. PICK m \in S : \A k \in S : ~ (<<k, m>> \in Smaller)
  BY <1>1, WFMin, Zenon
<1>3. \A x, y \in Nat : x < y => <<x, y>> \in Smaller
  BY DEF Smaller
<1>4. ASSUME NEW k \in S PROVE m <= k
  <2>1. k \in Nat /\ m \in Nat
    OBVIOUS
  <2>2. ~(k < m)
    BY <1>2, <1>3, <2>1, Zenon
  <2> QED BY <2>1, <2>2
<1> QED BY <1>4

LEMMA TxTyped ==
  ASSUME NEW t \in Tx
  PROVE  t.sender \in Sender /\ t.nonce \in Nat /\ t.fee \in Nat /\ t.priority \in Nat
  BY TransactionPoolAssumption

LEMMA AddedBound ==
  ASSUME NEW S, IsFiniteSet(S), NEW x
  PROVE  /\ IsFiniteSet(S \cup {x}) /\ Cardinality(S \cup {x}) \in Nat
         /\ Cardinality(S) \in Nat /\ Cardinality(S \cup {x}) <= Cardinality(S) + 1
<1>1. IsFiniteSet(S \cup {x})
  BY FS_AddElement
<1>2. Cardinality(S \cup {x}) \in Nat /\ Cardinality(S) \in Nat
  BY <1>1, FS_CardinalityType
<1>3. CASE x \in S
  <2>1. S \cup {x} = S
    BY <1>3
  <2> QED BY <1>1, <1>2, <2>1
<1>4. CASE x \notin S
  BY <1>1, <1>2, <1>4, FS_AddElement
<1> QED BY <1>3, <1>4

LEMMA CheapestExists ==
  ASSUME NEW txs \in SUBSET Tx, txs # {}
  PROVE  Cheapest(txs) # {}
<1> DEFINE P == {t.priority : t \in txs}
<1>1. P \in SUBSET Nat /\ P # {}
  BY TxTyped
<1>2. PICK m \in P : \A k \in P : m <= k
  BY <1>1, LeastNatural
<1> QED BY <1>2 DEF Cheapest

LEMMA HighestExists ==
  ASSUME NEW txs \in SUBSET Tx, IsFiniteSet(txs), txs # {}
  PROVE  Highest(txs) # {}
<1> DEFINE Above(t) == {u \in txs : t.nonce < u.nonce}
           C == {Cardinality(Above(t)) : t \in txs}
<1>1. \A t \in txs : IsFiniteSet(Above(t)) /\ Cardinality(Above(t)) \in Nat
  <2> TAKE t \in txs
  <2>1. Above(t) \in SUBSET txs
    OBVIOUS
  <2>2. IsFiniteSet(Above(t))
    BY <2>1, FS_Subset
  <2> QED BY <2>2, FS_CardinalityType
<1>2. C \in SUBSET Nat /\ C # {}
  BY <1>1
<1>3. PICK m \in C : \A k \in C : m <= k
  BY <1>2, LeastNatural
<1>4. PICK t \in txs : m = Cardinality(Above(t))
  BY <1>3
<1>5. ASSUME NEW u \in Above(t) PROVE FALSE
  <2>1. u \in txs /\ t.nonce < u.nonce
    BY <1>5
  <2>2. Above(u) \subseteq Above(t) \ {u}
    BY <2>1, TxTyped
  <2>3. /\ IsFiniteSet(Above(t) \ {u})
        /\ Cardinality(Above(t) \ {u}) = Cardinality(Above(t)) - 1
    BY <1>1, <1>5, FS_RemoveElement
  <2>4. Cardinality(Above(u)) <= Cardinality(Above(t) \ {u})
    BY <2>2, <2>3, FS_Subset
  <2>5. m <= Cardinality(Above(u))
    BY <1>3, <2>1
  <2> HIDE DEF Above
  <2> QED BY <1>1, <1>4, <2>1, <2>3, <2>4, <2>5
<1>6. \A u \in txs : u.nonce <= t.nonce
  BY <1>4, <1>5, TxTyped
<1> QED BY <1>4, <1>6 DEF Highest

-----------------------------------------------------------------------------
LEMMA ListsFinite ==
  ASSUME NEW p, PoolOK(p), NEW s \in Sender
  PROVE  /\ p.listed[s] \subseteq p.txs /\ p.listed[s] \subseteq Tx
         /\ IsFiniteSet(p.listed[s])
         /\ Cardinality(p.listed[s]) \in Nat
         /\ \A t \in p.listed[s] : t.sender = s
<1>1. p.listed[s] = {t \in p.txs : t.sender = s} /\ p.txs \subseteq Tx
  BY DEF PoolOK, PoolType
<1>2. IsFiniteSet(p.txs)
  BY DEF PoolOK
<1>3. IsFiniteSet(p.listed[s])
  BY <1>1, <1>2, FS_Subset
<1> QED BY <1>1, <1>3, FS_CardinalityType

\* Smaller pools with the same lists are within the limits.
LEMMA ShrinkBounded ==
  ASSUME NEW p, PoolOK(p), NEW txs \in SUBSET p.txs,
         NEW listed, \A s \in Sender : listed[s] \subseteq p.listed[s]
  PROVE  /\ IsFiniteSet(txs) /\ Cardinality(txs) <= MaxTransactions
         /\ \A s \in Sender : Cardinality(listed[s]) <= MaxTransactionsPerAccount
<1>1. IsFiniteSet(txs) /\ Cardinality(txs) <= Cardinality(p.txs)
  BY FS_Subset DEF PoolOK
<1>2. Cardinality(txs) \in Nat /\ Cardinality(p.txs) \in Nat
  BY <1>1, FS_CardinalityType DEF PoolOK
<1>3. ASSUME NEW s \in Sender PROVE Cardinality(listed[s]) <= MaxTransactionsPerAccount
  <2>1. IsFiniteSet(listed[s]) /\ Cardinality(listed[s]) <= Cardinality(p.listed[s])
    BY ListsFinite, FS_Subset
  <2>2. Cardinality(listed[s]) \in Nat /\ Cardinality(p.listed[s]) \in Nat
    BY <2>1, ListsFinite, FS_CardinalityType
  <2>3. Cardinality(p.listed[s]) <= MaxTransactionsPerAccount
    BY DEF PoolOK
  <2> QED BY <2>1, <2>2, <2>3, TransactionPoolAssumption
<1> QED BY <1>1, <1>2, <1>3, TransactionPoolAssumption DEF PoolOK

LEMMA RemovedOK ==
  ASSUME NEW p, PoolOK(p), NEW txs
  PROVE  /\ PoolOK(Removed(p, txs))
         /\ Removed(p, txs).txs = p.txs \ txs
         /\ \A s \in Sender : Removed(p, txs).processable[s] \subseteq p.processable[s]
<1> DEFINE gone == txs \cap p.txs
           r == Removed(p, txs)
<1>1. CASE gone = {}
  BY <1>1 DEF Removed
<1>2. CASE gone # {}
  <2>1. /\ r.txs = p.txs \ gone /\ r.feeQueue = p.txs \ gone
        /\ r.listed = [s \in Sender |-> {t \in p.listed[s] :
             \A g \in gone : g.sender = s => g.nonce # t.nonce}]
        /\ r.processable = Demoted(p, gone)
        /\ r = [txs |-> r.txs, listed |-> r.listed,
                processable |-> r.processable, feeQueue |-> r.feeQueue]
    BY <1>2 DEF Removed
  <2> HIDE DEF r
  <2>2. /\ p.txs \subseteq Tx
        /\ \A s \in Sender : p.listed[s] = {t \in p.txs : t.sender = s}
        /\ \A t, u \in p.txs : t.sender = u.sender /\ t.nonce = u.nonce => t = u
        /\ \A s \in Sender : p.processable[s] \subseteq {t.nonce : t \in p.listed[s]}
    BY DEF PoolOK, PoolType
  <2>3. \A s \in Sender : r.processable[s] \subseteq p.processable[s]
    BY <2>1 DEF Demoted
  <2>4. \A s \in Sender : r.listed[s] \subseteq p.listed[s]
    BY <2>1
  <2>5. ASSUME NEW s \in Sender PROVE r.listed[s] = {t \in r.txs : t.sender = s}
    <3>1. r.listed[s] = {t \in p.listed[s] : \A g \in gone : g.sender = s => g.nonce # t.nonce}
      BY <2>1
    <3>2. ASSUME NEW t \in p.listed[s]
          PROVE  (\A g \in gone : g.sender = s => g.nonce # t.nonce) <=> t \notin gone
      BY <2>2
    <3> QED BY <2>1, <2>2, <3>1, <3>2
  <2>6. ASSUME NEW s \in Sender PROVE r.processable[s] \subseteq {t.nonce : t \in r.listed[s]}
    <3>1. ASSUME NEW n \in r.processable[s] PROVE \E t \in r.listed[s] : t.nonce = n
      <4>1. n \in p.processable[s] /\ \A g \in gone : g.sender = s => n < g.nonce
        BY <2>1 DEF Demoted
      <4>2. PICK t \in p.listed[s] : t.nonce = n
        BY <2>2, <4>1
      <4>3. \A g \in gone : g.nonce \in Nat
        BY <2>2, TxTyped
      <4>4. \A g \in gone : g.sender = s => g.nonce # t.nonce
        BY <4>1, <4>2, <4>3
      <4> QED BY <2>1, <4>2, <4>4
    <3> QED BY <3>1
  <2>7. r \in PoolType
    <3>1. r.txs \in SUBSET Tx /\ r.feeQueue \in SUBSET Tx
      BY <2>1, <2>2
    <3>2. r.listed \in [Sender -> SUBSET Tx]
      BY <2>1, <2>2
    <3>3. r.processable \in [Sender -> SUBSET {t.nonce : t \in Tx}]
      <4>1. p.processable \in [Sender -> SUBSET {t.nonce : t \in Tx}]
        BY DEF PoolOK, PoolType
      <4> QED BY <2>1, <4>1 DEF Demoted
    <3> QED BY <2>1, <3>1, <3>2, <3>3 DEF PoolType
  <2>8. r.txs \subseteq p.txs /\ r.txs = p.txs \ txs
    BY <2>1
  <2>9. /\ IsFiniteSet(r.txs) /\ Cardinality(r.txs) <= MaxTransactions
        /\ \A s \in Sender : Cardinality(r.listed[s]) <= MaxTransactionsPerAccount
    BY <2>4, <2>8, ShrinkBounded
  <2>10. PoolOK(r)
    BY <2>1, <2>2, <2>5, <2>6, <2>7, <2>8, <2>9 DEF PoolOK
  <2> QED BY <2>3, <2>8, <2>10 DEF r
<1> QED BY <1>1, <1>2

LEMMA PromotedOK ==
  ASSUME NEW p, PoolOK(p), NEW txs \in SUBSET p.txs
  PROVE  /\ PoolOK(Promoted(p, txs))
         /\ Promoted(p, txs).txs = p.txs
         /\ Promoted(p, txs).listed = p.listed
         /\ \A s \in Sender : Promoted(p, txs).processable[s] =
              p.processable[s] \cup {t.nonce : t \in {u \in txs : u.sender = s}}
<1> DEFINE r == Promoted(p, txs)
<1>1. /\ p \in PoolType /\ p.txs \subseteq Tx
      /\ p.processable \in [Sender -> SUBSET {t.nonce : t \in Tx}]
      /\ \A s \in Sender : p.listed[s] = {t \in p.txs : t.sender = s}
  BY DEF PoolOK, PoolType
<1>2. /\ r.txs = p.txs /\ r.listed = p.listed /\ r.feeQueue = p.feeQueue
      /\ r.processable = [s \in Sender |->
           p.processable[s] \cup {t.nonce : t \in {u \in txs : u.sender = s}}]
  BY <1>1 DEF Promoted, PoolType
<1>3. r.processable \in [Sender -> SUBSET {t.nonce : t \in Tx}]
  BY <1>1, <1>2
<1>4. r \in PoolType
  BY <1>1, <1>3 DEF Promoted, PoolType
<1>5. \A s \in Sender : r.processable[s] \subseteq {t.nonce : t \in r.listed[s]}
  BY <1>1, <1>2 DEF PoolOK
<1> HIDE DEF r
<1>6. PoolOK(r)
  BY <1>2, <1>4, <1>5 DEF PoolOK
<1> QED BY <1>2, <1>6 DEF r

-----------------------------------------------------------------------------
LEMMA EvictableWithin ==
  ASSUME NEW p, PoolOK(p)
  PROVE  /\ UNION {Unprocessable(p, s) : s \in Sender} \subseteq p.txs
         /\ UNION {Highest(Processable(p, s)) : s \in Sender} \subseteq p.txs
         /\ Evictable(p) \subseteq p.txs
<1>1. \A s \in Sender : /\ Unprocessable(p, s) \subseteq p.txs
                        /\ Highest(Processable(p, s)) \subseteq p.txs
  BY ListsFinite DEF Highest, Unprocessable, Processable
<1>2. UNION {Unprocessable(p, s) : s \in Sender} \subseteq p.txs
  BY <1>1
<1>3. UNION {Highest(Processable(p, s)) : s \in Sender} \subseteq p.txs
  BY <1>1
<1>4. \A txs : Cheapest(txs) \subseteq txs
  BY DEF Cheapest
<1> QED BY <1>2, <1>3, <1>4 DEF Evictable

\* Whenever there is a transaction there is one that can be evicted.
LEMMA EvictableExists ==
  ASSUME NEW p, PoolOK(p), p.txs # {}
  PROVE  Evictable(p) # {}
<1> DEFINE unprocessable == UNION {Unprocessable(p, s) : s \in Sender}
           heads == UNION {Highest(Processable(p, s)) : s \in Sender}
<1>1. unprocessable \in SUBSET Tx /\ heads \in SUBSET Tx
  BY EvictableWithin DEF PoolOK, PoolType
<1>2. CASE unprocessable # {}
  BY <1>1, <1>2, CheapestExists DEF Evictable
<1>3. CASE unprocessable = {}
  <2>1. PICK t \in p.txs : TRUE
    OBVIOUS
  <2>2. t \in p.listed[t.sender] /\ t.sender \in Sender
    BY TxTyped DEF PoolOK, PoolType
  <2> DEFINE s == t.sender
             lower == {u \in p.listed[s] : u.nonce < t.nonce}
  <2>3. p.processable[s] # {}
    <3>1. SUFFICES ASSUME p.processable[s] = {} PROVE t \in Unprocessable(p, s)
      BY <1>3, <2>2
    <3>2. IsFiniteSet(lower)
      BY <2>2, ListsFinite, FS_Subset
    <3>3. Cardinality(lower) \in Nat
      BY <3>2, FS_CardinalityType
    <3>4. Cardinality(p.processable[s]) = 0
      BY <3>1, FS_EmptySet
    <3> QED BY <2>2, <3>3, <3>4 DEF Unprocessable
  <2>4. Processable(p, s) # {} /\ Processable(p, s) \in SUBSET Tx
    <3>1. PICK n \in p.processable[s] : TRUE
      BY <2>3
    <3>2. PICK u \in p.listed[s] : u.nonce = n
      BY <2>2, <3>1 DEF PoolOK
    <3>3. p.listed[s] \subseteq Tx
      BY <2>2, ListsFinite
    <3> QED BY <3>1, <3>2, <3>3 DEF Processable
  <2>5. IsFiniteSet(Processable(p, s))
    <3>1. Processable(p, s) \in SUBSET p.listed[s] /\ IsFiniteSet(p.listed[s])
      BY <2>2, ListsFinite DEF Processable
    <3> QED BY <3>1, FS_Subset
  <2>6. Highest(Processable(p, s)) # {}
    BY <2>4, <2>5, HighestExists
  <2>7. heads # {}
    <3>1. PICK h : h \in Highest(Processable(p, s))
      BY <2>6
    <3>2. h \in heads
      BY <2>2, <3>1, Zenon
    <3> QED BY <3>2
  <2> QED BY <1>1, <1>3, <2>7, CheapestExists DEF Evictable
<1> QED BY <1>2, <1>3

LEMMA RoomMadeOK ==
  ASSUME NEW p, PoolOK(p), NEW q \in RoomMade(p)
  PROVE  /\ PoolOK(q) /\ q.txs \subseteq p.txs
         /\ Cardinality(q.txs) < MaxTransactions
         /\ \A s \in Sender : q.processable[s] \subseteq p.processable[s]
<1>1. IsFiniteSet(p.txs) /\ Cardinality(p.txs) \in Nat /\ Cardinality(p.txs) <= MaxTransactions
  BY FS_CardinalityType DEF PoolOK
<1>2. CASE ~Full(p)
  BY <1>1, <1>2, TransactionPoolAssumption DEF RoomMade, Full
<1>3. CASE Full(p)
  <2>1. p.txs # {}
    BY <1>1, <1>3, FS_EmptySet, TransactionPoolAssumption DEF Full
  <2>2. PICK t \in Evictable(p) : q = Removed(p, {t})
    BY <1>3, <2>1, EvictableExists DEF RoomMade
  <2>3. t \in p.txs
    BY <2>2, EvictableWithin
  <2>4. Cardinality(p.txs \ {t}) = Cardinality(p.txs) - 1
    BY <1>1, <2>3, FS_RemoveElement
  <2>5. /\ PoolOK(q) /\ q.txs = p.txs \ {t}
        /\ \A s \in Sender : q.processable[s] \subseteq p.processable[s]
    BY <2>2, RemovedOK
  <2> QED BY <1>1, <2>4, <2>5, TransactionPoolAssumption
<1> QED BY <1>2, <1>3

LEMMA DisplacedWithin ==
  ASSUME NEW p, PoolOK(p), NEW tx \in Tx
  PROVE  /\ Displaced(p, tx) \subseteq p.listed[tx.sender]
         /\ tx.sender \in Sender
         /\ \A u \in p.listed[tx.sender] : u.nonce = tx.nonce => u \in Displaced(p, tx)
  BY TxTyped DEF Displaced, SameNonce, Highest

\* A list that is full loses one of its transactions to the new one.
LEMMA ListStaysBounded ==
  ASSUME NEW p, PoolOK(p), NEW tx \in Tx
  PROVE  Cardinality((p.listed[tx.sender] \ Displaced(p, tx)) \cup {tx})
           <= MaxTransactionsPerAccount
<1> DEFINE list == p.listed[tx.sender]
           rest == list \ Displaced(p, tx)
<1> SUFFICES Cardinality(rest \cup {tx}) <= MaxTransactionsPerAccount
  OBVIOUS
<1>1. /\ tx.sender \in Sender /\ IsFiniteSet(list) /\ Cardinality(list) \in Nat
      /\ Cardinality(list) <= MaxTransactionsPerAccount /\ list \subseteq Tx
  BY TxTyped, ListsFinite DEF PoolOK
<1>2. /\ IsFiniteSet(rest) /\ Cardinality(rest) <= Cardinality(list)
      /\ Cardinality(rest) \in Nat
  BY <1>1, FS_Subset, FS_CardinalityType
<1>3. Cardinality(rest \cup {tx}) <= Cardinality(rest) + 1
  BY <1>2, AddedBound
<1>4. /\ Cardinality(rest \cup {tx}) \in Nat
      /\ MaxTransactionsPerAccount \in Nat
  BY <1>2, AddedBound, TransactionPoolAssumption
<1>5. CASE Displaced(p, tx) # {}
  <2>1. PICK u \in list : u \in Displaced(p, tx)
    BY <1>5, DisplacedWithin
  <2>2. rest \subseteq list \ {u}
    BY <2>1
  <2>3. IsFiniteSet(list \ {u}) /\ Cardinality(list \ {u}) = Cardinality(list) - 1
    BY <1>1, <2>1, FS_RemoveElement
  <2>4. Cardinality(rest) <= Cardinality(list \ {u})
    BY <2>2, <2>3, FS_Subset
  <2> HIDE DEF rest, list
  <2> QED BY <1>1, <1>2, <1>3, <1>4, <2>3, <2>4
<1>6. CASE Displaced(p, tx) = {}
  <2>1. ~ListFull(p, tx.sender)
    <3>1. SUFFICES ASSUME ListFull(p, tx.sender) PROVE FALSE
      OBVIOUS
    <3>2. SameNonce(p, tx) = {} /\ Highest(list) = {}
      BY <1>6, <3>1 DEF Displaced
    <3>3. list = {}
      BY <1>1, <3>2, HighestExists
    <3>4. Cardinality(list) = 0
      BY <3>3, FS_EmptySet
    <3> QED BY <3>1, <3>4, TransactionPoolAssumption DEF ListFull
  <2>2. Cardinality(list) < MaxTransactionsPerAccount
    BY <1>1, <1>4, <2>1 DEF ListFull
  <2> HIDE DEF rest, list
  <2> QED BY <1>1, <1>2, <1>3, <1>4, <2>2
<1> QED BY <1>5, <1>6

LEMMA InsertedOK ==
  ASSUME NEW p, PoolOK(p), Cardinality(p.txs) < MaxTransactions,
         NEW tx \in Tx, NEW applies \in BOOLEAN
  PROVE  /\ PoolOK(Inserted(p, tx, applies))
         /\ Inserted(p, tx, applies).txs = (p.txs \ Displaced(p, tx)) \cup {tx}
         /\ \A s \in Sender : Processable(Inserted(p, tx, applies), s) \subseteq
              (Processable(p, s) \ Displaced(p, tx)) \cup {t \in {tx} : applies}
<1> DEFINE r == Inserted(p, tx, applies)
           out == Displaced(p, tx)
           still == Demoted(p, out)
           first == applies /\ SameNonce(p, tx) = {} /\ still[tx.sender] = {}
<1>1. /\ r.txs = (p.txs \ out) \cup {tx}
      /\ r.listed = [p.listed EXCEPT ![tx.sender] = (@ \ out) \cup {tx}]
      /\ r.processable = IF first THEN [still EXCEPT ![tx.sender] = {tx.nonce}] ELSE still
      /\ r.feeQueue = p.feeQueue \cup {tx}
      /\ r = [txs |-> r.txs, listed |-> r.listed,
              processable |-> r.processable, feeQueue |-> r.feeQueue]
  BY DEF Inserted, Queued
<1> HIDE DEF r
<1>2. /\ p.txs \subseteq Tx /\ p.feeQueue \subseteq Tx /\ p.txs \subseteq p.feeQueue
      /\ p.listed \in [Sender -> SUBSET Tx]
      /\ p.processable \in [Sender -> SUBSET {t.nonce : t \in Tx}]
      /\ \A s \in Sender : p.listed[s] = {t \in p.txs : t.sender = s}
      /\ \A t, u \in p.txs : t.sender = u.sender /\ t.nonce = u.nonce => t = u
      /\ \A s \in Sender : p.processable[s] \subseteq {t.nonce : t \in p.listed[s]}
  BY DEF PoolOK, PoolType
<1>3. /\ tx.sender \in Sender /\ tx.nonce \in Nat
      /\ out \subseteq p.listed[tx.sender]
      /\ \A u \in p.listed[tx.sender] : u.nonce = tx.nonce => u \in out
  BY TxTyped, DisplacedWithin
<1>4. /\ still \in [Sender -> SUBSET {t.nonce : t \in Tx}]
      /\ \A s \in Sender : still[s] \subseteq p.processable[s]
      /\ \A n \in still[tx.sender], g \in out : n < g.nonce
  BY <1>2, <1>3 DEF Demoted
<1>5. r \in PoolType
  <2>1. r.txs \in SUBSET Tx /\ r.feeQueue \in SUBSET Tx
    BY <1>1, <1>2
  <2>2. r.listed \in [Sender -> SUBSET Tx]
    BY <1>1, <1>2, <1>3
  <2>3. r.processable \in [Sender -> SUBSET {t.nonce : t \in Tx}]
    <3> HIDE DEF still, first
    <3> QED BY <1>1, <1>3, <1>4
  <2> QED BY <1>1, <2>1, <2>2, <2>3 DEF PoolType
<1>6. IsFiniteSet(r.txs) /\ Cardinality(r.txs) <= MaxTransactions
  <2>1. IsFiniteSet(p.txs \ out) /\ Cardinality(p.txs \ out) <= Cardinality(p.txs)
    BY FS_Subset DEF PoolOK
  <2>2. /\ Cardinality(p.txs) \in Nat /\ Cardinality(p.txs \ out) \in Nat
    BY <2>1, FS_CardinalityType DEF PoolOK
  <2>3. IsFiniteSet(r.txs) /\ Cardinality(r.txs) <= Cardinality(p.txs \ out) + 1
    <3> DEFINE rest == p.txs \ out
    <3>1. r.txs = rest \cup {tx} /\ IsFiniteSet(rest)
      BY <1>1, <2>1
    <3> SUFFICES IsFiniteSet(r.txs) /\ Cardinality(r.txs) <= Cardinality(rest) + 1
      OBVIOUS
    <3> HIDE DEF rest
    <3> QED BY <3>1, AddedBound
  <2>4. Cardinality(r.txs) \in Nat
    BY <2>3, FS_CardinalityType
  <2> HIDE DEF out
  <2> QED BY <2>1, <2>2, <2>3, <2>4, TransactionPoolAssumption
<1>7. \A s \in Sender : Cardinality(r.listed[s]) <= MaxTransactionsPerAccount
  BY <1>1, <1>2, ListStaysBounded DEF PoolOK
<1>8. \A s \in Sender : r.listed[s] = {t \in r.txs : t.sender = s}
  <2>1. \A t \in out : t.sender = tx.sender
    BY <1>2, <1>3
  <2> HIDE DEF out
  <2> QED BY <1>1, <1>2, <1>3, <2>1
<1>9. \A t, u \in r.txs : t.sender = u.sender /\ t.nonce = u.nonce => t = u
  <2>1. ASSUME NEW u \in p.txs \ out, u.sender = tx.sender PROVE u.nonce # tx.nonce
    BY <1>2, <1>3, <2>1
  <2> HIDE DEF out
  <2> QED BY <1>1, <1>2, <2>1
<1>10. ASSUME NEW s \in Sender PROVE r.processable[s] \subseteq {t.nonce : t \in r.listed[s]}
  <2>1. ASSUME NEW n \in still[s] PROVE \E t \in r.listed[s] : t.nonce = n
    <3>1. PICK t \in p.listed[s] : t.nonce = n
      BY <1>2, <1>4, <2>1
    <3>2. t \in Tx /\ t.nonce \in Nat /\ t.sender = s
      BY <1>2, <3>1, TxTyped
    <3>3. t \notin out
      BY <1>4, <2>1, <3>1, <3>2, <1>2, <1>3
    <3>4. t \in r.txs
      BY <1>1, <1>2, <3>1, <3>3
    <3> QED BY <1>8, <3>1, <3>2, <3>4
  <2>2. tx \in r.listed[tx.sender]
    BY <1>1, <1>3, <1>8
  <2> HIDE DEF still
  <2> QED BY <1>1, <1>3, <1>4, <2>1, <2>2
<1>11. ASSUME NEW s \in Sender, NEW t \in Processable(r, s)
       PROVE  t \in (Processable(p, s) \ out) \cup {u \in {tx} : applies}
  <2>1. /\ t \in r.listed[s] /\ t.nonce \in r.processable[s]
        /\ t \in r.txs /\ t.sender = s
    BY <1>8, <1>11 DEF Processable
  <2>2. CASE t = tx
    <3>1. SUFFICES ASSUME ~first PROVE FALSE
      BY <2>2
    <3>2. tx.nonce \in still[tx.sender] /\ s = tx.sender
      BY <1>1, <2>1, <2>2, <3>1
    <3>3. PICK u \in p.listed[s] : u.nonce = tx.nonce
      BY <1>2, <1>4, <3>2
    <3>4. u \in out
      BY <1>3, <3>2, <3>3
    <3>5. tx.nonce < u.nonce
      BY <1>4, <3>2, <3>4, Zenon
    <3> QED BY <1>3, <3>3, <3>5
  <2>3. CASE t # tx
    <3>1. t \in p.txs /\ t \in p.listed[s] /\ t \notin out
      BY <1>1, <1>2, <2>1, <2>3
    <3>2. t.nonce \in still[s]
      <4>1. CASE ~(first /\ s = tx.sender)
        <5> HIDE DEF still
        <5> QED BY <1>1, <1>3, <1>4, <2>1, <4>1
      <4>2. CASE first /\ s = tx.sender
        <5>1. t.nonce = tx.nonce
          <6> HIDE DEF still
          <6> QED BY <1>1, <1>3, <1>4, <2>1, <4>2
        <5> QED BY <1>3, <3>1, <4>2, <5>1
      <4> QED BY <4>1, <4>2
    <3> QED BY <1>4, <3>1, <3>2 DEF Processable
  <2> QED BY <2>2, <2>3
<1>12. PoolOK(r)
  BY <1>1, <1>2, <1>5, <1>6, <1>7, <1>8, <1>9, <1>10 DEF PoolOK
<1> QED BY <1>1, <1>11, <1>12 DEF r

-----------------------------------------------------------------------------
\* What a step does that takes the members of gone out of the pool.
LEMMA LeavingOK ==
  ASSUME IInv, NEW gone,
         pool' = Removed(pool, gone),
         reorganizing' = Noticed(gone),
         verified' = verified \ gone
  PROVE  PoolOK(pool)' /\ OnlyVerifiedForgeable' /\ PromotingKnown'
<1>1. /\ PoolOK(pool') /\ pool'.txs = pool.txs \ gone
      /\ \A s \in Sender : pool'.processable[s] \subseteq pool.processable[s]
  BY RemovedOK DEF IInv
<1>2. ASSUME NEW s \in Sender, NEW t \in Processable(pool', s) PROVE t \in verified'
  <2>1. t \in pool'.txs /\ t.sender = s /\ t.nonce \in pool'.processable[s]
    BY <1>1, <1>2 DEF Processable, PoolOK
  <2>2. t \in pool.listed[s] /\ t.nonce \in pool.processable[s]
    BY <1>1, <2>1 DEF IInv, PoolOK
  <2> QED BY <1>1, <2>1, <2>2 DEF IInv, OnlyVerifiedForgeable, Processable
<1>3. PromotingKnown'
  <2>1. SUFFICES ASSUME reorganizing' # NoCall, ~reorganizing'.changed
                 PROVE  reorganizing'.promoting \subseteq pool'.txs \cap verified'
    BY DEF PromotingKnown
  <2>2. reorganizing # NoCall /\ reorganizing' = reorganizing
        /\ gone \cap reorganizing.promoting = {}
    BY <2>1 DEF Noticed, IInv, TypeOK, NoCall
  <2> QED BY <1>1, <2>1, <2>2 DEF IInv, PromotingKnown
<1> QED BY <1>1, <1>2, <1>3 DEF OnlyVerifiedForgeable

LEMMA NoticedTyped ==
  ASSUME TypeOK, NEW gone
  PROVE  Noticed(gone) \in {NoCall} \cup
    [state : {"verified"}, promoting : SUBSET Tx, invalid : SUBSET Tx, changed : BOOLEAN]
  BY DEF TypeOK, Noticed

LEMMA InitOK == Init => IInv
<1> SUFFICES ASSUME Init PROVE IInv
  OBVIOUS
<1>1. IsFiniteSet(pool.txs) /\ Cardinality(pool.txs) = 0
      /\ \A s \in Sender : Cardinality(pool.listed[s]) = 0
  BY FS_EmptySet DEF Init
<1>2. PoolOK(pool)
  BY <1>1, TransactionPoolAssumption DEF Init, PoolOK, PoolType
<1>3. TypeOK
  BY <1>2 DEF Init, TypeOK, PoolOK, PoolType, NoCall
<1> QED BY <1>2, <1>3 DEF Init, IInv, OnlyVerifiedForgeable, Processable, PromotingKnown

LEMMA AddEndOK ==
  ASSUME IInv, NEW c \in Caller, AddEnd(c)
  PROVE  IInv'
<1> DEFINE tx == adding[c].tx
           applies == adding[c].applies
<1>1. tx \in Tx /\ applies \in BOOLEAN
  BY DEF AddEnd, IInv, TypeOK
<1>2. PICK p \in RoomMade(pool) :
        LET added == ~Refused(p, tx)
            left == (pool.txs \ p.txs) \cup (IF added THEN Displaced(p, tx) ELSE {})
        IN  /\ pool' = IF added THEN Inserted(p, tx, applies) ELSE p
            /\ reorganizing' = Noticed(left)
            /\ verified' = (verified \ left) \cup {t \in {tx} : added /\ applies}
  BY DEF AddEnd
<1>3. /\ PoolOK(p) /\ p.txs \subseteq pool.txs
      /\ Cardinality(p.txs) < MaxTransactions
      /\ \A s \in Sender : p.processable[s] \subseteq pool.processable[s]
  BY <1>2, RoomMadeOK DEF IInv
<1> DEFINE added == ~Refused(p, tx)
           out == IF added THEN Displaced(p, tx) ELSE {}
           left == (pool.txs \ p.txs) \cup out
           new == {t \in {tx} : added /\ applies}
<1>4. /\ pool' = IF added THEN Inserted(p, tx, applies) ELSE p
      /\ reorganizing' = Noticed(left)
      /\ verified' = (verified \ left) \cup new
  BY <1>2
<1>5. /\ PoolOK(pool')
      /\ pool.txs \ left \subseteq pool'.txs
      /\ pool'.txs \subseteq (p.txs \ out) \cup {tx}
      /\ \A s \in Sender : Processable(pool', s) \subseteq (Processable(p, s) \ out) \cup new
  <2>1. CASE added
    BY <1>1, <1>3, <1>4, <2>1, InsertedOK
  <2>2. CASE ~added
    BY <1>3, <1>4, <2>2
  <2> QED BY <2>1, <2>2
<1>6. OnlyVerifiedForgeable'
  <2>1. ASSUME NEW s \in Sender, NEW t \in Processable(pool', s) PROVE t \in verified'
    <3>1. CASE t \in new
      BY <1>4, <3>1
    <3>2. CASE t \notin new
      <4>1. t \in Processable(p, s) \ out
        BY <1>5, <3>2
      <4>2. t \in p.txs /\ t.sender = s /\ t.nonce \in p.processable[s]
        BY <1>3, <4>1, ListsFinite DEF Processable
      <4>3. t \in Processable(pool, s)
        BY <1>3, <4>2 DEF Processable, IInv, PoolOK
      <4>4. t \in verified /\ t \notin left
        BY <4>1, <4>2, <4>3 DEF IInv, OnlyVerifiedForgeable
      <4> QED BY <1>4, <4>4
    <3> QED BY <3>1, <3>2
  <2> QED BY <2>1 DEF OnlyVerifiedForgeable
<1>7. PromotingKnown'
  <2>1. SUFFICES ASSUME reorganizing' # NoCall, ~reorganizing'.changed
                 PROVE  reorganizing'.promoting \subseteq pool'.txs \cap verified'
    BY DEF PromotingKnown
  <2>2. /\ reorganizing # NoCall /\ reorganizing' = reorganizing
        /\ left \cap reorganizing.promoting = {}
    BY <1>4, <2>1 DEF Noticed, IInv, TypeOK, NoCall
  <2>3. reorganizing.promoting \subseteq pool.txs \cap verified
    BY <2>1, <2>2 DEF IInv, PromotingKnown
  <2> HIDE DEF left, new
  <2> QED BY <1>4, <1>5, <2>2, <2>3
<1>8. TypeOK'
  <2>1. verified' \subseteq Tx
    BY <1>1, <1>4 DEF IInv, TypeOK
  <2>2. adding' = [adding EXCEPT ![c] = NoCall] /\ chain' = chain /\ event' = event
    BY DEF AddEnd
  <2>3. reorganizing' \in {NoCall} \cup
          [state : {"verified"}, promoting : SUBSET Tx, invalid : SUBSET Tx, changed : BOOLEAN]
    BY <1>4, NoticedTyped DEF IInv
  <2>4. pool' \in PoolType
    BY <1>5 DEF PoolOK
  <2> QED BY <2>1, <2>2, <2>3, <2>4 DEF IInv, TypeOK, PoolType
<1> QED BY <1>5, <1>6, <1>7, <1>8 DEF IInv, PoolOK

-----------------------------------------------------------------------------
\* What the verification finds to apply are transactions it was given.
LEMMA ReorganizeBeginOK ==
  ASSUME IInv, NEW s \in Sender, ReorganizeBegin(s)
  PROVE  IInv'
<1>1. PICK outcome \in Outcomes(Processable(pool, s) \cup Promotable(pool, s)) :
        /\ reorganizing' = [state |-> "verified",
                            promoting |-> outcome.applied \cap Promotable(pool, s),
                            invalid |-> outcome.invalid, changed |-> FALSE]
        /\ verified' = verified \cup outcome.applied
  BY DEF ReorganizeBegin
<1>2. pool' = pool /\ adding' = adding /\ chain' = chain /\ event' = event
  BY DEF ReorganizeBegin
<1>3. /\ Processable(pool, s) \subseteq pool.txs
      /\ Promotable(pool, s) \subseteq pool.txs
      /\ pool.txs \subseteq Tx
  <2>1. pool.listed[s] \subseteq pool.txs
    BY ListsFinite DEF IInv
  <2> QED BY <2>1 DEF Processable, Promotable, Unprocessable, IInv, TypeOK
<1>4. outcome.applied \subseteq pool.txs /\ outcome.invalid \subseteq pool.txs
  BY <1>1, <1>3 DEF Outcomes
<1>5. TypeOK'
  BY <1>1, <1>2, <1>3, <1>4 DEF IInv, TypeOK
<1>6. PromotingKnown'
  BY <1>1, <1>2, <1>4 DEF PromotingKnown
<1>7. OnlyVerifiedForgeable'
  BY <1>1, <1>2 DEF IInv, OnlyVerifiedForgeable
<1> QED BY <1>2, <1>5, <1>6, <1>7 DEF IInv

\* A transaction whose nonce is promoted is the one that was verified, as no
\* other of its sender has that nonce.
LEMMA ReorganizeEndOK ==
  ASSUME IInv, ReorganizeEnd
  PROVE  IInv'
<1> DEFINE promoted == IF reorganizing.changed THEN pool
                       ELSE Promoted(pool, reorganizing.promoting)
<1>1. /\ pool' = Removed(promoted, reorganizing.invalid) /\ reorganizing' = NoCall
      /\ verified' = verified \ reorganizing.invalid
      /\ adding' = adding /\ chain' = chain /\ event' = event
      /\ reorganizing # NoCall
  BY DEF ReorganizeEnd
<1>2. /\ PoolOK(promoted) /\ promoted.txs = pool.txs
      /\ \A s \in Sender : Processable(promoted, s) \subseteq verified
  <2>1. CASE reorganizing.changed
    BY <2>1 DEF IInv, OnlyVerifiedForgeable
  <2>2. CASE ~reorganizing.changed
    <3>1. reorganizing.promoting \subseteq pool.txs \cap verified
      BY <1>1, <2>2 DEF IInv, PromotingKnown
    <3>2. /\ PoolOK(promoted) /\ promoted.txs = pool.txs /\ promoted.listed = pool.listed
          /\ \A s \in Sender : promoted.processable[s] = pool.processable[s]
               \cup {t.nonce : t \in {u \in reorganizing.promoting : u.sender = s}}
      BY <2>2, <3>1, PromotedOK DEF IInv
    <3> HIDE DEF promoted
    <3>3. ASSUME NEW s \in Sender, NEW t \in Processable(promoted, s) PROVE t \in verified
      <4>1. t \in pool.listed[s] /\ t \in pool.txs /\ t.sender = s
        BY <3>2, <3>3, ListsFinite DEF Processable, IInv
      <4>2. CASE t.nonce \in pool.processable[s]
        BY <4>1, <4>2 DEF IInv, OnlyVerifiedForgeable, Processable
      <4>3. CASE t.nonce \notin pool.processable[s]
        <5>1. PICK u \in reorganizing.promoting : u.sender = s /\ u.nonce = t.nonce
          BY <3>2, <3>3, <4>3 DEF Processable
        <5>2. u = t
          BY <3>1, <4>1, <5>1 DEF IInv, PoolOK
        <5> QED BY <3>1, <5>1, <5>2
      <4> QED BY <4>2, <4>3
    <3> QED BY <3>2, <3>3
  <2> QED BY <2>1, <2>2
<1> HIDE DEF promoted
<1>3. /\ PoolOK(pool') /\ pool'.txs = pool.txs \ reorganizing.invalid
      /\ \A s \in Sender : pool'.processable[s] \subseteq promoted.processable[s]
  BY <1>1, <1>2, RemovedOK
<1>4. ASSUME NEW s \in Sender, NEW t \in Processable(pool', s) PROVE t \in verified'
  <2>1. t \in pool'.txs /\ t.sender = s /\ t.nonce \in pool'.processable[s]
    BY <1>3, <1>4, ListsFinite DEF Processable
  <2>2. t \in Processable(promoted, s)
    BY <1>2, <1>3, <2>1 DEF Processable, PoolOK
  <2> QED BY <1>1, <1>2, <1>3, <2>1, <2>2
<1>5. TypeOK'
  BY <1>1, <1>3 DEF IInv, TypeOK, PoolOK, PoolType
<1>6. PromotingKnown'
  BY <1>1 DEF PromotingKnown
<1> QED BY <1>3, <1>4, <1>5, <1>6, <1>1 DEF IInv, OnlyVerifiedForgeable, PoolOK

-----------------------------------------------------------------------------
LEMMA StepOK == IInv /\ [Next]_vars => IInv'
<1> SUFFICES ASSUME IInv, [Next]_vars PROVE IInv'
  OBVIOUS
<1>1. ASSUME NEW c \in Caller, NEW tx \in Tx, AddBegin(c, tx) PROVE IInv'
  <2>1. /\ pool' = pool /\ reorganizing' = reorganizing /\ chain' = chain
        /\ event' = event /\ verified' = verified
        /\ adding' = [adding EXCEPT ![c] =
             [state |-> "verified", tx |-> tx, applies |-> tx.nonce = AccountNonce(tx.sender)]]
    BY <1>1 DEF AddBegin, AwaitVerification
  <2>2. TypeOK'
    BY <2>1 DEF IInv, TypeOK
  <2> QED BY <2>1, <2>2 DEF IInv, OnlyVerifiedForgeable, PromotingKnown
<1>2. ASSUME NEW c \in Caller, AddEnd(c) PROVE IInv'
  BY <1>2, AddEndOK
<1>3. ASSUME NEW s \in Sender, ReorganizeBegin(s) PROVE IInv'
  BY <1>3, ReorganizeBeginOK
<1>4. CASE ReorganizeEnd
  BY <1>4, ReorganizeEndOK
<1>5. ASSUME NEW old \in pool.txs, Expire(old) PROVE IInv'
  <2>1. /\ pool' = Removed(pool, {old}) /\ reorganizing' = Noticed({old})
        /\ verified' = verified \ {old}
        /\ adding' = adding /\ chain' = chain /\ event' = event
    BY <1>5 DEF Expire, LeavePool
  <2>2. PoolOK(pool)' /\ OnlyVerifiedForgeable' /\ PromotingKnown'
    BY <2>1, LeavingOK
  <2>3. TypeOK'
    BY <2>1, <2>2, NoticedTyped DEF IInv, TypeOK, PoolOK, PoolType
  <2> QED BY <2>2, <2>3 DEF IInv
<1>6. ASSUME NEW tx \in Tx, NewBlock(tx) PROVE IInv'
  <2>1. /\ pool' = pool /\ adding' = adding /\ reorganizing' = reorganizing
        /\ verified' = verified /\ chain' = Append(chain, tx)
        /\ event' = [state |-> "new", tx |-> tx]
    BY <1>6 DEF NewBlock
  <2>2. TypeOK'
    BY <2>1 DEF IInv, TypeOK
  <2> QED BY <2>1, <2>2 DEF IInv, OnlyVerifiedForgeable, PromotingKnown
<1>7. CASE DeleteBlock
  <2>1. /\ pool' = pool /\ adding' = adding /\ reorganizing' = reorganizing
        /\ verified' = verified /\ chain # <<>> /\ chain \in Seq(Tx)
        /\ chain' = SubSeq(chain, 1, Len(chain) - 1)
        /\ event' = [state |-> "deleted", tx |-> chain[Len(chain)]]
    BY <1>7 DEF DeleteBlock, IInv, TypeOK
  <2>2. chain' \in Seq(Tx) /\ chain[Len(chain)] \in Tx
    BY <2>1
  <2>3. TypeOK'
    BY <2>1, <2>2 DEF IInv, TypeOK
  <2> QED BY <2>1, <2>3 DEF IInv, OnlyVerifiedForgeable, PromotingKnown
<1>8. CASE OnNewBlock
  <2> DEFINE gone == {event.tx}
  <2>1. /\ pool' = Removed(pool, gone) /\ reorganizing' = Noticed(gone)
        /\ verified' = verified \ gone
        /\ adding' = adding /\ chain' = chain /\ event' = NoCall
    BY <1>8 DEF OnNewBlock, LeavePool
  <2> HIDE DEF gone
  <2>2. PoolOK(pool)' /\ OnlyVerifiedForgeable' /\ PromotingKnown'
    BY <2>1, LeavingOK
  <2>3. TypeOK'
    BY <2>1, <2>2, NoticedTyped DEF IInv, TypeOK, PoolOK, PoolType
  <2> QED BY <2>2, <2>3 DEF IInv
<1>9. CASE OnDeleteBlock
  <2>1. /\ pool' = pool /\ reorganizing' = reorganizing /\ chain' = chain
        /\ verified' = verified /\ event' = NoCall /\ event.tx \in Tx
        /\ \/ adding' = adding
           \/ \E c \in Caller : adding' = [adding EXCEPT ![c] =
                [state |-> "verified", tx |-> event.tx,
                 applies |-> event.tx.nonce = AccountNonce(event.tx.sender)]]
    BY <1>9 DEF OnDeleteBlock, AwaitVerification, IInv, TypeOK, NoCall
  <2>2. adding' \in [Caller ->
          {NoCall} \cup [state : {"verified"}, tx : Tx, applies : BOOLEAN]]
    <3> DEFINE ok == event.tx.nonce = AccountNonce(event.tx.sender)
    <3>1. ok \in BOOLEAN
      OBVIOUS
    <3>2. /\ event.tx \in Tx
          /\ \/ adding' = adding
             \/ \E c \in Caller : adding' = [adding EXCEPT ![c] =
                  [state |-> "verified", tx |-> event.tx, applies |-> ok]]
      BY <2>1
    <3> HIDE DEF ok
    <3> QED BY <3>1, <3>2 DEF IInv, TypeOK
  <2>3. TypeOK'
    BY <2>1, <2>2 DEF IInv, TypeOK
  <2> QED BY <2>1, <2>3 DEF IInv, OnlyVerifiedForgeable, PromotingKnown
<1>10. CASE UNCHANGED vars
  BY <1>10 DEF vars, IInv, TypeOK, OnlyVerifiedForgeable, PromotingKnown
<1> QED BY <1>1, <1>2, <1>3, <1>4, <1>5, <1>6, <1>7, <1>8, <1>9, <1>10 DEF Next

LEMMA Invariance == Spec => []IInv
  BY InitOK, StepOK, PTL DEF Spec

-----------------------------------------------------------------------------
\* The pool, the calls under way and the reorganization are always what their
\* types say; in particular a nonce of a list is that of some transaction.
THEOREM TransactionPoolTyped == Spec => []TypeOK
<1>1. IInv => TypeOK
  BY DEF IInv
<1> QED BY <1>1, Invariance, PTL

\* However many callers of add passed its checks before they awaited the
\* verification, no insertion makes the pool or a list exceed its limit:
\* add makes room again in the same turn in which it inserts.
THEOREM PoolStaysBounded == Spec => []PoolBounded
<1>1. IInv => PoolBounded
  BY DEF IInv, PoolOK, PoolBounded
<1> QED BY <1>1, Invariance, PTL

\* The map of all transactions and the lists of their senders agree after
\* every add, replacement, eviction, expiry and reorganization.
THEOREM MapMatchesLists == Spec => []PoolMatchesLists
<1>1. IInv => PoolMatchesLists
  BY DEF IInv, PoolOK, PoolMatchesLists
<1> QED BY <1>1, Invariance, PTL

\* The queue from which add reads the lowest fee priority of a full pool has
\* every transaction of the pool.
THEOREM FeeQueueKnowsAll == Spec => []LowestFeeKnown
<1>1. IInv => LowestFeeKnown
  BY DEF IInv, PoolOK, LowestFeeKnown
<1> QED BY <1>1, Invariance, PTL

\* Limits, map, lists and fee queue hold together.
THEOREM PoolStaysConsistent == Spec => []PoolConsistent
  BY TransactionPoolTyped, PoolStaysBounded, MapMatchesLists, FeeQueueKnowsAll, PTL
     DEF PoolConsistent

\* A reorganization that awaited the verification while its transactions were
\* replaced, evicted or expired promotes none of them: what forgers take was
\* verified after it came in.
THEOREM ForgeableWereVerified == Spec => []OnlyVerifiedForgeable
<1>1. IInv => OnlyVerifiedForgeable
  BY DEF IInv
<1> QED BY <1>1, Invariance, PTL

-----------------------------------------------------------------------------
(* The sparse Merkle tree                                                  *)

\* Of some numbers one is not the successor of another.
LEMMA LeastNumber ==
  ASSUME NEW C \in SUBSET Nat, C # {}
  PROVE  \E n \in C : n - 1 \notin C
<1>1. PICK n \in C : \A i \in C : n <= i
  BY LeastNatural
<1> QED  BY <1>1

\* The functions the code's loops compute exist.
IsWay(w, n, k, m) == w = [d \in 0 .. m |-> IF d = 0 THEN n ELSE Onward(w[d - 1], k[d - 1])]

\* The function the walk down the tree is defined by exists.
LEMMA WayExists ==
  ASSUME NEW n, NEW k, NEW m \in Nat
  PROVE  \E w : IsWay(w, n, k, m)
<1> DEFINE Solved(i) == \E w : w = [d \in 0 .. i |-> IF d = 0 THEN n ELSE Onward(w[d - 1], k[d - 1])]
           C == {i \in Nat : ~Solved(i)}
<1>1. ASSUME C # {} PROVE FALSE
  <2>1. PICK i \in C : i - 1 \notin C
    <3> HIDE DEF Solved
    <3> QED  BY <1>1, LeastNumber
  <2>2. i # 0
    <3> DEFINE w == [d \in 0 .. 0 |-> n]
    <3>1. w = [d \in 0 .. 0 |-> IF d = 0 THEN n ELSE Onward(w[d - 1], k[d - 1])]
      OBVIOUS
    <3> QED  BY <2>1, <3>1
  <2>3. i - 1 \in Nat /\ Solved(i - 1)
    BY <2>1, <2>2
  <2>4. PICK w : w = [d \in 0 .. (i - 1) |-> IF d = 0 THEN n ELSE Onward(w[d - 1], k[d - 1])]
    BY <2>3
  <2> DEFINE x == [d \in 0 .. i |-> IF d = 0 THEN n ELSE Onward(w[d - 1], k[d - 1])]
  <2>5. \A d \in 0 .. (i - 1) : x[d] = w[d]
    BY <2>3, <2>4
  <2>6. \A d \in 0 .. i : d # 0 => d - 1 \in 0 .. (i - 1)
    BY <2>3
  <2>7. x = [d \in 0 .. i |-> IF d = 0 THEN n ELSE Onward(x[d - 1], k[d - 1])]
    BY <2>5, <2>6
  <2> QED  BY <2>1, <2>7
<1> QED  BY <1>1 DEF IsWay

\* What a walk finds, digit by digit.
LEMMA WayUnfolds ==
  ASSUME NEW n, NEW k
  PROVE  /\ Way(n, k)[0] = n
         /\ \A d \in 1 .. KeyBits : Way(n, k)[d] = Onward(Way(n, k)[d - 1], k[d - 1])
<1> DEFINE g == CHOOSE w : IsWay(w, n, k, KeyBits)
<1>0. KeyBits \in Nat
  BY SparseAssumption
<1>1. IsWay(g, n, k, KeyBits)
  <2>1. \E w : IsWay(w, n, k, KeyBits)
    BY <1>0, WayExists
  <2> QED  BY <2>1
<1>2. Way(n, k) = g
  BY DEF Way, IsWay
<1> HIDE DEF g
<1>3. g[0] = n /\ \A d \in 1 .. KeyBits : g[d] = Onward(g[d - 1], k[d - 1])
  <2>1. \A d \in 0 .. KeyBits : g[d] = IF d = 0 THEN n ELSE Onward(g[d - 1], k[d - 1])
    BY <1>1 DEF IsWay
  <2>2. 0 \in 0 .. KeyBits /\ \A d \in 1 .. KeyBits : d \in 0 .. KeyBits /\ d # 0
    BY <1>0
  <2> QED  BY <2>1, <2>2
<1> QED  BY <1>2, <1>3

IsUpdated(f, above, k, h, bottom) ==
  f = [d \in 0 .. h |-> IF d = h THEN bottom ELSE WithChild(above[d], k[d], f[d + 1])]

\* The function the new branches are defined by exists.
LEMMA NewExists ==
  ASSUME NEW above, NEW k, NEW h \in Nat, NEW bottom
  PROVE  \E f : IsUpdated(f, above, k, h, bottom)
<1> DEFINE Over(d, x) == WithChild(above[d], k[d], x)
           Solved(i) == \E f : f = [d \in h - i .. h |-> IF d = h THEN bottom ELSE Over(d, f[d + 1])]
           C == {i \in Nat : ~Solved(i)}
<1>1. ASSUME C # {} PROVE FALSE
  <2>1. PICK i \in C : i - 1 \notin C
    <3> HIDE DEF Solved
    <3> QED  BY <1>1, LeastNumber
  <2> HIDE DEF Next
  <2>2. i # 0
    <3> DEFINE f == [d \in h .. h |-> bottom]
    <3>1. f = [d \in h .. h |-> IF d = h THEN bottom ELSE Over(d, f[d + 1])]
      OBVIOUS
    <3>2. h - 0 = h
      OBVIOUS
    <3> QED  BY <2>1, <3>1, <3>2
  <2>3. i - 1 \in Nat /\ Solved(i - 1)
    BY <2>1, <2>2
  <2>4. PICK f : f = [d \in h - (i - 1) .. h |-> IF d = h THEN bottom ELSE Over(d, f[d + 1])]
    BY <2>3
  <2> DEFINE x == [d \in h - i .. h |-> IF d = h THEN bottom ELSE Over(d, f[d + 1])]
  <2>5. \A d \in h - (i - 1) .. h : x[d] = f[d]
    BY <2>3, <2>4
  <2>6. \A d \in h - i .. h : d # h => d + 1 \in h - (i - 1) .. h
    BY <2>3
  <2>7. x = [d \in h - i .. h |-> IF d = h THEN bottom ELSE Over(d, x[d + 1])]
    BY <2>5, <2>6
  <2> QED  BY <2>1, <2>7
<1>2. Solved(h)
  BY <1>1
<1>3. h - h = 0
  OBVIOUS
<1> QED  BY <1>2, <1>3 DEF IsUpdated

\* The new branches, from the lowest up.
LEMMA UpdatedUnfolds ==
  ASSUME NEW above, NEW k, NEW h \in Nat, NEW bottom
  PROVE  /\ DOMAIN Updated(above, k, h, bottom) = 0 .. h
         /\ Updated(above, k, h, bottom)[h] = bottom
         /\ \A d \in 0 .. h - 1 :
              Updated(above, k, h, bottom)[d]
                = WithChild(above[d], k[d], Updated(above, k, h, bottom)[d + 1])
<1> DEFINE g == CHOOSE f : IsUpdated(f, above, k, h, bottom)
<1>1. IsUpdated(g, above, k, h, bottom)
  BY NewExists
<1>2. Updated(above, k, h, bottom) = g
  BY DEF Updated, IsUpdated
<1> HIDE DEF g
<1>3. DOMAIN g = 0 .. h /\ g[h] = bottom
      /\ \A d \in 0 .. h - 1 : g[d] = WithChild(above[d], k[d], g[d + 1])
  <2>1. \A d \in 0 .. h : g[d] = IF d = h THEN bottom ELSE WithChild(above[d], k[d], g[d + 1])
    BY <1>1 DEF IsUpdated
  <2>2. \A d \in 0 .. h - 1 : d \in 0 .. h /\ d # h
    OBVIOUS
  <2> QED  BY <1>1, <2>1, <2>2 DEF IsUpdated
<1> QED  BY <1>2, <1>3

IsNodes(f, m, n) ==
  f = [h \in 0 .. n |-> IF h = 0 THEN LowestNodes(m) ELSE NodesOver(f[h - 1], m, h)]

\* The function the nodes of a map are defined by exists.
LEMMA NodesExist ==
  ASSUME NEW m, NEW n \in Nat
  PROVE  \E f : IsNodes(f, m, n)
<1> DEFINE C == {i \in Nat : ~\E f : IsNodes(f, m, i)}
<1>1. ASSUME C # {} PROVE FALSE
  <2>1. PICK i \in C : i - 1 \notin C
    BY <1>1, LeastNumber
  <2>2. i # 0
    <3> DEFINE f == [h \in 0 .. 0 |-> LowestNodes(m)]
    <3>1. IsNodes(f, m, 0)
      BY DEF IsNodes
    <3> QED  BY <2>1, <3>1
  <2>3. i - 1 \in Nat /\ \E f : IsNodes(f, m, i - 1)
    BY <2>1, <2>2
  <2>4. PICK f : f = [h \in 0 .. (i - 1) |-> IF h = 0 THEN LowestNodes(m) ELSE NodesOver(f[h - 1], m, h)]
    BY <2>3 DEF IsNodes
  <2> DEFINE x == [h \in 0 .. i |-> IF h = 0 THEN LowestNodes(m) ELSE NodesOver(f[h - 1], m, h)]
  <2>5. \A h \in 0 .. (i - 1) : x[h] = f[h]
    BY <2>3, <2>4
  <2>6. \A h \in 0 .. i : h # 0 => h - 1 \in 0 .. (i - 1)
    BY <2>3
  <2>7. x = [h \in 0 .. i |-> IF h = 0 THEN LowestNodes(m) ELSE NodesOver(x[h - 1], m, h)]
    BY <2>5, <2>6
  <2>8. IsNodes(x, m, i)
    BY <2>7 DEF IsNodes
  <2> QED  BY <2>1, <2>8
<1> QED  BY <1>1

\* The nodes of a map, from the lowest up.
LEMMA NodesUnfold ==
  ASSUME NEW m
  PROVE  /\ NodesOfKeys(m)[0] = LowestNodes(m)
         /\ \A h \in 1 .. KeyBits : NodesOfKeys(m)[h] = NodesOver(NodesOfKeys(m)[h - 1], m, h)
<1> DEFINE g == CHOOSE f : IsNodes(f, m, KeyBits)
<1>0. KeyBits \in Nat
  BY SparseAssumption
<1>1. IsNodes(g, m, KeyBits)
  <2>1. \E f : IsNodes(f, m, KeyBits)
    BY <1>0, NodesExist
  <2> QED  BY <2>1
<1>2. NodesOfKeys(m) = g
  BY DEF NodesOfKeys, IsNodes
<1> HIDE DEF g
<1>3. \A h \in 0 .. KeyBits : g[h] = IF h = 0 THEN LowestNodes(m) ELSE NodesOver(g[h - 1], m, h)
  BY <1>1 DEF IsNodes
<1>4. 0 \in 0 .. KeyBits /\ \A h \in 1 .. KeyBits : h \in 0 .. KeyBits /\ h # 0
  BY <1>0
<1> QED  BY <1>2, <1>3, <1>4

-----------------------------------------------------------------------------
\* The keys of m that share their first d digits with k, and the node they
\* make there.
Sharing(m, k, d) == {j \in Present(m) : Agree(j, k, d)}
Several(S) == \E i, j \in S : i # j
NodeAt(m, k, d) == NodesOfKeys(m)[KeyBits - d][Sharing(m, k, d)]
Other(k, d) == [k EXCEPT ![d] = 1 - k[d]]

\* Keys agree on one more digit.
LEMMA AgreeNext ==
  ASSUME NEW j, NEW k, NEW d \in Nat
  PROVE  Agree(j, k, d + 1) <=> Agree(j, k, d) /\ j[d] = k[d]
<1>1. \A e : e \in 0 .. (d + 1) - 1 <=> e \in 0 .. d - 1 \/ e = d
  OBVIOUS
<1> QED  BY <1>1 DEF Agree

\* Keys that agree on some digits agree on fewer.
LEMMA AgreeLess ==
  ASSUME NEW j, NEW k, NEW d \in Nat, NEW e \in Nat, e <= d, Agree(j, k, d)
  PROVE  Agree(j, k, e)
BY DEF Agree

\* Keys that agree on every digit are one key.
LEMMA AgreeAll ==
  ASSUME NEW j \in TreeKey, NEW k \in TreeKey, Agree(j, k, KeyBits)
  PROVE  j = k
<1>1. \A e \in 0 .. KeyBits - 1 : j[e] = k[e]
  BY DEF Agree
<1>2. j = [e \in 0 .. KeyBits - 1 |-> j[e]] /\ k = [e \in 0 .. KeyBits - 1 |-> k[e]]
  BY DEF TreeKey
<1>3. [e \in 0 .. KeyBits - 1 |-> j[e]] = [e \in 0 .. KeyBits - 1 |-> k[e]]
  BY <1>1
<1> QED  BY <1>2, <1>3

\* A digit of a key, and the key that parts from it there.
LEMMA KeyDigit ==
  ASSUME NEW k \in TreeKey, NEW d \in 0 .. KeyBits - 1
  PROVE  /\ k[d] \in {0, 1} /\ d \in Nat /\ d + 1 \in Nat /\ KeyBits \in Nat
         /\ Other(k, d) \in TreeKey
         /\ Other(k, d)[d] = 1 - k[d]
         /\ Agree(Other(k, d), k, d)
<1>1. KeyBits \in Nat
  BY SparseAssumption
<1>2. k[d] \in {0, 1}
  BY DEF TreeKey
<1>3. 1 - k[d] \in {0, 1}
  BY <1>2
<1>4. Other(k, d) \in TreeKey /\ Other(k, d)[d] = 1 - k[d]
  BY <1>3 DEF Other, TreeKey
<1>5. Agree(Other(k, d), k, d)
  <2>1. \A e \in 0 .. d - 1 : e \in 0 .. KeyBits - 1 /\ e # d
    BY <1>1
  <2> QED  BY <2>1 DEF Agree, Other, TreeKey
<1> QED  BY <1>1, <1>2, <1>4, <1>5

\* The keys that share d digits with k part at the next one.
LEMMA SharingNext ==
  ASSUME NEW m, NEW k \in TreeKey, NEW d \in 0 .. KeyBits - 1
  PROVE  /\ Sharing(m, k, d + 1) = Half(Sharing(m, k, d), d, k[d])
         /\ Sharing(m, Other(k, d), d + 1) = Half(Sharing(m, k, d), d, 1 - k[d])
         /\ Sharing(m, k, d) = Sharing(m, k, d + 1) \cup Sharing(m, Other(k, d), d + 1)
<1>1. ASSUME NEW j \in TreeKey PROVE Agree(j, Other(k, d), d) <=> Agree(j, k, d)
  BY KeyDigit DEF Agree
<1>2. Sharing(m, k, d + 1) = Half(Sharing(m, k, d), d, k[d])
  BY KeyDigit, AgreeNext DEF Sharing, Half
<1>3. Sharing(m, Other(k, d), d + 1) = Half(Sharing(m, k, d), d, 1 - k[d])
  BY <1>1, KeyDigit, AgreeNext DEF Sharing, Present, Half
<1>4. \A j \in Sharing(m, k, d) : j[d] = k[d] \/ j[d] = 1 - k[d]
  <2> SUFFICES ASSUME NEW j \in Sharing(m, k, d) PROVE j[d] = k[d] \/ j[d] = 1 - k[d]
    OBVIOUS
  <2>1. j \in TreeKey
    BY DEF Sharing, Present
  <2>2. j[d] \in {0, 1} /\ k[d] \in {0, 1}
    BY <2>1, KeyDigit
  <2> QED  BY <2>2
<1> QED  BY <1>2, <1>3, <1>4 DEF Half

\* The keys below a branch on the side of k,
LEMMA SharingDown ==
  ASSUME NEW m, NEW k \in TreeKey, NEW d \in 0 .. KeyBits - 1
  PROVE  Sharing(m, k, d + 1) = Half(Sharing(m, k, d), d, k[d])
BY SharingNext

\* on the other side,
LEMMA SharingBeside ==
  ASSUME NEW m, NEW k \in TreeKey, NEW d \in 0 .. KeyBits - 1
  PROVE  Sharing(m, Other(k, d), d + 1) = Half(Sharing(m, k, d), d, 1 - k[d])
BY SharingNext

\* and both together.
LEMMA SharingBoth ==
  ASSUME NEW m, NEW k \in TreeKey, NEW d \in 0 .. KeyBits - 1
  PROVE  Sharing(m, k, d) = Sharing(m, k, d + 1) \cup Sharing(m, Other(k, d), d + 1)
BY SharingNext

\* Fewer digits are shared by more keys.
LEMMA SharingLess ==
  ASSUME NEW m, NEW k, NEW d \in Nat, NEW e \in Nat, e <= d
  PROVE  Sharing(m, k, d) \subseteq Sharing(m, k, e)
BY AgreeLess DEF Sharing

\* At the root are all keys, with no digit left at most one.
LEMMA SharingFew ==
  ASSUME NEW m, NEW k \in TreeKey
  PROVE  /\ Sharing(m, k, 0) = Present(m)
         /\ ~Several(Sharing(m, k, KeyBits))
         /\ \A d \in 0 .. KeyBits : Sharing(m, k, d) \in SUBSET TreeKey
<1>1. ASSUME NEW j \in Sharing(m, k, KeyBits) PROVE j = k
  BY AgreeAll DEF Sharing, Present
<1> QED  BY <1>1 DEF Sharing, Present, Agree, Several

\* What the node of a set of keys is.
LEMMA NodeOf ==
  ASSUME NEW m, NEW h \in 0 .. KeyBits, NEW S \in SUBSET TreeKey
  PROVE  /\ S = {} => NodesOfKeys(m)[h][S] = Empty
         /\ \A k : S = {k} => NodesOfKeys(m)[h][S] = LeafOf(k, m[k])
         /\ h > 0 /\ Several(S) =>
              NodesOfKeys(m)[h][S]
                = BranchOf(NodesOfKeys(m)[h - 1][Half(S, KeyBits - h, 0)],
                           NodesOfKeys(m)[h - 1][Half(S, KeyBits - h, 1)])
<1> DEFINE N == NodesOfKeys(m)
<1>0. KeyBits \in Nat
  BY SparseAssumption
<1>1. S = {} => LowestNodes(m)[S] = Empty
  BY DEF LowestNodes
<1>2. ASSUME NEW k, S = {k} PROVE LowestNodes(m)[S] = LeafOf(k, m[k])
  <2>1. (CHOOSE j \in S : TRUE) = k /\ S # {}
    BY <1>2
  <2> QED  BY <2>1 DEF LowestNodes
<1>3. CASE h = 0
  BY <1>1, <1>2, <1>3, NodesUnfold
<1>4. CASE h # 0
  <2>1. h \in 1 .. KeyBits
    BY <1>0, <1>4
  <2>2. N[h] = NodesOver(N[h - 1], m, h)
    BY <2>1, NodesUnfold
  <2> HIDE DEF N
  <2>3. ~Several(S) => N[h][S] = LowestNodes(m)[S]
    BY <2>2 DEF NodesOver, Several
  <2>4. Several(S) => N[h][S] = BranchOf(N[h - 1][Half(S, KeyBits - h, 0)],
                                         N[h - 1][Half(S, KeyBits - h, 1)])
    BY <2>2 DEF NodesOver, Several
  <2>5. (S = {} => ~Several(S)) /\ \A k : S = {k} => ~Several(S)
    BY DEF Several
  <2> QED  BY <1>1, <1>2, <2>3, <2>4, <2>5 DEF N
<1> QED  BY <1>3, <1>4

\* A set without two different keys.
LEMMA FewAre ==
  ASSUME NEW S, ~Several(S)
  PROVE  S = {} \/ \E k \in S : S = {k}
BY DEF Several

\* The node at depth d on the way of k, and its two children.
LEMMA NodeAtIs ==
  ASSUME NEW m, NEW k \in TreeKey, NEW d \in 0 .. KeyBits
  PROVE  /\ Sharing(m, k, d) = {} => NodeAt(m, k, d) = Empty
         /\ \A j : Sharing(m, k, d) = {j} => NodeAt(m, k, d) = LeafOf(j, m[j])
         /\ Several(Sharing(m, k, d)) =>
              /\ d < KeyBits
              /\ NodeAt(m, k, d)
                   = IF k[d] = 0 THEN BranchOf(NodeAt(m, k, d + 1), NodeAt(m, Other(k, d), d + 1))
                     ELSE BranchOf(NodeAt(m, Other(k, d), d + 1), NodeAt(m, k, d + 1))
<1>0. KeyBits \in Nat /\ KeyBits - d \in 0 .. KeyBits
  BY SparseAssumption
<1>1. Sharing(m, k, d) \in SUBSET TreeKey
  BY SharingFew
<1>2. ASSUME Several(Sharing(m, k, d))
      PROVE  /\ d < KeyBits
             /\ NodeAt(m, k, d)
                  = IF k[d] = 0 THEN BranchOf(NodeAt(m, k, d + 1), NodeAt(m, Other(k, d), d + 1))
                    ELSE BranchOf(NodeAt(m, Other(k, d), d + 1), NodeAt(m, k, d + 1))
  <2>1. d < KeyBits /\ d \in 0 .. KeyBits - 1
    BY <1>0, <1>2, SharingFew
  <2>2. KeyBits - d > 0 /\ KeyBits - (KeyBits - d) = d /\ (KeyBits - d) - 1 = KeyBits - (d + 1)
    BY <1>0, <2>1
  <2> DEFINE below(b) == NodesOfKeys(m)[KeyBits - (d + 1)][Half(Sharing(m, k, d), d, b)]
  <2>3. NodeAt(m, k, d) = BranchOf(below(0), below(1))
    <3> DEFINE S == Sharing(m, k, d)
               h == KeyBits - d
    <3>1. NodesOfKeys(m)[h][S]
            = BranchOf(NodesOfKeys(m)[h - 1][Half(S, KeyBits - h, 0)],
                       NodesOfKeys(m)[h - 1][Half(S, KeyBits - h, 1)])
      <4>1. h \in 0 .. KeyBits /\ h > 0 /\ S \in SUBSET TreeKey /\ Several(S)
        BY <1>0, <1>1, <1>2, <2>2
      <4> HIDE DEF S, h
      <4> QED  BY <4>1, NodeOf
    <3>2. h - 1 = KeyBits - (d + 1) /\ KeyBits - h = d
      BY <2>2
    <3> QED  BY <3>1, <3>2 DEF NodeAt
  <2>4. below(k[d]) = NodeAt(m, k, d + 1) /\ below(1 - k[d]) = NodeAt(m, Other(k, d), d + 1)
    <3>1. /\ Half(Sharing(m, k, d), d, k[d]) = Sharing(m, k, d + 1)
          /\ Half(Sharing(m, k, d), d, 1 - k[d]) = Sharing(m, Other(k, d), d + 1)
      BY <2>1, SharingNext
    <3> QED  BY <3>1 DEF NodeAt
  <2>5. (k[d] = 0 /\ 1 - k[d] = 1) \/ (k[d] = 1 /\ 1 - k[d] = 0)
    BY <2>1, KeyDigit
  <2> HIDE DEF below
  <2> QED  BY <2>1, <2>3, <2>4, <2>5
<1>3. Sharing(m, k, d) = {} => NodeAt(m, k, d) = Empty
  BY <1>0, <1>1, NodeOf DEF NodeAt
<1>4. \A j : Sharing(m, k, d) = {j} => NodeAt(m, k, d) = LeafOf(j, m[j])
  BY <1>0, <1>1, NodeOf DEF NodeAt
<1> QED  BY <1>2, <1>3, <1>4

\* The three kinds of nodes differ, and say what they are made of.
LEMMA Kinds ==
  /\ ~IsBranch(Empty) /\ ~IsLeaf(Empty)
  /\ \A k, v : IsLeaf(LeafOf(k, v)) /\ ~IsBranch(LeafOf(k, v)) /\ LeafOf(k, v).key = k
               /\ LeafOf(k, v) # Empty
  /\ \A l, r : /\ IsBranch(BranchOf(l, r)) /\ ~IsLeaf(BranchOf(l, r)) /\ BranchOf(l, r) # Empty
               /\ BranchOf(l, r).left = l /\ BranchOf(l, r).right = r
BY DEF Empty, LeafOf, BranchOf, IsLeaf, IsBranch

\* A branch says which keys there are, its children what the next depth has.
LEMMA NodeAtKinds ==
  ASSUME NEW m, NEW k \in TreeKey, NEW d \in 0 .. KeyBits
  PROVE  /\ IsBranch(NodeAt(m, k, d)) <=> Several(Sharing(m, k, d))
         /\ NodeAt(m, k, d) = Empty <=> Sharing(m, k, d) = {}
         /\ IsLeaf(NodeAt(m, k, d)) <=> \E j \in TreeKey : Sharing(m, k, d) = {j}
         /\ \A j \in TreeKey : Sharing(m, k, d) = {j} => NodeAt(m, k, d) = LeafOf(j, m[j])
         /\ Several(Sharing(m, k, d)) =>
              /\ Child(NodeAt(m, k, d), k[d]) = NodeAt(m, k, d + 1)
              /\ Child(NodeAt(m, k, d), 1 - k[d]) = NodeAt(m, Other(k, d), d + 1)
<1>1. Several(Sharing(m, k, d)) \/ Sharing(m, k, d) = {} \/ \E j \in TreeKey : Sharing(m, k, d) = {j}
  BY FewAre, SharingFew
<1>2. CASE Sharing(m, k, d) = {}
  <2>1. ~Several({}) /\ \A j : {} # {j}
    BY DEF Several
  <2>2. NodeAt(m, k, d) = Empty
    BY <1>2, NodeAtIs
  <2> QED  BY <1>2, <2>1, <2>2, Kinds
<1>3. CASE \E j \in TreeKey : Sharing(m, k, d) = {j}
  <2>1. PICK j \in TreeKey : Sharing(m, k, d) = {j}
    BY <1>3
  <2>2. ~Several({j}) /\ {j} # {}
    BY DEF Several
  <2>3. \A i : Sharing(m, k, d) = {i} => i = j
    BY <2>1
  <2>4. NodeAt(m, k, d) = LeafOf(j, m[j])
    BY <2>1, NodeAtIs
  <2> QED  BY <2>1, <2>2, <2>3, <2>4, Kinds
<1>4. CASE Several(Sharing(m, k, d))
  <2>1. d \in 0 .. KeyBits - 1
    BY <1>4, NodeAtIs, SparseAssumption
  <2>2. (k[d] = 0 /\ 1 - k[d] = 1) \/ (k[d] = 1 /\ 1 - k[d] = 0)
    BY <2>1, KeyDigit
  <2>3. Sharing(m, k, d) # {} /\ \A j : Sharing(m, k, d) # {j}
    BY <1>4 DEF Several
  <2>4. PICK l, r : NodeAt(m, k, d) = BranchOf(l, r)
          /\ (k[d] = 0 => l = NodeAt(m, k, d + 1) /\ r = NodeAt(m, Other(k, d), d + 1))
          /\ (k[d] = 1 => r = NodeAt(m, k, d + 1) /\ l = NodeAt(m, Other(k, d), d + 1))
    BY <1>4, <2>2, NodeAtIs
  <2>5. Child(NodeAt(m, k, d), 0) = l /\ Child(NodeAt(m, k, d), 1) = r
    BY <2>4, Kinds DEF Child
  <2>6. /\ Child(NodeAt(m, k, d), k[d]) = NodeAt(m, k, d + 1)
        /\ Child(NodeAt(m, k, d), 1 - k[d]) = NodeAt(m, Other(k, d), d + 1)
    BY <2>2, <2>4, <2>5
  <2> QED  BY <1>4, <2>3, <2>4, <2>6, Kinds
<1> QED  BY <1>1, <1>2, <1>3, <1>4

\* A node is empty, a branch or a leaf as it has no key, several or one.
LEMMA EmptyIff ==
  ASSUME NEW m, NEW k \in TreeKey, NEW d \in 0 .. KeyBits
  PROVE  NodeAt(m, k, d) = Empty <=> Sharing(m, k, d) = {}
BY NodeAtKinds

\* The same for branches.
LEMMA BranchIff ==
  ASSUME NEW m, NEW k \in TreeKey, NEW d \in 0 .. KeyBits
  PROVE  IsBranch(NodeAt(m, k, d)) <=> Several(Sharing(m, k, d))
BY NodeAtKinds

\* The same for leaves.
LEMMA LeafIff ==
  ASSUME NEW m, NEW k \in TreeKey, NEW d \in 0 .. KeyBits
  PROVE  IsLeaf(NodeAt(m, k, d)) <=> \E j \in TreeKey : Sharing(m, k, d) = {j}
BY NodeAtKinds

\* The leaf of the only key.
LEMMA LeafIs ==
  ASSUME NEW m, NEW k \in TreeKey, NEW d \in 0 .. KeyBits, NEW j \in TreeKey, Sharing(m, k, d) = {j}
  PROVE  NodeAt(m, k, d) = LeafOf(j, m[j])
BY NodeAtKinds

\* The children of a branch are the nodes one digit further down.
LEMMA ChildIs ==
  ASSUME NEW m, NEW k \in TreeKey, NEW d \in 0 .. KeyBits, Several(Sharing(m, k, d))
  PROVE  /\ Child(NodeAt(m, k, d), k[d]) = NodeAt(m, k, d + 1)
         /\ Child(NodeAt(m, k, d), 1 - k[d]) = NodeAt(m, Other(k, d), d + 1)
BY NodeAtKinds

\* A branch is made of the nodes one digit further down.
LEMMA BranchIs ==
  ASSUME NEW m, NEW k \in TreeKey, NEW d \in 0 .. KeyBits, Several(Sharing(m, k, d)),
         NEW down, down = NodeAt(m, k, d + 1), NEW beside, beside = NodeAt(m, Other(k, d), d + 1)
  PROVE  NodeAt(m, k, d) = IF k[d] = 0 THEN BranchOf(down, beside) ELSE BranchOf(beside, down)
BY NodeAtIs

-----------------------------------------------------------------------------
\* The walk down the right root.
RightRoot(m) == NodesOfKeys(m)[KeyBits][Present(m)]

\* The root is where every way begins.
LEMMA RightRootIs ==
  ASSUME NEW m, NEW k \in TreeKey
  PROVE  RightRoot(m) = NodeAt(m, k, 0)
<1>1. KeyBits - 0 = KeyBits
  BY SparseAssumption
<1> QED  BY <1>1, SharingFew DEF RightRoot, NodeAt

\* As long as several keys share the digits the walk finds the right nodes.
LEMMA WayDown ==
  ASSUME NEW m, NEW k \in TreeKey, NEW d \in 0 .. KeyBits,
         \A e \in 0 .. d - 1 : Several(Sharing(m, k, e))
  PROVE  \A e \in 0 .. d : Way(RightRoot(m), k)[e] = NodeAt(m, k, e)
<1> DEFINE W == Way(RightRoot(m), k)
           C == {e \in Nat : e <= d /\ W[e] # NodeAt(m, k, e)}
<1>0. KeyBits \in Nat
  BY SparseAssumption
<1>1. W[0] = NodeAt(m, k, 0) /\ \A e \in 1 .. KeyBits : W[e] = Onward(W[e - 1], k[e - 1])
  BY WayUnfolds, RightRootIs
<1> HIDE DEF W
<1>2. ASSUME C # {} PROVE FALSE
  <2>1. PICK e \in C : e - 1 \notin C
    BY <1>2, LeastNumber
  <2>2. e \in 1 .. KeyBits /\ e - 1 \in 0 .. d - 1 /\ e - 1 \in 0 .. KeyBits /\ (e - 1) + 1 = e
    BY <1>0, <1>1, <2>1
  <2>3. W[e - 1] = NodeAt(m, k, e - 1)
    BY <2>1, <2>2
  <2>4. Several(Sharing(m, k, e - 1))
    BY <2>2
  <2>5. IsBranch(NodeAt(m, k, e - 1)) /\ Child(NodeAt(m, k, e - 1), k[e - 1]) = NodeAt(m, k, (e - 1) + 1)
    <3>1. PICK f \in 0 .. KeyBits : f = e - 1
      BY <2>2
    <3>2. IsBranch(NodeAt(m, k, f)) /\ Child(NodeAt(m, k, f), k[f]) = NodeAt(m, k, f + 1)
      BY <2>4, <3>1, NodeAtKinds
    <3> QED  BY <3>1, <3>2
  <2>6. W[e] = NodeAt(m, k, e)
    BY <1>1, <2>2, <2>3, <2>5 DEF Onward
  <2> QED  BY <2>1, <2>6
<1>3. \A e \in 0 .. d : W[e] = NodeAt(m, k, e)
  BY <1>2
<1> QED  BY <1>3 DEF W

\* The depth at which k is alone or missing.
LEMMA FirstFew ==
  ASSUME NEW m, NEW k \in TreeKey
  PROVE  \E d \in 0 .. KeyBits :
           /\ ~Several(Sharing(m, k, d))
           /\ \A e \in 0 .. d - 1 : Several(Sharing(m, k, e))
<1>0. KeyBits \in Nat
  BY SparseAssumption
<1> DEFINE C == {d \in Nat : d <= KeyBits /\ ~Several(Sharing(m, k, d))}
<1>1. KeyBits \in C
  BY <1>0, SharingFew
<1>2. PICK d \in C : d - 1 \notin C
  <2> HIDE DEF C
  <2>1. C # {}
    BY <1>1
  <2>2. C \in SUBSET Nat
    BY DEF C
  <2> QED  BY <2>1, <2>2, LeastNumber
<1>3. ASSUME NEW e \in 0 .. d - 1 PROVE Several(Sharing(m, k, e))
  <2>1. d - 1 \in Nat /\ e \in Nat /\ e <= d - 1 /\ d - 1 <= KeyBits
    BY <1>0, <1>2, <1>3
  <2>2. Several(Sharing(m, k, d - 1))
    BY <1>2, <2>1
  <2>3. Sharing(m, k, d - 1) \subseteq Sharing(m, k, e)
    BY <2>1, SharingLess
  <2> QED  BY <2>2, <2>3 DEF Several
<1> QED  BY <1>0, <1>2, <1>3

\* Where the loop over currentNode ends, and what it passed.
LEMMA DepthIs ==
  ASSUME NEW m, NEW k \in TreeKey,
         NEW r, r = RightRoot(m)
  PROVE  /\ Depth(r, k) \in 0 .. KeyBits
         /\ ~Several(Sharing(m, k, Depth(r, k)))
         /\ \A e \in 0 .. Depth(r, k) - 1 : Several(Sharing(m, k, e))
         /\ \A e \in 0 .. Depth(r, k) : Way(r, k)[e] = NodeAt(m, k, e)
         /\ AtKey(r, k) = NodeAt(m, k, Depth(r, k))
<1>0. KeyBits \in Nat
  BY SparseAssumption
<1>1. PICK c \in 0 .. KeyBits : /\ ~Several(Sharing(m, k, c))
                                /\ \A e \in 0 .. c - 1 : Several(Sharing(m, k, e))
  BY FirstFew
<1>2. \A e \in 0 .. c : Way(r, k)[e] = NodeAt(m, k, e)
  BY <1>1, WayDown
<1>3. ~IsBranch(Way(r, k)[c]) /\ \A e \in 0 .. c - 1 : IsBranch(Way(r, k)[e])
  <2>1. c \in 0 .. c /\ \A e \in 0 .. c - 1 : e \in 0 .. c /\ e \in 0 .. KeyBits
    BY <1>0
  <2> QED  BY <1>1, <1>2, <2>1, NodeAtKinds
<1> DEFINE P(d) == ~IsBranch(Way(r, k)[d]) /\ \A e \in 0 .. d - 1 : IsBranch(Way(r, k)[e])
<1>4. \A d \in 0 .. KeyBits : P(d) => d = c
  BY <1>0, <1>3
<1>5. Depth(r, k) = c
  <2>1. Depth(r, k) = CHOOSE d \in 0 .. KeyBits : P(d)
    BY DEF Depth
  <2>2. P(c)
    BY <1>3
  <2> HIDE DEF P
  <2> QED  BY <1>4, <2>1, <2>2
<1> QED  BY <1>1, <1>2, <1>5 DEF AtKey

\* Wherever a walk goes, it finds a node that belongs there.
LEMMA WayFinds ==
  ASSUME NEW m, NEW k \in TreeKey, NEW d \in 0 .. KeyBits
  PROVE  \E e \in 0 .. KeyBits : Way(RightRoot(m), k)[d] = NodeAt(m, k, e)
<1> DEFINE W == Way(RightRoot(m), k)
           c == Depth(RightRoot(m), k)
           C == {e \in Nat : c <= e /\ e <= KeyBits /\ W[e] # NodeAt(m, k, c)}
<1>0. KeyBits \in Nat
  BY SparseAssumption
<1>1. /\ c \in 0 .. KeyBits /\ ~IsBranch(NodeAt(m, k, c))
      /\ \A e \in 0 .. c : W[e] = NodeAt(m, k, e)
      /\ \A e \in 1 .. KeyBits : W[e] = Onward(W[e - 1], k[e - 1])
  <2>1. c \in 0 .. KeyBits /\ ~Several(Sharing(m, k, c)) /\ \A e \in 0 .. c : W[e] = NodeAt(m, k, e)
    BY DepthIs
  <2>2. \A e \in 1 .. KeyBits : W[e] = Onward(W[e - 1], k[e - 1])
    BY WayUnfolds
  <2> HIDE DEF W, c
  <2> QED  BY <2>1, <2>2, NodeAtKinds
<1> HIDE DEF W, c
<1>2. ASSUME C # {} PROVE FALSE
  <2>1. PICK e \in C : e - 1 \notin C
    BY <1>2, LeastNumber
  <2>2. e # c
    BY <1>1, <2>1
  <2>3. e \in 1 .. KeyBits /\ e - 1 \in Nat /\ c <= e - 1 /\ e - 1 <= KeyBits
    BY <1>0, <1>1, <2>1, <2>2
  <2>4. W[e - 1] = NodeAt(m, k, c)
    BY <2>1, <2>3
  <2>5. W[e] = NodeAt(m, k, c)
    BY <1>1, <2>3, <2>4 DEF Onward
  <2> QED  BY <2>1, <2>5
<1>3. CASE d <= c
  BY <1>1, <1>3 DEF W
<1>4. CASE c < d
  <2>1. W[d] = NodeAt(m, k, c)
    BY <1>0, <1>1, <1>2, <1>4
  <2> QED  BY <1>1, <2>1 DEF W
<1> QED  BY <1>0, <1>1, <1>3, <1>4

\* The database has every node of the map.
HasNodes(m, H) ==
  /\ \A k \in Present(m) : LeafOf(k, m[k]) \in H
  /\ \A k \in TreeKey, d \in 0 .. KeyBits : Several(Sharing(m, k, d)) => NodeAt(m, k, d) \in H

\* With the nodes of a map in the database every walk finds its nodes.
LEMMA NodesFound ==
  ASSUME NEW m, NEW H, HasNodes(m, H)
  PROVE  Below(RightRoot(m)) \subseteq H
<1> SUFFICES ASSUME NEW k \in TreeKey, NEW d \in 0 .. KeyBits, Way(RightRoot(m), k)[d] # Empty
             PROVE  Way(RightRoot(m), k)[d] \in H
  BY DEF Below
<1>1. PICK e \in 0 .. KeyBits : Way(RightRoot(m), k)[d] = NodeAt(m, k, e)
  BY WayFinds
<1>2. CASE Several(Sharing(m, k, e))
  BY <1>1, <1>2 DEF HasNodes
<1>3. CASE ~Several(Sharing(m, k, e))
  <2>1. PICK j \in Sharing(m, k, e) : Sharing(m, k, e) = {j}
    BY <1>1, <1>3, FewAre, NodeAtKinds
  <2>2. j \in TreeKey /\ j \in Present(m)
    BY DEF Sharing, Present
  <2>3. NodeAt(m, k, e) = LeafOf(j, m[j])
    BY <2>1, <2>2, NodeAtKinds
  <2> QED  BY <1>1, <2>2, <2>3 DEF HasNodes
<1> QED  BY <1>2, <1>3

-----------------------------------------------------------------------------
\* Maps that give the keys of S the same values make the same node of them.
LEMMA NodesSame ==
  ASSUME NEW m, NEW n, NEW h \in 0 .. KeyBits, NEW S \in SUBSET TreeKey,
         \A k \in S : m[k] = n[k]
  PROVE  NodesOfKeys(m)[h][S] = NodesOfKeys(n)[h][S]
<1> DEFINE Same(i, T) == NodesOfKeys(m)[i][T] = NodesOfKeys(n)[i][T]
           Alike(T) == T \in SUBSET TreeKey /\ \A k \in T : m[k] = n[k]
           C == {i \in Nat : i <= KeyBits /\ \E T : Alike(T) /\ ~Same(i, T)}
<1>0. KeyBits \in Nat
  BY SparseAssumption
<1>1. ASSUME C # {} PROVE FALSE
  <2>1. PICK i \in C : i - 1 \notin C
    <3> HIDE DEF Same, Alike
    <3> QED  BY <1>1, LeastNumber
  <2>2. PICK T : Alike(T) /\ ~Same(i, T)
    BY <2>1
  <2>3. i \in 0 .. KeyBits
    BY <1>0, <2>1
  <2>4. CASE T = {}
    BY <2>2, <2>3, <2>4, NodeOf
  <2>5. CASE \E k \in T : T = {k}
    <3>1. PICK k \in T : T = {k}
      BY <2>5
    <3>2. NodesOfKeys(m)[i][T] = LeafOf(k, m[k]) /\ NodesOfKeys(n)[i][T] = LeafOf(k, n[k])
      BY <2>2, <2>3, <3>1, NodeOf
    <3> QED  BY <2>2, <3>1, <3>2
  <2>6. CASE Several(T) /\ i = 0
    <3>1. NodesOfKeys(m)[0][T] = LowestNodes(m)[T] /\ NodesOfKeys(n)[0][T] = LowestNodes(n)[T]
      BY NodesUnfold
    <3>2. T # {}
      BY <2>6 DEF Several
    <3>3. LowestNodes(m)[T] = LowestNodes(n)[T]
      BY <2>2, <3>2 DEF LowestNodes
    <3> QED  BY <2>2, <2>6, <3>1, <3>3
  <2>7. CASE Several(T) /\ i # 0
    <3>1. i - 1 \in Nat /\ i - 1 <= KeyBits /\ i > 0
      BY <1>0, <2>3, <2>7
    <3>2. \A b : Alike(Half(T, KeyBits - i, b))
      BY <2>2 DEF Half
    <3>3. \A b : Same(i - 1, Half(T, KeyBits - i, b))
      <4> HIDE DEF Same, Alike
      <4> QED  BY <2>1, <3>1, <3>2
    <3>4. /\ NodesOfKeys(m)[i][T] = BranchOf(NodesOfKeys(m)[i - 1][Half(T, KeyBits - i, 0)],
                                             NodesOfKeys(m)[i - 1][Half(T, KeyBits - i, 1)])
          /\ NodesOfKeys(n)[i][T] = BranchOf(NodesOfKeys(n)[i - 1][Half(T, KeyBits - i, 0)],
                                             NodesOfKeys(n)[i - 1][Half(T, KeyBits - i, 1)])
      BY <2>2, <2>3, <2>7, <3>1, NodeOf
    <3> QED  BY <2>2, <3>3, <3>4
  <2> QED  BY <2>4, <2>5, <2>6, <2>7, FewAre
<1>2. h \in Nat /\ h <= KeyBits /\ Alike(S)
  BY <1>0
<1>3. Same(h, S)
  <2> HIDE DEF Same, Alike
  <2> QED  BY <1>1, <1>2
<1> QED  BY <1>3

\* A change of the value of k leaves every node alone that k is not below.
LEMMA NodeAtSame ==
  ASSUME NEW m, NEW n, NEW k \in TreeKey, NEW j \in TreeKey, NEW d \in 0 .. KeyBits,
         \A i \in TreeKey : i # k => n[i] = m[i],
         ~Agree(k, j, d)
  PROVE  Sharing(n, j, d) = Sharing(m, j, d) /\ NodeAt(n, j, d) = NodeAt(m, j, d)
<1>1. Sharing(n, j, d) = Sharing(m, j, d)
  BY DEF Sharing, Present
<1>2. Sharing(m, j, d) \in SUBSET TreeKey /\ \A i \in Sharing(m, j, d) : m[i] = n[i]
  BY DEF Sharing, Present
<1>3. PICK h \in 0 .. KeyBits : h = KeyBits - d
  BY SparseAssumption
<1>4. NodesOfKeys(m)[h][Sharing(m, j, d)] = NodesOfKeys(n)[h][Sharing(m, j, d)]
  BY <1>2, NodesSame
<1> QED  BY <1>1, <1>3, <1>4 DEF NodeAt

-----------------------------------------------------------------------------
\* Different sets of keys make different nodes.
LEMMA NodesTell ==
  ASSUME NEW m, NEW k \in TreeKey, NEW j \in TreeKey, NEW d \in 0 .. KeyBits, NEW e \in 0 .. KeyBits,
         NodeAt(m, k, d) = NodeAt(m, j, e)
  PROVE  Sharing(m, k, d) = Sharing(m, j, e)
<1> DEFINE Alike(x, c, y, b) == NodeAt(m, x, c) = NodeAt(m, y, b)
           Equal(x, c, y, b) == Sharing(m, x, c) = Sharing(m, y, b)
           Bad(c) == \E x, y \in TreeKey, b \in 0 .. KeyBits : Alike(x, c, y, b) /\ ~Equal(x, c, y, b)
           C == {i \in Nat : i <= KeyBits /\ Bad(KeyBits - i)}
<1>0. KeyBits \in Nat
  BY SparseAssumption
<1>1. ASSUME C # {} PROVE FALSE
  <2>1. PICK i \in C : i - 1 \notin C
    <3> HIDE DEF Bad
    <3> QED  BY <1>1, LeastNumber
  <2>2. PICK c \in 0 .. KeyBits : c = KeyBits - i
    BY <1>0, <2>1
  <2>3. PICK x \in TreeKey, y \in TreeKey, b \in 0 .. KeyBits : Alike(x, c, y, b) /\ ~Equal(x, c, y, b)
    BY <2>1, <2>2
  <2>4. CASE Sharing(m, x, c) = {}
    <3>1. NodeAt(m, x, c) = Empty
      BY <2>4, EmptyIff
    <3>2. Sharing(m, y, b) = {}
      BY <2>3, <3>1, EmptyIff
    <3> QED  BY <2>3, <2>4, <3>2
  <2>5. CASE \E q \in TreeKey : Sharing(m, x, c) = {q}
    <3>1. PICK q \in TreeKey : Sharing(m, x, c) = {q}
      BY <2>5
    <3>2. IsLeaf(NodeAt(m, y, b))
      BY <2>3, <2>5, LeafIff
    <3>3. PICK p \in TreeKey : Sharing(m, y, b) = {p}
      BY <3>2, LeafIff
    <3>4. LeafOf(q, m[q]) = LeafOf(p, m[p])
      BY <2>3, <3>1, <3>3, LeafIs
    <3>5. q = p
      BY <3>4, Kinds
    <3> QED  BY <2>3, <3>1, <3>3, <3>5
  <2>6. CASE Several(Sharing(m, x, c))
    <3>1. Several(Sharing(m, y, b))
      BY <2>3, <2>6, BranchIff
    <3> DEFINE Low(z, f) == IF z[f] = 0 THEN z ELSE Other(z, f)
               High(z, f) == IF z[f] = 0 THEN Other(z, f) ELSE z
    <3>2. ASSUME NEW z \in TreeKey, NEW f \in 0 .. KeyBits, Several(Sharing(m, z, f))
          PROVE  /\ f + 1 \in 0 .. KeyBits /\ Low(z, f) \in TreeKey /\ High(z, f) \in TreeKey
                 /\ NodeAt(m, z, f) = BranchOf(NodeAt(m, Low(z, f), f + 1), NodeAt(m, High(z, f), f + 1))
                 /\ Sharing(m, z, f) = Sharing(m, Low(z, f), f + 1) \cup Sharing(m, High(z, f), f + 1)
      <4>1. f < KeyBits
        BY <3>2, NodeAtIs
      <4>2. f \in 0 .. KeyBits - 1 /\ f + 1 \in 0 .. KeyBits
        BY <1>0, <4>1
      <4>3. Other(z, f) \in TreeKey
        BY <4>2, KeyDigit
      <4>4. NodeAt(m, z, f) = BranchOf(NodeAt(m, Low(z, f), f + 1), NodeAt(m, High(z, f), f + 1))
        BY <3>2, NodeAtIs
      <4>5. Sharing(m, z, f) = Sharing(m, z, f + 1) \cup Sharing(m, Other(z, f), f + 1)
        BY <4>2, SharingNext
      <4> QED  BY <4>2, <4>3, <4>4, <4>5
    <3>3. PICK c1 \in 0 .. KeyBits, b1 \in 0 .. KeyBits : c1 = c + 1 /\ b1 = b + 1
      BY <2>6, <3>1, <3>2
    <3>4. c1 = KeyBits - (i - 1) /\ i - 1 \in Nat /\ i - 1 <= KeyBits
      BY <1>0, <2>1, <2>2, <3>3
    <3>5. ~Bad(c1)
      <4> HIDE DEF Bad
      <4> QED  BY <2>1, <3>4
    <3> HIDE DEF Low, High
    <3>6. \A z, w \in TreeKey : Alike(z, c1, w, b1) => Equal(z, c1, w, b1)
      BY <3>5
    <3>7. /\ NodeAt(m, x, c) = BranchOf(NodeAt(m, Low(x, c), c1), NodeAt(m, High(x, c), c1))
          /\ NodeAt(m, y, b) = BranchOf(NodeAt(m, Low(y, b), b1), NodeAt(m, High(y, b), b1))
          /\ Low(x, c) \in TreeKey /\ High(x, c) \in TreeKey
          /\ Low(y, b) \in TreeKey /\ High(y, b) \in TreeKey
      BY <2>6, <3>1, <3>2, <3>3
    <3>8. Alike(Low(x, c), c1, Low(y, b), b1) /\ Alike(High(x, c), c1, High(y, b), b1)
      <4>1. BranchOf(NodeAt(m, Low(x, c), c1), NodeAt(m, High(x, c), c1))
              = BranchOf(NodeAt(m, Low(y, b), b1), NodeAt(m, High(y, b), b1))
        BY <2>3, <3>7
      <4> QED  BY <4>1, Kinds
    <3>9. Equal(Low(x, c), c1, Low(y, b), b1) /\ Equal(High(x, c), c1, High(y, b), b1)
      BY <3>6, <3>7, <3>8
    <3>10. /\ Sharing(m, x, c) = Sharing(m, Low(x, c), c1) \cup Sharing(m, High(x, c), c1)
           /\ Sharing(m, y, b) = Sharing(m, Low(y, b), b1) \cup Sharing(m, High(y, b), b1)
      BY <2>6, <3>1, <3>2, <3>3
    <3> QED  BY <2>3, <3>9, <3>10
  <2> QED  BY <2>4, <2>5, <2>6, FewAre, SharingFew
<1>2. KeyBits - d \in Nat /\ KeyBits - d <= KeyBits /\ KeyBits - (KeyBits - d) = d
  BY <1>0
<1>3. ~Bad(d)
  <2> HIDE DEF Bad
  <2> QED  BY <1>1, <1>2
<1> QED  BY <1>3

-----------------------------------------------------------------------------
\* A map changed at k.  Where several keys share digits with k before and
\* after, the new node is the old one with its child towards k replaced.
LEMMA NodeAtChanged ==
  ASSUME NEW m, NEW n, NEW k \in TreeKey, NEW d \in 0 .. KeyBits - 1,
         \A i \in TreeKey : i # k => n[i] = m[i],
         Several(Sharing(m, k, d)), Several(Sharing(n, k, d))
  PROVE  NodeAt(n, k, d) = WithChild(NodeAt(m, k, d), k[d], NodeAt(n, k, d + 1))
<1>1. d \in 0 .. KeyBits /\ d + 1 \in 0 .. KeyBits
  BY SparseAssumption
<1>2. Other(k, d) \in TreeKey /\ k[d] \in {0, 1} /\ ~Agree(k, Other(k, d), d + 1)
  <2>1. Other(k, d)[d] = 1 - k[d] /\ k[d] \in {0, 1} /\ d \in Nat /\ Other(k, d) \in TreeKey
    BY KeyDigit
  <2>2. Other(k, d)[d] # k[d]
    BY <2>1
  <2>3. Agree(k, Other(k, d), d + 1) => k[d] = Other(k, d)[d]
    BY <2>1, AgreeNext
  <2> QED  BY <2>1, <2>2, <2>3
<1>3. NodeAt(n, Other(k, d), d + 1) = NodeAt(m, Other(k, d), d + 1)
  BY <1>1, <1>2, NodeAtSame
<1>4. CASE k[d] = 0
  <2>1. /\ NodeAt(m, k, d) = BranchOf(NodeAt(m, k, d + 1), NodeAt(m, Other(k, d), d + 1))
        /\ NodeAt(n, k, d) = BranchOf(NodeAt(n, k, d + 1), NodeAt(n, Other(k, d), d + 1))
    BY <1>1, <1>4, NodeAtIs
  <2> QED  BY <1>3, <1>4, <2>1, Kinds DEF WithChild
<1>5. CASE k[d] # 0
  <2>1. /\ NodeAt(m, k, d) = BranchOf(NodeAt(m, Other(k, d), d + 1), NodeAt(m, k, d + 1))
        /\ NodeAt(n, k, d) = BranchOf(NodeAt(n, Other(k, d), d + 1), NodeAt(n, k, d + 1))
    BY <1>1, <1>5, NodeAtIs
  <2> QED  BY <1>3, <1>5, <2>1, Kinds DEF WithChild
<1> QED  BY <1>4, <1>5

\* Every new node is made of the one below it; the way of k is right.
CarriedUp(n, k, above, h) ==
  \A d \in 0 .. h - 1 : NodeAt(n, k, d) = WithChild(above[d], k[d], NodeAt(n, k, d + 1))
RightWay(new, n, k, h) ==
  /\ DOMAIN new = 0 .. h
  /\ \A d \in 0 .. h : new[d] = NodeAt(n, k, d)
  /\ new[0] = RightRoot(n)

\* Nodes rebuilt from the right lowest one are right up to the root.
LEMMA RebuiltRight ==
  ASSUME NEW n, NEW k \in TreeKey, NEW above, NEW h \in 0 .. KeyBits, CarriedUp(n, k, above, h)
  PROVE  RightWay(Updated(above, k, h, NodeAt(n, k, h)), n, k, h)
<1> DEFINE new == Updated(above, k, h, NodeAt(n, k, h))
           C == {i \in Nat : i <= h /\ new[h - i] # NodeAt(n, k, h - i)}
<1>0. /\ h \in Nat
      /\ \A d \in 0 .. h - 1 : NodeAt(n, k, d) = WithChild(above[d], k[d], NodeAt(n, k, d + 1))
  BY SparseAssumption DEF CarriedUp
<1>1. /\ DOMAIN new = 0 .. h /\ new[h] = NodeAt(n, k, h)
      /\ \A d \in 0 .. h - 1 : new[d] = WithChild(above[d], k[d], new[d + 1])
  BY <1>0, UpdatedUnfolds
<1> HIDE DEF new
<1>2. ASSUME C # {} PROVE FALSE
  <2>1. PICK i \in C : i - 1 \notin C
    BY <1>2, LeastNumber
  <2>2. h - 0 = h
    BY <1>0
  <2>3. i # 0
    BY <1>1, <2>1, <2>2
  <2>4. i - 1 \in Nat /\ h - i \in 0 .. h - 1 /\ (h - i) + 1 = h - (i - 1) /\ i - 1 <= h
    BY <1>0, <2>1, <2>3
  <2>5. new[(h - i) + 1] = NodeAt(n, k, (h - i) + 1)
    BY <2>1, <2>4
  <2>6. new[h - i] = WithChild(above[h - i], k[h - i], new[(h - i) + 1])
    BY <1>1, <2>4
  <2> QED  BY <1>0, <2>1, <2>4, <2>5, <2>6
<1>3. \A d \in 0 .. h : h - d \in Nat /\ h - d <= h /\ h - (h - d) = d
  BY <1>0
<1>4. \A d \in 0 .. h : new[d] = NodeAt(n, k, d)
  BY <1>2, <1>3
<1>5. 0 \in 0 .. h
  BY <1>0
<1>6. DOMAIN new = 0 .. h /\ (\A d \in 0 .. h : new[d] = NodeAt(n, k, d)) /\ new[0] = RightRoot(n)
  BY <1>1, <1>4, <1>5, RightRootIs
<1> QED  BY <1>6 DEF new, RightWay

-----------------------------------------------------------------------------
\* n is m with a value for k, which m has none for.
Gains(m, n, k) ==
  k \in TreeKey /\ m[k] = NoValue /\ n[k] # NoValue /\ \A i \in TreeKey : i # k => n[i] = m[i]

\* To agree is symmetric.
LEMMA AgreeBoth ==
  ASSUME NEW j, NEW k, NEW d
  PROVE  Agree(j, k, d) <=> Agree(k, j, d)
BY DEF Agree

\* Keys that agree on the digits above a node share it.
LEMMA NodeAtAgreed ==
  ASSUME NEW n, NEW k \in TreeKey, NEW j \in TreeKey, NEW d \in 0 .. KeyBits, Agree(k, j, d)
  PROVE  Sharing(n, j, d) = Sharing(n, k, d) /\ NodeAt(n, j, d) = NodeAt(n, k, d)
<1>1. \A i : Agree(i, j, d) <=> Agree(i, k, d)
  BY DEF Agree
<1>2. Sharing(n, j, d) = Sharing(n, k, d)
  BY <1>1 DEF Sharing
<1> QED  BY <1>2 DEF NodeAt

\* What the new key changes along its way.
LEMMA SharingGains ==
  ASSUME NEW m, NEW n, NEW k, Gains(m, n, k), NEW d \in 0 .. KeyBits
  PROVE  /\ Sharing(n, k, d) = Sharing(m, k, d) \cup {k}
         /\ k \notin Sharing(m, k, d)
         /\ Several(Sharing(m, k, d)) => Several(Sharing(n, k, d))
<1>1. Agree(k, k, d)
  BY DEF Agree
<1>2. Sharing(n, k, d) = Sharing(m, k, d) \cup {k}
  BY <1>1 DEF Gains, Sharing, Present
<1>3. k \notin Sharing(m, k, d)
  BY DEF Gains, Sharing, Present
<1> QED  BY <1>2, <1>3 DEF Several

\* Two keys part.
LEMMA PartingIs ==
  ASSUME NEW j \in TreeKey, NEW k \in TreeKey, j # k, NEW c \in Nat, Agree(j, k, c)
  PROVE  /\ Parting(k, j, c) \in 0 .. KeyBits - 1
         /\ c <= Parting(k, j, c)
         /\ k[Parting(k, j, c)] # j[Parting(k, j, c)]
         /\ Agree(j, k, Parting(k, j, c))
<1>0. KeyBits \in Nat
  BY SparseAssumption
<1> DEFINE C == {d \in Nat : ~Agree(j, k, d)}
           P(e) == k[e] # j[e] /\ \A f \in c .. e - 1 : k[f] = j[f]
<1>1. KeyBits \in C
  BY <1>0, AgreeAll
<1>2. PICK d \in C : d - 1 \notin C
  <2>1. C # {} /\ C \in SUBSET Nat
    BY <1>1
  <2> HIDE DEF C
  <2> QED  BY <2>1, LeastNumber
<1>3. d # 0
  <2>1. Agree(j, k, 0)
    BY DEF Agree
  <2> QED  BY <1>2, <2>1
<1>4. d - 1 \in Nat /\ Agree(j, k, d - 1) /\ (d - 1) + 1 = d
  BY <1>2, <1>3
<1>5. j[d - 1] # k[d - 1]
  <2>1. Agree(j, k, (d - 1) + 1) <=> Agree(j, k, d - 1) /\ j[d - 1] = k[d - 1]
    BY <1>4, AgreeNext
  <2> QED  BY <1>2, <1>4, <2>1
<1>6. c <= d - 1
  <2>1. ASSUME d <= c PROVE FALSE
    <3>1. Agree(j, k, d)
      BY <1>2, <2>1, AgreeLess
    <3> QED  BY <1>2, <3>1
  <2> QED  BY <1>2, <2>1
<1>7. d - 1 <= KeyBits - 1
  <2>1. ASSUME KeyBits <= d - 1 PROVE FALSE
    <3>1. Agree(j, k, KeyBits)
      BY <1>0, <1>4, <2>1, AgreeLess
    <3> QED  BY <1>1, <3>1
  <2> QED  BY <1>0, <1>2, <2>1
<1>8. \E e \in c .. KeyBits - 1 : P(e)
  <2>1. d - 1 \in c .. KeyBits - 1
    BY <1>0, <1>4, <1>6, <1>7
  <2>2. P(d - 1)
    BY <1>4, <1>5 DEF Agree
  <2> QED  BY <2>1, <2>2
<1>9. Parting(k, j, c) \in c .. KeyBits - 1 /\ P(Parting(k, j, c))
  <2>1. Parting(k, j, c) = CHOOSE e \in c .. KeyBits - 1 : P(e)
    BY DEF Parting
  <2> HIDE DEF P
  <2> QED  BY <1>8, <2>1
<1>10. PICK e \in c .. KeyBits - 1 : e = Parting(k, j, c)
  BY <1>9
<1>11. Agree(j, k, e)
  <2> SUFFICES ASSUME NEW f \in 0 .. e - 1 PROVE j[f] = k[f]
    BY DEF Agree
  <2>1. f \in 0 .. c - 1 \/ f \in c .. e - 1
    BY <1>10
  <2> QED  BY <1>9, <1>10, <2>1 DEF Agree
<1> QED  BY <1>0, <1>9, <1>10, <1>11

\* The nodes update makes are those of the map with the new key.
UpdatedRight(new, n, k) ==
  /\ new[0] = RightRoot(n)
  /\ \A d \in 0 .. KeyBits :
       Several(Sharing(n, k, d)) => d \in DOMAIN new /\ new[d] = NodeAt(n, k, d)

\* update at an empty place.
LEMMA UpdateEmpty ==
  ASSUME NEW m, NEW n, NEW k, Gains(m, n, k),
         NEW c \in 0 .. KeyBits, Sharing(m, k, c) = {},
         \A d \in 0 .. c - 1 : Several(Sharing(m, k, d)),
         NEW W, \A d \in 0 .. c : W[d] = NodeAt(m, k, d)
  PROVE  UpdatedRight(Updated(W, k, c, LeafOf(k, n[k])), n, k)
<1>0. KeyBits \in Nat /\ k \in TreeKey
  BY SparseAssumption DEF Gains
<1>1. Sharing(n, k, c) = {k} /\ NodeAt(n, k, c) = LeafOf(k, n[k])
  BY <1>0, SharingGains, LeafIs
<1>2. ASSUME NEW d \in 0 .. c - 1
      PROVE  NodeAt(n, k, d) = WithChild(W[d], k[d], NodeAt(n, k, d + 1))
  <2>1. d \in 0 .. KeyBits - 1 /\ d \in 0 .. c /\ d \in 0 .. KeyBits
    BY <1>0
  <2>2. Several(Sharing(m, k, d)) /\ Several(Sharing(n, k, d))
    BY <1>2, <2>1, SharingGains
  <2>3. NodeAt(n, k, d) = WithChild(NodeAt(m, k, d), k[d], NodeAt(n, k, d + 1))
    BY <1>0, <2>1, <2>2, NodeAtChanged DEF Gains
  <2> QED  BY <2>1, <2>3
<1> DEFINE new == Updated(W, k, c, NodeAt(n, k, c))
<1>3. DOMAIN new = 0 .. c /\ (\A d \in 0 .. c : new[d] = NodeAt(n, k, d)) /\ new[0] = RightRoot(n)
  <2>1. CarriedUp(n, k, W, c)
    BY <1>2 DEF CarriedUp
  <2>2. RightWay(new, n, k, c)
    BY <1>0, <2>1, RebuiltRight
  <2> QED  BY <2>2 DEF RightWay
<1>4. ASSUME NEW d \in 0 .. KeyBits, Several(Sharing(n, k, d)) PROVE d \in 0 .. c
  <2>1. ASSUME c <= d PROVE FALSE
    <3>1. Sharing(n, k, d) \subseteq {k}
      BY <1>0, <1>1, <2>1, SharingLess
    <3> QED  BY <1>4, <3>1 DEF Several
  <2> QED  BY <1>0, <2>1
<1> HIDE DEF new
<1>5. UpdatedRight(new, n, k)
  BY <1>3, <1>4 DEF UpdatedRight
<1> QED  BY <1>1, <1>5 DEF new

\* update where the leaf of another key is: the two part at the digit e.
LEMMA UpdateFork ==
  ASSUME NEW m, NEW n, NEW k, Gains(m, n, k),
         NEW c \in 0 .. KeyBits, NEW j \in TreeKey, Sharing(m, k, c) = {j},
         \A d \in 0 .. c - 1 : Several(Sharing(m, k, d)),
         NEW e \in 0 .. KeyBits - 1, c <= e, k[e] # j[e], Agree(j, k, e),
         NEW there, there = LeafOf(j, m[j]),
         NEW above,
         \A d \in 0 .. e - 1 : above[d] = IF d < c THEN NodeAt(m, k, d) ELSE BranchOf(Empty, Empty)
  PROVE  UpdatedRight(Updated(above, k, e, WithChild(BranchOf(there, there), k[e], LeafOf(k, n[k]))), n, k)
<1>0. KeyBits \in Nat /\ k \in TreeKey /\ e \in 0 .. KeyBits /\ e + 1 \in 0 .. KeyBits /\ k # j
  BY SparseAssumption DEF Gains
<1>1. ASSUME NEW d \in c .. e PROVE Sharing(n, k, d) = {j, k} /\ Several(Sharing(n, k, d))
  <2>1. d \in 0 .. KeyBits /\ d \in Nat /\ c <= d /\ d <= e /\ c \in Nat /\ e \in Nat
    BY <1>0
  <2>2. Sharing(m, k, d) \subseteq {j}
    BY <2>1, SharingLess
  <2>3. j \in Present(m)
    BY DEF Sharing
  <2>4. Agree(j, k, d)
    BY <2>1, AgreeLess
  <2>5. Sharing(m, k, d) = {j}
    BY <2>2, <2>3, <2>4 DEF Sharing
  <2>6. Sharing(n, k, d) = {j, k}
    BY <2>1, <2>5, SharingGains
  <2> QED  BY <1>0, <2>6 DEF Several
<1>2. /\ k[e] \in {0, 1} /\ Other(k, e) \in TreeKey
      /\ \A d \in 0 .. KeyBits - 1 : k[d] \in {0, 1} /\ Other(k, d) \in TreeKey
  BY <1>0, KeyDigit
<1>3. NodeAt(n, k, e) = WithChild(BranchOf(there, there), k[e], LeafOf(k, n[k]))
  <2>1. Sharing(n, k, e) = {j, k} /\ Several(Sharing(n, k, e))
    BY <1>0, <1>1
  <2>2. j[e] \in {0, 1}
    BY KeyDigit
  <2>3. Half({j, k}, e, k[e]) = {k} /\ Half({j, k}, e, 1 - k[e]) = {j}
    BY <1>2, <2>2 DEF Half
  <2>4. Sharing(n, k, e + 1) = {k} /\ Sharing(n, Other(k, e), e + 1) = {j}
    <3>1. Sharing(n, k, e + 1) = Half(Sharing(n, k, e), e, k[e])
      BY <1>0, SharingDown
    <3>2. Sharing(n, Other(k, e), e + 1) = Half(Sharing(n, k, e), e, 1 - k[e])
      BY <1>0, SharingBeside
    <3> QED  BY <2>1, <2>3, <3>1, <3>2
  <2>5. NodeAt(n, k, e + 1) = LeafOf(k, n[k])
    BY <1>0, <2>4, LeafIs
  <2>6. NodeAt(n, Other(k, e), e + 1) = LeafOf(j, n[j])
    BY <1>0, <1>2, <2>4, LeafIs
  <2>7. n[j] = m[j]
    BY <1>0 DEF Gains
  <2>8. NodeAt(n, k, e) = IF k[e] = 0 THEN BranchOf(LeafOf(k, n[k]), there)
                          ELSE BranchOf(there, LeafOf(k, n[k]))
    BY <1>0, <2>1, <2>5, <2>6, <2>7, BranchIs
  <2> QED  BY <2>8, Kinds DEF WithChild
<1>4. ASSUME NEW d \in 0 .. e - 1
      PROVE  NodeAt(n, k, d) = WithChild(above[d], k[d], NodeAt(n, k, d + 1))
  <2>1. d \in 0 .. KeyBits - 1 /\ d \in 0 .. KeyBits /\ d + 1 \in 0 .. KeyBits
    BY <1>0
  <2>2. CASE d < c
    <3>1. Several(Sharing(m, k, d)) /\ Several(Sharing(n, k, d))
      BY <2>1, <2>2, SharingGains
    <3>2. NodeAt(n, k, d) = WithChild(NodeAt(m, k, d), k[d], NodeAt(n, k, d + 1))
      BY <1>0, <2>1, <3>1, NodeAtChanged DEF Gains
    <3> QED  BY <2>2, <3>2
  <2>3. CASE ~(d < c)
    <3>1. Sharing(n, k, d) = {j, k} /\ Several(Sharing(n, k, d))
      <4>1. d \in c .. e
        BY <1>0, <2>1, <2>3
      <4> QED  BY <1>1, <4>1
    <3>2. j[d] = k[d] /\ 1 - k[d] # k[d]
      BY <1>2, <2>1 DEF Agree
    <3>3. Half({j, k}, d, 1 - k[d]) = {}
      BY <3>2 DEF Half
    <3>4. Sharing(n, Other(k, d), d + 1) = {}
      <4>1. Sharing(n, Other(k, d), d + 1) = Half(Sharing(n, k, d), d, 1 - k[d])
        <5>1. d \in 0 .. KeyBits - 1 /\ k \in TreeKey
          BY <1>0, <2>1
        <5> QED  BY <5>1, SharingBeside
      <4> QED  BY <3>1, <3>3, <4>1
    <3>5. NodeAt(n, Other(k, d), d + 1) = Empty
      BY <1>2, <2>1, <3>4, EmptyIff
    <3>6. NodeAt(n, k, d) = IF k[d] = 0 THEN BranchOf(NodeAt(n, k, d + 1), Empty)
                            ELSE BranchOf(Empty, NodeAt(n, k, d + 1))
      <4>1. PICK down : down = NodeAt(n, k, d + 1)
        OBVIOUS
      <4>2. NodeAt(n, k, d) = IF k[d] = 0 THEN BranchOf(down, Empty) ELSE BranchOf(Empty, down)
        <5>1. Several(Sharing(n, k, d)) /\ Empty = NodeAt(n, Other(k, d), d + 1)
          BY <3>1, <3>5
        <5> QED  BY <1>0, <2>1, <4>1, <5>1, BranchIs
      <4> QED  BY <4>1, <4>2
    <3>7. above[d] = BranchOf(Empty, Empty)
      BY <2>3
    <3> QED  BY <3>6, <3>7, Kinds DEF WithChild
  <2> QED  BY <2>2, <2>3
<1> DEFINE new == Updated(above, k, e, NodeAt(n, k, e))
<1>5. DOMAIN new = 0 .. e /\ (\A d \in 0 .. e : new[d] = NodeAt(n, k, d)) /\ new[0] = RightRoot(n)
  <2>1. CarriedUp(n, k, above, e)
    BY <1>4 DEF CarriedUp
  <2>2. RightWay(new, n, k, e)
    BY <1>0, <2>1, RebuiltRight
  <2> QED  BY <2>2 DEF RightWay
<1>6. ASSUME NEW d \in 0 .. KeyBits, Several(Sharing(n, k, d)) PROVE d \in 0 .. e
  <2>1. ASSUME e + 1 <= d PROVE FALSE
    <3>1. Sharing(n, k, e + 1) = {k}
      <4>1. Sharing(n, k, e) = {j, k}
        BY <1>0, <1>1
      <4>2. Half({j, k}, e, k[e]) = {k}
        BY <1>2 DEF Half
      <4>3. Sharing(n, k, e + 1) = Half(Sharing(n, k, e), e, k[e])
        BY <1>0, SharingDown
      <4> QED  BY <4>1, <4>2, <4>3
    <3>2. Sharing(n, k, d) \subseteq Sharing(n, k, e + 1)
      BY <1>0, <2>1, SharingLess
    <3> QED  BY <1>6, <3>1, <3>2 DEF Several
  <2> QED  BY <1>0, <2>1
<1> HIDE DEF new
<1>7. UpdatedRight(new, n, k)
  BY <1>5, <1>6 DEF UpdatedRight
<1> QED  BY <1>3, <1>7 DEF new

\* update makes the way of k right.
LEMMA UpdateRight ==
  ASSUME NEW m, NEW n, NEW k, Gains(m, n, k)
  PROVE  UpdatedRight(WayWith(RightRoot(m), k, n[k]), n, k)
<1> DEFINE r == RightRoot(m)
           c == Depth(r, k)
           there == AtKey(r, k)
           e == Parting(k, there.key, c)
           above == [i \in 0 .. e - 1 |-> IF i < c THEN Way(r, k)[i] ELSE BranchOf(Empty, Empty)]
<1>0. KeyBits \in Nat /\ k \in TreeKey
  BY SparseAssumption DEF Gains
<1>1. /\ c \in 0 .. KeyBits /\ ~Several(Sharing(m, k, c)) /\ there = NodeAt(m, k, c)
      /\ \A d \in 0 .. c - 1 : Several(Sharing(m, k, d))
      /\ \A d \in 0 .. c : Way(r, k)[d] = NodeAt(m, k, d)
  BY <1>0, DepthIs
<1>2. WayWith(r, k, n[k])
        = IF there = Empty THEN Updated(Way(r, k), k, c, LeafOf(k, n[k]))
          ELSE Updated(above, k, e, WithChild(BranchOf(there, there), k[e], LeafOf(k, n[k])))
  BY DEF WayWith
<1> HIDE DEF r, c, there
<1>3. CASE Sharing(m, k, c) = {}
  <2>1. there = Empty
    BY <1>0, <1>1, <1>3, EmptyIff
  <2>2. UpdatedRight(Updated(Way(r, k), k, c, LeafOf(k, n[k])), n, k)
    BY <1>1, <1>3, UpdateEmpty
  <2> QED  BY <1>2, <2>1, <2>2 DEF r
<1>4. CASE \E j \in Sharing(m, k, c) : Sharing(m, k, c) = {j}
  <2>1. PICK j \in Sharing(m, k, c) : Sharing(m, k, c) = {j}
    BY <1>4
  <2>2. j \in TreeKey /\ j # k /\ Agree(j, k, c)
    <3>1. j # k
      BY <1>1, SharingGains
    <3> QED  BY <3>1 DEF Sharing, Present
  <2>3. there = LeafOf(j, m[j]) /\ there # Empty /\ there.key = j
    <3>1. there = LeafOf(j, m[j])
      BY <1>0, <1>1, <2>1, <2>2, LeafIs
    <3> QED  BY <3>1, Kinds
  <2>4. e \in 0 .. KeyBits - 1 /\ c <= e /\ k[e] # j[e] /\ Agree(j, k, e)
    BY <1>0, <1>1, <2>2, <2>3, PartingIs
  <2> HIDE DEF e
  <2>5. \A d \in 0 .. e - 1 : above[d] = IF d < c THEN NodeAt(m, k, d) ELSE BranchOf(Empty, Empty)
    BY <1>0, <1>1, <2>4
  <2> HIDE DEF above
  <2>6. UpdatedRight(Updated(above, k, e, WithChild(BranchOf(there, there), k[e], LeafOf(k, n[k]))), n, k)
    BY <1>1, <2>1, <2>2, <2>3, <2>4, <2>5, UpdateFork
  <2> QED  BY <1>2, <2>3, <2>6 DEF r
<1> QED  BY <1>1, <1>3, <1>4, FewAre

\* update leaves every node of the new tree in the database.
LEMMA UpdateHas ==
  ASSUME NEW m, NEW n, NEW k, Gains(m, n, k), NEW H, HasNodes(m, H),
         NEW new, UpdatedRight(new, n, k)
  PROVE  HasNodes(n, H \cup {LeafOf(k, n[k])} \cup {new[d] : d \in DOMAIN new})
<1> DEFINE G == H \cup {LeafOf(k, n[k])} \cup {new[d] : d \in DOMAIN new}
<1>1. ASSUME NEW j \in Present(n) PROVE LeafOf(j, n[j]) \in G
  <2>1. CASE j = k
    BY <2>1
  <2>2. CASE j # k
    BY <2>2 DEF HasNodes, Gains, Present
  <2> QED  BY <2>1, <2>2
<1>2. ASSUME NEW j \in TreeKey, NEW d \in 0 .. KeyBits, Several(Sharing(n, j, d))
      PROVE  NodeAt(n, j, d) \in G
  <2>1. k \in TreeKey /\ \A i \in TreeKey : i # k => n[i] = m[i]
    BY DEF Gains
  <2>2. CASE Agree(k, j, d)
    <3>1. Sharing(n, j, d) = Sharing(n, k, d) /\ NodeAt(n, j, d) = NodeAt(n, k, d)
      BY <2>1, <2>2, NodeAtAgreed
    <3> QED  BY <1>2, <3>1 DEF UpdatedRight
  <2>3. CASE ~Agree(k, j, d)
    <3>1. Sharing(n, j, d) = Sharing(m, j, d) /\ NodeAt(n, j, d) = NodeAt(m, j, d)
      BY <2>1, <2>3, NodeAtSame
    <3> QED  BY <1>2, <3>1 DEF HasNodes
  <2> QED  BY <2>2, <2>3
<1> HIDE DEF G
<1>3. HasNodes(n, G)
  BY <1>1, <1>2 DEF HasNodes
<1> QED  BY <1>3 DEF G

-----------------------------------------------------------------------------
\* remove: n is the map without k, W the way down to its leaf at depth c.
LEMMA RemoveNodes ==
  ASSUME NEW m, NEW n, NEW k, Gains(n, m, k), NEW h \in 0 .. KeyBits,
         ~Several(Sharing(n, k, h)),
         \A d \in 0 .. h - 1 : Several(Sharing(n, k, d)),
         NEW W, \A d \in 0 .. h - 1 : W[d] = NodeAt(m, k, d)
  PROVE  /\ Updated(W, k, h, NodeAt(n, k, h))[0] = RightRoot(n)
         /\ \A d \in 0 .. KeyBits :
              Several(Sharing(n, k, d)) =>
                d \in 0 .. h - 1 /\ Updated(W, k, h, NodeAt(n, k, h))[d] = NodeAt(n, k, d)
<1> DEFINE new == Updated(W, k, h, NodeAt(n, k, h))
<1>0. KeyBits \in Nat /\ k \in TreeKey /\ \A i \in TreeKey : i # k => n[i] = m[i]
  BY SparseAssumption DEF Gains
<1>1. ASSUME NEW d \in 0 .. h - 1
      PROVE  NodeAt(n, k, d) = WithChild(W[d], k[d], NodeAt(n, k, d + 1))
  <2>1. d \in 0 .. KeyBits - 1 /\ d \in 0 .. KeyBits
    BY <1>0
  <2>2. Several(Sharing(m, k, d)) /\ Several(Sharing(n, k, d))
    BY <1>1, <2>1, SharingGains
  <2>3. NodeAt(n, k, d) = WithChild(NodeAt(m, k, d), k[d], NodeAt(n, k, d + 1))
    BY <1>0, <2>1, <2>2, NodeAtChanged
  <2> QED  BY <1>1, <2>3
<1>2. (\A d \in 0 .. h : new[d] = NodeAt(n, k, d)) /\ new[0] = RightRoot(n)
  <2>1. CarriedUp(n, k, W, h)
    BY <1>1 DEF CarriedUp
  <2>2. RightWay(new, n, k, h)
    BY <1>0, <2>1, RebuiltRight
  <2> QED  BY <2>2 DEF RightWay
<1> HIDE DEF new
<1>3. ASSUME NEW d \in 0 .. KeyBits, Several(Sharing(n, k, d)) PROVE d \in 0 .. h - 1
  <2>1. ASSUME h <= d PROVE FALSE
    <3>1. Sharing(n, k, d) \subseteq Sharing(n, k, h)
      BY <1>0, <2>1, SharingLess
    <3> QED  BY <1>3, <3>1 DEF Several
  <2> QED  BY <1>0, <2>1
<1>4. \A d \in 0 .. h - 1 : d \in 0 .. h
  BY <1>0
<1>5. /\ new[0] = RightRoot(n)
      /\ \A d \in 0 .. KeyBits :
           Several(Sharing(n, k, d)) => d \in 0 .. h - 1 /\ new[d] = NodeAt(n, k, d)
  BY <1>2, <1>3, <1>4
<1> QED  BY <1>5 DEF new

\* The branches that are needed are the new ones; X lies on the way of k.
Rebuilt(n, k, h, new) ==
  \A d \in 0 .. KeyBits :
    Several(Sharing(n, k, d)) => d \in 0 .. h - 1 /\ new[d] = NodeAt(n, k, d)
OnlyOnWay(X, m, k) ==
  \A x \in X : \/ x = LeafOf(k, m[k])
               \/ \E d \in 0 .. KeyBits : Several(Sharing(m, k, d)) /\ x = NodeAt(m, k, d)

\* What may leave the database: the leaf of k and nodes above it.
LEMMA RemoveHas ==
  ASSUME NEW m, NEW n, NEW k, Gains(n, m, k), NEW h, NEW new, Rebuilt(n, k, h, new),
         NEW H, HasNodes(m, H), NEW X, OnlyOnWay(X, m, k),
         NEW G, G = (H \ X) \cup {new[i] : i \in 0 .. h - 1}
  PROVE  HasNodes(n, G)
<1>r. \A d \in 0 .. KeyBits :
        Several(Sharing(n, k, d)) => d \in 0 .. h - 1 /\ new[d] = NodeAt(n, k, d)
  BY DEF Rebuilt
<1>o. \A x \in X : \/ x = LeafOf(k, m[k])
                   \/ \E d \in 0 .. KeyBits : Several(Sharing(m, k, d)) /\ x = NodeAt(m, k, d)
  BY DEF OnlyOnWay
<1>0. KeyBits \in Nat /\ k \in TreeKey /\ n[k] = NoValue /\ \A i \in TreeKey : i # k => n[i] = m[i]
  BY SparseAssumption DEF Gains
<1>1. ASSUME NEW j \in Present(n) PROVE LeafOf(j, n[j]) \in H \ X
  <2>1. j \in TreeKey /\ j # k /\ n[j] = m[j] /\ j \in Present(m)
    BY <1>0 DEF Present
  <2>2. LeafOf(j, n[j]) \in H
    BY <2>1 DEF HasNodes
  <2>3. LeafOf(j, n[j]) # LeafOf(k, m[k])
    BY <2>1, Kinds
  <2>4. ASSUME NEW d \in 0 .. KeyBits, Several(Sharing(m, k, d)) PROVE LeafOf(j, n[j]) # NodeAt(m, k, d)
    <3>1. IsBranch(NodeAt(m, k, d))
      BY <1>0, <2>4, BranchIff
    <3> QED  BY <3>1, Kinds
  <2> QED  BY <1>o, <2>2, <2>3, <2>4
<1>2. ASSUME NEW j \in TreeKey, NEW d \in 0 .. KeyBits, Several(Sharing(n, j, d))
      PROVE  NodeAt(n, j, d) \in G
  <2>1. CASE Agree(k, j, d)
    <3>1. Sharing(n, j, d) = Sharing(n, k, d) /\ NodeAt(n, j, d) = NodeAt(n, k, d)
      BY <1>0, <2>1, NodeAtAgreed
    <3>2. d \in 0 .. h - 1 /\ new[d] = NodeAt(n, k, d)
      BY <1>2, <1>r, <3>1
    <3> QED  BY <3>1, <3>2
  <2>2. CASE ~Agree(k, j, d)
    <3>1. Sharing(n, j, d) = Sharing(m, j, d) /\ NodeAt(n, j, d) = NodeAt(m, j, d)
      BY <1>0, <2>2, NodeAtSame
    <3>2. NodeAt(n, j, d) \in H
      BY <1>2, <3>1 DEF HasNodes
    <3>3. NodeAt(n, j, d) # LeafOf(k, m[k])
      <4>1. IsBranch(NodeAt(n, j, d))
        BY <1>2, BranchIff
      <4> QED  BY <4>1, Kinds
    <3>4. ASSUME NEW e \in 0 .. KeyBits, NodeAt(n, j, d) = NodeAt(m, k, e) PROVE FALSE
      <4>1. Sharing(m, j, d) = Sharing(m, k, e)
        <5>1. NodeAt(m, j, d) = NodeAt(m, k, e) /\ k \in TreeKey
          BY <1>0, <3>1, <3>4
        <5> QED  BY <5>1, NodesTell
      <4>2. k \in Sharing(m, k, e)
        BY DEF Gains, Sharing, Present, Agree
      <4>3. Agree(k, j, d)
        BY <4>1, <4>2 DEF Sharing
      <4> QED  BY <2>2, <4>3
    <3>5. NodeAt(n, j, d) \notin X
      BY <1>o, <3>3, <3>4
    <3> QED  BY <3>2, <3>5
  <2> QED  BY <2>1, <2>2
<1>3. \A j \in Present(n) : LeafOf(j, n[j]) \in G
  BY <1>1
<1> QED  BY <1>2, <1>3 DEF HasNodes

\* The branches that stay: the lowest of them has two children, those below
\* it have not.
TwoChildren(x) == x.left # Empty /\ x.right # Empty

\* The branches that stay: the lowest has two children, those below it have not.
LEMMA RemainingIs ==
  ASSUME NEW W, NEW c \in Nat \ {0}
  PROVE  /\ Remaining(W, c) \in 0 .. c - 1
         /\ \A g \in Remaining(W, c) + 1 .. c - 1 : ~TwoChildren(W[g - 1])
         /\ Remaining(W, c) > 0 => TwoChildren(W[Remaining(W, c) - 1])
<1> DEFINE kept == {h \in 1 .. c - 1 : TwoChildren(W[h - 1])}
           Top(h) == \A g \in kept : g <= h
<1>1. Remaining(W, c) = IF kept = {} THEN 0 ELSE CHOOSE h \in kept : Top(h)
  BY DEF Remaining, TwoChildren
<1>2. \A h : h \in kept <=> h \in 1 .. c - 1 /\ TwoChildren(W[h - 1])
  OBVIOUS
<1>3. CASE kept = {}
  <2>1. Remaining(W, c) = 0
    BY <1>1, <1>3
  <2>2. \A g \in 1 .. c - 1 : ~TwoChildren(W[g - 1])
    BY <1>2, <1>3
  <2>3. 0 \in 0 .. c - 1 /\ 0 + 1 = 1 /\ ~(0 > 0)
    OBVIOUS
  <2> HIDE DEF kept
  <2> QED  BY <2>1, <2>2, <2>3
<1>4. CASE kept # {}
  <2> DEFINE C == {i \in Nat : i <= c - 1 /\ c - i \in kept}
  <2>1. C # {}
    <3>1. PICK h \in kept : TRUE
      BY <1>4
    <3>2. c - h \in Nat /\ c - h <= c - 1 /\ c - (c - h) = h
      BY <3>1
    <3> QED  BY <3>1, <3>2
  <2> DEFINE Least(i) == \A g \in kept : c - i >= g
  <2>2. \E i \in C : Least(i)
    <3> DEFINE Reached(i) == \E l \in C : l <= i
               R == {i \in Nat : Reached(i)}
    <3>1. R # {}
      <4>1. PICK l \in C : TRUE
        BY <2>1
      <4>2. Reached(l) /\ l \in Nat
        BY <4>1
      <4> QED  BY <4>2
    <3>2. PICK i \in R : i - 1 \notin R
      <4> HIDE DEF R
      <4>1. R \in SUBSET Nat
        BY DEF R
      <4> QED  BY <3>1, <4>1, LeastNumber
    <3>3. PICK l \in C : l <= i
      BY <3>2
    <3>4. ASSUME NEW g \in kept PROVE c - l >= g
      <4>1. c - g \in Nat /\ c - g <= c - 1 /\ c - (c - g) = g
        OBVIOUS
      <4>2. c - g \in C
        BY <4>1
      <4>3. ASSUME c - g < i PROVE FALSE
        <5>1. i - 1 \in Nat /\ c - g <= i - 1
          BY <3>2, <4>1, <4>3
        <5>2. i - 1 \in R
          BY <4>2, <5>1
        <5> QED  BY <3>2, <5>2
      <4> QED  BY <3>2, <3>3, <4>1, <4>3
    <3> QED  BY <3>3, <3>4
  <2>3. \E h \in kept : Top(h)
    BY <2>2
  <2>4. Remaining(W, c) \in kept /\ Top(Remaining(W, c))
    <3> HIDE DEF Top, kept
    <3> QED  BY <1>1, <1>4, <2>3
  <2>5. PICK h \in kept : h = Remaining(W, c)
    BY <2>4
  <2>6. ASSUME NEW g \in h + 1 .. c - 1 PROVE ~TwoChildren(W[g - 1])
    <3>1. g \notin kept /\ g \in 1 .. c - 1
      BY <2>4, <2>5
    <3> QED  BY <3>1
  <2>7. h \in 0 .. c - 1 /\ TwoChildren(W[h - 1])
    OBVIOUS
  <2> QED  BY <2>5, <2>6, <2>7
<1> QED  BY <1>3, <1>4

\* The branches of a way above depth c, of which none between h and c has two
\* children.
WayKnown(m, k, c, W) == \A d \in 0 .. c - 1 : Several(Sharing(m, k, d)) /\ W[d] = NodeAt(m, k, d)
ThinBelow(W, h, c) == \A g \in h + 1 .. c - 1 : ~TwoChildren(W[g - 1])

\* A leaf beside the leaf of k: the two are alone below the branches that do
\* not stay.
LEMMA AloneBelow ==
  ASSUME NEW m, NEW k \in TreeKey, NEW c \in 1 .. KeyBits, NEW j \in TreeKey,
         Sharing(m, k, c - 1) = {j, k},
         NEW W, NEW h \in 0 .. c - 1, WayKnown(m, k, c, W), ThinBelow(W, h, c)
  PROVE  Sharing(m, k, h) = {j, k}
<1> DEFINE Pair(d) == Sharing(m, k, d) = {j, k}
           C == {i \in Nat : i <= (c - 1) - h /\ ~Pair((c - 1) - i)}
<1>0. /\ KeyBits \in Nat
      /\ \A d \in 0 .. c - 1 : Several(Sharing(m, k, d)) /\ W[d] = NodeAt(m, k, d)
      /\ \A g \in h + 1 .. c - 1 : ~TwoChildren(W[g - 1])
  BY SparseAssumption DEF WayKnown, ThinBelow
<1>1. ASSUME C # {} PROVE FALSE
  <2>1. PICK i \in C : i - 1 \notin C
    <3> HIDE DEF Pair
    <3> QED  BY <1>1, LeastNumber
  <2>2. i # 0
    <3>1. (c - 1) - 0 = c - 1
      BY <1>0
    <3> QED  BY <2>1, <3>1
  <2>3. PICK d \in 0 .. KeyBits - 1 : d = (c - 1) - i
    BY <1>0, <2>1
  <2>4. /\ d + 1 = (c - 1) - (i - 1) /\ i - 1 \in Nat /\ i - 1 <= (c - 1) - h
        /\ d + 1 \in h + 1 .. c - 1 /\ (d + 1) - 1 = d /\ d \in 0 .. c - 1
        /\ d \in 0 .. KeyBits /\ d + 1 \in 0 .. KeyBits
    BY <1>0, <2>1, <2>2, <2>3
  <2>5. Pair(d + 1)
    <3> HIDE DEF Pair
    <3> QED  BY <2>1, <2>4
  <2>6. ~TwoChildren(NodeAt(m, k, d))
    BY <1>0, <2>4
  <2>7. NodeAt(m, k, d + 1) # Empty
    <3>1. Sharing(m, k, d + 1) # {}
      BY <2>5
    <3> QED  BY <2>4, <3>1, EmptyIff
  <2>8. NodeAt(m, Other(k, d), d + 1) = Empty
    <3>1. PICK down, beside : down = NodeAt(m, k, d + 1) /\ beside = NodeAt(m, Other(k, d), d + 1)
      OBVIOUS
    <3>2. NodeAt(m, k, d) = BranchOf(down, beside) \/ NodeAt(m, k, d) = BranchOf(beside, down)
      BY <1>0, <2>4, <3>1, BranchIs
    <3> QED  BY <2>6, <2>7, <3>1, <3>2, Kinds DEF TwoChildren
  <2>9. Sharing(m, Other(k, d), d + 1) = {}
    BY <2>3, <2>4, <2>8, KeyDigit, EmptyIff
  <2>10. Sharing(m, k, d) = Sharing(m, k, d + 1) \cup Sharing(m, Other(k, d), d + 1)
    BY <2>3, SharingBoth
  <2>11. Pair(d)
    BY <2>5, <2>9, <2>10
  <2> QED  BY <2>1, <2>3, <2>11
<1>2. (c - 1) - h \in Nat /\ (c - 1) - h <= (c - 1) - h /\ (c - 1) - ((c - 1) - h) = h
  BY <1>0
<1>3. Pair(h)
  <2> HIDE DEF Pair
  <2> QED  BY <1>1, <1>2
<1> QED  BY <1>3

\* Without k: nothing, the branch beside it or the leaf beside it is left.
LEMMA RemoveBeside ==
  ASSUME NEW m, NEW n, NEW k, Gains(n, m, k), NEW c \in 1 .. KeyBits, Sharing(m, k, c) = {k},
         Several(Sharing(m, Other(k, c - 1), c))
  PROVE  /\ NodeAt(n, k, c) = Empty /\ ~Several(Sharing(n, k, c))
         /\ \A d \in 0 .. c - 1 : Several(Sharing(n, k, d))
<1>0. /\ KeyBits \in Nat /\ k \in TreeKey /\ c \in 0 .. KeyBits
      /\ \A i \in TreeKey : i # k => n[i] = m[i]
  BY SparseAssumption DEF Gains
<1>1. Sharing(n, k, c) = {}
  BY <1>0, SharingGains
<1>2. NodeAt(n, k, c) = Empty /\ ~Several(Sharing(n, k, c))
  <2>1. NodeAt(n, k, c) = Empty
    BY <1>0, <1>1, EmptyIff
  <2> QED  BY <1>1, <2>1 DEF Several
<1>3. PICK e \in 0 .. KeyBits - 1 : e = c - 1 /\ e + 1 = c
  BY <1>0
<1>4. Sharing(m, Other(k, e), c) \subseteq Sharing(n, k, e)
  <2>1. Sharing(m, k, e) = Sharing(m, k, c) \cup Sharing(m, Other(k, e), c)
    BY <1>0, <1>3, SharingBoth
  <2>2. Sharing(m, k, e) = Sharing(n, k, e) \cup {k}
    BY <1>0, <1>3, SharingGains
  <2>3. k \notin Sharing(m, Other(k, e), c)
    <3>0. Sharing(m, Other(k, e), e + 1) = Half(Sharing(m, k, e), e, 1 - k[e])
      BY <1>0, SharingBeside
    <3>1. Sharing(m, Other(k, e), c) = Half(Sharing(m, k, e), e, 1 - k[e])
      BY <1>3, <3>0
    <3>2. k[e] # 1 - k[e]
      <4>1. k[e] \in {0, 1}
        BY <1>0, KeyDigit
      <4> QED  BY <4>1
    <3> QED  BY <3>1, <3>2 DEF Half
  <2> QED  BY <2>1, <2>2, <2>3
<1>5. ASSUME NEW d \in 0 .. c - 1 PROVE Several(Sharing(n, k, d))
  <2>1. Sharing(n, k, e) \subseteq Sharing(n, k, d)
    BY <1>0, <1>3, SharingLess
  <2> QED  BY <1>3, <1>4, <2>1 DEF Several
<1> QED  BY <1>2, <1>5

\* A leaf beside the leaf of k moves up to a place where it is alone.
LEMMA RemoveLeaf ==
  ASSUME NEW m, NEW n, NEW k, Gains(n, m, k), NEW c \in 1 .. KeyBits, Sharing(m, k, c) = {k},
         \A d \in 0 .. c - 1 : Several(Sharing(m, k, d)),
         NEW W, \A d \in 0 .. c - 1 : W[d] = NodeAt(m, k, d),
         NEW j \in TreeKey, Sharing(m, Other(k, c - 1), c) = {j},
         NEW h, h = Remaining(W, c)
  PROVE  /\ h \in 0 .. c - 1
         /\ NodeAt(n, k, h) = LeafOf(j, m[j]) /\ ~Several(Sharing(n, k, h))
         /\ \A d \in 0 .. h - 1 : Several(Sharing(n, k, d))
<1>0. /\ KeyBits \in Nat /\ k \in TreeKey /\ c \in 0 .. KeyBits /\ c \in Nat \ {0}
      /\ \A i \in TreeKey : i # k => n[i] = m[i]
  BY SparseAssumption DEF Gains
<1>1. PICK e \in 0 .. KeyBits - 1 : e = c - 1 /\ e + 1 = c
  BY <1>0
<1>2. Sharing(m, k, e) = {j, k} /\ j # k
  <2>0. Sharing(m, k, e) = Sharing(m, k, e + 1) \cup Sharing(m, Other(k, e), e + 1)
    BY <1>0, SharingBoth
  <2>1. Sharing(m, k, e) = Sharing(m, k, c) \cup Sharing(m, Other(k, e), c)
    BY <1>1, <2>0
  <2>2. Sharing(m, k, e) = {j, k}
    BY <1>1, <2>1
  <2>3. Several(Sharing(m, k, e))
    BY <1>0, <1>1
  <2> QED  BY <2>2, <2>3 DEF Several
<1>3. /\ h \in 0 .. c - 1
      /\ \A g \in h + 1 .. c - 1 : ~TwoChildren(W[g - 1])
      /\ h > 0 => TwoChildren(W[h - 1])
  BY <1>0, RemainingIs
<1>4. Sharing(m, k, h) = {j, k}
  <2>1. Sharing(m, k, c - 1) = {j, k}
    BY <1>1, <1>2
  <2>2. WayKnown(m, k, c, W)
    BY DEF WayKnown
  <2>3. h \in 0 .. c - 1 /\ ThinBelow(W, h, c)
    BY <1>3 DEF ThinBelow
  <2> QED  BY <1>0, <2>1, <2>2, <2>3, AloneBelow
<1>5. h \in 0 .. KeyBits /\ h \in Nat
  BY <1>0, <1>3
<1>6. Sharing(n, k, h) = {j} /\ ~Several(Sharing(n, k, h))
  <2>1. Sharing(m, k, h) = Sharing(n, k, h) \cup {k} /\ k \notin Sharing(n, k, h)
    BY <1>5, SharingGains
  <2>2. Sharing(n, k, h) = {j}
    BY <1>2, <1>4, <2>1
  <2> QED  BY <2>2 DEF Several
<1>7. NodeAt(n, k, h) = LeafOf(j, m[j])
  <2>1. NodeAt(n, k, h) = LeafOf(j, n[j])
    BY <1>0, <1>5, <1>6, LeafIs
  <2> QED  BY <1>0, <1>2, <2>1
<1>8. ASSUME NEW d \in 0 .. h - 1 PROVE Several(Sharing(n, k, d))
  <2>1. PICK f \in 0 .. KeyBits - 1 : f = h - 1 /\ f + 1 = h /\ f \in 0 .. c - 1 /\ f \in 0 .. KeyBits /\ h > 0
    BY <1>0, <1>3, <1>8
  <2>2. TwoChildren(NodeAt(m, k, f)) /\ Several(Sharing(m, k, f))
    BY <1>3, <2>1
  <2>3. NodeAt(m, Other(k, f), h) # Empty
    <3>1. PICK down, beside : down = NodeAt(m, k, f + 1) /\ beside = NodeAt(m, Other(k, f), f + 1)
      OBVIOUS
    <3>2. NodeAt(m, k, f) = BranchOf(down, beside) \/ NodeAt(m, k, f) = BranchOf(beside, down)
      BY <1>0, <2>1, <2>2, <3>1, BranchIs
    <3>3. beside # Empty
      BY <2>2, <3>2, Kinds DEF TwoChildren
    <3> QED  BY <2>1, <3>1, <3>3
  <2>4. Other(k, f) \in TreeKey /\ k[f] \in {0, 1}
    BY <1>0, <2>1, KeyDigit
  <2>5. PICK i : i \in Sharing(m, Other(k, f), h)
    BY <1>5, <2>3, <2>4, EmptyIff
  <2>6. /\ Sharing(m, Other(k, f), f + 1) = Half(Sharing(m, k, f), f, 1 - k[f])
        /\ Sharing(m, k, f + 1) = Half(Sharing(m, k, f), f, k[f])
    BY <1>0, <2>1, SharingBeside, SharingDown
  <2>7. /\ i \in Sharing(m, k, f) /\ i[f] = 1 - k[f]
        /\ j \in Sharing(m, k, f) /\ j[f] = k[f]
    BY <1>4, <2>1, <2>5, <2>6 DEF Half
  <2>8. i # j /\ i # k
    BY <2>4, <2>7
  <2>9. Sharing(m, k, f) = Sharing(n, k, f) \cup {k}
    BY <2>1, SharingGains
  <2>10. i \in Sharing(n, k, f) /\ j \in Sharing(n, k, f)
    BY <1>2, <2>7, <2>8, <2>9
  <2>11. Sharing(n, k, f) \subseteq Sharing(n, k, d)
    BY <1>5, <2>1, SharingLess
  <2> QED  BY <2>8, <2>10, <2>11 DEF Several
<1> QED  BY <1>3, <1>6, <1>7, <1>8

\* What remove makes of the root and the database.
RemovedRoot(r, k, h, sibling) == Updated(Way(r, k), k, h, IF IsLeaf(sibling) THEN sibling ELSE Empty)

\* remove makes the way of k right and leaves every node of the new tree.
LEMMA RemoveRight ==
  ASSUME NEW m, NEW n, NEW k, Gains(n, m, k), NEW H, HasNodes(m, H),
         NEW r, r = RightRoot(m), NEW c, c = Depth(r, k),
         NEW there, there = AtKey(r, k), IsLeaf(there), there.key = k,
         NEW sibling, sibling = IF c = 0 THEN Empty ELSE Child(Way(r, k)[c - 1], 1 - k[c - 1]),
         NEW h, h = IF IsLeaf(sibling) THEN Remaining(Way(r, k), c) ELSE c,
         NEW new, new = RemovedRoot(r, k, h, sibling)
  PROVE  /\ new[0] = RightRoot(n)
         /\ HasNodes(n, (H \ Dropped(Way(r, k), h, c, there, sibling)) \cup {new[i] : i \in 0 .. h - 1})
<1> DEFINE W == Way(r, k)
<1>0. KeyBits \in Nat /\ k \in TreeKey /\ \A i \in TreeKey : i # k => n[i] = m[i]
  BY SparseAssumption DEF Gains
<1>1. /\ c \in 0 .. KeyBits /\ there = NodeAt(m, k, c)
      /\ \A d \in 0 .. c - 1 : Several(Sharing(m, k, d))
      /\ \A d \in 0 .. c : W[d] = NodeAt(m, k, d)
  BY <1>0, DepthIs
<1>2. \A d \in 0 .. c - 1 : W[d] = NodeAt(m, k, d) /\ d \in 0 .. KeyBits /\ Several(Sharing(m, k, d))
  BY <1>0, <1>1
<1>3. Sharing(m, k, c) = {k} /\ there = LeafOf(k, m[k])
  <2>1. PICK j \in TreeKey : Sharing(m, k, c) = {j}
    BY <1>0, <1>1, LeafIff
  <2>2. there = LeafOf(j, m[j])
    BY <1>0, <1>1, <2>1, LeafIs
  <2>3. j = k
    BY <2>2, Kinds
  <2> QED  BY <2>1, <2>2, <2>3
<1>4. ASSUME c # 0
      PROVE  /\ c \in 1 .. KeyBits /\ Other(k, c - 1) \in TreeKey
             /\ sibling = NodeAt(m, Other(k, c - 1), c)
             /\ Sharing(m, Other(k, c - 1), c) # {}
  <2>1. PICK e \in 0 .. KeyBits - 1 : e = c - 1 /\ e + 1 = c /\ e \in 0 .. KeyBits /\ e \in 0 .. c - 1
    BY <1>0, <1>1, <1>4
  <2>2. Several(Sharing(m, k, e)) /\ W[e] = NodeAt(m, k, e)
    BY <1>2, <2>1
  <2>3. Child(NodeAt(m, k, e), 1 - k[e]) = NodeAt(m, Other(k, e), e + 1)
    BY <1>0, <2>1, <2>2, ChildIs
  <2>4. sibling = NodeAt(m, Other(k, c - 1), c)
    BY <1>4, <2>1, <2>2, <2>3
  <2>5. Other(k, e) \in TreeKey
    BY <1>0, KeyDigit
  <2>6. Sharing(m, k, e) = Sharing(m, k, e + 1) \cup Sharing(m, Other(k, e), e + 1)
    BY <1>0, SharingBoth
  <2>7. Sharing(m, Other(k, e), e + 1) # {}
    BY <1>3, <2>1, <2>2, <2>6 DEF Several
  <2> QED  BY <1>0, <1>1, <1>4, <2>1, <2>4, <2>5, <2>7
<1> DEFINE bottom == IF IsLeaf(sibling) THEN sibling ELSE Empty
<1>5. /\ h \in 0 .. c /\ ~Several(Sharing(n, k, h)) /\ bottom = NodeAt(n, k, h)
      /\ \A d \in 0 .. h - 1 : Several(Sharing(n, k, d))
  <2>1. CASE c = 0
    <3>1. sibling = Empty /\ h = 0 /\ bottom = Empty
      BY <2>1, Kinds
    <3>2. Sharing(n, k, 0) = {}
      BY <1>0, <1>1, <1>3, <2>1, SharingGains
    <3>3. NodeAt(n, k, 0) = Empty
      BY <1>0, <1>1, <2>1, <3>2, EmptyIff
    <3>4. ~Several(Sharing(n, k, 0))
      BY <3>2 DEF Several
    <3> QED  BY <2>1, <3>1, <3>3, <3>4
  <2>2. CASE c # 0 /\ Several(Sharing(m, Other(k, c - 1), c))
    <3>1. ~IsLeaf(sibling)
      <4>1. IsBranch(sibling)
        BY <1>1, <1>4, <2>2, BranchIff
      <4> QED  BY <4>1 DEF IsBranch, IsLeaf
    <3>2. h = c /\ bottom = Empty
      BY <3>1
    <3>3. /\ NodeAt(n, k, c) = Empty /\ ~Several(Sharing(n, k, c))
          /\ \A d \in 0 .. c - 1 : Several(Sharing(n, k, d))
      BY <1>3, <1>4, <2>2, RemoveBeside
    <3> QED  BY <1>1, <3>2, <3>3
  <2>3. CASE c # 0 /\ ~Several(Sharing(m, Other(k, c - 1), c))
    <3>1. PICK j \in Sharing(m, Other(k, c - 1), c) : Sharing(m, Other(k, c - 1), c) = {j}
      BY <1>4, <2>3, FewAre
    <3>2. j \in TreeKey
      BY DEF Sharing, Present
    <3>3. sibling = LeafOf(j, m[j]) /\ IsLeaf(sibling)
      <4>1. sibling = LeafOf(j, m[j])
        BY <1>1, <1>4, <2>3, <3>1, <3>2, LeafIs
      <4> QED  BY <4>1, Kinds
    <3>4. h = Remaining(W, c) /\ bottom = sibling
      BY <3>3
    <3> HIDE DEF W, bottom
    <3>5. /\ h \in 0 .. c - 1
          /\ NodeAt(n, k, h) = LeafOf(j, m[j]) /\ ~Several(Sharing(n, k, h))
          /\ \A d \in 0 .. h - 1 : Several(Sharing(n, k, d))
      BY <1>2, <1>3, <1>4, <2>3, <3>1, <3>2, <3>4, RemoveLeaf
    <3>6. h \in 0 .. c
      BY <1>0, <1>1, <3>5
    <3> QED  BY <3>3, <3>4, <3>5, <3>6
  <2> QED  BY <2>1, <2>2, <2>3
<1>6. h \in 0 .. KeyBits /\ \A d \in 0 .. h - 1 : d \in 0 .. c - 1
  BY <1>0, <1>1, <1>5
<1>7. new = Updated(W, k, h, NodeAt(n, k, h))
  BY <1>5 DEF RemovedRoot
<1> HIDE DEF W, bottom
<1>8. /\ new[0] = RightRoot(n)
      /\ \A d \in 0 .. KeyBits :
           Several(Sharing(n, k, d)) => d \in 0 .. h - 1 /\ new[d] = NodeAt(n, k, d)
  <2>1. \A d \in 0 .. h - 1 : W[d] = NodeAt(m, k, d)
    BY <1>2, <1>6
  <2> QED  BY <1>5, <1>6, <1>7, <2>1, RemoveNodes
<1> DEFINE X == Dropped(W, h, c, there, sibling)
<1>9. \A x \in X : \/ x = LeafOf(k, m[k])
                   \/ \E d \in 0 .. KeyBits : Several(Sharing(m, k, d)) /\ x = NodeAt(m, k, d)
  <2> SUFFICES ASSUME NEW x \in X, x # there
               PROVE  \E d \in 0 .. KeyBits : Several(Sharing(m, k, d)) /\ x = NodeAt(m, k, d)
    BY <1>3
  <2>1. PICK i \in h .. c - 2 : x = W[i]
    BY DEF Dropped
  <2>2. i \in 0 .. c - 1
    BY <1>0, <1>1, <1>5
  <2> QED  BY <1>2, <2>1, <2>2
<1> HIDE DEF X
<1>10. HasNodes(n, (H \ X) \cup {new[i] : i \in 0 .. h - 1})
  <2>1. Rebuilt(n, k, h, new)
    BY <1>8 DEF Rebuilt
  <2>2. OnlyOnWay(X, m, k)
    BY <1>9 DEF OnlyOnWay
  <2> QED  BY <2>1, <2>2, RemoveHas
<1> QED  BY <1>8, <1>10 DEF X, W

-----------------------------------------------------------------------------
SparseOK ==
  /\ map \in [TreeKey -> LeafValue \cup {NoValue}]
  /\ ~hung => root = RightRoot(map) /\ HasNodes(map, hashes)
  /\ NodesKept

\* The empty tree is that of the empty map.
LEMMA SparseStart ==
  SparseInit => SparseOK
<1> SUFFICES ASSUME SparseInit PROVE SparseOK
  OBVIOUS
<1>1. map \in [TreeKey -> LeafValue \cup {NoValue}] /\ Present(map) = {}
  BY DEF SparseInit, Present
<1>2. root = RightRoot(map)
  <2>1. KeyBits \in 0 .. KeyBits
    BY SparseAssumption
  <2>2. NodesOfKeys(map)[KeyBits][{}] = Empty
    BY <2>1, NodeOf
  <2> QED  BY <1>1, <2>2 DEF SparseInit, RightRoot
<1>3. HasNodes(map, hashes)
  <2>1. \A k, d : ~Several(Sharing(map, k, d))
    BY <1>1 DEF Several, Sharing
  <2> QED  BY <1>1, <2>1 DEF HasNodes
<1>4. NodesKept
  BY <1>2, <1>3, NodesFound DEF NodesKept
<1> QED  BY <1>1, <1>2, <1>3, <1>4 DEF SparseOK

\* update keeps the invariant,
LEMMA SparseUpdate ==
  ASSUME SparseOK, NEW k \in TreeKey, NEW v \in LeafValue, Update(k, v)
  PROVE  SparseOK'
<1>1. map' \in [TreeKey -> LeafValue \cup {NoValue}] /\ map'[k] = v
  BY DEF SparseOK, Update
<1>2. Gains(map, map', k)
  BY SparseAssumption DEF SparseOK, Update, Gains
<1>3. root = RightRoot(map) /\ HasNodes(map, hashes)
  BY DEF SparseOK, Update
<1> DEFINE new == WayWith(root, k, v)
<1>4. root' = new[0] /\ hashes' = hashes \cup {LeafOf(k, v)} \cup {new[d] : d \in DOMAIN new}
  BY DEF Update
<1>5. UpdatedRight(new, map', k)
  BY <1>1, <1>2, <1>3, UpdateRight
<1> HIDE DEF new
<1>6. root' = RightRoot(map')
  BY <1>4, <1>5 DEF UpdatedRight
<1>7. HasNodes(map', hashes')
  BY <1>1, <1>2, <1>3, <1>4, <1>5, UpdateHas
<1>8. NodesKept'
  BY <1>6, <1>7, NodesFound DEF NodesKept
<1> QED  BY <1>1, <1>6, <1>7, <1>8 DEF SparseOK

\* so does remove,
LEMMA SparseRemove ==
  ASSUME SparseOK, NEW k \in TreeKey, Remove(k)
  PROVE  SparseOK'
<1> DEFINE there == AtKey(root, k)
           c == Depth(root, k)
           sibling == IF c = 0 THEN Empty ELSE Child(Way(root, k)[c - 1], 1 - k[c - 1])
           h == IF IsLeaf(sibling) THEN Remaining(Way(root, k), c) ELSE c
           new == RemovedRoot(root, k, h, sibling)
<1>1. /\ root = RightRoot(map) /\ HasNodes(map, hashes)
      /\ map \in [TreeKey -> LeafValue \cup {NoValue}]
  BY DEF SparseOK, Remove
<1>2. /\ IsLeaf(there) /\ there.key = k
      /\ map' = [map EXCEPT ![k] = NoValue]
      /\ root' = new[0]
      /\ hashes' = (hashes \ Dropped(Way(root, k), h, c, there, sibling)) \cup {new[i] : i \in 0 .. h - 1}
  BY DEF Remove, RemovedRoot
<1>3. map[k] # NoValue
  <2>1. PICK d \in 0 .. KeyBits : there = NodeAt(map, k, d)
    BY <1>1, DepthIs
  <2>2. PICK j \in TreeKey : Sharing(map, k, d) = {j}
    BY <1>2, <2>1, LeafIff
  <2>3. there = LeafOf(j, map[j])
    BY <2>1, <2>2, LeafIs
  <2>4. j = k
    BY <1>2, <2>3, Kinds
  <2> QED  BY <2>2, <2>4 DEF Sharing, Present
<1>4. Gains(map', map, k)
  BY <1>1, <1>2, <1>3 DEF Gains
<1> HIDE DEF new, there, sibling, h, c
<1>5. /\ root' = RightRoot(map')
      /\ HasNodes(map', hashes')
  <2>1. /\ c = Depth(root, k) /\ there = AtKey(root, k)
        /\ sibling = IF c = 0 THEN Empty ELSE Child(Way(root, k)[c - 1], 1 - k[c - 1])
        /\ h = IF IsLeaf(sibling) THEN Remaining(Way(root, k), c) ELSE c
        /\ new = RemovedRoot(root, k, h, sibling)
    BY DEF c, there, sibling, h, new
  <2> QED  BY <1>1, <1>2, <1>4, <2>1, RemoveRight
<1>6. NodesKept'
  BY <1>5, NodesFound DEF NodesKept
<1>7. map' \in [TreeKey -> LeafValue \cup {NoValue}]
  BY <1>1, <1>2
<1> QED  BY <1>5, <1>6, <1>7 DEF SparseOK

\* and so does every step.
LEMMA SparseStep ==
  SparseOK /\ [SparseNext]_sparseVars => SparseOK'
<1> SUFFICES ASSUME SparseOK, [SparseNext]_sparseVars PROVE SparseOK'
  OBVIOUS
<1>1. ASSUME NEW k \in TreeKey, NEW v \in LeafValue, Update(k, v) PROVE SparseOK'
  BY <1>1, SparseUpdate
<1>2. ASSUME NEW k \in TreeKey, NEW v \in LeafValue, UpdateExisting(k, v) PROVE SparseOK'
  <2>1. hung' /\ root' = root /\ hashes \subseteq hashes'
    BY <1>2 DEF UpdateExisting
  <2>2. map' \in [TreeKey -> LeafValue \cup {NoValue}]
    BY <1>2 DEF UpdateExisting, SparseOK
  <2>3. NodesKept'
    BY <2>1 DEF SparseOK, NodesKept
  <2> QED  BY <2>1, <2>2, <2>3 DEF SparseOK
<1>3. ASSUME NEW k \in TreeKey, Remove(k) PROVE SparseOK'
  BY <1>3, SparseRemove
<1>4. CASE UNCHANGED sparseVars
  BY <1>4 DEF sparseVars, SparseOK, NodesKept
<1> QED  BY <1>1, <1>2, <1>3, <1>4 DEF SparseNext

\* After any updates and removals the root is the one the map has by
\* definition, and every node of the tree can be looked up
\* (sparse_merkle_tree.ts update, remove).
THEOREM TreeStaysRight ==
  SparseSpec => []TreeOfMap
<1>1. SparseOK => TreeOfMap
  BY DEF SparseOK, TreeOfMap, RootOfMap, RightRoot
<1> QED  BY <1>1, SparseStart, SparseStep, PTL DEF SparseSpec
=============================================================================
