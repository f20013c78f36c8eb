--------------------------- MODULE TransactionPool --------------------------
(***************************************************************************)
(* elements/lisk-transaction-pool: transactions wait here, by sender and   *)
(* nonce, until a block takes them. Those a forger may take are called     *)
(* processable; the others are promoted when they apply after them.        *)
(*                                                                         *)
(* Adding and reorganizing await the verification against the state of the *)
(* chain, and any other call may change the pool in between. Caller stands *)
(* for the tasks that may be waiting in add: messages of peers, calls of   *)
(* the API, transactions of a deleted block. A block has one transaction.  *)
(* Which transactions are old enough to expire, and which list the         *)
(* reorganization comes to next, is left open. A verification that ends    *)
(* in INVALID adds nothing and is left out of add. A transaction that      *)
(* leaves and returns is another object to promote, which compares ids by  *)
(* identity: blocks and messages are decoded anew.                         *)
(***************************************************************************)
EXTENDS Integers, FiniteSets, Sequences

CONSTANTS
  Sender,
  Tx,               \* transactions that may occur
  Caller,
  MaxTransactions,
  MaxTransactionsPerAccount,
  MinReplacementFeeDifference,
  MinEntranceFeePriority,
  MaxBlocks         \* bound on the chain

ASSUME TransactionPoolAssumption ==
  /\ Tx \subseteq [sender : Sender, nonce : Nat, fee : Nat, priority : Nat, id : Nat]
  /\ MaxTransactions \in Nat \ {0} /\ MaxTransactionsPerAccount \in Nat \ {0}
  /\ MinReplacementFeeDifference \in Nat \ {0}
  /\ MinEntranceFeePriority \in Nat /\ MaxBlocks \in Nat

VARIABLES
  pool,             \* txs: _allTransactions, listed: _transactionList,
                    \* processable: nonces of each list, feeQueue: _feePriorityQueue
  adding,           \* what each caller is waiting for in add
  reorganizing,     \* what the reorganization is waiting for
  chain,            \* the transactions of the blocks
  event,            \* the change of the chain the pool has not heard of
  verified          \* history: transactions of the pool that once applied

vars == <<pool, adding, reorganizing, chain, event, verified>>

NoCall == [state |-> "none"]

Init ==
  /\ pool = [txs |-> {}, listed |-> [s \in Sender |-> {}],
             processable |-> [s \in Sender |-> {}], feeQueue |-> {}]
  /\ adding = [c \in Caller |-> NoCall]
  /\ reorganizing = NoCall
  /\ chain = <<>>
  /\ event = NoCall
  /\ verified = {}

\* sequence.nonce of the sender's account.
AccountNonce(s) == Cardinality({i \in DOMAIN chain : chain[i].sender = s})

-----------------------------------------------------------------------------
Full(p) == Cardinality(p.txs) >= MaxTransactions

Cheapest(txs) == {t \in txs : \A u \in txs : t.priority <= u.priority}

Highest(txs) == {t \in txs : \A u \in txs : u.nonce <= t.nonce}

Demoted(p, gone) == [s \in Sender |-> {n \in p.processable[s] :
  \A g \in gone : g.sender = s => n < g.nonce}]

\* TransactionPool.remove of every member of txs.
Removed(p, txs) ==
  LET gone == txs \cap p.txs
  IN  IF gone = {} THEN p ELSE
        [txs |-> p.txs \ gone,
         listed |-> [s \in Sender |-> {t \in p.listed[s] :
           \A g \in gone : g.sender = s => g.nonce # t.nonce}],
         processable |-> Demoted(p, gone),
         feeQueue |-> p.txs \ gone]

Processable(p, s) == {t \in p.listed[s] : t.nonce \in p.processable[s]}

\* The list takes the lowest nonces for the processable ones.
Unprocessable(p, s) == {t \in p.listed[s] :
  Cardinality({u \in p.listed[s] : u.nonce < t.nonce}) >= Cardinality(p.processable[s])}

\* The run of consecutive nonces that follows the processable ones.
Promotable(p, s) ==
  LET rest == Unprocessable(p, s)
  IN  {t \in rest : \E first \in rest :
        /\ \A u \in rest : first.nonce <= u.nonce
        /\ p.processable[s] # {} => first.nonce - 1 \in p.processable[s]
                                    /\ \A n \in p.processable[s] : n < first.nonce
        /\ \A n \in first.nonce..t.nonce : \E u \in rest : u.nonce = n}

-----------------------------------------------------------------------------
\* _evictUnprocessable, or else _evictProcessable.
Evictable(p) ==
  LET unprocessable == UNION {Unprocessable(p, s) : s \in Sender}
  IN  IF unprocessable # {}
        THEN Cheapest(unprocessable)
        ELSE Cheapest(UNION {Highest(Processable(p, s)) : s \in Sender})

NoRoomMade(p) == {p}

\* The pools that making room may lead to.
RoomMade(p) ==
  IF Full(p) /\ Evictable(p) # {}
    THEN {Removed(p, {t}) : t \in Evictable(p)}
    ELSE {p}

SameNonce(p, tx) == {t \in p.listed[tx.sender] : t.nonce = tx.nonce}

ListFull(p, s) == Cardinality(p.listed[s]) >= MaxTransactionsPerAccount

Refused(p, tx) ==
  \/ \E old \in SameNonce(p, tx) : tx.fee < old.fee + MinReplacementFeeDifference
  \/ /\ SameNonce(p, tx) = {}
     /\ ListFull(p, tx.sender)
     /\ \A t \in p.listed[tx.sender] : t.nonce < tx.nonce

ForgetsReplaced(p, tx) ==
  IF SameNonce(p, tx) = {} /\ ListFull(p, tx.sender)
    THEN Highest(p.listed[tx.sender]) ELSE {}

\* What gives way to tx in its list.
Displaced(p, tx) ==
  IF SameNonce(p, tx) # {} THEN SameNonce(p, tx)
  ELSE IF ListFull(p, tx.sender) THEN Highest(p.listed[tx.sender])
  ELSE {}

QueuedIfNoneLeft(p, tx) ==
  IF Displaced(p, tx) = {} THEN p.feeQueue \cup {tx} ELSE p.feeQueue

Queued(p, tx) == p.feeQueue \cup {tx}

\* TransactionList.add and what add does after it.
Inserted(p, tx, applies) ==
  LET out == Displaced(p, tx)
      still == Demoted(p, out)
      first == applies /\ SameNonce(p, tx) = {} /\ still[tx.sender] = {}
  IN  [txs |-> (p.txs \ out) \cup {tx},
       listed |-> [p.listed EXCEPT ![tx.sender] = (@ \ out) \cup {tx}],
       processable |-> IF first THEN [still EXCEPT ![tx.sender] = {tx.nonce}] ELSE still,
       feeQueue |-> Queued(p, tx)]

-----------------------------------------------------------------------------
IsNew(p, tx) == tx \notin p.txs

\* The checks of add before it awaits the verification.
Admitted(tx) ==
  /\ IsNew(pool, tx)
  /\ tx.priority >= MinEntranceFeePriority
  /\ Full(pool) => \A q \in Cheapest(pool.feeQueue) : tx.priority > q.priority

\* The verification finds a nonce that is not too low; it applies when the
\* nonce is the account's next.
AwaitVerification(c, tx) ==
  /\ adding[c] = NoCall
  /\ tx.nonce >= AccountNonce(tx.sender)
  /\ adding' = [adding EXCEPT ![c] =
       [state |-> "verified", tx |-> tx, applies |-> tx.nonce = AccountNonce(tx.sender)]]

NotNoticed(txs) == reorganizing

\* What the reorganization has read, once txs have left the pool.
Noticed(txs) ==
  IF reorganizing # NoCall /\ txs \cap reorganizing.promoting # {}
    THEN [reorganizing EXCEPT !.changed = TRUE]
    ELSE reorganizing

LeavePool(txs) ==
  /\ pool' = Removed(pool, txs)
  /\ reorganizing' = Noticed(txs)
  /\ verified' = verified \ txs

AddBegin(c, tx) ==
  /\ Admitted(tx)
  /\ AwaitVerification(c, tx)
  /\ UNCHANGED <<pool, reorganizing, chain, event, verified>>

AddEnd(c) ==
  /\ adding[c] # NoCall
  /\ adding' = [adding EXCEPT ![c] = NoCall]
  /\ LET tx == adding[c].tx
     IN  \E p \in RoomMade(pool) :
           LET added == ~Refused(p, tx)
               left == (pool.txs \ p.txs) \cup (IF added THEN Displaced(p, tx) ELSE {})
           IN  /\ pool' = IF added THEN Inserted(p, tx, adding[c].applies) ELSE p
               /\ reorganizing' = Noticed(left)
               /\ verified' = (verified \ left) \cup
                    {t \in {tx} : added /\ adding[c].applies}
  /\ UNCHANGED <<chain, event>>

-----------------------------------------------------------------------------
InOrder(txs, t) ==
  t.nonce - AccountNonce(t.sender) = Cardinality({u \in txs : u.nonce < t.nonce})

\* What the verification of txs, in the order of their nonces, may find: the
\* ones that apply, and those to remove: all the others, or none when the first
\* of them only has a nonce that is too high.
Outcomes(txs) ==
  {o \in [applied : SUBSET txs, invalid : SUBSET txs] :
    LET rest == txs \ o.applied
        tooHigh == \E failed \in rest :
          /\ \A u \in rest : failed.nonce <= u.nonce
          /\ failed.nonce - AccountNonce(failed.sender) > Cardinality(o.applied)
    IN  /\ \A t \in o.applied : InOrder(txs, t) /\ \A u \in rest : t.nonce < u.nonce
        /\ o.invalid = rest \/ (tooHigh /\ o.invalid = {})}

ReorganizeBegin(s) ==
  /\ reorganizing = NoCall
  /\ Promotable(pool, s) # {}
  /\ \E outcome \in Outcomes(Processable(pool, s) \cup Promotable(pool, s)) :
       /\ reorganizing' = [state |-> "verified",
                           promoting |-> outcome.applied \cap Promotable(pool, s),
                           invalid |-> outcome.invalid, changed |-> FALSE]
       /\ verified' = verified \cup outcome.applied
  /\ UNCHANGED <<pool, adding, chain, event>>

PromotedNextNonce(p, txs) == [p EXCEPT !.processable =
  [s \in Sender |-> @[s] \cup {t.nonce + 1 : t \in {u \in txs : u.sender = s}}]]

\* promote: all of them or none.
Promoted(p, txs) == [p EXCEPT !.processable =
  [s \in Sender |-> @[s] \cup {t.nonce : t \in {u \in txs : u.sender = s}}]]

ReorganizeEnd ==
  /\ reorganizing # NoCall
  /\ LET promoted == IF reorganizing.changed THEN pool
                     ELSE Promoted(pool, reorganizing.promoting)
     IN  pool' = Removed(promoted, reorganizing.invalid)
  /\ reorganizing' = NoCall
  /\ verified' = verified \ reorganizing.invalid
  /\ UNCHANGED <<adding, chain, event>>

\* One of the transactions that one turn of the job finds too old.
Expire(old) ==
  /\ LeavePool({old})
  /\ UNCHANGED <<adding, chain, event>>

-----------------------------------------------------------------------------
\* The chain changes; its event comes a moment later.
NewBlock(tx) ==
  /\ event = NoCall
  /\ Len(chain) < MaxBlocks
  /\ tx.nonce = AccountNonce(tx.sender)
  /\ chain' = Append(chain, tx)
  /\ event' = [state |-> "new", tx |-> tx]
  /\ UNCHANGED <<pool, adding, reorganizing, verified>>

DeleteBlock ==
  /\ event = NoCall
  /\ chain # <<>>
  /\ chain' = SubSeq(chain, 1, Len(chain) - 1)
  /\ event' = [state |-> "deleted", tx |-> chain[Len(chain)]]
  /\ UNCHANGED <<pool, adding, reorganizing, verified>>

\* The transactions of a new block leave the pool.
OnNewBlock ==
  /\ event.state = "new"
  /\ event' = NoCall
  /\ LeavePool({event.tx})
  /\ UNCHANGED <<adding, chain>>

\* Those of a deleted block are added again, if they are admitted and verify.
OnDeleteBlock ==
  /\ event.state = "deleted"
  /\ event' = NoCall
  /\ \/ Admitted(event.tx) /\ \E c \in Caller : AwaitVerification(c, event.tx)
     \/ UNCHANGED adding
  /\ UNCHANGED <<pool, reorganizing, chain, verified>>

Next ==
  \/ \E c \in Caller, tx \in Tx : AddBegin(c, tx)
  \/ \E c \in Caller : AddEnd(c)
  \/ \E s \in Sender : ReorganizeBegin(s)
  \/ ReorganizeEnd
  \/ \E old \in pool.txs : Expire(old)
  \/ \E tx \in Tx : NewBlock(tx)
  \/ DeleteBlock
  \/ OnNewBlock
  \/ OnDeleteBlock

Spec == Init /\ [][Next]_vars

-----------------------------------------------------------------------------
TypeOK ==
  /\ pool \in [txs : SUBSET Tx, listed : [Sender -> SUBSET Tx],
               processable : [Sender -> SUBSET {t.nonce : t \in Tx}], feeQueue : SUBSET Tx]
  /\ adding \in [Caller ->
       {NoCall} \cup [state : {"verified"}, tx : Tx, applies : BOOLEAN]]
  /\ reorganizing \in {NoCall} \cup
       [state : {"verified"}, promoting : SUBSET Tx, invalid : SUBSET Tx, changed : BOOLEAN]
  /\ chain \in Seq(Tx)
  /\ event \in {NoCall} \cup [state : {"new", "deleted"}, tx : Tx]
  /\ verified \subseteq Tx

\* The limits hold although callers check them before they wait for the
\* verification and insert after it.
PoolBounded ==
  /\ Cardinality(pool.txs) <= MaxTransactions
  /\ \A s \in Sender : Cardinality(pool.listed[s]) <= MaxTransactionsPerAccount

\* The map of all transactions and the lists of the senders never disagree,
\* no two transactions claim one nonce, and every processable nonce has a
\* transaction: remove and the evictions rely on all of it.
PoolMatchesLists ==
  /\ \A s \in Sender : pool.listed[s] = {t \in pool.txs : t.sender = s}
  /\ \A t, u \in pool.txs : t.sender = u.sender /\ t.nonce = u.nonce => t = u
  /\ \A s \in Sender : pool.processable[s] \subseteq {t.nonce : t \in pool.listed[s]}

\* The fee queue may hold transactions that have left, but it never misses
\* one that is here, so the threshold of a full pool is never too high.
LowestFeeKnown == pool.txs \subseteq pool.feeQueue

\* What forgers take has been verified since it came in: a transaction that
\* replaced another, or left and returned, while a reorganization was waiting
\* is not promoted by the verification of its predecessor.
OnlyVerifiedForgeable ==
  \A s \in Sender : Processable(pool, s) \subseteq verified

\* "Clone heap with the root node as the first unprocessable transaction":
\* when nothing is under way, what getUnprocessable and getPromotable start
\* from is not processable.
SkipsOnlyProcessable ==
  /\ event = NoCall /\ reorganizing = NoCall
  /\ \A c \in Caller : adding[c] = NoCall
  => \A s \in Sender : Unprocessable(pool, s) \cap Processable(pool, s) = {}

\* "Reject the transaction when its feePriority is lower than the lowest
\* feePriority present": not so when the queue knows lower ones that left, or
\* when the pool changes while the verification is awaited.
CheapestStayOut ==
  [][\A t \in pool'.txs \ pool.txs :
       Full(pool) => \E u \in pool.txs : u.priority < t.priority]_vars

\* Making room precedes the checks of the list: a transaction that is then
\* refused has driven another out.
AddNeverShrinks ==
  [][(\E c \in Caller : adding[c] # NoCall /\ adding'[c] = NoCall) =>
       Cardinality(pool'.txs) >= Cardinality(pool.txs)]_vars

\* A transaction that was verified before its block came and inserted after
\* it is in the pool for good, or until it expires.
ConfirmedStaysOut ==
  event = NoCall => \A i \in DOMAIN chain : chain[i] \notin pool.txs

\* The pool's map, its lists and its fee queue stay together and within their
\* limits.
PoolConsistent == TypeOK /\ PoolBounded /\ PoolMatchesLists /\ LowestFeeKnown
=============================================================================
