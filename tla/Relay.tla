-------------------------------- MODULE Relay -------------------------------
(***************************************************************************)
(* How a node passes transactions on (framework/src/node/transport and     *)
(* broadcaster.ts, with the events node.ts and network.ts hand to them).   *)
(*                                                                         *)
(* A peer announces ids; what is unknown is asked from that peer; each     *)
(* transaction of the answer, like one posted by the API, is put into the  *)
(* queue of the broadcaster and then verified and added to the pool. The   *)
(* handlers run concurrently: a handler gives way at the lookup in the     *)
(* database, at the request and at the verification.                       *)
(***************************************************************************)
EXTENDS Integers, SequencesExt

CONSTANTS
  Tx,               \* ids of transactions
  Malformed,        \* those that validateTransaction refuses
  Announcer,        \* peers that announce
  ReleaseLimit,     \* DEFAULT_RELEASE_LIMIT
  Answers           \* what a peer may answer: sequences of transactions

ASSUME RelayAssumption ==
  /\ Malformed \subseteq Tx
  /\ ReleaseLimit \in Nat \ {0}
  /\ Answers \subseteq Seq(Tx)

Owner == Announcer \cup {"api"}
NoTask == [pc |-> "idle"]

VARIABLES
  txPool,           \* ids in the transaction pool
  confirmed,        \* ids in the database
  queue,            \* _transactionIdQueue
  task,             \* owner -> what its handler is waiting for
  accepted,         \* history: came through _receiveTransaction and was added
  announced,        \* history: announced to the peers
  missed            \* history: a release came while they were being added

relayVars == <<txPool, confirmed, queue, task, accepted, announced, missed>>

-----------------------------------------------------------------------------
(* Peers. *)

\* handleEventPostTransactionsAnnouncement, up to the database.
Announcement(p, ids) ==
  /\ task[p] = NoTask
  /\ task' = IF ids \subseteq txPool THEN task
             ELSE [task EXCEPT ![p] = [pc |-> "lookup", ids |-> ids \ txPool]]
  /\ UNCHANGED <<txPool, confirmed, queue, accepted, announced, missed>>

Lookup(p) ==
  /\ task[p].pc = "lookup"
  /\ LET unknown == task[p].ids \ confirmed
     IN  task' = [task EXCEPT ![p] = IF unknown = {} THEN NoTask
                                     ELSE [pc |-> "asked"]]
  /\ UNCHANGED <<txPool, confirmed, queue, accepted, announced, missed>>

\* The answer; a peer may send other transactions than those asked for.
Answer(p, txs) ==
  /\ task[p].pc = "asked"
  /\ task' = [task EXCEPT ![p] = [pc |-> "taking", txs |-> txs]]
  /\ UNCHANGED <<txPool, confirmed, queue, accepted, announced, missed>>

\* No answer before the timeout, or one that does not decode.
NoAnswer(p) ==
  /\ task[p].pc = "asked"
  /\ task' = [task EXCEPT ![p] = NoTask]
  /\ UNCHANGED <<txPool, confirmed, queue, accepted, announced, missed>>

-----------------------------------------------------------------------------
(* _receiveTransaction, for the transactions of an answer one by one.      *)

BeingAdded == {Head(task[o].txs) : o \in {q \in Owner : task[q].pc = "adding"}}

PostTransaction(t) ==
  /\ task["api"] = NoTask
  /\ task' = [task EXCEPT !["api"] = [pc |-> "taking", txs |-> <<t>>]]
  /\ UNCHANGED <<txPool, confirmed, queue, accepted, announced, missed>>

Enqueued(t) == IF t \in ToSet(queue) THEN queue ELSE Append(queue, t)

\* Mutant: enqueued whether it is queued or not.
TakeTwice(o) ==
  /\ task[o].pc = "taking" /\ task[o].txs # <<>>
  /\ queue' = IF Head(task[o].txs) \in Malformed \cup txPool THEN queue
              ELSE Append(queue, Head(task[o].txs))
  /\ task' = [task EXCEPT ![o].pc = "adding"]
  /\ UNCHANGED <<txPool, confirmed, accepted, announced, missed>>

\* Validate, look into the pool, enqueue. A transaction that is malformed ends
\* the whole answer, one that is in the pool is passed over.
Take(o) ==
  /\ task[o].pc = "taking" /\ task[o].txs # <<>>
  /\ LET t == Head(task[o].txs)
     IN  \/ /\ t \in Malformed
            /\ task' = [task EXCEPT ![o] = NoTask]
            /\ UNCHANGED queue
         \/ /\ t \in txPool \ Malformed
            /\ task' = [task EXCEPT ![o].txs = Tail(@)]
            /\ UNCHANGED queue
         \/ /\ t \notin txPool \cup Malformed
            /\ task' = [task EXCEPT ![o].pc = "adding"]
            /\ queue' = Enqueued(t)
  /\ UNCHANGED <<txPool, confirmed, accepted, announced, missed>>

TakenAll(o) ==
  /\ task[o].pc = "taking" /\ task[o].txs = <<>>
  /\ task' = [task EXCEPT ![o] = NoTask]
  /\ UNCHANGED <<txPool, confirmed, queue, accepted, announced, missed>>

\* The pool has verified and added it.
PoolAdds(o) ==
  /\ task[o].pc = "adding"
  /\ LET t == Head(task[o].txs)
     IN  /\ t \notin txPool
         /\ txPool' = txPool \cup {t}
         /\ accepted' = accepted \cup {t}
         /\ announced' = announced \ {t}
  /\ task' = [task EXCEPT ![o] = [pc |-> "taking", txs |-> Tail(@.txs)]]
  /\ UNCHANGED <<confirmed, queue, missed>>

\* Mutant: what was refused is tried again.
RefusedRetried(o) ==
  /\ task[o].pc = "adding"
  /\ task' = [task EXCEPT ![o].pc = "taking"]
  /\ UNCHANGED <<txPool, confirmed, queue, accepted, announced, missed>>

\* The pool refuses it, as a duplicate of one that was added meanwhile or for
\* what it is: the error ends the whole answer.
PoolRefuses(o) ==
  /\ task[o].pc = "adding"
  /\ task' = [task EXCEPT ![o] = NoTask]
  /\ UNCHANGED <<txPool, confirmed, queue, accepted, announced, missed>>

-----------------------------------------------------------------------------
(* The broadcaster and the rest of the node.                               *)

\* Array.filter: those of s that are in S, in their order.
Filter(s, S) ==
  LET kept[n \in 0..Len(s)] ==
        IF n = 0 THEN <<>>
        ELSE IF s[n] \in S THEN Append(kept[n - 1], s[n]) ELSE kept[n - 1]
  IN  kept[Len(s)]

\* Mutant: the queue is not cleaned first.
ReleaseAll ==
  /\ queue # <<>>
  /\ LET sent == SubSeq(queue, 1, IF Len(queue) < ReleaseLimit THEN Len(queue)
                                                               ELSE ReleaseLimit)
     IN  /\ announced' = announced \cup ToSet(sent)
         /\ queue' = Filter(queue, Tx \ ToSet(sent))
  /\ UNCHANGED <<txPool, confirmed, task, accepted, missed>>

\* Mutant: the last of the queue are sent.
ReleaseLast ==
  /\ queue # <<>>
  /\ LET kept == Filter(queue, txPool)
         from == IF Len(kept) < ReleaseLimit THEN 1 ELSE Len(kept) - ReleaseLimit + 1
         sent == ToSet(SubSeq(kept, from, Len(kept)))
     IN  /\ announced' = announced \cup sent
         /\ queue' = Filter(kept, Tx \ sent)
  /\ missed' = missed \cup BeingAdded
  /\ UNCHANGED <<txPool, confirmed, task, accepted>>

\* Mutant: a release empties the queue.
ReleaseClears ==
  /\ queue # <<>>
  /\ LET kept == Filter(queue, txPool)
     IN  announced' = announced \cup ToSet(SubSeq(kept, 1,
           IF Len(kept) < ReleaseLimit THEN Len(kept) ELSE ReleaseLimit))
  /\ queue' = <<>>
  /\ missed' = missed \cup BeingAdded
  /\ UNCHANGED <<txPool, confirmed, task, accepted>>

\* _broadcast: what is not in the pool leaves the queue; the first of the rest
\* are announced.
Release ==
  /\ queue # <<>>
  /\ LET kept == Filter(queue, txPool)
         sent == ToSet(SubSeq(kept, 1, IF Len(kept) < ReleaseLimit THEN Len(kept)
                                                                  ELSE ReleaseLimit))
     IN  /\ announced' = announced \cup sent
         /\ queue' = Filter(kept, Tx \ sent)
  /\ missed' = missed \cup BeingAdded
  /\ UNCHANGED <<txPool, confirmed, task, accepted>>

\* A block with the transaction is applied.
Confirm(t) ==
  /\ t \notin confirmed \cup Malformed
  /\ confirmed' = confirmed \cup {t}
  /\ txPool' = txPool \ {t}
  /\ accepted' = accepted \ {t}
  /\ missed' = missed \ ({t} \ BeingAdded)
  /\ UNCHANGED <<queue, task, announced>>

\* The block is deleted: the transaction goes back into the pool, if it can.
Unconfirm(t) ==
  /\ t \in confirmed
  /\ confirmed' = confirmed \ {t}
  /\ \E ps \in {txPool, txPool \cup {t}} : txPool' = ps
  /\ UNCHANGED <<queue, task, accepted, announced, missed>>

\* Expired, evicted or found unprocessable.
Leave(t) ==
  /\ t \in txPool
  /\ txPool' = txPool \ {t}
  /\ accepted' = accepted \ {t}
  /\ missed' = missed \ ({t} \ BeingAdded)
  /\ UNCHANGED <<confirmed, queue, task, announced>>

-----------------------------------------------------------------------------
RelayInit ==
  /\ txPool = {} /\ confirmed = {} /\ queue = <<>>
  /\ task = [o \in Owner |-> NoTask]
  /\ accepted = {} /\ announced = {} /\ missed = {}

Handle(o) == Take(o) \/ TakenAll(o) \/ PoolAdds(o) \/ PoolRefuses(o)

RelayNext ==
  \/ \E p \in Announcer :
       \/ \E ids \in SUBSET Tx : Announcement(p, ids)
       \/ Lookup(p) \/ NoAnswer(p)
       \/ \E txs \in Answers : Answer(p, txs)
  \/ \E t \in Tx : PostTransaction(t) \/ Confirm(t) \/ Unconfirm(t) \/ Leave(t)
  \/ \E o \in Owner : Handle(o)
  \/ Release

RelaySpec == RelayInit /\ [][RelayNext]_relayVars

\* The interval of the broadcaster keeps running, a handler goes on, and a
\* request ends with its timeout.
RelayFairness ==
  /\ WF_relayVars(Release)
  /\ \A o \in Owner : WF_relayVars(Handle(o))
  /\ \A p \in Announcer : WF_relayVars(Lookup(p)) /\ WF_relayVars(NoAnswer(p))

RelayFairSpec == RelaySpec /\ RelayFairness

-----------------------------------------------------------------------------
\* A task has what its step needs; an id is queued once.
RelayTypeOK ==
  /\ txPool \cup confirmed \cup accepted \cup announced \subseteq Tx
  /\ \A o \in Owner :
       \/ task[o] = NoTask
       \/ task[o].pc = "lookup" /\ task[o].ids # {}
       \/ task[o].pc \in {"asked", "taking"}
       \/ task[o].pc = "adding" /\ task[o].txs # <<>>
  /\ IsInjective(queue)

\* What is announced is in the pool at that moment: a peer that asks for it is
\* served, whatever was confirmed, evicted or refused since it was queued.
OnlyHeldAnnounced == [][announced' \ announced \subseteq txPool]_relayVars

\* A transaction the node has accepted is announced or waits in the queue,
\* unless a release came between its queueing and its entry into the pool.
\* Then it is never announced (_receiveTransaction queues it before the
\* verification is awaited, _broadcast drops what is not in the pool).
OnlyReleaseMisses ==
  accepted \cap txPool \subseteq announced \cup ToSet(queue) \cup missed

\* No id stays in the queue: it is announced or dropped, however many others
\* are queued meanwhile.
QueueDrains == \A t \in Tx \ Malformed : (t \in ToSet(queue)) ~> (t \notin ToSet(queue))

\* The handler of an announcement or of a posted transaction comes to an end,
\* so that the next one is taken.
HandlersEnd == \A o \in Owner : (task[o] # NoTask) ~> (task[o] = NoTask)

\* The node announces what it holds, and misses a transaction only where the
\* release of the queue drops it.
AnnouncedRightly == [](RelayTypeOK /\ OnlyReleaseMisses) /\ OnlyHeldAnnounced

\* The queue and the handlers come to an end.
RelayEnds == QueueDrains /\ HandlersEnd
=============================================================================
