-------------------------------- MODULE Bus --------------------------------
(***************************************************************************)
(* Remote calls through the bus (framework/src/controller/bus.ts and       *)
(* channels/): one plugin runs in a process of its own and offers an       *)
(* action; channels of the main process (InMemoryChannel) and of other     *)
(* plugin processes (IPCChannel) call it.                                  *)
(*                                                                         *)
(* A channel numbers its own calls 1, 2, ... and the bus files the answer  *)
(* it waits for under that number alone.  A call is <<channel, number>>.   *)
(* Every wait has a timer; a call the transport refused has none.          *)
(***************************************************************************)
EXTENDS Integers, Sequences, FiniteSets

CONSTANTS
  InMemory,     \* channels of the main process
  Remote,       \* channels of other plugin processes
  MaxCalls,     \* how many calls one channel makes (bound)
  SendMayFail   \* whether the transport may refuse a message to the plugin

ASSUME BusAssumption ==
  /\ InMemory \cap Remote = {}
  /\ MaxCalls \in Nat \ {0}
  /\ SendMayFail \in BOOLEAN

Caller == InMemory \cup Remote
Call == Caller \X (1 .. MaxCalls)

VARIABLES
  requestId,   \* [Caller -> Nat]: the counter of each channel
  toBus,       \* calls of remote channels on their way to the bus
  inbox,       \* Seq(Call): the plugin's router
  running,     \* calls whose handler is running in the plugin
  answers,     \* Seq(Call): answers on their way back to the bus
  rpcRequestIds, \* the bus: numbers an answer is expected for
  state,       \* [Call -> what became of the bus's promise]
  by,          \* [Call -> the call whose answer resolved it, or itself]
  own          \* [Call -> what became of a remote channel's own promise]

busVars == <<requestId, toBus, inbox, running, answers, rpcRequestIds, state, by, own>>

\* "timedOut": rejected, its listener still attached.  "done": rejected, and
\* its listener consumed by a late answer.
BusState == {"none", "open", "refused", "timedOut", "answered", "done"}
OwnState == {"none", "open", "timedOut", "answered", "done"}

BusTypeOK ==
  /\ requestId \in [Caller -> 0 .. MaxCalls]
  /\ toBus \subseteq Call /\ running \subseteq Call
  /\ \A i \in DOMAIN inbox : inbox[i] \in Call
  /\ \A i \in DOMAIN answers : answers[i] \in Call
  /\ rpcRequestIds \subseteq 1 .. MaxCalls
  /\ state \in [Call -> BusState]
  /\ by \in [Call -> Call]
  /\ own \in [Call -> OwnState]

BusInit ==
  /\ requestId = [c \in Caller |-> 0]
  /\ toBus = {} /\ running = {}
  /\ inbox = <<>> /\ answers = <<>>
  /\ rpcRequestIds = {}
  /\ state = [k \in Call |-> "none"]
  /\ by = [k \in Call |-> k]
  /\ own = [k \in Call |-> "none"]

---------------------------------------------------------------------------
\* The number a call travels under (base_channel _getNextRequestId).
IdOf(k) == k[2]
Listening(k) == state[k] \in {"open", "timedOut"}

\* bus.invoke for an action of a plugin process: the number is filed before
\* the message is sent; timer and listener are set only once it was sent.
Dispatch(k) ==
  /\ rpcRequestIds' = rpcRequestIds \cup {IdOf(k)}
  /\ \/ /\ state' = [state EXCEPT ![k] = "open"]
        /\ inbox' = Append(inbox, k)
     \/ /\ SendMayFail
        /\ state' = [state EXCEPT ![k] = "refused"]
        /\ UNCHANGED inbox

\* InMemoryChannel.invoke
InvokeInMemory(c) ==
  /\ requestId[c] < MaxCalls
  /\ requestId' = [requestId EXCEPT ![c] = @ + 1]
  /\ Dispatch(<<c, requestId[c] + 1>>)
  /\ UNCHANGED <<toBus, running, answers, by, own>>

\* IPCChannel.invoke: a number, a listener and a timer in its own process
InvokeRemote(c) ==
  LET k == <<c, requestId[c] + 1>> IN
  /\ requestId[c] < MaxCalls
  /\ requestId' = [requestId EXCEPT ![c] = @ + 1]
  /\ own' = [own EXCEPT ![k] = "open"]
  /\ toBus' = toBus \cup {k}
  /\ UNCHANGED <<inbox, running, answers, rpcRequestIds, state, by>>

\* _handleRPC: the bus invokes on behalf of the remote channel
HandleRPC(k) ==
  /\ k \in toBus
  /\ toBus' = toBus \ {k}
  /\ Dispatch(k)
  /\ UNCHANGED <<requestId, running, answers, by, own>>

---------------------------------------------------------------------------
\* IPCChannel.listenToRPC in the plugin: handlers overlap, an answer goes
\* back when its handler ends; a handler that throws answers nothing.
StartHandler ==
  /\ inbox # <<>>
  /\ running' = running \cup {Head(inbox)}
  /\ inbox' = Tail(inbox)
  /\ UNCHANGED <<requestId, toBus, answers, rpcRequestIds, state, by, own>>

EndHandler(k) ==
  /\ k \in running
  /\ running' = running \ {k}
  /\ answers' \in {Append(answers, k), answers}
  /\ UNCHANGED <<requestId, toBus, inbox, rpcRequestIds, state, by, own>>

\* What stays filed once a listener heard the answer numbered i
\* (mutant) the number stays filed
FiledStill(i) == rpcRequestIds
FiledAfter(i) == rpcRequestIds \ {i}

\* _handleRPCResponse: every listener filed under the number is called, the
\* number is forgotten if there was one.
RPCResponse ==
  LET a == Head(answers)
      heard == {k \in Call : IdOf(k) = IdOf(a) /\ Listening(k)}
  IN /\ answers # <<>>
     /\ answers' = Tail(answers)
     /\ IF IdOf(a) \in rpcRequestIds /\ heard # {}
        THEN /\ rpcRequestIds' = FiledAfter(IdOf(a))
             /\ state' = [k \in Call |->
                            IF k \notin heard THEN state[k]
                            ELSE IF state[k] = "open" THEN "answered" ELSE "done"]
             /\ by' = [k \in Call |->
                         IF k \in heard /\ state[k] = "open" THEN a ELSE by[k]]
        ELSE UNCHANGED <<rpcRequestIds, state, by>>
     /\ UNCHANGED <<requestId, toBus, inbox, running, own>>

\* (mutant) the timer also forgets the number
BusTimeoutForgets(k) ==
  /\ state[k] = "open"
  /\ state' = [state EXCEPT ![k] = "timedOut"]
  /\ rpcRequestIds' = rpcRequestIds \ {IdOf(k)}
  /\ UNCHANGED <<requestId, toBus, inbox, running, answers, by, own>>

\* The timer of bus.invoke: only the promise is rejected.
BusTimeout(k) ==
  /\ state[k] = "open"
  /\ state' = [state EXCEPT ![k] = "timedOut"]
  /\ UNCHANGED <<requestId, toBus, inbox, running, answers, rpcRequestIds, by, own>>

\* The answer reaches the remote channel that asked; a rejection is only
\* logged by the bus and never travels.
Return(k) ==
  /\ k[1] \in Remote /\ state[k] = "answered"
  /\ own[k] \in {"open", "timedOut"}
  /\ own' = [own EXCEPT ![k] = IF @ = "open" THEN "answered" ELSE "done"]
  /\ UNCHANGED <<requestId, toBus, inbox, running, answers, rpcRequestIds, state, by>>

\* (mutant) the remote channel waits for an answer without a timer
OwnTimeoutOfAnswered(k) ==
  /\ own[k] = "open" /\ state[k] = "answered"
  /\ own' = [own EXCEPT ![k] = "timedOut"]
  /\ UNCHANGED <<requestId, toBus, inbox, running, answers, rpcRequestIds, state, by>>

\* The timer of IPCChannel.invoke
OwnTimeout(k) ==
  /\ own[k] = "open"
  /\ own' = [own EXCEPT ![k] = "timedOut"]
  /\ UNCHANGED <<requestId, toBus, inbox, running, answers, rpcRequestIds, state, by>>

BusNext ==
  \/ \E c \in InMemory : InvokeInMemory(c)
  \/ \E c \in Remote : InvokeRemote(c)
  \/ \E k \in Call : HandleRPC(k)
  \/ StartHandler
  \/ \E k \in Call : EndHandler(k)
  \/ RPCResponse
  \/ \E k \in Call : BusTimeout(k)
  \/ \E k \in Call : Return(k)
  \/ \E k \in Call : OwnTimeout(k)

BusSpec == BusInit /\ [][BusNext]_busVars

\* Timers fire and messages of a local socket arrive; a handler may hang and
\* no channel has to call.
BusFairSpec ==
  /\ BusSpec
  /\ WF_busVars(StartHandler) /\ WF_busVars(RPCResponse)
  /\ \A k \in Call :
       /\ WF_busVars(HandleRPC(k)) /\ WF_busVars(BusTimeout(k))
       /\ WF_busVars(Return(k)) /\ WF_busVars(OwnTimeout(k))

---------------------------------------------------------------------------
\* A call that still waits can be answered: its number is filed, also when
\* another channel used the same number and was answered or gave up
\* (bus.ts _rpcRequestIds).
WaitingIsFiled == \A k \in Call : state[k] = "open" => IdOf(k) \in rpcRequestIds

\* A number is filed only for a call that listens or that was refused by the
\* transport: answered calls leave nothing behind (bus.ts _rpcRequestIds).
FiledIsWaited ==
  \A i \in rpcRequestIds :
    \E k \in Call : IdOf(k) = i /\ (Listening(k) \/ state[k] = "refused")

\* A caller is answered by its own call and by no other (bus.ts "Send back
\* result RPC request for a given requestId").
OwnAnswer == \A k \in Call : by[k] = k

Waits(k) == IF k[1] \in Remote THEN own[k] = "open" ELSE state[k] = "open"

\* Every caller whose message was sent hears something: the answer, or its
\* own timer; so no caller waits for a plugin that hangs or throws.
CallersEnd == \A k \in Call : Waits(k) ~> ~Waits(k)

\* The callers that wait and the ids that are filed are the same.
CallsFiled == WaitingIsFiled /\ FiledIsWaited
=============================================================================
