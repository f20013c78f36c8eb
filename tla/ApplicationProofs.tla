-------------------------- MODULE ApplicationProofs ------------------------
(***************************************************************************)
(* Proofs about Bus, for any callers and any number of calls, and about    *)
(* Lifecycle, for any plugins in any order and any number of shutdowns.    *)
(*                                                                         *)
(* What makes Ready right is what the controller knows when it hears that  *)
(* a plugin has loaded; what makes the databases close last is that every  *)
(* process that runs is in the controller's book or was asked to unload.   *)
(***************************************************************************)
EXTENDS Bus, Lifecycle, SequenceTheorems, TLAPS

-----------------------------------------------------------------------------
(* Remote calls.                                                           *)

BusInv ==
  /\ requestId \in [Caller -> 0..MaxCalls]
  /\ state \in [Call -> BusState]
  /\ CallsFiled

\* A number is filed with the call that waits for it.
LEMMA DispatchKeeps ==
  ASSUME BusInv, NEW k \in Call, Dispatch(k)
  PROVE  state' \in [Call -> BusState] /\ CallsFiled'
<1>1. /\ state \in [Call -> BusState] /\ WaitingIsFiled /\ FiledIsWaited
  BY DEF BusInv, CallsFiled
<1>2. /\ rpcRequestIds' = rpcRequestIds \cup {IdOf(k)}
      /\ \E new \in {"open", "refused"} : state' = [state EXCEPT ![k] = new]
  BY DEF Dispatch
<1>3. PICK new \in {"open", "refused"} : state' = [state EXCEPT ![k] = new]
  BY <1>2
<1>4. /\ state'[k] = new /\ \A j \in Call : j # k => state'[j] = state[j]
      /\ state' \in [Call -> BusState]
  BY <1>1, <1>3 DEF BusState
<1>5. WaitingIsFiled'
  BY <1>1, <1>2, <1>4 DEF WaitingIsFiled, IdOf, Call, Caller
<1>6. FiledIsWaited'
  <2> SUFFICES ASSUME NEW i \in rpcRequestIds'
               PROVE  \E j \in Call : IdOf(j) = i /\ (Listening(j)' \/ state'[j] = "refused")
    BY DEF FiledIsWaited, IdOf, Listening, Call, Caller
  <2>1. CASE i = IdOf(k)
    BY <1>4, <2>1 DEF Listening
  <2>2. CASE i \in rpcRequestIds
    <3>1. PICK j \in Call : IdOf(j) = i /\ (Listening(j) \/ state[j] = "refused")
      BY <1>1, <2>2 DEF FiledIsWaited
    <3>2. CASE j = k
      BY <1>4, <3>1, <3>2 DEF Listening
    <3>3. CASE j # k
      BY <1>4, <3>1, <3>3 DEF Listening
    <3> QED BY <3>2, <3>3
  <2> QED BY <1>2, <2>1, <2>2
<1> QED BY <1>4, <1>5, <1>6 DEF CallsFiled

\* An answer is given to all that listen under its number, and nothing is kept.
LEMMA ResponseKeeps ==
  ASSUME BusInv, RPCResponse
  PROVE  BusInv'
<1>1. /\ requestId \in [Caller -> 0..MaxCalls] /\ state \in [Call -> BusState]
      /\ WaitingIsFiled /\ FiledIsWaited /\ requestId' = requestId
  BY DEF BusInv, CallsFiled, RPCResponse
<1> DEFINE id == IdOf(Head(answers))
           heard == {k \in Call : IdOf(k) = id /\ Listening(k)}
<1>2. CASE ~(id \in rpcRequestIds /\ heard # {})
  <2>1. rpcRequestIds' = rpcRequestIds /\ state' = state
    BY <1>2 DEF RPCResponse
  <2> QED
    BY <1>1, <2>1 DEF BusInv, CallsFiled, WaitingIsFiled, FiledIsWaited, Listening, IdOf, Call, Caller
<1>3. CASE id \in rpcRequestIds /\ heard # {}
  <2>1. /\ rpcRequestIds' = rpcRequestIds \ {id}
        /\ state' = [k \in Call |->
                       IF k \notin heard THEN state[k]
                       ELSE IF state[k] = "open" THEN "answered" ELSE "done"]
    BY <1>3 DEF RPCResponse, FiledAfter
  <2>2. /\ state' \in [Call -> BusState]
        /\ \A k \in Call : k \notin heard => state'[k] = state[k]
        /\ \A k \in Call : k \in heard => state'[k] \in {"answered", "done"}
    BY <1>1, <2>1 DEF BusState
  <2>3. WaitingIsFiled'
    <3> SUFFICES ASSUME NEW k \in Call, state'[k] = "open" PROVE IdOf(k) \in rpcRequestIds'
      BY DEF WaitingIsFiled, IdOf, Call, Caller
    <3>1. k \notin heard /\ state[k] = "open"
      BY <2>2
    <3>2. IdOf(k) \in rpcRequestIds /\ IdOf(k) # id
      BY <1>1, <3>1 DEF WaitingIsFiled, Listening
    <3> QED BY <2>1, <3>2
  <2>4. FiledIsWaited'
    <3> SUFFICES ASSUME NEW i \in rpcRequestIds'
                 PROVE  \E k \in Call : IdOf(k) = i /\ (Listening(k)' \/ state'[k] = "refused")
      BY DEF FiledIsWaited, IdOf, Listening, Call, Caller
    <3>1. i \in rpcRequestIds /\ i # id
      BY <2>1
    <3>2. PICK k \in Call : IdOf(k) = i /\ (Listening(k) \/ state[k] = "refused")
      BY <1>1, <3>1 DEF FiledIsWaited
    <3>3. k \notin heard
      BY <3>1, <3>2
    <3>4. state'[k] = state[k]
      BY <2>2, <3>3
    <3> QED BY <3>2, <3>4 DEF Listening
  <2> QED BY <1>1, <2>2, <2>3, <2>4 DEF BusInv, CallsFiled
<1> QED BY <1>2, <1>3

LEMMA BusStep == BusInv /\ [BusNext]_busVars => BusInv'
<1> SUFFICES ASSUME BusInv, [BusNext]_busVars PROVE BusInv'
  OBVIOUS
<1> USE BusAssumption
<1>1. /\ requestId \in [Caller -> 0..MaxCalls] /\ state \in [Call -> BusState]
      /\ WaitingIsFiled /\ FiledIsWaited
  BY DEF BusInv, CallsFiled
<1>2. ASSUME requestId' = requestId, state' = state, rpcRequestIds' = rpcRequestIds PROVE BusInv'
  BY <1>1, <1>2 DEF BusInv, CallsFiled, WaitingIsFiled, FiledIsWaited, Listening, IdOf, Call, Caller
<1>3. ASSUME NEW c \in Caller, requestId[c] < MaxCalls
      PROVE  /\ <<c, requestId[c] + 1>> \in Call
             /\ [requestId EXCEPT ![c] = @ + 1] \in [Caller -> 0..MaxCalls]
  <2>1. requestId[c] \in 0..MaxCalls /\ MaxCalls \in Nat
    BY <1>1 DEF BusAssumption
  <2>2. requestId[c] + 1 \in 1..MaxCalls
    BY <1>3, <2>1
  <2> QED BY <1>1, <2>1, <2>2 DEF Call
<1>4. ASSUME NEW c \in InMemory, InvokeInMemory(c) PROVE BusInv'
  <2>1. c \in Caller /\ <<c, requestId[c] + 1>> \in Call
        /\ requestId' \in [Caller -> 0..MaxCalls] /\ Dispatch(<<c, requestId[c] + 1>>)
    BY <1>3, <1>4 DEF InvokeInMemory, Caller
  <2> QED BY <2>1, DispatchKeeps DEF BusInv
<1>5. ASSUME NEW c \in Remote, InvokeRemote(c) PROVE BusInv'
  <2>1. requestId' \in [Caller -> 0..MaxCalls] /\ state' = state /\ rpcRequestIds' = rpcRequestIds
    BY <1>3, <1>5 DEF InvokeRemote, Caller
  <2> QED
    BY <1>1, <2>1 DEF BusInv, CallsFiled, WaitingIsFiled, FiledIsWaited, Listening, IdOf, Call, Caller
<1>6. ASSUME NEW k \in Call, HandleRPC(k) PROVE BusInv'
  <2>1. Dispatch(k) /\ requestId' = requestId
    BY <1>6 DEF HandleRPC
  <2> QED BY <1>1, <2>1, DispatchKeeps DEF BusInv, Caller
<1>7. CASE StartHandler
  BY <1>2, <1>7 DEF StartHandler
<1>8. ASSUME NEW k \in Call, EndHandler(k) PROVE BusInv'
  BY <1>2, <1>8 DEF EndHandler
<1>9. CASE RPCResponse
  BY <1>9, ResponseKeeps
<1>10. ASSUME NEW k \in Call, BusTimeout(k) PROVE BusInv'
  <2>1. /\ state[k] = "open" /\ state' = [state EXCEPT ![k] = "timedOut"]
        /\ requestId' = requestId /\ rpcRequestIds' = rpcRequestIds
    BY <1>10 DEF BusTimeout
  <2>2. /\ state' \in [Call -> BusState] /\ state'[k] = "timedOut"
        /\ \A j \in Call : j # k => state'[j] = state[j]
    BY <1>1, <2>1 DEF BusState
  <2>3. WaitingIsFiled'
    BY <1>1, <2>1, <2>2 DEF WaitingIsFiled, IdOf, Call, Caller
  <2>4. \A j \in Call : (Listening(j) => Listening(j)') /\ (state[j] = "refused" => state'[j] = "refused")
    BY <2>1, <2>2 DEF Listening
  <2>5. FiledIsWaited'
    BY <1>1, <2>1, <2>4 DEF FiledIsWaited, IdOf, Call, Caller
  <2> QED BY <1>1, <2>1, <2>2, <2>3, <2>5 DEF BusInv, CallsFiled, Caller, Call
<1>11. ASSUME NEW k \in Call, Return(k) PROVE BusInv'
  BY <1>2, <1>11 DEF Return
<1>12. ASSUME NEW k \in Call, OwnTimeout(k) PROVE BusInv'
  BY <1>2, <1>12 DEF OwnTimeout
<1>13. CASE UNCHANGED busVars
  BY <1>2, <1>13 DEF busVars
<1> QED
  BY <1>4, <1>5, <1>6, <1>7, <1>8, <1>9, <1>10, <1>11, <1>12, <1>13 DEF BusNext

\* A call that waits can be answered, and what was answered leaves no number behind,
\* however callers, timers and late answers interleave (bus.ts _rpcRequestIds).
THEOREM CallsStayFiled == BusSpec => []CallsFiled
<1>1. BusInit => BusInv
  <2> SUFFICES ASSUME BusInit PROVE BusInv
    OBVIOUS
  <2> USE BusAssumption
  <2>1. requestId \in [Caller -> 0..MaxCalls] /\ state \in [Call -> BusState]
    BY DEF BusInit, BusState, BusAssumption
  <2>2. WaitingIsFiled /\ FiledIsWaited
    BY DEF BusInit, WaitingIsFiled, FiledIsWaited
  <2> QED BY <2>1, <2>2 DEF BusInv, CallsFiled
<1>2. BusInv => CallsFiled
  BY DEF BusInv
<1> QED BY <1>1, <1>2, BusStep, PTL DEF BusSpec
-----------------------------------------------------------------------------
(* Loading and unloading of plugins.                                       *)

PluginState == {"none", "forked", "starting", "loaded", "broken", "unloading", "ended"}
Event == {"loading:started", "loading:finished", "unloading:finished", "unloading:error"}

Carries(events, e) == \E i \in 1..Len(events) : events[i] = e

LifeTypes ==
  /\ todo \subseteq Plugin /\ awaits \in Plugin \cup {Nobody}
  /\ plugin \in [Plugin -> PluginState]
  /\ wire \in [ChildPlugin -> Seq(Event)]
  /\ inMemory \subseteq Plugin \ ChildPlugin /\ children \subseteq ChildPlugin
  /\ alive \subseteq ChildPlugin /\ channels \subseteq Plugin /\ asked \subseteq Plugin

\* Nothing is unloaded before a shutdown has the mutex.
NothingUnloads ==
  app \in {"loading", "ready", "failed"} =>
    asked = {} /\ \A p \in Plugin : plugin[p] # "unloading"

\* What the controller may conclude from an event of a plugin that has loaded.
HeardIsLoaded ==
  app \in {"loading", "ready"} =>
    \A p \in ChildPlugin :
      Carries(wire[p], "loading:finished") => plugin[p] \in {"loaded", "ended"}

\* Plugins still to load have not begun; those before the awaited one are loaded.
LoadedSoFar ==
  app = "loading" =>
    /\ \A p \in todo : p \notin alive
    /\ \A p \in todo \cap ChildPlugin : wire[p] = <<>>
    /\ awaits \notin todo
    /\ awaits \in Plugin \ ChildPlugin => awaits \in channels
    /\ \A p \in Plugin \ (todo \cup {awaits}) : p \in channels /\ plugin[p] \in {"loaded", "ended"}

\* A loaded plugin is in the book, or its process runs; every process that runs is
\* in the book or was asked to unload; timers of unloading are of plugins asked.
RunsIsKnown ==
  /\ \A p \in Plugin : plugin[p] = "loaded" => p \in inMemory \cup alive
  /\ alive \subseteq children \cup asked
  /\ \A p \in ChildPlugin : <<"unload", p>> \in ticking => p \in asked

\* A shutdown has asked, or will ask, all that may be loaded.
AllAsked ==
  /\ app = "closing" => inMemory \cup alive \subseteq asked \cup todo
  /\ app = "exited" => inMemory \cup alive \subseteq asked
  /\ ~databases => app = "exited"

LifeInv ==
  /\ LifeTypes /\ NothingUnloads /\ HeardIsLoaded /\ LoadedSoFar /\ ReadyMeansLoaded
  /\ RunsIsKnown /\ AllAsked

\* What publishing an event adds to those on their way.
LEMMA PublishIs ==
  ASSUME wire \in [ChildPlugin -> Seq(Event)], NEW p \in ChildPlugin, NEW e \in Event, Publish(p, e)
  PROVE  /\ wire' \in [ChildPlugin -> Seq(Event)]
         /\ \A q \in ChildPlugin : q # p => wire'[q] = wire[q]
         /\ \A x : Carries(wire'[p], x) => x = e \/ Carries(wire[p], x)
<1>1. PICK s : s = wire[p]
  OBVIOUS
<1>2. PICK t : t = Append(s, e)
  OBVIOUS
<1>3. s \in Seq(Event) /\ Len(s) \in Nat
  BY <1>1, LenProperties
<1>4. /\ t \in Seq(Event) /\ Len(t) = Len(s) + 1
      /\ \A i \in 1..Len(s) : t[i] = s[i]
      /\ t[Len(s) + 1] = e
  BY <1>2, <1>3, AppendProperties
<1>5. wire' = [wire EXCEPT ![p] = t]
  BY <1>1, <1>2 DEF Publish
<1>6. wire' \in [ChildPlugin -> Seq(Event)] /\ wire'[p] = t
      /\ \A q \in ChildPlugin : q # p => wire'[q] = wire[q]
  BY <1>4, <1>5
<1>7. ASSUME NEW x, Carries(t, x) PROVE x = e \/ Carries(s, x)
  <2>1. PICK i \in 1..Len(t) : t[i] = x
    BY <1>7 DEF Carries
  <2>2. CASE i = Len(s) + 1
    BY <1>4, <2>1, <2>2
  <2>3. CASE i # Len(s) + 1
    <3>1. i \in 1..Len(s)
      BY <1>3, <1>4, <2>3
    <3> QED BY <1>4, <2>1, <3>1 DEF Carries
  <2> QED BY <2>2, <2>3
<1> QED BY <1>1, <1>6, <1>7

\* What hearing an event takes from those on their way.
LEMMA HearingIs ==
  ASSUME wire \in [ChildPlugin -> Seq(Event)], NEW p \in ChildPlugin, wire[p] # <<>>,
         wire' = [wire EXCEPT ![p] = Tail(@)]
  PROVE  /\ wire' \in [ChildPlugin -> Seq(Event)]
         /\ \A q \in ChildPlugin : q # p => wire'[q] = wire[q]
         /\ \A x : Carries(wire'[p], x) => Carries(wire[p], x)
         /\ Carries(wire[p], Head(wire[p])) /\ Head(wire[p]) \in Event
<1>1. PICK s : s = wire[p]
  OBVIOUS
<1>2. PICK t : t = Tail(s)
  OBVIOUS
<1>3. s \in Seq(Event) /\ Len(s) \in Nat /\ s # <<>>
  BY <1>1, LenProperties
<1>4. /\ t \in Seq(Event) /\ Len(t) = Len(s) - 1 /\ Head(s) \in Event
      /\ \A i \in 1..Len(t) : t[i] = s[i + 1]
  BY <1>2, <1>3, HeadTailProperties
<1>5. wire' = [wire EXCEPT ![p] = t]
  BY <1>1, <1>2
<1>6. wire' \in [ChildPlugin -> Seq(Event)] /\ wire'[p] = t
      /\ \A q \in ChildPlugin : q # p => wire'[q] = wire[q]
  BY <1>4, <1>5
<1>7. ASSUME NEW x, Carries(t, x) PROVE Carries(s, x)
  <2>1. PICK i \in 1..Len(t) : t[i] = x
    BY <1>7 DEF Carries
  <2>2. i + 1 \in 1..Len(s)
    BY <1>3, <1>4
  <2> QED BY <1>4, <2>1, <2>2 DEF Carries
<1>8. Carries(s, Head(s))
  <2>1. Len(s) # 0
    BY <1>3, EmptySeq
  <2>2. 1 \in 1..Len(s) /\ s[1] = Head(s)
    BY <1>3, <2>1
  <2> QED BY <2>2 DEF Carries
<1> QED BY <1>1, <1>4, <1>6, <1>7, <1>8

\* A plugin in memory has loaded, or its load has thrown.
LEMMA InMemoryLoadedKeeps ==
  ASSUME LifecycleAssumption, LifeInv, InMemoryLoaded
  PROVE  LifeInv'
<1> USE DEF LifecycleAssumption, PluginState
<1>1. LifeTypes /\ NothingUnloads /\ HeardIsLoaded /\ LoadedSoFar /\ ReadyMeansLoaded /\ RunsIsKnown /\ AllAsked
  BY DEF LifeInv
<1>2. LifeTypes'
  BY <1>1 DEF InMemoryLoaded, LifeTypes
<1>3. NothingUnloads'
  BY <1>1 DEF InMemoryLoaded, NothingUnloads, LifeTypes
<1>4. HeardIsLoaded'
  BY <1>1 DEF InMemoryLoaded, HeardIsLoaded, LifeTypes
<1>5. LoadedSoFar'
  BY <1>1 DEF InMemoryLoaded, LoadedSoFar, LifeTypes
<1>6. ReadyMeansLoaded'
  BY <1>1 DEF InMemoryLoaded, ReadyMeansLoaded
<1>7. RunsIsKnown'
  BY <1>1 DEF InMemoryLoaded, RunsIsKnown, LifeTypes
<1>8. AllAsked'
  BY <1>1 DEF InMemoryLoaded, AllAsked
<1> QED BY <1>2, <1>3, <1>4, <1>5, <1>6, <1>7, <1>8 DEF LifeInv

\* All plugins are loaded.
LEMMA ReadyKeeps ==
  ASSUME LifecycleAssumption, LifeInv, Ready
  PROVE  LifeInv'
<1> USE DEF LifecycleAssumption, PluginState
<1>1. LifeTypes /\ NothingUnloads /\ HeardIsLoaded /\ LoadedSoFar /\ ReadyMeansLoaded /\ RunsIsKnown /\ AllAsked
  BY DEF LifeInv
<1>2. LifeTypes'
  BY <1>1 DEF Ready, bookVars, childVars, LifeTypes
<1>3. NothingUnloads'
  BY <1>1 DEF Ready, childVars, NothingUnloads
<1>4. HeardIsLoaded'
  BY <1>1 DEF Ready, childVars, HeardIsLoaded
<1>5. LoadedSoFar'
  BY <1>1 DEF Ready, LoadedSoFar
<1>6. ReadyMeansLoaded'
  BY <1>1 DEF Ready, childVars, ReadyMeansLoaded, LoadedSoFar
<1>7. RunsIsKnown'
  BY <1>1 DEF Ready, bookVars, childVars, RunsIsKnown
<1>8. AllAsked'
  BY <1>1 DEF Ready, AllAsked
<1> QED BY <1>2, <1>3, <1>4, <1>5, <1>6, <1>7, <1>8 DEF LifeInv

\* The next plugin is loaded.
LEMMA LoadNextKeeps ==
  ASSUME LifecycleAssumption, LifeInv, LoadNext
  PROVE  LifeInv'
<1> USE DEF LifecycleAssumption, PluginState
<1>1. LifeTypes /\ NothingUnloads /\ HeardIsLoaded /\ LoadedSoFar /\ ReadyMeansLoaded /\ RunsIsKnown /\ AllAsked
  BY DEF LifeInv
<1>2. LifeTypes'
  BY <1>1 DEF LoadNext, LifeTypes
<1>3. NothingUnloads'
  BY <1>1 DEF LoadNext, NothingUnloads, LifeTypes
<1>4. HeardIsLoaded'
  <2>1. \A x : ~Carries(<<>>, x)
    BY DEF Carries
  <2> QED BY <1>1, <2>1 DEF LoadNext, bookVars, childVars, HeardIsLoaded, LoadedSoFar, LifeTypes
<1>5. LoadedSoFar'
  BY <1>1 DEF LoadNext, LoadedSoFar, LifeTypes
<1>6. ReadyMeansLoaded'
  BY <1>1 DEF LoadNext, ReadyMeansLoaded
<1>7. RunsIsKnown'
  BY <1>1 DEF LoadNext, RunsIsKnown, LifeTypes
<1>8. AllAsked'
  BY <1>1 DEF LoadNext, AllAsked
<1> QED BY <1>2, <1>3, <1>4, <1>5, <1>6, <1>7, <1>8 DEF LifeInv

\* A shutdown is called.
LEMMA CallShutdownKeeps ==
  ASSUME LifecycleAssumption, LifeInv, CallShutdown
  PROVE  LifeInv'
<1> USE DEF LifecycleAssumption, PluginState
<1>1. LifeTypes /\ NothingUnloads /\ HeardIsLoaded /\ LoadedSoFar /\ ReadyMeansLoaded /\ RunsIsKnown /\ AllAsked
  BY DEF LifeInv
<1>2. LifeTypes'
  BY <1>1 DEF CallShutdown, bookVars, childVars, LifeTypes
<1>3. NothingUnloads'
  BY <1>1 DEF CallShutdown, childVars, NothingUnloads
<1>4. HeardIsLoaded'
  BY <1>1 DEF CallShutdown, childVars, HeardIsLoaded
<1>5. LoadedSoFar'
  BY <1>1 DEF CallShutdown, childVars, LoadedSoFar
<1>6. ReadyMeansLoaded'
  BY <1>1 DEF CallShutdown, childVars, ReadyMeansLoaded
<1>7. RunsIsKnown'
  BY <1>1 DEF CallShutdown, bookVars, childVars, RunsIsKnown
<1>8. AllAsked'
  BY <1>1 DEF CallShutdown, bookVars, childVars, AllAsked
<1> QED BY <1>2, <1>3, <1>4, <1>5, <1>6, <1>7, <1>8 DEF LifeInv

\* A shutdown has the mutex.
LEMMA BeginShutdownKeeps ==
  ASSUME LifecycleAssumption, LifeInv, BeginShutdown
  PROVE  LifeInv'
<1> USE DEF LifecycleAssumption, PluginState
<1>1. LifeTypes /\ NothingUnloads /\ HeardIsLoaded /\ LoadedSoFar /\ ReadyMeansLoaded /\ RunsIsKnown /\ AllAsked
  BY DEF LifeInv
<1>2. LifeTypes'
  BY <1>1 DEF BeginShutdown, MutexFree, Books, bookVars, childVars, LifeTypes
<1>3. NothingUnloads'
  BY <1>1 DEF BeginShutdown, MutexFree, Books, NothingUnloads
<1>4. HeardIsLoaded'
  BY <1>1 DEF BeginShutdown, MutexFree, Books, HeardIsLoaded
<1>5. LoadedSoFar'
  BY <1>1 DEF BeginShutdown, MutexFree, Books, LoadedSoFar
<1>6. ReadyMeansLoaded'
  BY <1>1 DEF BeginShutdown, MutexFree, Books, ReadyMeansLoaded
<1>7. RunsIsKnown'
  BY <1>1 DEF BeginShutdown, MutexFree, Books, bookVars, childVars, RunsIsKnown
<1>8. AllAsked'
  BY <1>1 DEF BeginShutdown, MutexFree, Books, bookVars, childVars, AllAsked, RunsIsKnown
<1> QED BY <1>2, <1>3, <1>4, <1>5, <1>6, <1>7, <1>8 DEF LifeInv

\* The next plugin is asked to unload.
LEMMA UnloadNextKeeps ==
  ASSUME LifecycleAssumption, LifeInv, UnloadNext
  PROVE  LifeInv'
<1> USE DEF LifecycleAssumption, PluginState
<1>1. LifeTypes /\ NothingUnloads /\ HeardIsLoaded /\ LoadedSoFar /\ ReadyMeansLoaded /\ RunsIsKnown /\ AllAsked
  BY DEF LifeInv
<1>2. LifeTypes'
  BY <1>1 DEF UnloadNext, childVars, LifeTypes
<1>3. NothingUnloads'
  BY <1>1 DEF UnloadNext, NothingUnloads
<1>4. HeardIsLoaded'
  BY <1>1 DEF UnloadNext, HeardIsLoaded
<1>5. LoadedSoFar'
  BY <1>1 DEF UnloadNext, LoadedSoFar
<1>6. ReadyMeansLoaded'
  BY <1>1 DEF UnloadNext, ReadyMeansLoaded
<1>7. RunsIsKnown'
  BY <1>1 DEF UnloadNext, childVars, RunsIsKnown
<1>8. AllAsked'
  BY <1>1 DEF UnloadNext, childVars, AllAsked, RunsIsKnown
<1> QED BY <1>2, <1>3, <1>4, <1>5, <1>6, <1>7, <1>8 DEF LifeInv

\* A plugin in memory has unloaded.
LEMMA InMemoryUnloadedKeeps ==
  ASSUME LifecycleAssumption, LifeInv, InMemoryUnloaded
  PROVE  LifeInv'
<1> USE DEF LifecycleAssumption, PluginState
<1>1. LifeTypes /\ NothingUnloads /\ HeardIsLoaded /\ LoadedSoFar /\ ReadyMeansLoaded /\ RunsIsKnown /\ AllAsked
  BY DEF LifeInv
<1>2. LifeTypes'
  BY <1>1 DEF InMemoryUnloaded, LifeTypes
<1>3. NothingUnloads'
  BY <1>1 DEF InMemoryUnloaded, NothingUnloads
<1>4. HeardIsLoaded'
  BY <1>1 DEF InMemoryUnloaded, HeardIsLoaded
<1>5. LoadedSoFar'
  BY <1>1 DEF InMemoryUnloaded, LoadedSoFar
<1>6. ReadyMeansLoaded'
  BY <1>1 DEF InMemoryUnloaded, ReadyMeansLoaded
<1>7. RunsIsKnown'
  BY <1>1 DEF InMemoryUnloaded, RunsIsKnown, LifeTypes
<1>8. AllAsked'
  BY <1>1 DEF InMemoryUnloaded, AllAsked
<1> QED BY <1>2, <1>3, <1>4, <1>5, <1>6, <1>7, <1>8 DEF LifeInv

\* The databases are closed and the process exits.
LEMMA CloseKeeps ==
  ASSUME LifecycleAssumption, LifeInv, CloseAndExit
  PROVE  LifeInv'
<1> USE DEF LifecycleAssumption, PluginState
<1>1. LifeTypes /\ NothingUnloads /\ HeardIsLoaded /\ LoadedSoFar /\ ReadyMeansLoaded /\ RunsIsKnown /\ AllAsked
  BY DEF LifeInv
<1>2. LifeTypes'
  BY <1>1 DEF CloseAndExit, bookVars, childVars, LifeTypes
<1>3. NothingUnloads'
  BY <1>1 DEF CloseAndExit, NothingUnloads
<1>4. HeardIsLoaded'
  BY <1>1 DEF CloseAndExit, HeardIsLoaded
<1>5. LoadedSoFar'
  BY <1>1 DEF CloseAndExit, LoadedSoFar
<1>6. ReadyMeansLoaded'
  BY <1>1 DEF CloseAndExit, ReadyMeansLoaded
<1>7. RunsIsKnown'
  BY <1>1 DEF CloseAndExit, bookVars, childVars, RunsIsKnown
<1>8. AllAsked'
  BY <1>1 DEF CloseAndExit, bookVars, childVars, AllAsked
<1> QED BY <1>2, <1>3, <1>4, <1>5, <1>6, <1>7, <1>8 DEF LifeInv

\* The timer of a load ends.
LEMMA LoadTimeoutKeeps ==
  ASSUME LifecycleAssumption, LifeInv, NEW p \in ChildPlugin, LoadTimeout(p)
  PROVE  LifeInv'
<1> USE DEF LifecycleAssumption, PluginState
<1>1. LifeTypes /\ NothingUnloads /\ HeardIsLoaded /\ LoadedSoFar /\ ReadyMeansLoaded /\ RunsIsKnown /\ AllAsked
  BY DEF LifeInv
<1>2. LifeTypes'
  BY <1>1 DEF LoadTimeout, bookVars, childVars, LifeTypes
<1>3. NothingUnloads'
  BY <1>1 DEF LoadTimeout, childVars, NothingUnloads
<1>4. HeardIsLoaded'
  BY <1>1 DEF LoadTimeout, childVars, HeardIsLoaded
<1>5. LoadedSoFar'
  BY <1>1 DEF LoadTimeout, childVars, LoadedSoFar
<1>6. ReadyMeansLoaded'
  BY <1>1 DEF LoadTimeout, childVars, ReadyMeansLoaded
<1>7. RunsIsKnown'
  BY <1>1 DEF LoadTimeout, bookVars, childVars, RunsIsKnown
<1>8. AllAsked'
  BY <1>1 DEF LoadTimeout, bookVars, childVars, AllAsked
<1> QED BY <1>2, <1>3, <1>4, <1>5, <1>6, <1>7, <1>8 DEF LifeInv

\* A process dies.
LEMMA ChildDiesKeeps ==
  ASSUME LifecycleAssumption, LifeInv, NEW p \in ChildPlugin, ChildDies(p)
  PROVE  LifeInv'
<1> USE DEF LifecycleAssumption, PluginState
<1>1. LifeTypes /\ NothingUnloads /\ HeardIsLoaded /\ LoadedSoFar /\ ReadyMeansLoaded /\ RunsIsKnown /\ AllAsked
  BY DEF LifeInv
<1>2. LifeTypes'
  BY <1>1 DEF ChildDies, bookVars, LifeTypes
<1>3. NothingUnloads'
  BY <1>1 DEF ChildDies, NothingUnloads
<1>4. HeardIsLoaded'
  BY <1>1 DEF ChildDies, HeardIsLoaded
<1>5. LoadedSoFar'
  BY <1>1 DEF ChildDies, LoadedSoFar
<1>6. ReadyMeansLoaded'
  BY <1>1 DEF ChildDies, ReadyMeansLoaded
<1>7. RunsIsKnown'
  BY <1>1 DEF ChildDies, bookVars, RunsIsKnown, LifeTypes
<1>8. AllAsked'
  BY <1>1 DEF ChildDies, bookVars, AllAsked
<1> QED BY <1>2, <1>3, <1>4, <1>5, <1>6, <1>7, <1>8 DEF LifeInv

\* A process begins to unload.
LEMMA ChildUnloadsKeeps ==
  ASSUME LifecycleAssumption, LifeInv, NEW p \in ChildPlugin, ChildUnloads(p)
  PROVE  LifeInv'
<1> USE DEF LifecycleAssumption, PluginState
<1>1. LifeTypes /\ NothingUnloads /\ HeardIsLoaded /\ LoadedSoFar /\ ReadyMeansLoaded /\ RunsIsKnown /\ AllAsked
  BY DEF LifeInv
<1>2. LifeTypes'
  BY <1>1 DEF ChildUnloads, MustUnload, bookVars, LifeTypes
<1>3. NothingUnloads'
  BY <1>1 DEF ChildUnloads, MustUnload, NothingUnloads
<1>4. HeardIsLoaded'
  BY <1>1 DEF ChildUnloads, MustUnload, HeardIsLoaded, NothingUnloads
<1>5. LoadedSoFar'
  BY <1>1 DEF ChildUnloads, MustUnload, LoadedSoFar, NothingUnloads
<1>6. ReadyMeansLoaded'
  BY <1>1 DEF ChildUnloads, MustUnload, ReadyMeansLoaded, NothingUnloads
<1>7. RunsIsKnown'
  BY <1>1 DEF ChildUnloads, MustUnload, bookVars, RunsIsKnown
<1>8. AllAsked'
  BY <1>1 DEF ChildUnloads, MustUnload, bookVars, AllAsked
<1> QED BY <1>2, <1>3, <1>4, <1>5, <1>6, <1>7, <1>8 DEF LifeInv

\* The bus registers a plugin.
LEMMA RegistersKeeps ==
  ASSUME LifecycleAssumption, LifeInv, NEW p \in ChildPlugin, BusRegisters(p)
  PROVE  LifeInv'
<1> USE DEF LifecycleAssumption, PluginState
<1>1. LifeTypes /\ NothingUnloads /\ HeardIsLoaded /\ LoadedSoFar /\ ReadyMeansLoaded /\ RunsIsKnown /\ AllAsked
  BY DEF LifeInv
<1>2. LifeTypes'
  BY <1>1 DEF BusRegisters, bookVars, LifeTypes
<1>3. NothingUnloads'
  BY <1>1 DEF BusRegisters, NothingUnloads
<1>4. HeardIsLoaded'
  BY <1>1 DEF BusRegisters, HeardIsLoaded
<1>5. LoadedSoFar'
  BY <1>1 DEF BusRegisters, LoadedSoFar
<1>6. ReadyMeansLoaded'
  BY <1>1 DEF BusRegisters, ReadyMeansLoaded
<1>7. RunsIsKnown'
  BY <1>1 DEF BusRegisters, bookVars, RunsIsKnown
<1>8. AllAsked'
  BY <1>1 DEF BusRegisters, bookVars, AllAsked
<1> QED BY <1>2, <1>3, <1>4, <1>5, <1>6, <1>7, <1>8 DEF LifeInv

\* The timer of an unload ends.
LEMMA UnloadTimeoutKeeps ==
  ASSUME LifecycleAssumption, LifeInv, NEW p \in ChildPlugin, UnloadTimeout(p)
  PROVE  LifeInv'
<1> USE DEF LifecycleAssumption, PluginState
<1>1. LifeTypes /\ NothingUnloads /\ HeardIsLoaded /\ LoadedSoFar /\ ReadyMeansLoaded /\ RunsIsKnown /\ AllAsked
  BY DEF LifeInv
<1>2. LifeTypes'
  BY <1>1 DEF UnloadTimeout, childVars, LifeTypes
<1>3. NothingUnloads'
  BY <1>1 DEF UnloadTimeout, NothingUnloads, RunsIsKnown
<1>4. HeardIsLoaded'
  BY <1>1 DEF UnloadTimeout, HeardIsLoaded, NothingUnloads, RunsIsKnown
<1>5. LoadedSoFar'
  BY <1>1 DEF UnloadTimeout, LoadedSoFar, NothingUnloads, RunsIsKnown
<1>6. ReadyMeansLoaded'
  BY <1>1 DEF UnloadTimeout, ReadyMeansLoaded, NothingUnloads, RunsIsKnown
<1>7. RunsIsKnown'
  BY <1>1 DEF UnloadTimeout, childVars, RunsIsKnown
<1>8. AllAsked'
  BY <1>1 DEF UnloadTimeout, childVars, AllAsked
<1> QED BY <1>2, <1>3, <1>4, <1>5, <1>6, <1>7, <1>8 DEF LifeInv

\* A process begins to load its plugin.
LEMMA ChildStartsKeeps ==
  ASSUME LifecycleAssumption, LifeInv, NEW p \in ChildPlugin, ChildStarts(p)
  PROVE  LifeInv'
<1> USE DEF LifecycleAssumption, PluginState
<1>1. LifeTypes /\ NothingUnloads /\ HeardIsLoaded /\ LoadedSoFar /\ ReadyMeansLoaded /\ RunsIsKnown /\ AllAsked
  BY DEF LifeInv
<1>2. /\ wire' \in [ChildPlugin -> Seq(Event)]
      /\ \A q \in ChildPlugin : q # p => wire'[q] = wire[q]
      /\ \A x : Carries(wire'[p], x) => x = "loading:started" \/ Carries(wire[p], x)
  BY <1>1, PublishIs DEF ChildStarts, LifeTypes, Event
<1>3. LifeTypes'
  BY <1>1, <1>2 DEF ChildStarts, bookVars, LifeTypes
<1>4. NothingUnloads'
  BY <1>1, <1>2 DEF ChildStarts, NothingUnloads
<1>5. HeardIsLoaded'
  BY <1>1, <1>2 DEF ChildStarts, HeardIsLoaded
<1>6. LoadedSoFar'
  BY <1>1, <1>2 DEF ChildStarts, LoadedSoFar
<1>7. ReadyMeansLoaded'
  BY <1>1, <1>2 DEF ChildStarts, ReadyMeansLoaded
<1>8. RunsIsKnown'
  BY <1>1, <1>2 DEF ChildStarts, bookVars, RunsIsKnown
<1>9. AllAsked'
  BY <1>1, <1>2 DEF ChildStarts, bookVars, AllAsked
<1> QED BY <1>3, <1>4, <1>5, <1>6, <1>7, <1>8, <1>9 DEF LifeInv

\* A process has loaded its plugin, or the load has thrown.
LEMMA ChildLoadsKeeps ==
  ASSUME LifecycleAssumption, LifeInv, NEW p \in ChildPlugin, ChildLoads(p)
  PROVE  LifeInv'
<1> USE DEF LifecycleAssumption, PluginState
<1>1. LifeTypes /\ NothingUnloads /\ HeardIsLoaded /\ LoadedSoFar /\ ReadyMeansLoaded /\ RunsIsKnown /\ AllAsked
  BY DEF LifeInv
<1>2. /\ wire' \in [ChildPlugin -> Seq(Event)]
      /\ \A q \in ChildPlugin : q # p => wire'[q] = wire[q]
      /\ \A x : Carries(wire'[p], x) => \/ plugin'[p] = "loaded" /\ x = "loading:finished"
                                    \/ Carries(wire[p], x)
  <2>1. CASE Publish(p, "loading:finished") /\ plugin' = [plugin EXCEPT ![p] = "loaded"]
    BY <1>1, <2>1, PublishIs DEF LifeTypes, Event
  <2>2. CASE wire' = wire
    BY <1>1, <2>2 DEF LifeTypes
  <2> QED BY <2>1, <2>2 DEF ChildLoads
<1>3. LifeTypes'
  BY <1>1, <1>2 DEF ChildLoads, bookVars, LifeTypes
<1>4. NothingUnloads'
  BY <1>1, <1>2 DEF ChildLoads, NothingUnloads, LifeTypes
<1>5. HeardIsLoaded'
  BY <1>1, <1>2 DEF ChildLoads, HeardIsLoaded, LifeTypes
<1>6. LoadedSoFar'
  BY <1>1, <1>2 DEF ChildLoads, LoadedSoFar, LifeTypes
<1>7. ReadyMeansLoaded'
  BY <1>1, <1>2 DEF ChildLoads, ReadyMeansLoaded
<1>8. RunsIsKnown'
  BY <1>1, <1>2 DEF ChildLoads, bookVars, RunsIsKnown, LifeTypes
<1>9. AllAsked'
  BY <1>1, <1>2 DEF ChildLoads, bookVars, AllAsked
<1> QED BY <1>3, <1>4, <1>5, <1>6, <1>7, <1>8, <1>9 DEF LifeInv

\* A process ends after its plugin has unloaded.
LEMMA ChildExitsKeeps ==
  ASSUME LifecycleAssumption, LifeInv, NEW p \in ChildPlugin, ChildExits(p)
  PROVE  LifeInv'
<1> USE DEF LifecycleAssumption, PluginState
<1>1. LifeTypes /\ NothingUnloads /\ HeardIsLoaded /\ LoadedSoFar /\ ReadyMeansLoaded /\ RunsIsKnown /\ AllAsked
  BY DEF LifeInv
<1>2. /\ wire' \in [ChildPlugin -> Seq(Event)]
      /\ \A q \in ChildPlugin : q # p => wire'[q] = wire[q]
  <2>1. ASSUME NEW e \in {"unloading:finished", "unloading:error"}, Publish(p, e)
        PROVE  /\ wire' \in [ChildPlugin -> Seq(Event)]
               /\ \A q \in ChildPlugin : q # p => wire'[q] = wire[q]
    BY <1>1, <2>1, PublishIs DEF LifeTypes, Event
  <2>2. CASE wire' = wire
    BY <1>1, <2>2 DEF LifeTypes
  <2> QED BY <2>1, <2>2 DEF ChildExits
<1>3. LifeTypes'
  BY <1>1, <1>2 DEF ChildExits, bookVars, LifeTypes
<1>4. NothingUnloads'
  BY <1>1, <1>2 DEF ChildExits, NothingUnloads
<1>5. HeardIsLoaded'
  BY <1>1, <1>2 DEF ChildExits, HeardIsLoaded, LifeTypes
<1>6. LoadedSoFar'
  <2>1. /\ app' = app /\ todo' = todo /\ awaits' = awaits /\ channels' = channels
        /\ alive' = alive \ {p}
    BY DEF ChildExits
  <2>2. p \in alive /\ plugin' = [plugin EXCEPT ![p] = "ended"]
    BY DEF ChildExits
  <2>3. \A q \in Plugin : plugin[q] \in {"loaded", "ended"} => plugin'[q] \in {"loaded", "ended"}
    BY <1>1, <2>2 DEF LifeTypes
  <2>4. CASE app # "loading"
    BY <2>1, <2>4 DEF LoadedSoFar
  <2>5. CASE app = "loading"
    <3>1. p \notin todo
      BY <1>1, <2>2, <2>5 DEF LoadedSoFar
    <3>2. \A q \in todo \cap ChildPlugin : wire'[q] = <<>>
      BY <1>1, <1>2, <2>5, <3>1 DEF LoadedSoFar
    <3> QED BY <1>1, <2>1, <2>3, <2>5, <3>2 DEF LoadedSoFar
  <2> QED BY <2>4, <2>5
<1>7. ReadyMeansLoaded'
  BY <1>1, <1>2 DEF ChildExits, ReadyMeansLoaded
<1>8. RunsIsKnown'
  BY <1>1, <1>2 DEF ChildExits, bookVars, RunsIsKnown
<1>9. AllAsked'
  BY <1>1, <1>2 DEF ChildExits, bookVars, AllAsked
<1> QED BY <1>3, <1>4, <1>5, <1>6, <1>7, <1>8, <1>9 DEF LifeInv

\* The controller hears an event, or the bus stops reading them.
LEMMA BusEventKeeps ==
  ASSUME LifecycleAssumption, LifeInv, NEW p \in ChildPlugin, BusEvent(p)
  PROVE  LifeInv'
<1> USE DEF LifecycleAssumption, PluginState
<1>1. LifeTypes /\ NothingUnloads /\ HeardIsLoaded /\ LoadedSoFar /\ ReadyMeansLoaded /\ RunsIsKnown /\ AllAsked
  BY DEF LifeInv
<1>2. /\ wire' \in [ChildPlugin -> Seq(Event)]
      /\ \A q \in ChildPlugin : q # p => wire'[q] = wire[q]
      /\ \A x : Carries(wire'[p], x) => Carries(wire[p], x)
      /\ Carries(wire[p], Head(wire[p]))
  BY <1>1, HearingIs DEF BusEvent, LifeTypes
<1>3. /\ app' = app /\ plugin' = plugin /\ alive' = alive /\ asked' = asked /\ channels' = channels
      /\ todo' = todo /\ inMemory' = inMemory /\ ticking' = ticking /\ databases' = databases
      /\ wire[p] # <<>>
  BY DEF BusEvent
<1>4. /\ children' \subseteq children /\ children \ children' \subseteq asked
      /\ awaits' = awaits \/ awaits' = Nobody
      /\ (app = "loading" /\ awaits' # awaits) => awaits = p /\ p \in channels /\ Carries(wire[p], "loading:finished")
  <2>1. CASE children' = children /\ awaits' = awaits
    BY <2>1
  <2>2. CASE Hear(p, Head(wire[p])) /\ p \in channels
    BY <1>2, <2>2 DEF Hear
  <2> QED BY <2>1, <2>2 DEF BusEvent
<1>5. LifeTypes'
  BY <1>1, <1>2, <1>3, <1>4 DEF LifeTypes
<1>6. NothingUnloads'
  BY <1>1, <1>3 DEF NothingUnloads
<1>7. HeardIsLoaded'
  BY <1>1, <1>2, <1>3 DEF HeardIsLoaded
<1>8. LoadedSoFar'
  BY <1>1, <1>2, <1>3, <1>4 DEF LoadedSoFar, HeardIsLoaded, LifeTypes
<1>9. ReadyMeansLoaded'
  BY <1>1, <1>3 DEF ReadyMeansLoaded
<1>10. RunsIsKnown'
  BY <1>1, <1>3, <1>4 DEF RunsIsKnown
<1>11. AllAsked'
  BY <1>1, <1>3 DEF AllAsked
<1> QED BY <1>5, <1>6, <1>7, <1>8, <1>9, <1>10, <1>11 DEF LifeInv

LEMMA LifeStep ==
  ASSUME LifecycleAssumption, LifeInv, [LifeNext]_lifeVars
  PROVE  LifeInv'
<1>1. CASE \E p \in ChildPlugin :
             \/ LoadTimeout(p) \/ ChildStarts(p) \/ ChildLoads(p) \/ ChildUnloads(p) \/ ChildExits(p)
             \/ ChildDies(p) \/ BusRegisters(p) \/ BusEvent(p) \/ UnloadTimeout(p)
  BY <1>1, LoadTimeoutKeeps, ChildStartsKeeps, ChildLoadsKeeps, ChildUnloadsKeeps, ChildExitsKeeps,
     ChildDiesKeeps, RegistersKeeps, BusEventKeeps, UnloadTimeoutKeeps
<1>2. CASE UNCHANGED lifeVars
  BY <1>2 DEF lifeVars, LifeInv, LifeTypes, NothingUnloads, HeardIsLoaded, LoadedSoFar,
              ReadyMeansLoaded, RunsIsKnown, AllAsked
<1> QED
  BY <1>1, <1>2, InMemoryLoadedKeeps, ReadyKeeps, LoadNextKeeps, CallShutdownKeeps, BeginShutdownKeeps,
     UnloadNextKeeps, InMemoryUnloadedKeeps, CloseKeeps DEF LifeNext

\* Ready means that every plugin's channel is on the bus and its load has finished,
\* and a shutdown closes the databases only after it asked every loaded plugin to
\* unload, the ones included that run had given up (application.ts run and shutdown,
\* controller.ts loadPlugins and unloadPlugins).
THEOREM PluginsLoadInOrder ==
  ASSUME LifecycleAssumption
  PROVE  LifeSpec => []LoadedInOrder
<1>1. LifeInit => LifeInv
  <2> SUFFICES ASSUME LifeInit PROVE LifeInv
    OBVIOUS
  <2>1. wire \in [ChildPlugin -> Seq(Event)]
    BY EmptySeq DEF LifeInit
  <2>2. LifeTypes
    BY <2>1 DEF LifeInit, LifeTypes, PluginState, LifecycleAssumption
  <2>3. \A x : ~Carries(<<>>, x)
    BY DEF Carries
  <2>4. HeardIsLoaded /\ LoadedSoFar
    BY <2>3 DEF LifeInit, HeardIsLoaded, LoadedSoFar, LifecycleAssumption
  <2> QED
    BY <2>2, <2>4 DEF LifeInit, LifeInv, NothingUnloads, ReadyMeansLoaded, RunsIsKnown, AllAsked
<1>2. LifeInv /\ [LifeNext]_lifeVars => LifeInv'
  BY LifeStep
<1>3. LifeInv => LoadedInOrder
  BY DEF LifeInv, RunsIsKnown, AllAsked, LoadedInOrder, ClosedAfterPlugins
<1> QED BY <1>1, <1>2, <1>3, PTL DEF LifeSpec
=============================================================================
