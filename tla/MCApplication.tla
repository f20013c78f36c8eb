--------------------------- MODULE MCApplication ----------------------------
(***************************************************************************)
(* TLC instances of the models of the controller. A behaviour runs one of  *)
(* them, named by part:                                                    *)
(*   bus        Bus: the application and one plugin that call another      *)
(*              plugin, two calls each;                                    *)
(*   lifecycle  Lifecycle: a plugin in memory and two in processes of      *)
(*              their own, and two calls of shutdown.                      *)
(***************************************************************************)
EXTENDS Bus, Lifecycle

VARIABLE part

MCLoadOrder == <<"mem", "child", "other">>

ASSUME LifecycleAssumption

-----------------------------------------------------------------------------
OnBus == part = "bus" /\ UNCHANGED <<part, lifeVars>>
OnLife == part = "lifecycle" /\ UNCHANGED <<part, busVars>>

MCInit ==
  /\ part \in {"bus", "lifecycle"}
  /\ BusInit
  /\ LifeInit

MCNext ==
  \/ \E c \in InMemory : OnBus /\ InvokeInMemory(c)
  \/ \E c \in Remote : OnBus /\ InvokeRemote(c)
  \/ \E k \in Call : OnBus /\ HandleRPC(k)
  \/ OnBus /\ StartHandler
  \/ \E k \in Call : OnBus /\ EndHandler(k)
  \/ OnBus /\ RPCResponse
  \/ \E k \in Call : OnBus /\ BusTimeout(k)
  \/ \E k \in Call : OnBus /\ Return(k)
  \/ \E k \in Call : OnBus /\ OwnTimeout(k)
  \/ OnLife /\ LoadNext
  \/ OnLife /\ InMemoryLoaded
  \/ OnLife /\ Ready
  \/ OnLife /\ CallShutdown
  \/ OnLife /\ BeginShutdown
  \/ OnLife /\ UnloadNext
  \/ OnLife /\ InMemoryUnloaded
  \/ OnLife /\ CloseAndExit
  \/ \E p \in ChildPlugin : OnLife /\ LoadTimeout(p)
  \/ \E p \in ChildPlugin : OnLife /\ ChildStarts(p)
  \/ \E p \in ChildPlugin : OnLife /\ ChildLoads(p)
  \/ \E p \in ChildPlugin : OnLife /\ ChildUnloads(p)
  \/ \E p \in ChildPlugin : OnLife /\ ChildExits(p)
  \/ \E p \in ChildPlugin : OnLife /\ ChildDies(p)
  \/ \E p \in ChildPlugin : OnLife /\ BusRegisters(p)
  \/ \E p \in ChildPlugin : OnLife /\ BusEvent(p)
  \/ \E p \in ChildPlugin : OnLife /\ UnloadTimeout(p)

InBus(A) == part = "bus" /\ A
InLife(A) == part = "lifecycle" /\ A

\* The fairness of Bus and of Lifecycle.
MCSpec ==
  /\ MCInit /\ [][MCNext]_<<part, busVars, lifeVars>>
  /\ WF_busVars(InBus(StartHandler)) /\ WF_busVars(InBus(RPCResponse))
  /\ \A k \in Call :
       /\ WF_busVars(InBus(HandleRPC(k))) /\ WF_busVars(InBus(BusTimeout(k)))
       /\ WF_busVars(InBus(Return(k))) /\ WF_busVars(InBus(OwnTimeout(k)))
  /\ WF_lifeVars(InLife(LoadNext)) /\ WF_lifeVars(InLife(InMemoryLoaded))
  /\ WF_lifeVars(InLife(Ready)) /\ WF_lifeVars(InLife(BeginShutdown))
  /\ WF_lifeVars(InLife(UnloadNext)) /\ WF_lifeVars(InLife(InMemoryUnloaded))
  /\ WF_lifeVars(InLife(CloseAndExit))
  /\ \A p \in ChildPlugin :
       /\ WF_lifeVars(InLife(LoadTimeout(p))) /\ WF_lifeVars(InLife(UnloadTimeout(p)))
       /\ WF_lifeVars(InLife(ChildUnloads(p))) /\ WF_lifeVars(InLife(ChildExits(p)))

-----------------------------------------------------------------------------
\* A run, a shutdown and the processes of the plugins come to an end.
LifeEnds == part = "lifecycle" => RunEnds /\ ShutdownEnds /\ NoOrphans
=============================================================================
