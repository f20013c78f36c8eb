----------------------------- MODULE Lifecycle -----------------------------
(***************************************************************************)
(* The life of an application and of its plugins: Application.run and      *)
(* shutdown (framework/src/application.ts), Controller.loadPlugins and     *)
(* unloadPlugins (controller/controller.ts), the process of a plugin that  *)
(* runs outside (controller/child_process_loader.ts) and the two sockets   *)
(* such a process reaches the bus by: registrations travel on one, events  *)
(* on the other, and nothing orders the two.                               *)
(***************************************************************************)
EXTENDS Integers, Sequences, FiniteSets

CONSTANTS
  LoadOrder,     \* Seq: the plugins in the order they are loaded
  ChildPlugin,   \* those that run in a process of their own
  MaxShutdowns   \* how many calls of shutdown are made (bound)

Plugin == {LoadOrder[i] : i \in DOMAIN LoadOrder}
Nobody == "nobody"

LifecycleAssumption ==
  /\ ChildPlugin \subseteq Plugin /\ Nobody \notin Plugin
  /\ Cardinality(Plugin) = Len(LoadOrder)
  /\ MaxShutdowns \in Nat \ {0}

VARIABLES
  app,        \* where run and shutdown are
  shutdowns,  \* shutdown calls waiting for Application._mutex
  called,     \* shutdown calls made so far (bound)
  todo,       \* plugins still to load, then plugins still to unload
  awaits,     \* the plugin whose load or unload the controller awaits
  failed,     \* an unload of this shutdown failed
  inMemory,   \* Controller._inMemoryPlugins
  children,   \* Controller._childProcesses
  channels,   \* plugins registered on the bus
  listens,    \* the bus still reads the events of plugin processes
  plugin,     \* [Plugin -> the plugin's own side]
  alive,      \* plugin processes that run
  registering,\* registrations on their way to the bus
  wire,       \* [ChildPlugin -> Seq of events on their way to the bus]
  asked,      \* plugins whose unload was started by the controller
  ticking,    \* running timers of the controller, <<"load" or "unload", p>>
  databases   \* the databases are open

lifeVars == <<app, shutdowns, called, todo, awaits, failed, inMemory, children, channels,
              listens, plugin, alive, registering, wire, asked, ticking, databases>>
bookVars == <<inMemory, children>>
childVars == <<plugin, alive, registering, wire>>

LifeTypeOK ==
  /\ app \in {"loading", "ready", "failed", "closing", "exited"}
  /\ shutdowns \in 0 .. MaxShutdowns /\ called \in 0 .. MaxShutdowns
  /\ todo \subseteq Plugin /\ awaits \in Plugin \cup {Nobody}
  /\ inMemory \subseteq Plugin \ ChildPlugin
  /\ children \subseteq ChildPlugin /\ alive \subseteq ChildPlugin
  /\ channels \subseteq Plugin /\ registering \subseteq ChildPlugin
  /\ plugin \in [Plugin -> {"none", "forked", "starting", "loaded", "broken", "unloading", "ended"}]
  /\ asked \subseteq Plugin
  /\ failed \in BOOLEAN /\ listens \in BOOLEAN /\ databases \in BOOLEAN

LifeInit ==
  /\ app = "loading" /\ shutdowns = 0 /\ called = 0
  /\ todo = Plugin /\ awaits = Nobody /\ failed = FALSE
  /\ inMemory = {} /\ children = {} /\ channels = {} /\ listens = TRUE
  /\ plugin = [p \in Plugin |-> "none"]
  /\ alive = {} /\ registering = {} /\ wire = [p \in ChildPlugin |-> <<>>]
  /\ asked = {} /\ ticking = {} /\ databases = TRUE

---------------------------------------------------------------------------
(* Application.run, inside the mutex: the plugins one after the other      *)

\* Controller.loadPlugins: an in-memory plugin registers its channel at
\* once; for the others a process is forked and a timer of 2 s started.
Precedes(p, q) ==
  \E i, j \in DOMAIN LoadOrder : i < j /\ LoadOrder[i] = p /\ LoadOrder[j] = q

LoadNext == \E p \in todo :
  /\ \A q \in todo \ {p} : Precedes(p, q)
  /\ app = "loading" /\ awaits = Nobody
  /\ todo' = todo \ {p} /\ awaits' = p
  /\ IF p \in ChildPlugin
     THEN /\ plugin' = [plugin EXCEPT ![p] = "forked"]
          /\ alive' = alive \cup {p} /\ children' = children \cup {p}
          /\ ticking' = ticking \cup {<<"load", p>>}
          /\ UNCHANGED channels
     ELSE /\ plugin' = [plugin EXCEPT ![p] = "starting"]
          /\ channels' = channels \cup {p}
          /\ UNCHANGED <<alive, children, ticking>>
  /\ UNCHANGED <<app, shutdowns, called, failed, inMemory, listens, registering, wire, asked, databases>>

\* _loadInMemoryPlugin: the plugin enters the book once it is loaded; when
\* its init or load throws, run rejects and the mutex is released.
InMemoryLoaded ==
  /\ app = "loading" /\ awaits \in Plugin \ ChildPlugin
  /\ awaits' = Nobody
  /\ \/ /\ plugin' = [plugin EXCEPT ![awaits] = "loaded"]
        /\ inMemory' = inMemory \cup {awaits}
        /\ UNCHANGED app
     \/ /\ plugin' = [plugin EXCEPT ![awaits] = "broken"]
        /\ app' = "failed"
        /\ UNCHANGED inMemory
  /\ UNCHANGED <<shutdowns, called, todo, failed, children, channels, listens, alive, registering,
                 wire, asked, ticking, databases>>

\* (mutant) the timer ends the wait as if the plugin had loaded
LoadTimeoutPasses(p) ==
  /\ <<"load", p>> \in ticking
  /\ ticking' = ticking \ {<<"load", p>>}
  /\ awaits' = IF app = "loading" /\ awaits = p THEN Nobody ELSE awaits
  /\ UNCHANGED <<app, shutdowns, called, todo, failed, bookVars, channels, listens, childVars, asked, databases>>

\* (mutant) the timer is cleared when the process starts to load
LoadTimeoutOfUnstarted(p) ==
  /\ <<"load", p>> \in ticking
  /\ ticking' = ticking \ {<<"load", p>>}
  /\ IF app = "loading" /\ awaits = p /\ plugin[p] = "forked"
     THEN app' = "failed" /\ awaits' = Nobody
     ELSE UNCHANGED <<app, awaits>>
  /\ UNCHANGED <<shutdowns, called, todo, failed, bookVars, channels, listens, childVars, asked, databases>>

\* The promise raced against loading:finished rejects: run rejects too.
LoadTimeout(p) ==
  /\ <<"load", p>> \in ticking
  /\ ticking' = ticking \ {<<"load", p>>}
  /\ IF app = "loading" /\ awaits = p
     THEN app' = "failed" /\ awaits' = Nobody
     ELSE UNCHANGED <<app, awaits>>
  /\ UNCHANGED <<shutdowns, called, todo, failed, bookVars, channels, listens, childVars, asked, databases>>

Ready ==
  /\ app = "loading" /\ awaits = Nobody /\ todo = {}
  /\ app' = "ready"
  /\ UNCHANGED <<shutdowns, called, todo, awaits, failed, bookVars, channels, listens, childVars,
                 asked, ticking, databases>>

---------------------------------------------------------------------------
(* The process of a plugin (child_process_loader.ts)                       *)

Publish(p, e) == wire' = [wire EXCEPT ![p] = Append(@, e)]

\* registerToBus returns before the bus has registered the channel; the
\* first events leave right behind it on the other socket.
ChildStarts(p) ==
  /\ p \in alive /\ plugin[p] = "forked"
  /\ plugin' = [plugin EXCEPT ![p] = "starting"]
  /\ registering' = registering \cup {p}
  /\ Publish(p, "loading:started")
  /\ UNCHANGED <<app, shutdowns, called, todo, awaits, failed, bookVars, channels, listens, alive,
                 asked, ticking, databases>>

\* An init or load that throws is swallowed: no event, the process stays.
ChildLoads(p) ==
  /\ p \in alive /\ plugin[p] = "starting"
  /\ \/ /\ plugin' = [plugin EXCEPT ![p] = "loaded"]
        /\ Publish(p, "loading:finished")
     \/ /\ plugin' = [plugin EXCEPT ![p] = "broken"]
        /\ UNCHANGED wire
  /\ UNCHANGED <<app, shutdowns, called, todo, awaits, failed, bookVars, channels, listens, alive,
                 registering, asked, ticking, databases>>

\* _unloadPlugin, on the controller's message or on the loss of the main
\* process; the process exits after plugin.unload, having published its
\* outcome, an event the exit may outrun.
\* (mutant) only the controller's message ends the process
MustUnloadAsked(p) == p \in asked /\ app # "exited"
MustUnload(p) == p \in asked \/ app = "exited"

ChildUnloads(p) ==
  /\ p \in alive /\ MustUnload(p)
  /\ plugin[p] \in {"forked", "starting", "loaded", "broken"}
  /\ plugin' = [plugin EXCEPT ![p] = "unloading"]
  /\ UNCHANGED <<app, shutdowns, called, todo, awaits, failed, bookVars, channels, listens, alive,
                 registering, wire, asked, ticking, databases>>

ChildExits(p) ==
  /\ p \in alive /\ plugin[p] = "unloading"
  /\ plugin' = [plugin EXCEPT ![p] = "ended"]
  /\ alive' = alive \ {p}
  /\ \/ Publish(p, "unloading:finished") \/ Publish(p, "unloading:error") \/ UNCHANGED wire
  /\ UNCHANGED <<app, shutdowns, called, todo, awaits, failed, bookVars, channels, listens,
                 registering, asked, ticking, databases>>

\* The process dies by itself; the controller only logs it.
ChildDies(p) ==
  /\ p \in alive
  /\ alive' = alive \ {p}
  /\ plugin' = [plugin EXCEPT ![p] = "ended"]
  /\ UNCHANGED <<app, shutdowns, called, todo, awaits, failed, bookVars, channels, listens,
                 registering, wire, asked, ticking, databases>>

---------------------------------------------------------------------------
(* The bus                                                                 *)

BusRegisters(p) ==
  /\ p \in registering
  /\ registering' = registering \ {p}
  /\ channels' = channels \cup {p}
  /\ UNCHANGED <<app, shutdowns, called, todo, awaits, failed, bookVars, listens, plugin, alive, wire,
                 asked, ticking, databases>>

\* What the controller does when it hears event e of p (the once listeners
\* of _loadChildProcessPlugin and _unloadChildProcessPlugin).
Hear(p, e) ==
  /\ children' = IF e \in {"unloading:finished", "unloading:error"} /\ p \in asked
                 THEN children \ {p} ELSE children
  /\ awaits' = IF \/ e = "loading:finished" /\ app = "loading" /\ awaits = p
                  \/ e \in {"unloading:finished", "unloading:error"} /\ app = "closing" /\ awaits = p
               THEN Nobody ELSE awaits
  /\ failed' = (failed \/ (e = "unloading:error" /\ app = "closing" /\ awaits = p))

\* _handleEvents: publish throws on an event of a channel that is not
\* registered yet, and with it ends the loop that reads every event.
BusEvent(p) ==
  /\ app # "exited" /\ wire[p] # <<>>
  /\ wire' = [wire EXCEPT ![p] = Tail(@)]
  /\ listens' = (listens /\ p \in channels)
  /\ IF listens' THEN Hear(p, Head(wire[p])) ELSE UNCHANGED <<children, awaits, failed>>
  /\ UNCHANGED <<app, shutdowns, called, todo, inMemory, channels, plugin, alive, registering, asked,
                 ticking, databases>>

---------------------------------------------------------------------------
(* Application.shutdown                                                    *)

\* A signal, an uncaught exception or an unhandled rejection
CallShutdown ==
  /\ app # "exited" /\ called < MaxShutdowns
  /\ shutdowns' = shutdowns + 1 /\ called' = called + 1
  /\ UNCHANGED <<app, todo, awaits, failed, bookVars, channels, listens, childVars, asked, ticking, databases>>

\* The mutex is free only when run has ended and no shutdown runs.
MutexFree == app \in {"ready", "failed"}

\* unloadPlugins: the plugins that are in the books at this moment
\* (mutant) only the plugins of this process
BooksInMemory == inMemory
Books == inMemory \cup children

BeginShutdown ==
  /\ shutdowns > 0 /\ MutexFree
  /\ app' = "closing" /\ shutdowns' = shutdowns - 1
  /\ todo' = Books /\ awaits' = Nobody /\ failed' = FALSE
  /\ UNCHANGED <<called, bookVars, channels, listens, childVars, asked, ticking, databases>>

\* unloadPlugins: an in-memory plugin is called; a process still connected
\* gets a message and 2 s; one that is not is killed, which counts as an error.
\* Those in memory come first.
UnloadNext == \E p \in todo :
  /\ \A q \in todo \ {p} : IF (p \in ChildPlugin) = (q \in ChildPlugin)
                            THEN Precedes(p, q) ELSE q \in ChildPlugin
  /\ app = "closing" /\ awaits = Nobody
  /\ todo' = todo \ {p}
  /\ IF p \in inMemory \/ (p \in children /\ p \in alive)
     THEN /\ awaits' = p
          /\ asked' = asked \cup {p}
          /\ ticking' = IF p \in children THEN ticking \cup {<<"unload", p>>} ELSE ticking
          /\ UNCHANGED <<failed, children>>
     ELSE /\ failed' = TRUE
          /\ children' = children \ {p}
          /\ UNCHANGED <<awaits, asked, ticking>>
  /\ UNCHANGED <<app, shutdowns, called, inMemory, channels, listens, childVars, databases>>

\* _unloadInMemoryPlugin: an error is published and goes no further.
InMemoryUnloaded ==
  /\ app = "closing" /\ awaits \in inMemory
  /\ inMemory' = inMemory \ {awaits}
  /\ plugin' = [plugin EXCEPT ![awaits] = "ended"]
  /\ awaits' = Nobody
  /\ UNCHANGED <<app, shutdowns, called, todo, failed, children, channels, listens, alive, registering,
                 wire, asked, ticking, databases>>

\* (mutant) the timer is cleared when the process exits
UnloadTimeoutOfLive(p) ==
  /\ <<"unload", p>> \in ticking /\ p \in alive /\ app # "exited"
  /\ ticking' = ticking \ {<<"unload", p>>}
  /\ children' = children \ {p}
  /\ IF awaits = p THEN awaits' = Nobody /\ failed' = TRUE ELSE UNCHANGED <<awaits, failed>>
  /\ UNCHANGED <<app, shutdowns, called, todo, inMemory, channels, listens, childVars, asked, databases>>

\* The timer of _unloadChildProcessPlugin is never cleared.  While the entry
\* exists it sends SIGTERM, which the process ignores the first time; once
\* the entry is gone the callback throws, and the hook of uncaughtException
\* calls shutdown again.
UnloadTimeout(p) ==
  /\ <<"unload", p>> \in ticking /\ app # "exited"
  /\ ticking' = ticking \ {<<"unload", p>>}
  /\ children' = children \ {p}
  /\ IF p \in children
     THEN /\ IF awaits = p THEN awaits' = Nobody /\ failed' = TRUE ELSE UNCHANGED <<awaits, failed>>
          /\ UNCHANGED <<shutdowns, called>>
     ELSE /\ called < MaxShutdowns
          /\ shutdowns' = shutdowns + 1 /\ called' = called + 1
          /\ UNCHANGED <<awaits, failed>>
  /\ UNCHANGED <<app, todo, inMemory, channels, listens, childVars, asked, databases>>

\* The bus is stopped only if every plugin unloaded; the databases are
\* closed and the process exits either way, with its mutex, timers and
\* sockets.
CloseAndExit ==
  /\ app = "closing" /\ awaits = Nobody /\ todo = {}
  /\ app' = "exited" /\ databases' = FALSE
  /\ listens' = (listens /\ failed)
  /\ ticking' = {}
  /\ UNCHANGED <<shutdowns, called, todo, awaits, failed, bookVars, channels, childVars, asked>>

LifeNext ==
  \/ LoadNext \/ InMemoryLoaded \/ Ready
  \/ \E p \in ChildPlugin :
       \/ LoadTimeout(p) \/ ChildStarts(p) \/ ChildLoads(p) \/ ChildUnloads(p) \/ ChildExits(p)
       \/ ChildDies(p) \/ BusRegisters(p) \/ BusEvent(p) \/ UnloadTimeout(p)
  \/ CallShutdown \/ BeginShutdown \/ UnloadNext \/ InMemoryUnloaded \/ CloseAndExit

LifeSpec == LifeInit /\ [][LifeNext]_lifeVars

\* The controller's own steps run, timers fire, and an in-memory plugin's
\* load and unload return (nothing times them).  A plugin process may hang
\* in its load; its unload is assumed to return once it started.
LifeFairSpec ==
  /\ LifeSpec
  /\ WF_lifeVars(LoadNext) /\ WF_lifeVars(InMemoryLoaded) /\ WF_lifeVars(Ready)
  /\ WF_lifeVars(BeginShutdown) /\ WF_lifeVars(UnloadNext) /\ WF_lifeVars(InMemoryUnloaded)
  /\ WF_lifeVars(CloseAndExit)
  /\ \A p \in ChildPlugin :
       /\ WF_lifeVars(LoadTimeout(p)) /\ WF_lifeVars(UnloadTimeout(p))
       /\ WF_lifeVars(ChildUnloads(p)) /\ WF_lifeVars(ChildExits(p))

---------------------------------------------------------------------------
\* The databases are closed only after every plugin that is loaded was asked
\* to unload, those included that finished loading after run had given them
\* up (application.ts shutdown, controller.ts unloadPlugins).
ClosedAfterPlugins ==
  ~databases => \A p \in Plugin : plugin[p] = "loaded" => p \in asked

\* The application calls itself ready only when every plugin's channel is
\* on the bus and none is still loading or broken (application.ts run).
ReadyMeansLoaded ==
  app = "ready" =>
    \A p \in Plugin : p \in channels /\ plugin[p] \in {"loaded", "ended"}

\* run ends, also when a plugin process hangs, dies or loses its events.
RunEnds == app = "loading" ~> app # "loading"

\* A shutdown once called ends the process, whatever the plugins do in their
\* own processes and whoever else called shutdown.
ShutdownEnds == shutdowns > 0 ~> app = "exited"

\* No plugin process outlives the application, the ones included that never
\* finished loading or were given up by a timer (child_process_loader.ts
\* "if master process is disconnecting IPC then unload the plugin").
NoOrphans == app = "exited" ~> alive = {}

\* Ready means that all plugins are loaded, and the databases are closed after
\* the plugins.
LoadedInOrder == ClosedAfterPlugins /\ ReadyMeansLoaded
=============================================================================
