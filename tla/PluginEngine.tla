---------------------------- MODULE PluginEngine ----------------------------
(***************************************************************************)
(* The lifecycle core of plugin_engine/engine.py: the catalog of plugin    *)
(* records, the dynamic routes of the application, and the requests that   *)
(* work on them.                                                           *)
(*                                                                         *)
(* The engine lives on one asyncio event loop, so a request runs alone     *)
(* from one await to the next.  One action is such a stretch of code; the  *)
(* awaits are the values of pc: "run" (plugin_run), "done" (plugin_done),  *)
(* "init" (plugin_init), "postinit" (the endpoint _init calls, whose       *)
(* failures are swallowed, and plugin_postinit).  "scan" is a request that *)
(* holds the engine lock and is about to take up its next plugin file.     *)
(* Every await is bounded by asyncio.wait_for, so a call that hangs is a   *)
(* call that raises.                                                       *)
(*                                                                         *)
(* A request keeps the PluginRecord object it looked up at its start while *)
(* the catalog may come to hold another one: a record is an element of     *)
(* Records, and an element that nothing refers to any more can be reused.  *)
(* All versions of a plugin declare the same endpoints.                    *)
(***************************************************************************)
EXTENDS Naturals, FiniteSets

CONSTANTS
    Plugins,        \* plugin names, one file of the plugins directory each
    Endpoints,      \* the endpoints every manifest declares, possibly none
    Records,        \* identities of PluginRecord objects
    Callers,        \* requests that call a plugin's endpoints
    Admins,         \* requests to the management routes
    Nil,            \* no record, no endpoint, no lock holder
    RuntimeLimit,   \* manifest.runtime_failure_limit, after max(1, _)
    HealthLimit,    \* failed health checks that end a plugin: 3 in the code
    Operations,     \* the management operations the administrators issue
    FileOutcomes    \* what reading a plugin file can come to

AllOperations == {"rescan", "load", "reload", "unload", "health", "shutdown"}

Tasks == Callers \cup Admins

ASSUME EngineAssumption ==
    /\ Plugins # {}
    /\ RuntimeLimit \in Nat \ {0}
    /\ HealthLimit \in Nat \ {0}
    /\ Operations \subseteq AllOperations
    /\ FileOutcomes \subseteq {"ok", "incompatible", "invalid"}
    /\ Nil \notin Records \cup Endpoints \cup Tasks

VARIABLES
    record,     \* Records -> the fields of the PluginRecord object
    catalog,    \* self.records: Plugins -> Records \cup {Nil}
    routed,     \* the plugins whose routes are in app.router.routes
    task,       \* Tasks -> the request each one is working on
    lock,       \* holder of self._lock
    opened,     \* records whose plugin_init has returned with no plugin_done
                \* called since: the plugin's own view of its lifecycle
    serving     \* FALSE once the application is shutting down

vars == <<record, catalog, routed, task, lock, opened, serving>>

-----------------------------------------------------------------------------
(* Types.  Counters are kept up to the limit they are compared with: a     *)
(* larger count behaves like the limit.                                    *)

PluginState == {"discovered", "incompatible", "loading", "running", "error",
                "unavailable", "stopped"}

PluginRecord ==
    [name : Plugins, state : PluginState, available : BOOLEAN,
     module : BOOLEAN, registered : BOOLEAN, lifecycle : BOOLEAN,
     health : 0..HealthLimit, failures : [Endpoints -> 0..RuntimeLimit],
     blocked : SUBSET Endpoints]

Request ==
    [op : AllOperations \cup {"none", "call"},
     pc : {"idle", "scan", "run", "done", "init", "postinit"},
     rec : Records \cup {Nil},          \* the record it captured
     ep : Endpoints \cup {Nil},         \* the endpoint of a call
     recover : BOOLEAN,                 \* was_unavailable of a health check
     todo : SUBSET Plugins,             \* plugins it has still to take up
     file : FileOutcomes \cup {"none"}] \* the file imported before an unload

TypeOK ==
    /\ record \in [Records -> PluginRecord]
    /\ catalog \in [Plugins -> Records \cup {Nil}]
    /\ routed \subseteq Plugins
    /\ task \in [Tasks -> Request]
    /\ lock \in Tasks \cup {Nil}
    /\ opened \subseteq Records
    /\ serving \in BOOLEAN

-----------------------------------------------------------------------------
(* What the engine does to one record.                                     *)

NewRecord(n) ==
    [name |-> n, state |-> "discovered", available |-> FALSE, module |-> TRUE,
     registered |-> FALSE, lifecycle |-> FALSE, health |-> 0,
     failures |-> [e \in Endpoints |-> 0], blocked |-> {}]

Registered(x) == [x EXCEPT !.registered = (Endpoints # {})]

Loading(n) == [Registered(NewRecord(n)) EXCEPT !.state = "loading"]

\* A file that is not activated: a manifest for another PromptMan version, or
\* (on a rescan) a file whose signature, import or manifest raised.
NotActivated(n, file) ==
    IF file = "incompatible"
    THEN [NewRecord(n) EXCEPT !.state = "incompatible"]
    ELSE [NewRecord(n) EXCEPT !.state = "error", !.module = FALSE]

Running(x) == [x EXCEPT !.available = TRUE, !.state = "running"]

ActivationFailed(x) ==
    [x EXCEPT !.available = FALSE, !.state = "error", !.lifecycle = FALSE,
              !.registered = FALSE]

StoppedUnderAnotherName(x) ==
    [x EXCEPT !.registered = FALSE, !.lifecycle = FALSE,
              !.available = FALSE, !.state = "unloaded"]
StoppedStillActive(x) ==
    [x EXCEPT !.registered = FALSE, !.available = FALSE, !.state = "stopped"]
Stopped(x) ==
    [x EXCEPT !.registered = FALSE, !.lifecycle = FALSE,
              !.available = FALSE, !.state = "stopped"]

UnavailableButOffered(x) ==
    [x EXCEPT !.registered = FALSE, !.lifecycle = FALSE, !.state = "unavailable"]
Unavailable(x) ==
    [x EXCEPT !.registered = FALSE, !.lifecycle = FALSE,
              !.available = FALSE, !.state = "unavailable"]

CallFailed(x, e) ==
    IF x.failures[e] + 1 >= RuntimeLimit
    THEN [x EXCEPT !.failures[e] = RuntimeLimit, !.blocked = @ \cup {e}]
    ELSE [x EXCEPT !.failures[e] = @ + 1]

CallSucceeded(x, e) == [x EXCEPT !.failures[e] = 0, !.blocked = @ \ {e}]

HealthFailed(x) ==
    [x EXCEPT !.health = IF @ + 1 >= HealthLimit THEN HealthLimit ELSE @ + 1]

HealthPassed(x) ==
    IF x.state \in {"unavailable", "stopped"}
    THEN [x EXCEPT !.health = 0]
    ELSE [Running(x) EXCEPT !.health = 0]

-----------------------------------------------------------------------------
(* Routes, the catalog and the requests.                                   *)

Routes(n) == IF Endpoints = {} THEN {} ELSE {n}

\* _unregister_plugin_routes: by name, and only if the record thinks it has any.
UnroutedByName(r) == routed \ {record[r].name}
Unrouted(r) == IF record[r].registered THEN routed \ {record[r].name} ELSE routed

NeedsDone(r) == record[r].lifecycle /\ record[r].module

Idle == [op |-> "none", pc |-> "idle", rec |-> Nil, ep |-> Nil,
         recover |-> FALSE, todo |-> {}, file |-> "none"]

IsIdle(t) == task[t].pc = "idle"
Captured(t) == record[task[t].rec]

Finish(t) == task' = [task EXCEPT ![t] = Idle]

Await(t, pc) == task' = [task EXCEPT ![t].pc = pc]

Fresh == Records \ ({catalog[n] : n \in Plugins} \cup {task[t].rec : t \in Tasks})

ReleaseForgotten(t) == UNCHANGED lock
Release(t) == lock' = IF lock = t THEN Nil ELSE lock

\* A request for several plugins goes on to the next one or ends.
Proceed(t, todo) ==
    IF todo = {}
    THEN Finish(t) /\ Release(t)
    ELSE /\ task' = [task EXCEPT ![t].pc = "scan", ![t].rec = Nil,
                                 ![t].todo = todo, ![t].file = "none"]
         /\ UNCHANGED lock

-----------------------------------------------------------------------------
(* Calls of a plugin's endpoints: execute_plugin_endpoint.  A call need not *)
(* find the plugin's routes: the handler of a route first awaits the body  *)
(* of the request, and the calls of modal sessions use no plugin route.    *)

StartCall(t, n, e) ==
    /\ catalog[n] # Nil
    /\ record[catalog[n]].available
    /\ record[catalog[n]].state \in {"running", "unavailable"}
    /\ serving /\ IsIdle(t)
    /\ task' = [task EXCEPT ![t] =
                    [Idle EXCEPT !.op = "call", !.pc = "run",
                                 !.rec = catalog[n], !.ep = e]]
    /\ UNCHANGED <<record, catalog, routed, lock, opened, serving>>

CallReturns(t) ==
    /\ task[t].op = "call" /\ task[t].pc = "run"
    /\ record' = [record EXCEPT ![task[t].rec] = CallSucceeded(@, task[t].ep)]
    /\ Finish(t)
    /\ UNCHANGED <<catalog, routed, lock, opened, serving>>

\* _deactivate_record(record, reason) as far as its await of plugin_done, for
\* a record whose counters have become x.
Deactivate(t, x) ==
    LET r == task[t].rec
    IN  /\ IF x.lifecycle /\ x.module
           THEN /\ record' = [record EXCEPT ![r] = x]
                /\ Await(t, "done")
                /\ opened' = opened \ {r}
                /\ UNCHANGED routed
           ELSE /\ record' = [record EXCEPT ![r] = Unavailable(x)]
                /\ routed' = Unrouted(r)
                /\ Finish(t)
                /\ UNCHANGED opened
        /\ UNCHANGED <<catalog, lock, serving>>

\* plugin_run raised or timed out.
CallRaisesUnnoticed(t) ==
    /\ task[t].op = "call" /\ task[t].pc = "run"
    /\ record' = [record EXCEPT ![task[t].rec] = CallFailed(@, task[t].ep)]
    /\ Finish(t)
    /\ UNCHANGED <<catalog, routed, lock, opened, serving>>
CallRaises(t) ==
    /\ task[t].op = "call" /\ task[t].pc = "run"
    /\ LET x == CallFailed(Captured(t), task[t].ep)
       IN  IF task[t].ep \in x.blocked
           THEN Deactivate(t, x)
           ELSE /\ record' = [record EXCEPT ![task[t].rec] = x]
                /\ Finish(t)
                /\ UNCHANGED <<catalog, routed, lock, opened, serving>>

-----------------------------------------------------------------------------
(* Health checks: run_health_check.  They hold no lock.                    *)

StartHealth(t, n) ==
    /\ "health" \in Operations
    /\ catalog[n] # Nil /\ record[catalog[n]].module
    /\ serving /\ IsIdle(t)
    /\ LET x == record[catalog[n]]
       IN  task' = [task EXCEPT ![t] =
                [Idle EXCEPT !.op = "health", !.pc = "run", !.rec = catalog[n],
                    !.recover = x.state = "unavailable" \/ ~x.available
                                                       \/ ~x.registered]]
    /\ UNCHANGED <<record, catalog, routed, lock, opened, serving>>

\* A record without a module fails the check before the first await.  Its
\* lifecycle is never active, so neither does its deactivation await.
HealthWithoutModule(t, n) ==
    /\ "health" \in Operations
    /\ catalog[n] # Nil /\ ~record[catalog[n]].module
    /\ serving /\ IsIdle(t)
    /\ LET x == HealthFailed(record[catalog[n]])
       IN  record' = [record EXCEPT ![catalog[n]] =
                            IF x.health = HealthLimit THEN Unavailable(x) ELSE x]
    /\ UNCHANGED <<catalog, routed, task, lock, opened, serving>>

HealthReturns(t) ==
    /\ task[t].op = "health" /\ task[t].pc = "run"
    /\ LET r == task[t].rec
           x == HealthPassed(record[r])
       IN  IF ~task[t].recover
           THEN /\ record' = [record EXCEPT ![r] = x]
                /\ Finish(t)
                /\ UNCHANGED routed
           ELSE /\ routed' = IF x.registered THEN routed
                                             ELSE routed \cup Routes(x.name)
                /\ IF x.lifecycle
                   THEN /\ record' = [record EXCEPT ![r] = Running(Registered(x))]
                        /\ Finish(t)
                   ELSE /\ record' = [record EXCEPT ![r] = Registered(x)]
                        /\ Await(t, "init")
    /\ UNCHANGED <<catalog, lock, opened, serving>>

HealthRaises(t) ==
    /\ task[t].op = "health" /\ task[t].pc = "run"
    /\ LET x == HealthFailed(Captured(t))
       IN  IF x.health = HealthLimit
           THEN Deactivate(t, x)
           ELSE /\ record' = [record EXCEPT ![task[t].rec] = x]
                /\ Finish(t)
                /\ UNCHANGED <<catalog, routed, lock, opened, serving>>

-----------------------------------------------------------------------------
(* Loading: rescan, load_plugin, reload_plugin hold the lock throughout.   *)

StartLocked(t, op, todo) ==
    /\ op \in Operations
    /\ lock = Nil /\ lock' = t
    /\ serving /\ IsIdle(t)
    /\ task' = [task EXCEPT ![t] = [Idle EXCEPT !.op = op, !.pc = "scan", !.todo = todo]]
    /\ UNCHANGED <<record, catalog, routed, opened, serving>>

StartRescan(t) == StartLocked(t, "rescan", Plugins)
StartLoad(t, n) == catalog[n] # Nil /\ StartLocked(t, "load", {n})
StartReload(t, n) == catalog[n] # Nil /\ StartLocked(t, "reload", {n})

\* A new record for plugin n, from a file read as `file`, in a state whose
\* records and routes are recs and rts: replaced in the catalog and, for a
\* good file, registered and waiting for its plugin_init.
Install(t, n, file, recs, rts) ==
    \E r \in Fresh :
        /\ catalog' = [catalog EXCEPT ![n] = r]
        /\ opened' = opened \ {r}
        /\ IF file = "ok"
           THEN /\ record' = [recs EXCEPT ![r] = Loading(n)]
                /\ routed' = rts \cup Routes(n)
                /\ task' = [task EXCEPT ![t].pc = "init", ![t].rec = r,
                                        ![t].todo = @ \ {n}, ![t].file = "none"]
                /\ UNCHANGED lock
           ELSE /\ record' = [recs EXCEPT ![r] = NotActivated(n, file)]
                /\ routed' = rts
                /\ Proceed(t, task[t].todo \ {n})
        /\ UNCHANGED serving

\* The file raises: rescan records the failure under the plugin's name and
\* goes on, load and reload raise.
RejectFile(t, n, recs, rts) ==
    IF task[t].op = "rescan"
    THEN Install(t, n, "invalid", recs, rts)
    ELSE /\ record' = recs /\ routed' = rts
         /\ Finish(t) /\ Release(t)
         /\ UNCHANGED <<catalog, opened, serving>>

AwaitDone(t, r, file) ==
    /\ task' = [task EXCEPT ![t].pc = "done", ![t].rec = r, ![t].file = file]
    /\ opened' = opened \ {r}
    /\ UNCHANGED <<record, catalog, routed, lock, serving>>

\* _discover_or_load_path for a rescan or a load: an existing record is
\* unloaded first if it has routes.
LoadFile(t, n, file) ==
    /\ task[t].pc = "scan" /\ task[t].op \in {"rescan", "load"}
    /\ n \in task[t].todo
    /\ LET old == catalog[n]
       IN  CASE file = "invalid" -> RejectFile(t, n, record, routed)
             [] file # "invalid" /\ (old = Nil \/ ~record[old].registered) ->
                    Install(t, n, file, record, routed)
             [] file # "invalid" /\ old # Nil /\ record[old].registered ->
                    IF NeedsDone(old)
                    THEN AwaitDone(t, old, file)
                    ELSE Install(t, n, file,
                                 [record EXCEPT ![old] = Stopped(@)], Unrouted(old))

\* reload_plugin: unload whatever the catalog holds, then read the file.
InstallOrReject(t, n, recs, rts) ==
    \E file \in FileOutcomes :
        IF file = "invalid" THEN RejectFile(t, n, recs, rts)
                            ELSE Install(t, n, file, recs, rts)

ReloadFile(t, n) ==
    /\ task[t].pc = "scan" /\ task[t].op = "reload"
    /\ n \in task[t].todo
    /\ LET old == catalog[n]
       IN  IF NeedsDone(old)
           THEN AwaitDone(t, old, "none")
           ELSE InstallOrReject(t, n, [record EXCEPT ![old] = Stopped(@)], Unrouted(old))

-----------------------------------------------------------------------------
(* Startup of a record, by a load (_activate_record) or by the recovery of *)
(* a health check (_restore_record_after_health): _run_record_startup.     *)

InitReturns(t) ==
    /\ task[t].pc = "init"
    /\ record' = [record EXCEPT ![task[t].rec].lifecycle = TRUE]
    /\ opened' = opened \cup {task[t].rec}
    /\ Await(t, "postinit")
    /\ UNCHANGED <<catalog, routed, lock, serving>>

PostinitReturns(t) ==
    /\ task[t].pc = "postinit"
    /\ record' = [record EXCEPT ![task[t].rec] = Running(@)]
    /\ Proceed(t, task[t].todo)
    /\ UNCHANGED <<catalog, routed, opened, serving>>

\* plugin_init or plugin_postinit raised.  A failed recovery leaves the record
\* as it is.
StartupRaises(t) ==
    /\ task[t].pc \in {"init", "postinit"}
    /\ IF task[t].op = "health"
       THEN Finish(t) /\ UNCHANGED <<record, routed, lock>>
       ELSE /\ record' = [record EXCEPT ![task[t].rec] = ActivationFailed(@)]
            /\ routed' = Unrouted(task[t].rec)
            /\ Proceed(t, task[t].todo)
    /\ UNCHANGED <<catalog, opened, serving>>

-----------------------------------------------------------------------------
(* Unloading: unload_plugin, without the lock, and shutdown.               *)

StartUnload(t, n) ==
    /\ "unload" \in Operations
    /\ catalog[n] # Nil
    /\ serving /\ IsIdle(t)
    /\ LET r == catalog[n]
       IN  IF NeedsDone(r)
           THEN /\ task' = [task EXCEPT ![t] =
                        [Idle EXCEPT !.op = "unload", !.pc = "done", !.rec = r]]
                /\ opened' = opened \ {r}
                /\ UNCHANGED <<record, routed>>
           ELSE /\ record' = [record EXCEPT ![r] = Stopped(@)]
                /\ routed' = Unrouted(r)
                /\ UNCHANGED <<task, opened>>
    /\ UNCHANGED <<catalog, lock, serving>>

\* The server has let its requests end before the lifespan shuts down.
StartShutdown(t) ==
    /\ "shutdown" \in Operations
    /\ serving /\ \A u \in Tasks : IsIdle(u)
    /\ serving' = FALSE
    /\ LET names == {n \in Plugins : catalog[n] # Nil}
       IN  task' = [task EXCEPT ![t] =
                IF names = {} THEN Idle
                ELSE [Idle EXCEPT !.op = "shutdown", !.pc = "scan", !.todo = names]]
    /\ UNCHANGED <<record, catalog, routed, lock, opened>>

ShutdownPlugin(t, n) ==
    /\ task[t].pc = "scan" /\ task[t].op = "shutdown"
    /\ n \in task[t].todo
    /\ LET r == catalog[n]
       IN  IF NeedsDone(r)
           THEN AwaitDone(t, r, "none")
           ELSE /\ record' = [record EXCEPT ![r] = Stopped(@)]
                /\ routed' = Unrouted(r)
                /\ Proceed(t, task[t].todo \ {n})
                /\ UNCHANGED <<catalog, opened, serving>>

\* plugin_done has returned, raised or timed out: all the same to the engine.
DoneReturns(t) ==
    /\ task[t].pc = "done"
    /\ LET r == task[t].rec
           n == record[r].name
           stopped == [record EXCEPT ![r] = Stopped(@)]
       IN  CASE task[t].op \in {"call", "health"} ->
                    /\ record' = [record EXCEPT ![r] = Unavailable(@)]
                    /\ routed' = Unrouted(r)
                    /\ Finish(t)
                    /\ UNCHANGED <<catalog, lock, opened, serving>>
             [] task[t].op \in {"unload", "shutdown"} ->
                    /\ record' = stopped
                    /\ routed' = Unrouted(r)
                    /\ Proceed(t, task[t].todo \ {n})
                    /\ UNCHANGED <<catalog, opened, serving>>
             [] task[t].op \in {"rescan", "load"} ->
                    Install(t, n, task[t].file, stopped, Unrouted(r))
             [] task[t].op = "reload" ->
                    InstallOrReject(t, n, stopped, Unrouted(r))

Restart ==
    /\ ~serving /\ \A t \in Tasks : IsIdle(t)
    /\ record' = [r \in Records |-> NewRecord(CHOOSE n \in Plugins : TRUE)]
    /\ catalog' = [n \in Plugins |-> Nil]
    /\ routed' = {} /\ opened' = {} /\ serving' = TRUE
    /\ UNCHANGED <<task, lock>>

-----------------------------------------------------------------------------
Init ==
    /\ record = [r \in Records |-> NewRecord(CHOOSE n \in Plugins : TRUE)]
    /\ catalog = [n \in Plugins |-> Nil]
    /\ routed = {}
    /\ task = [t \in Tasks |-> Idle]
    /\ lock = Nil
    /\ opened = {}
    /\ serving = TRUE

\* What happens to a request that has been accepted.
Step(t) ==
    \/ CallReturns(t)
    \/ CallRaises(t)
    \/ HealthReturns(t)
    \/ HealthRaises(t)
    \/ \E n \in Plugins, file \in FileOutcomes : LoadFile(t, n, file)
    \/ \E n \in Plugins : ReloadFile(t, n)
    \/ \E n \in Plugins : ShutdownPlugin(t, n)
    \/ InitReturns(t)
    \/ PostinitReturns(t)
    \/ StartupRaises(t)
    \/ DoneReturns(t)

\* Requests that arrive.
Arrive ==
    \/ \E t \in Callers, n \in Plugins, e \in Endpoints : StartCall(t, n, e)
    \/ \E t \in Admins :
        \/ StartRescan(t)
        \/ StartShutdown(t)
        \/ \E n \in Plugins : \/ StartLoad(t, n)
                              \/ StartReload(t, n)
                              \/ StartUnload(t, n)
                              \/ StartHealth(t, n)
                              \/ HealthWithoutModule(t, n)

Next == Restart \/ Arrive \/ \E t \in Tasks : Step(t)

Spec == Init /\ [][Next]_vars

\* Every await ends (asyncio.wait_for); nothing makes requests arrive.
FairSpec == Spec /\ \A t \in Tasks : WF_vars(Step(t))

-----------------------------------------------------------------------------
(* Properties.                                                             *)

\* Whatever requests overlap, a plugin is offered (to the catalog, to callers
\* and to hooks) exactly while its state says that it runs: no interleaving of
\* loads, unloads, health checks and failing calls leaves one of the two flags
\* behind.  The "unavailable" alternative of execute_plugin_endpoint's guard
\* is therefore never taken.
RunningIffAvailable ==
    \A r \in Records : record[r].available <=> record[r].state = "running"

\* The engine never takes a plugin for active that it has shut down: a record
\* with lifecycle_active has a plugin between its plugin_init and its
\* plugin_done, or some request is still awaiting that plugin_done.
ActiveIsOpen ==
    \A r \in Records :
        record[r].lifecycle =>
            \/ r \in opened
            \/ \E t \in Tasks : task[t].pc = "done" /\ task[t].rec = r

\* The application's routes of a plugin are those that the record in the
\* catalog believes it has registered, and a replaced record has none: so
\* unregistering by route name never hits a successor's routes.  It needs
\* management requests that come one at a time, and no rescan of a plugin file
\* that has turned unreadable: see the hazards in README.md.
RoutesMatchCatalog ==
    /\ \A n \in Plugins :
         n \in routed <=> catalog[n] # Nil /\ record[catalog[n]].registered
    /\ \A r \in Records \ {catalog[n] : n \in Plugins} : ~record[r].registered

\* A plugin that is offered has been initialised and has its routes, as long as
\* nobody runs health checks: a check that passes during a load publishes the
\* record before its plugin_init has returned.
AvailableIsServed ==
    \A r \in Records :
        record[r].available =>
            record[r].lifecycle /\ (Endpoints # {} => record[r].registered)

\* An endpoint that has used up its failures takes its plugin down: while the
\* plugin is still offered, a request is on its way to deactivate or unload it
\* (again without health checks, which publish a record that cannot be called
\* off yet).
BlockedGoesDown ==
    \A r \in Records :
        record[r].blocked # {} /\ record[r].available =>
            \E t \in Tasks : task[t].pc = "done" /\ task[t].rec = r

\* A call that was let in before its plugin was reloaded and that ends after
\* changes neither the new record nor the routes.
SupersededCallsAreInert ==
    [][ \A t \in Callers :
            LET r == task[t].rec
            IN  r # Nil /\ task'[t] # task[t] /\ catalog[record[r].name] # r =>
                    /\ routed' = routed
                    /\ \A n \in Plugins :
                         catalog[n] # Nil => record'[catalog[n]] = record[catalog[n]]
      ]_vars

\* The engine lock is always given back, whatever the plugins and their files
\* do during a load.
LockIsReleased == \A t \in Tasks : lock = t ~> lock # t

\* An endpoint at its failure limit is, in the end, off line with its plugin or
\* working again: no interleaving loses the deactivation.
BlockedIsResolved ==
    \A r \in Records :
        record[r].available /\ record[r].blocked # {} ~>
            ~record[r].available \/ record[r].blocked = {}

-----------------------------------------------------------------------------
(* Statements of the documentation and the tests.                          *)

\* plugins/README.md:146: of a plugin deactivated for its failures, the
\* "dynamic routes are removed until the plugin is loaded or reloaded again".
RoutesReturnOnlyByLoad ==
    [][ \A n \in Plugins :
            /\ n \in routed' \ routed
            /\ catalog[n] # Nil /\ record[catalog[n]].state = "unavailable"
            => lock # Nil ]_vars

\* plugins/README.md:29-33: plugin_done is what ends a lifecycle; an instance
\* gets one plugin_done for its plugin_init, also when two requests find
\* reason to end it (test_plugin_system.py:464-471).
OneDonePerLifecycle ==
    \A t, u \in Tasks :
        task[t].pc = "done" /\ task[u].pc = "done" /\ task[t].rec = task[u].rec
            => t = u

\* plugins/README.md:29-31: "On unload or shutdown PromptMan runs: plugin_done".
ShutdownClosesEveryPlugin ==
    ~serving /\ (\A t \in Tasks : IsIdle(t)) => opened = {}

=============================================================================
