------------------------- MODULE PluginEngineProofs -------------------------
(***************************************************************************)
(* Theorems of PluginEngine, for every number of plugins, endpoints,       *)
(* records and requests, every failure limit and every set of operations.  *)
(***************************************************************************)
EXTENDS PluginEngine, TLAPS

\* What each operation on a record must keep: its type and the agreement of
\* its two flags.
Sound(x) == x \in PluginRecord /\ (x.available <=> x.state = "running")

\* A record as it is created, whatever its file was like.
LEMMA NewRecordsAreSound ==
    ASSUME NEW n \in Plugins, NEW file
    PROVE  Sound(NewRecord(n)) /\ Sound(Loading(n)) /\ Sound(NotActivated(n, file))
<1>1. 0 \in 0..RuntimeLimit /\ 0 \in 0..HealthLimit
    BY EngineAssumption
<1>2. Sound(NewRecord(n))
    BY <1>1 DEF Sound, NewRecord, PluginRecord, PluginState
<1>3. Sound(Loading(n))
    BY <1>2 DEF Sound, NewRecord, Loading, Registered, PluginRecord, PluginState
<1>4. Sound(NotActivated(n, file))
    BY <1>2 DEF Sound, NewRecord, NotActivated, PluginRecord, PluginState
<1>5. QED BY <1>2, <1>3, <1>4

\* Every change the engine makes to a record in service sets the availability
\* and the state together.
LEMMA ChangesAreSound ==
    ASSUME NEW x, Sound(x)
    PROVE  /\ Sound(Registered(x)) /\ Sound(Running(x))
           /\ Sound(ActivationFailed(x)) /\ Sound(Stopped(x))
           /\ Sound(Unavailable(x))
           /\ Sound([x EXCEPT !.lifecycle = TRUE])
BY DEF Sound, Registered, Running, ActivationFailed, Stopped, Unavailable,
       PluginRecord, PluginState

\* The counters stay below their limits.
LEMMA CountersAreSound ==
    ASSUME NEW x, Sound(x)
    PROVE  /\ Sound(HealthFailed(x)) /\ Sound(HealthPassed(x))
           /\ \A e \in Endpoints : Sound(CallFailed(x, e)) /\ Sound(CallSucceeded(x, e))
<1>1. Sound(HealthFailed(x))
    <2>1. x.health \in 0..HealthLimit /\ x \in PluginRecord
        BY DEF Sound, PluginRecord
    <2>2. (IF x.health + 1 >= HealthLimit THEN HealthLimit ELSE x.health + 1)
                \in 0..HealthLimit
        BY <2>1, EngineAssumption
    <2>3. QED BY <2>1, <2>2 DEF Sound, HealthFailed, PluginRecord, PluginState
<1>2. Sound(HealthPassed(x))
    <2>1. 0 \in 0..HealthLimit BY EngineAssumption
    <2>2. QED BY <2>1 DEF Sound, HealthPassed, Running, PluginRecord, PluginState
<1>3. ASSUME NEW e \in Endpoints
      PROVE  Sound(CallFailed(x, e)) /\ Sound(CallSucceeded(x, e))
    <2>1. x \in PluginRecord /\ x.failures \in [Endpoints -> 0..RuntimeLimit]
        BY DEF Sound, PluginRecord
    <2>2. 0 \in 0..RuntimeLimit /\ RuntimeLimit \in 0..RuntimeLimit
        BY EngineAssumption
    <2>3. ~(x.failures[e] + 1 >= RuntimeLimit) => x.failures[e] + 1 \in 0..RuntimeLimit
        BY <2>1, EngineAssumption
    <2>4. Sound(CallFailed(x, e))
        BY <2>1, <2>2, <2>3 DEF Sound, CallFailed, PluginRecord, PluginState
    <2>5. Sound(CallSucceeded(x, e))
        BY <2>1, <2>2 DEF Sound, CallSucceeded, PluginRecord, PluginState
    <2>6. QED BY <2>4, <2>5
<1>4. QED BY <1>1, <1>2, <1>3

-----------------------------------------------------------------------------
(* The inductive invariant.  Beyond the types it says what a request in    *)
(* flight has in hand: the record it captured, the endpoint it calls and,  *)
(* if it must unload a plugin, a record of that plugin in the catalog.     *)

AllSound(recs) == recs \in [Records -> PluginRecord] /\ \A r \in Records : Sound(recs[r])

RequestOK(x, cat) ==
    /\ x \in Request
    /\ x.pc \in {"run", "done", "init", "postinit"} => x.rec \in Records
    /\ x.op = "call" => x.ep \in Endpoints
    /\ x.pc # "idle" => x.op # "none"
    /\ x.pc = "idle" => x = Idle
    /\ x.op \in {"reload", "shutdown"} => \A n \in x.todo : cat[n] # Nil

RequestsOK(requests, cat) ==
    requests \in [Tasks -> Request] /\ \A t \in Tasks : RequestOK(requests[t], cat)

RestOK ==
    /\ routed \subseteq Plugins
    /\ lock \in Tasks \cup {Nil}
    /\ opened \subseteq Records
    /\ serving \in BOOLEAN

IInv ==
    /\ AllSound(record)
    /\ catalog \in [Plugins -> Records \cup {Nil}]
    /\ RequestsOK(task, catalog)
    /\ RestOK

LEMMA SetRecord ==
    ASSUME NEW recs, AllSound(recs), NEW r, NEW x, r \in Records => Sound(x)
    PROVE  AllSound([recs EXCEPT ![r] = x])
BY DEF AllSound, Sound

LEMMA SetRequest ==
    ASSUME NEW requests, NEW cat, RequestsOK(requests, cat),
           NEW t \in Tasks, NEW x, RequestOK(x, cat)
    PROVE  RequestsOK([requests EXCEPT ![t] = x], cat)
BY DEF RequestsOK, RequestOK

LEMMA IdleOK == \A cat : RequestOK(Idle, cat)
BY DEF RequestOK, Idle, Request, AllOperations

\* Ending a request, or going on with one, keeps the requests well formed.
LEMMA FinishOK ==
    ASSUME IInv, NEW t \in Tasks, Finish(t)
    PROVE  RequestsOK(task', catalog)
BY IdleOK, SetRequest DEF IInv, Finish

LEMMA AwaitOK ==
    ASSUME IInv, NEW t \in Tasks, NEW pc, Await(t, pc), pc \in {"done", "init", "postinit"},
           task[t].rec \in Records, task[t].op # "none"
    PROVE  RequestsOK(task', catalog)
<1> DEFINE x == [task[t] EXCEPT !.pc = pc]
<1>1. RequestOK(x, catalog)
    BY DEF IInv, RequestsOK, RequestOK, Request
<1>2. task' = [task EXCEPT ![t] = x]
    BY DEF Await
<1>3. QED BY <1>1, <1>2, SetRequest DEF IInv

LEMMA ProceedOK ==
    ASSUME IInv, NEW t \in Tasks, NEW todo, todo \subseteq task[t].todo,
           task[t].op # "none", Proceed(t, todo)
    PROVE  RequestsOK(task', catalog) /\ lock' \in Tasks \cup {Nil}
<1> DEFINE x == [task[t] EXCEPT !.pc = "scan", !.rec = Nil, !.todo = todo, !.file = "none"]
<1>1. RequestOK(x, catalog)
    BY DEF IInv, RequestsOK, RequestOK, Request
<1>2. CASE todo = {}
    BY <1>2, FinishOK DEF Proceed, Release, IInv, RestOK
<1>3. CASE todo # {}
    <2>1. task' = [task EXCEPT ![t] = x] /\ lock' = lock
        BY <1>3 DEF Proceed, IInv, RequestsOK, Request
    <2>2. QED BY <2>1, <1>1, SetRequest DEF IInv, RestOK
<1>4. QED BY <1>2, <1>3

LEMMA RoutesOK ==
    ASSUME IInv
    PROVE  /\ \A n \in Plugins : Routes(n) \subseteq Plugins
           /\ \A r : Unrouted(r) \subseteq Plugins
BY DEF IInv, RestOK, Routes, Unrouted

\* Replacing a record in the catalog.
LEMMA InstallOK ==
    ASSUME IInv, NEW t \in Tasks, NEW n \in Plugins, NEW file,
           NEW recs, AllSound(recs), NEW rts \in SUBSET Plugins,
           task[t].op # "none", Install(t, n, file, recs, rts)
    PROVE  IInv'
<1>1. PICK r \in Fresh :
        /\ catalog' = [catalog EXCEPT ![n] = r]
        /\ opened' = opened \ {r}
        /\ IF file = "ok"
           THEN /\ record' = [recs EXCEPT ![r] = Loading(n)]
                /\ routed' = rts \cup Routes(n)
                /\ task' = [task EXCEPT ![t].pc = "init", ![t].rec = r,
                                        ![t].todo = @ \ {n}, ![t].file = "none"]
                /\ UNCHANGED lock
           ELSE /\ record' = [recs EXCEPT ![r] = NotActivated(n, file)]
                /\ routed' = rts
                /\ Proceed(t, task[t].todo \ {n})
        /\ UNCHANGED serving
    BY DEF Install
<1>2. r \in Records
    BY DEF Fresh
<1>3. catalog' \in [Plugins -> Records \cup {Nil}]
    BY <1>1, <1>2 DEF IInv
<1>4. Nil \notin Records
    BY EngineAssumption
<1>5. \A x : RequestOK(x, catalog) => RequestOK(x, catalog')
    BY <1>1, <1>2, <1>4 DEF RequestOK, IInv, Request
<1>6. opened' \subseteq Records /\ serving' \in BOOLEAN
    BY <1>1 DEF IInv, RestOK
<1>7. CASE file = "ok"
    <2> DEFINE x == [task[t] EXCEPT !.pc = "init", !.rec = r, !.todo = @ \ {n}, !.file = "none"]
    <2>1. AllSound(record')
        <3>1. Sound(Loading(n)) BY NewRecordsAreSound
        <3>2. record' = [recs EXCEPT ![r] = Loading(n)] BY <1>1, <1>7
        <3>3. QED BY <3>1, <3>2, SetRecord
    <2>2. RequestOK(x, catalog)
        BY <1>2 DEF IInv, RequestsOK, RequestOK, Request
    <2>3. task' = [task EXCEPT ![t] = x]
        BY <1>1, <1>7 DEF IInv, RequestsOK, Request
    <2>4. RequestsOK(task', catalog)
        BY <2>2, <2>3, SetRequest DEF IInv
    <2>5. RequestsOK(task', catalog')
        BY <2>4, <1>5 DEF RequestsOK
    <2>6. routed' \subseteq Plugins /\ lock' \in Tasks \cup {Nil}
        BY <1>1, <1>7, RoutesOK DEF IInv, RestOK
    <2>7. QED BY <2>1, <2>5, <2>6, <1>3, <1>6 DEF IInv, RestOK
<1>8. CASE file # "ok"
    <2>1. AllSound(record')
        BY <1>1, <1>8, NewRecordsAreSound, SetRecord
    <2>2. RequestsOK(task', catalog) /\ lock' \in Tasks \cup {Nil}
        <3>1. Proceed(t, task[t].todo \ {n})
            BY <1>1, <1>8
        <3>2. QED BY <3>1, ProceedOK
    <2>3. RequestsOK(task', catalog')
        BY <2>2, <1>5 DEF RequestsOK
    <2>4. routed' \subseteq Plugins
        BY <1>1, <1>8
    <2>5. QED BY <2>1, <2>2, <2>3, <2>4, <1>3, <1>6 DEF IInv, RestOK
<1>9. QED BY <1>7, <1>8

LEMMA RejectFileOK ==
    ASSUME IInv, NEW t \in Tasks, NEW n \in Plugins,
           NEW recs, AllSound(recs), NEW rts \in SUBSET Plugins,
           task[t].op # "none", RejectFile(t, n, recs, rts)
    PROVE  IInv'
<1>1. CASE task[t].op = "rescan"
    BY <1>1, InstallOK DEF RejectFile
<1>2. CASE task[t].op # "rescan"
    <2>1. /\ record' = recs /\ routed' = rts /\ Finish(t)
          /\ lock' \in {lock, Nil}
          /\ UNCHANGED <<catalog, opened, serving>>
        BY <1>2 DEF RejectFile, Release
    <2>2. RequestsOK(task', catalog')
        BY <2>1, FinishOK
    <2>3. QED BY <2>1, <2>2 DEF IInv, RestOK
<1>3. QED BY <1>1, <1>2

LEMMA AwaitDoneOK ==
    ASSUME IInv, NEW t \in Tasks, NEW r \in Records, NEW file \in FileOutcomes \cup {"none"},
           task[t].op # "none", AwaitDone(t, r, file)
    PROVE  IInv'
<1> DEFINE x == [task[t] EXCEPT !.pc = "done", !.rec = r, !.file = file]
<1>1. RequestOK(x, catalog)
    BY DEF IInv, RequestsOK, RequestOK, Request
<1>2. task' = [task EXCEPT ![t] = x]
    BY DEF AwaitDone, IInv, RequestsOK, Request
<1>3. RequestsOK(task', catalog)
    BY <1>1, <1>2, SetRequest DEF IInv
<1>4. QED BY <1>3 DEF AwaitDone, IInv, RestOK

LEMMA InstallOrRejectOK ==
    ASSUME IInv, NEW t \in Tasks, NEW n \in Plugins,
           NEW recs, AllSound(recs), NEW rts \in SUBSET Plugins,
           task[t].op # "none", InstallOrReject(t, n, recs, rts)
    PROVE  IInv'
BY InstallOK, RejectFileOK DEF InstallOrReject

\* Taking a plugin down for its failures.
LEMMA DeactivateOK ==
    ASSUME IInv, NEW t \in Tasks, task[t].rec \in Records, task[t].op # "none",
           NEW x, Sound(x), Deactivate(t, x)
    PROVE  IInv'
<1>1. CASE x.lifecycle /\ x.module
    <2>1. /\ record' = [record EXCEPT ![task[t].rec] = x] /\ Await(t, "done")
          /\ opened' = opened \ {task[t].rec}
          /\ UNCHANGED <<routed, catalog, lock, serving>>
        BY <1>1 DEF Deactivate
    <2>2. RequestsOK(task', catalog')
        BY <2>1, AwaitOK
    <2>3. AllSound(record')
        BY <2>1, SetRecord DEF IInv
    <2>4. QED BY <2>1, <2>2, <2>3 DEF IInv, RestOK
<1>2. CASE ~(x.lifecycle /\ x.module)
    <2>1. /\ record' = [record EXCEPT ![task[t].rec] = Unavailable(x)]
          /\ routed' = Unrouted(task[t].rec) /\ Finish(t)
          /\ UNCHANGED <<opened, catalog, lock, serving>>
        BY <1>2 DEF Deactivate
    <2>2. RequestsOK(task', catalog')
        BY <2>1, FinishOK
    <2>3. AllSound(record')
        BY <2>1, SetRecord, ChangesAreSound DEF IInv
    <2>4. QED BY <2>1, <2>2, <2>3, RoutesOK DEF IInv, RestOK
<1>3. QED BY <1>1, <1>2

-----------------------------------------------------------------------------
(* Every step keeps the inductive invariant: arriving requests.            *)

LEMMA StartCallOK ==
    ASSUME IInv, NEW t \in Callers, NEW n \in Plugins, NEW e \in Endpoints,
           StartCall(t, n, e)
    PROVE  IInv'
<1> DEFINE x == [Idle EXCEPT !.op = "call", !.pc = "run", !.rec = catalog[n], !.ep = e]
<1>1. t \in Tasks /\ catalog[n] \in Records
    BY DEF StartCall, IInv, Tasks
<1>2. RequestOK(x, catalog)
    BY <1>1 DEF RequestOK, Idle, Request, AllOperations
<1>3. task' = [task EXCEPT ![t] = x] /\ UNCHANGED <<record, catalog, routed, lock, opened, serving>>
    BY DEF StartCall
<1>4. QED BY <1>1, <1>2, <1>3, SetRequest DEF IInv, RestOK

LEMMA StartHealthOK ==
    ASSUME IInv, NEW t \in Admins, NEW n \in Plugins, StartHealth(t, n)
    PROVE  IInv'
<1> DEFINE y == record[catalog[n]]
           b == y.state = "unavailable" \/ ~y.available \/ ~y.registered
           x == [Idle EXCEPT !.op = "health", !.pc = "run", !.rec = catalog[n],
                             !.recover = b]
<1>1. t \in Tasks /\ catalog[n] \in Records
    BY DEF StartHealth, IInv, Tasks
<1>2. RequestOK(x, catalog)
    BY <1>1 DEF RequestOK, Idle, Request, AllOperations
<1>3. task' = [task EXCEPT ![t] = x] /\ UNCHANGED <<record, catalog, routed, lock, opened, serving>>
    BY DEF StartHealth
<1>4. QED BY <1>1, <1>2, <1>3, SetRequest DEF IInv, RestOK

LEMMA HealthWithoutModuleOK ==
    ASSUME IInv, NEW t \in Admins, NEW n \in Plugins, HealthWithoutModule(t, n)
    PROVE  IInv'
<1> DEFINE y == HealthFailed(record[catalog[n]])
           x == IF y.health = HealthLimit THEN Unavailable(y) ELSE y
<1>1. catalog[n] \in Records
    BY DEF HealthWithoutModule, IInv
<1>2. Sound(y)
    BY <1>1, CountersAreSound DEF IInv, AllSound
<1>3. Sound(x)
    BY <1>2, ChangesAreSound
<1>4. record' = [record EXCEPT ![catalog[n]] = x] /\ UNCHANGED <<catalog, routed, task, lock, opened, serving>>
    BY DEF HealthWithoutModule
<1>5. QED BY <1>3, <1>4, SetRecord DEF IInv, RestOK

LEMMA StartLockedOK ==
    ASSUME IInv, NEW t \in Admins, NEW op, NEW todo \in SUBSET Plugins,
           op \in AllOperations, op # "shutdown",
           op = "reload" => \A n \in todo : catalog[n] # Nil,
           StartLocked(t, op, todo)
    PROVE  IInv'
<1> DEFINE x == [Idle EXCEPT !.op = op, !.pc = "scan", !.todo = todo]
<1>1. t \in Tasks
    BY DEF Tasks
<1>2. RequestOK(x, catalog)
    BY DEF RequestOK, Idle, Request, AllOperations
<1>3. task' = [task EXCEPT ![t] = x] /\ lock' = t /\ UNCHANGED <<record, catalog, routed, opened, serving>>
    BY DEF StartLocked
<1>4. QED BY <1>1, <1>2, <1>3, SetRequest DEF IInv, RestOK

LEMMA StartUnloadOK ==
    ASSUME IInv, NEW t \in Admins, NEW n \in Plugins, StartUnload(t, n)
    PROVE  IInv'
<1> DEFINE x == [Idle EXCEPT !.op = "unload", !.pc = "done", !.rec = catalog[n]]
<1>1. t \in Tasks /\ catalog[n] \in Records
    BY DEF StartUnload, IInv, Tasks
<1>2. RequestOK(x, catalog)
    BY <1>1 DEF RequestOK, Idle, Request, AllOperations
<1>3. CASE NeedsDone(catalog[n])
    <2>1. /\ task' = [task EXCEPT ![t] = x] /\ opened' = opened \ {catalog[n]}
          /\ UNCHANGED <<record, routed, catalog, lock, serving>>
        BY <1>3 DEF StartUnload
    <2>2. QED BY <2>1, <1>1, <1>2, SetRequest DEF IInv, RestOK
<1>4. CASE ~NeedsDone(catalog[n])
    <2>1. /\ record' = [record EXCEPT ![catalog[n]] = Stopped(record[catalog[n]])]
          /\ routed' = Unrouted(catalog[n])
          /\ UNCHANGED <<task, opened, catalog, lock, serving>>
        BY <1>4 DEF StartUnload
    <2>2. Sound(Stopped(record[catalog[n]]))
        BY <1>1, ChangesAreSound DEF IInv, AllSound
    <2>3. AllSound(record')
        BY <2>1, <2>2, SetRecord DEF IInv
    <2>4. QED BY <2>1, <2>3, RoutesOK DEF IInv, RestOK
<1>5. QED BY <1>3, <1>4

LEMMA StartShutdownOK ==
    ASSUME IInv, NEW t \in Admins, StartShutdown(t)
    PROVE  IInv'
<1> DEFINE names == {n \in Plugins : catalog[n] # Nil}
           x == IF names = {} THEN Idle
                ELSE [Idle EXCEPT !.op = "shutdown", !.pc = "scan", !.todo = names]
<1>1. t \in Tasks
    BY DEF Tasks
<1>2. RequestOK(x, catalog)
    BY IdleOK DEF RequestOK, Idle, Request, AllOperations
<1>3. /\ task' = [task EXCEPT ![t] = x] /\ serving' = FALSE
      /\ UNCHANGED <<record, catalog, routed, lock, opened>>
    BY DEF StartShutdown
<1>4. QED BY <1>1, <1>2, <1>3, SetRequest DEF IInv, RestOK

LEMMA ArriveOK == IInv /\ Arrive => IInv'
<1> SUFFICES ASSUME IInv, Arrive PROVE IInv'
    OBVIOUS
<1>1. CASE \E t \in Callers, n \in Plugins, e \in Endpoints : StartCall(t, n, e)
    BY <1>1, StartCallOK
<1>2. ASSUME NEW t \in Admins, StartRescan(t) PROVE IInv'
    BY <1>2, StartLockedOK DEF StartRescan, AllOperations
<1>3. ASSUME NEW t \in Admins, NEW n \in Plugins, StartLoad(t, n) \/ StartReload(t, n)
      PROVE  IInv'
    BY <1>3, StartLockedOK DEF StartLoad, StartReload, AllOperations
<1>4. QED
    BY <1>1, <1>2, <1>3, StartUnloadOK, StartHealthOK, HealthWithoutModuleOK,
       StartShutdownOK DEF Arrive

-----------------------------------------------------------------------------
(* Every step keeps the inductive invariant: requests in flight.           *)

LEMMA CallOK ==
    ASSUME IInv, NEW t \in Tasks, CallReturns(t) \/ CallRaises(t)
    PROVE  IInv'
<1> DEFINE r == task[t].rec
           e == task[t].ep
           failed == CallFailed(record[r], e)
<1>1. r \in Records /\ e \in Endpoints /\ task[t].op # "none"
    BY DEF CallReturns, CallRaises, IInv, RequestsOK, RequestOK
<1>2. Sound(failed) /\ Sound(CallSucceeded(record[r], e))
    BY <1>1, CountersAreSound DEF IInv, AllSound
<1>3. CASE CallReturns(t)
    <2>1. /\ record' = [record EXCEPT ![r] = CallSucceeded(record[r], e)] /\ Finish(t)
          /\ UNCHANGED <<catalog, routed, lock, opened, serving>>
        BY <1>3 DEF CallReturns
    <2>2. AllSound(record')
        BY <2>1, <1>2, SetRecord DEF IInv
    <2>3. RequestsOK(task', catalog')
        BY <2>1, FinishOK
    <2>4. QED BY <2>1, <2>2, <2>3 DEF IInv, RestOK
<1>4. CASE CallRaises(t) /\ e \in failed.blocked
    <2>1. Deactivate(t, failed)
        BY <1>4 DEF CallRaises, Captured
    <2>2. QED BY <2>1, <1>1, <1>2, DeactivateOK
<1>5. CASE CallRaises(t) /\ e \notin failed.blocked
    <2>1. /\ record' = [record EXCEPT ![r] = failed] /\ Finish(t)
          /\ UNCHANGED <<catalog, routed, lock, opened, serving>>
        BY <1>5 DEF CallRaises, Captured
    <2>2. AllSound(record')
        BY <2>1, <1>2, SetRecord DEF IInv
    <2>3. RequestsOK(task', catalog')
        BY <2>1, FinishOK
    <2>4. QED BY <2>1, <2>2, <2>3 DEF IInv, RestOK
<1>6. QED BY <1>3, <1>4, <1>5

LEMMA HealthReturnsOK ==
    ASSUME IInv, NEW t \in Tasks, HealthReturns(t)
    PROVE  IInv'
<1> DEFINE r == task[t].rec
           x == HealthPassed(record[r])
<1>1. r \in Records /\ task[t].op # "none"
    BY DEF HealthReturns, IInv, RequestsOK, RequestOK
<1>2. Sound(x)
    BY <1>1, CountersAreSound DEF IInv, AllSound
<1>3. Sound(Registered(x))
    BY <1>2, ChangesAreSound
<1>4. Sound(Running(Registered(x)))
    BY <1>3, ChangesAreSound
<1>5. x.name \in Plugins
    BY <1>2 DEF Sound, PluginRecord
<1>6. /\ UNCHANGED <<catalog, lock, opened, serving>>
      /\ routed' \in {routed, routed \cup Routes(x.name)}
      /\ \/ record' = [record EXCEPT ![r] = x]
         \/ record' = [record EXCEPT ![r] = Registered(x)]
         \/ record' = [record EXCEPT ![r] = Running(Registered(x))]
      /\ Finish(t) \/ Await(t, "init")
    BY DEF HealthReturns
<1>7. AllSound(record')
    <2>1. AllSound([record EXCEPT ![r] = x])
        BY <1>2, SetRecord DEF IInv
    <2>2. AllSound([record EXCEPT ![r] = Registered(x)])
        BY <1>3, SetRecord DEF IInv
    <2>3. AllSound([record EXCEPT ![r] = Running(Registered(x))])
        BY <1>4, SetRecord DEF IInv
    <2>4. QED BY <1>6, <2>1, <2>2, <2>3
<1>8. RequestsOK(task', catalog')
    BY <1>1, <1>6, FinishOK, AwaitOK
<1>9. routed' \subseteq Plugins
    BY <1>5, <1>6, RoutesOK DEF IInv, RestOK
<1>10. QED BY <1>6, <1>7, <1>8, <1>9 DEF IInv, RestOK

LEMMA HealthRaisesOK ==
    ASSUME IInv, NEW t \in Tasks, HealthRaises(t)
    PROVE  IInv'
<1> DEFINE r == task[t].rec
           x == HealthFailed(record[r])
<1>1. r \in Records /\ task[t].op # "none"
    BY DEF HealthRaises, IInv, RequestsOK, RequestOK
<1>2. Sound(x)
    BY <1>1, CountersAreSound DEF IInv, AllSound
<1>3. CASE x.health = HealthLimit
    <2>1. Deactivate(t, x)
        BY <1>3 DEF HealthRaises, Captured
    <2>2. QED BY <2>1, <1>1, <1>2, DeactivateOK
<1>4. CASE x.health # HealthLimit
    <2>1. /\ record' = [record EXCEPT ![r] = x] /\ Finish(t)
          /\ UNCHANGED <<catalog, routed, lock, opened, serving>>
        BY <1>4 DEF HealthRaises, Captured
    <2>2. AllSound(record')
        BY <2>1, <1>2, SetRecord DEF IInv
    <2>3. RequestsOK(task', catalog')
        BY <2>1, FinishOK
    <2>4. QED BY <2>1, <2>2, <2>3 DEF IInv, RestOK
<1>5. QED BY <1>3, <1>4

\* The record and route table after a plugin has been stopped or has failed
\* to start.
LEMMA StoppedOK ==
    ASSUME IInv, NEW r \in Records
    PROVE  /\ AllSound([record EXCEPT ![r] = Stopped(record[r])])
           /\ AllSound([record EXCEPT ![r] = ActivationFailed(record[r])])
           /\ AllSound([record EXCEPT ![r] = Unavailable(record[r])])
           /\ Unrouted(r) \in SUBSET Plugins
<1>1. Sound(record[r]) /\ AllSound(record)
    BY DEF IInv, AllSound
<1>2. Sound(Stopped(record[r])) /\ Sound(ActivationFailed(record[r])) /\ Sound(Unavailable(record[r]))
    BY <1>1, ChangesAreSound
<1>3. QED BY <1>1, <1>2, SetRecord, RoutesOK

LEMMA LoadFileOK ==
    ASSUME IInv, NEW t \in Tasks, NEW n \in Plugins, NEW file \in FileOutcomes,
           LoadFile(t, n, file)
    PROVE  IInv'
<1> DEFINE old == catalog[n]
<1>1. task[t].op # "none" /\ AllSound(record) /\ routed \in SUBSET Plugins
      /\ old \in Records \cup {Nil}
    BY DEF LoadFile, IInv, RestOK
<1>2. CASE file = "invalid"
    BY <1>1, <1>2, RejectFileOK DEF LoadFile
<1>3. CASE file # "invalid" /\ (old = Nil \/ ~record[old].registered)
    BY <1>1, <1>3, InstallOK DEF LoadFile
<1>4. CASE file # "invalid" /\ old # Nil /\ record[old].registered
    <2>1. old \in Records
        BY <1>1, <1>4
    <2>2. CASE NeedsDone(old)
        <3>1. AwaitDone(t, old, file)
            BY <1>4, <2>2 DEF LoadFile
        <3>2. QED BY <3>1, <1>1, <2>1, AwaitDoneOK
    <2>3. CASE ~NeedsDone(old)
        <3>1. Install(t, n, file, [record EXCEPT ![old] = Stopped(record[old])], Unrouted(old))
            BY <1>4, <2>3 DEF LoadFile
        <3>2. QED BY <3>1, <1>1, <2>1, StoppedOK, InstallOK
    <2>4. QED BY <2>2, <2>3
<1>5. QED BY <1>2, <1>3, <1>4

LEMMA ReloadFileOK ==
    ASSUME IInv, NEW t \in Tasks, NEW n \in Plugins, ReloadFile(t, n)
    PROVE  IInv'
<1> DEFINE old == catalog[n]
<1>1. task[t].op # "none" /\ old \in Records
    BY DEF ReloadFile, IInv, RequestsOK, RequestOK
<1>2. CASE NeedsDone(old)
    BY <1>1, <1>2, AwaitDoneOK DEF ReloadFile
<1>3. CASE ~NeedsDone(old)
    <2>1. InstallOrReject(t, n, [record EXCEPT ![old] = Stopped(record[old])], Unrouted(old))
        BY <1>3 DEF ReloadFile
    <2>2. QED BY <2>1, <1>1, StoppedOK, InstallOrRejectOK
<1>4. QED BY <1>2, <1>3

LEMMA StartupOK ==
    ASSUME IInv, NEW t \in Tasks, InitReturns(t) \/ PostinitReturns(t) \/ StartupRaises(t)
    PROVE  IInv'
<1> DEFINE r == task[t].rec
<1>1. r \in Records /\ task[t].op # "none" /\ Sound(record[r])
    BY DEF InitReturns, PostinitReturns, StartupRaises, IInv, RequestsOK, RequestOK, AllSound
<1>2. CASE InitReturns(t)
    <2>1. /\ record' = [record EXCEPT ![r] = [record[r] EXCEPT !.lifecycle = TRUE]]
          /\ opened' = opened \cup {r} /\ Await(t, "postinit")
          /\ UNCHANGED <<catalog, routed, lock, serving>>
        BY <1>2 DEF InitReturns
    <2>2. AllSound(record')
        BY <2>1, <1>1, ChangesAreSound, SetRecord DEF IInv
    <2>3. RequestsOK(task', catalog')
        BY <2>1, <1>1, AwaitOK
    <2>4. QED BY <1>1, <2>1, <2>2, <2>3 DEF IInv, RestOK
<1>3. CASE PostinitReturns(t)
    <2>1. /\ record' = [record EXCEPT ![r] = Running(record[r])]
          /\ Proceed(t, task[t].todo)
          /\ UNCHANGED <<catalog, routed, opened, serving>>
        BY <1>3 DEF PostinitReturns
    <2>2. AllSound(record')
        BY <2>1, <1>1, ChangesAreSound, SetRecord DEF IInv
    <2>3. RequestsOK(task', catalog') /\ lock' \in Tasks \cup {Nil}
        BY <2>1, <1>1, ProceedOK
    <2>4. QED BY <2>1, <2>2, <2>3 DEF IInv, RestOK
<1>4. CASE StartupRaises(t) /\ task[t].op = "health"
    <2>1. Finish(t) /\ UNCHANGED <<record, routed, lock, catalog, opened, serving>>
        BY <1>4 DEF StartupRaises
    <2>2. RequestsOK(task', catalog')
        BY <2>1, FinishOK
    <2>3. QED BY <2>1, <2>2 DEF IInv, RestOK
<1>5. CASE StartupRaises(t) /\ task[t].op # "health"
    <2>1. /\ record' = [record EXCEPT ![r] = ActivationFailed(record[r])]
          /\ routed' = Unrouted(r) /\ Proceed(t, task[t].todo)
          /\ UNCHANGED <<catalog, opened, serving>>
        BY <1>5 DEF StartupRaises
    <2>2. RequestsOK(task', catalog') /\ lock' \in Tasks \cup {Nil}
        BY <2>1, <1>1, ProceedOK
    <2>3. AllSound(record') /\ routed' \subseteq Plugins
        BY <2>1, <1>1, StoppedOK
    <2>4. QED BY <2>1, <2>2, <2>3 DEF IInv, RestOK
<1>6. QED BY <1>2, <1>3, <1>4, <1>5

LEMMA ShutdownPluginOK ==
    ASSUME IInv, NEW t \in Tasks, NEW n \in Plugins, ShutdownPlugin(t, n)
    PROVE  IInv'
<1> DEFINE r == catalog[n]
<1>1. task[t].op # "none" /\ r \in Records
    BY DEF ShutdownPlugin, IInv, RequestsOK, RequestOK
<1>2. CASE NeedsDone(r)
    BY <1>1, <1>2, AwaitDoneOK DEF ShutdownPlugin
<1>3. CASE ~NeedsDone(r)
    <2>1. /\ record' = [record EXCEPT ![r] = Stopped(record[r])]
          /\ routed' = Unrouted(r) /\ Proceed(t, task[t].todo \ {n})
          /\ UNCHANGED <<catalog, opened, serving>>
        BY <1>3 DEF ShutdownPlugin
    <2>2. RequestsOK(task', catalog') /\ lock' \in Tasks \cup {Nil}
        BY <2>1, <1>1, ProceedOK
    <2>3. AllSound(record') /\ routed' \subseteq Plugins
        BY <2>1, <1>1, StoppedOK
    <2>4. QED BY <2>1, <2>2, <2>3 DEF IInv, RestOK
<1>4. QED BY <1>2, <1>3

LEMMA DoneReturnsOK ==
    ASSUME IInv, NEW t \in Tasks, DoneReturns(t)
    PROVE  IInv'
<1> DEFINE r == task[t].rec
           n == record[r].name
           stopped == [record EXCEPT ![r] = Stopped(record[r])]
<1>1. r \in Records /\ task[t] \in Request /\ task[t].op # "none" /\ n \in Plugins
    BY DEF DoneReturns, IInv, RequestsOK, RequestOK, AllSound, PluginRecord
<1>2. CASE task[t].op \in {"call", "health"}
    <2>1. /\ record' = [record EXCEPT ![r] = Unavailable(record[r])]
          /\ routed' = Unrouted(r) /\ Finish(t)
          /\ UNCHANGED <<catalog, lock, opened, serving>>
        BY <1>2 DEF DoneReturns
    <2>2. RequestsOK(task', catalog')
        BY <2>1, FinishOK
    <2>3. AllSound(record') /\ routed' \subseteq Plugins
        BY <2>1, <1>1, StoppedOK
    <2>4. QED BY <2>1, <2>2, <2>3 DEF IInv, RestOK
<1>3. CASE task[t].op \in {"unload", "shutdown"}
    <2>1. /\ record' = stopped /\ routed' = Unrouted(r) /\ Proceed(t, task[t].todo \ {n})
          /\ UNCHANGED <<catalog, opened, serving>>
        BY <1>3 DEF DoneReturns
    <2>2. RequestsOK(task', catalog') /\ lock' \in Tasks \cup {Nil}
        BY <2>1, <1>1, ProceedOK
    <2>3. AllSound(record') /\ routed' \subseteq Plugins
        BY <2>1, <1>1, StoppedOK
    <2>4. QED BY <2>1, <2>2, <2>3 DEF IInv, RestOK
<1>4. CASE task[t].op \in {"rescan", "load"}
    <2>1. Install(t, n, task[t].file, stopped, Unrouted(r))
        BY <1>4 DEF DoneReturns
    <2>2. QED BY <2>1, <1>1, StoppedOK, InstallOK
<1>5. CASE task[t].op = "reload"
    <2>1. InstallOrReject(t, n, stopped, Unrouted(r))
        BY <1>5 DEF DoneReturns
    <2>2. QED BY <2>1, <1>1, StoppedOK, InstallOrRejectOK
<1>6. QED BY <1>1, <1>2, <1>3, <1>4, <1>5 DEF Request, AllOperations

LEMMA InitialRecordsAreSound ==
    AllSound([r \in Records |-> NewRecord(CHOOSE n \in Plugins : TRUE)])
<1>1. (CHOOSE n \in Plugins : TRUE) \in Plugins
    BY EngineAssumption
<1>2. Sound(NewRecord(CHOOSE n \in Plugins : TRUE))
    BY <1>1, NewRecordsAreSound
<1>3. QED BY <1>2 DEF AllSound, Sound

LEMMA RestartOK == IInv /\ Restart => IInv'
<1> SUFFICES ASSUME IInv, Restart PROVE IInv'
    OBVIOUS
<1>1. AllSound(record')
    BY InitialRecordsAreSound DEF Restart
<1>2. catalog' \in [Plugins -> Records \cup {Nil}]
    BY DEF Restart
<1>3. \A t \in Tasks : RequestOK(task[t], catalog')
    BY DEF Restart, IsIdle, IInv, RequestsOK, RequestOK, Idle
<1>4. QED BY <1>1, <1>2, <1>3 DEF Restart, IInv, RestOK, RequestsOK

LEMMA IInvHolds == Spec => []IInv
<1>1. Init => IInv
    BY InitialRecordsAreSound, IdleOK
       DEF Init, IInv, RestOK, RequestsOK, RequestOK
<1>2. IInv /\ [Next]_vars => IInv'
    <2> SUFFICES ASSUME IInv, [Next]_vars PROVE IInv'
        OBVIOUS
    <2>1. ASSUME NEW t \in Tasks, Step(t) PROVE IInv'
        BY <2>1, CallOK, HealthReturnsOK, HealthRaisesOK, LoadFileOK, ReloadFileOK,
           StartupOK, ShutdownPluginOK, DoneReturnsOK DEF Step
    <2>2. CASE UNCHANGED vars
        BY <2>2 DEF vars, IInv, RestOK
    <2>3. QED BY <2>1, <2>2, RestartOK, ArriveOK DEF Next
<1>3. QED BY <1>1, <1>2, PTL DEF Spec

-----------------------------------------------------------------------------
\* Type correctness of the engine.
THEOREM TypeCorrect == Spec => []TypeOK
<1>1. IInv => TypeOK
    BY DEF IInv, RestOK, RequestsOK, AllSound, TypeOK
<1>2. QED BY <1>1, IInvHolds, PTL

\* However many requests overlap, no record is left available in a state
\* other than "running", or running and not available.
THEOREM RunningRecordsAreAvailable == Spec => []RunningIffAvailable
<1>1. IInv => RunningIffAvailable
    BY DEF IInv, AllSound, Sound, RunningIffAvailable
<1>2. QED BY <1>1, IInvHolds, PTL

-----------------------------------------------------------------------------
(* ActiveIsOpen.  A step of request t leaves the other requests alone      *)
(* (Frame); it makes a record active only with its plugin open, closes an  *)
(* active plugin only by going on to await its plugin_done, and leaves     *)
(* that await only with the record no longer active.                       *)

Frame(t) ==
    /\ \A u \in Tasks \ {t} : task'[u] = task[u]
    /\ \A r \in Records : record'[r].lifecycle => record[r].lifecycle \/ r \in opened'
    /\ \A r \in Records :
         record'[r].lifecycle /\ r \in opened /\ r \notin opened' =>
            task'[t].pc = "done" /\ task'[t].rec = r
    /\ task[t].pc = "done" => ~record'[task[t].rec].lifecycle

LEMMA FrameKeeps ==
    ASSUME ActiveIsOpen, NEW t \in Tasks, Frame(t)
    PROVE  ActiveIsOpen'
<1> SUFFICES ASSUME NEW r \in Records, record'[r].lifecycle, r \notin opened'
             PROVE  \E u \in Tasks : task'[u].pc = "done" /\ task'[u].rec = r
    BY DEF ActiveIsOpen
<1>1. record[r].lifecycle
    BY DEF Frame
<1>2. CASE r \in opened
    BY <1>2 DEF Frame
<1>3. CASE r \notin opened
    <2>1. PICK u \in Tasks : task[u].pc = "done" /\ task[u].rec = r
        BY <1>1, <1>3 DEF ActiveIsOpen
    <2>2. u # t
        BY <2>1 DEF Frame
    <2>3. QED BY <2>1, <2>2 DEF Frame
<1>4. QED BY <1>2, <1>3

LEMMA LifecycleOf ==
    ASSUME NEW x \in PluginRecord, NEW n \in Plugins, NEW file
    PROVE  /\ ~Loading(n).lifecycle /\ ~NotActivated(n, file).lifecycle
           /\ ~Stopped(x).lifecycle /\ ~Unavailable(x).lifecycle
           /\ ~ActivationFailed(x).lifecycle
           /\ Registered(x).lifecycle = x.lifecycle
           /\ Running(x).lifecycle = x.lifecycle
           /\ HealthPassed(x).lifecycle = x.lifecycle
           /\ HealthFailed(x).lifecycle = x.lifecycle
           /\ \A e \in Endpoints : /\ CallFailed(x, e).lifecycle = x.lifecycle
                                   /\ CallSucceeded(x, e).lifecycle = x.lifecycle
BY DEF Loading, NotActivated, Stopped, Unavailable, ActivationFailed, Registered,
       Running, HealthPassed, HealthFailed, CallFailed, CallSucceeded, NewRecord, PluginRecord

\* What a request does to its own entry leaves the other requests alone.
LEMMA OthersUnchanged ==
    ASSUME IInv, NEW t \in Tasks,
           \/ \E x : task' = [task EXCEPT ![t] = x]
           \/ Finish(t)
           \/ \E pc : Await(t, pc)
           \/ \E todo : Proceed(t, todo)
           \/ UNCHANGED task
    PROVE  \A u \in Tasks \ {t} : task'[u] = task[u]
BY DEF IInv, RequestsOK, Finish, Await, Proceed

\* One record changes and the plugins' own view does not.
LEMMA FrameOfRecord ==
    ASSUME IInv, NEW t \in Tasks, NEW r, NEW x,
           record' = [record EXCEPT ![r] = x],
           r \in Records /\ x.lifecycle => record[r].lifecycle,
           task[t].pc = "done" => task[t].rec = r /\ r \in Records /\ ~x.lifecycle,
           \A u \in Tasks \ {t} : task'[u] = task[u], UNCHANGED opened
    PROVE  Frame(t)
BY DEF Frame, IInv, AllSound

LEMMA InstallFrame ==
    ASSUME IInv, NEW t \in Tasks, NEW n \in Plugins, NEW file,
           NEW recs, AllSound(recs), NEW rts,
           \A q \in Records : recs[q].lifecycle => record[q].lifecycle,
           task[t].pc = "done" => task[t].rec \in Records /\ ~recs[task[t].rec].lifecycle,
           Install(t, n, file, recs, rts)
    PROVE  Frame(t)
<1>1. PICK r \in Fresh :
        /\ opened' = opened \ {r}
        /\ IF file = "ok"
           THEN /\ record' = [recs EXCEPT ![r] = Loading(n)]
                /\ task' = [task EXCEPT ![t].pc = "init", ![t].rec = r,
                                        ![t].todo = @ \ {n}, ![t].file = "none"]
           ELSE /\ record' = [recs EXCEPT ![r] = NotActivated(n, file)]
                /\ Proceed(t, task[t].todo \ {n})
    BY DEF Install
<1>2. r \in Records
    BY DEF Fresh
<1>3. \A u \in Tasks \ {t} : task'[u] = task[u]
    BY <1>1, OthersUnchanged DEF IInv, RequestsOK
<1>4. PICK y : record' = [recs EXCEPT ![r] = y] /\ ~y.lifecycle
    <2>1. ~Loading(n).lifecycle /\ ~NotActivated(n, file).lifecycle
        BY DEF Loading, Registered, NotActivated, NewRecord
    <2>2. QED BY <1>1, <2>1
<1>5. \A q \in Records : record'[q].lifecycle => recs[q].lifecycle /\ q # r
    BY <1>2, <1>4 DEF AllSound
<1>6. QED BY <1>1, <1>3, <1>5 DEF Frame

LEMMA RejectFileFrame ==
    ASSUME IInv, NEW t \in Tasks, NEW n \in Plugins,
           NEW recs, AllSound(recs), NEW rts,
           \A q \in Records : recs[q].lifecycle => record[q].lifecycle,
           task[t].pc = "done" => task[t].rec \in Records /\ ~recs[task[t].rec].lifecycle,
           RejectFile(t, n, recs, rts)
    PROVE  Frame(t)
<1>1. CASE task[t].op = "rescan"
    BY <1>1, InstallFrame DEF RejectFile
<1>2. CASE task[t].op # "rescan"
    <2>1. record' = recs /\ Finish(t) /\ UNCHANGED opened
        BY <1>2 DEF RejectFile
    <2>2. QED BY <2>1, OthersUnchanged DEF Frame
<1>3. QED BY <1>1, <1>2

LEMMA InstallOrRejectFrame ==
    ASSUME IInv, NEW t \in Tasks, NEW n \in Plugins,
           NEW recs, AllSound(recs), NEW rts,
           \A q \in Records : recs[q].lifecycle => record[q].lifecycle,
           task[t].pc = "done" => task[t].rec \in Records /\ ~recs[task[t].rec].lifecycle,
           InstallOrReject(t, n, recs, rts)
    PROVE  Frame(t)
BY InstallFrame, RejectFileFrame DEF InstallOrReject

LEMMA AwaitDoneFrame ==
    ASSUME IInv, NEW t \in Tasks, task[t].pc # "done",
           NEW r \in Records, NEW file, AwaitDone(t, r, file)
    PROVE  Frame(t)
<1>1. task'[t].pc = "done" /\ task'[t].rec = r
    BY DEF AwaitDone, IInv, RequestsOK, Request
<1>2. \A u \in Tasks \ {t} : task'[u] = task[u]
    BY DEF AwaitDone, IInv, RequestsOK
<1>3. QED BY <1>1, <1>2 DEF AwaitDone, Frame

LEMMA DeactivateFrame ==
    ASSUME IInv, NEW t \in Tasks, task[t].pc = "run", task[t].rec \in Records,
           NEW x \in PluginRecord, x.lifecycle = record[task[t].rec].lifecycle,
           Deactivate(t, x)
    PROVE  Frame(t)
<1>1. CASE x.lifecycle /\ x.module
    <2>1. /\ record' = [record EXCEPT ![task[t].rec] = x] /\ Await(t, "done")
          /\ opened' = opened \ {task[t].rec}
        BY <1>1 DEF Deactivate
    <2>2. task'[t].pc = "done" /\ task'[t].rec = task[t].rec
        BY <2>1 DEF Await, IInv, RequestsOK, Request
    <2>3. QED BY <2>1, <2>2, OthersUnchanged DEF Frame, IInv, AllSound
<1>2. CASE ~(x.lifecycle /\ x.module)
    <2>1. /\ record' = [record EXCEPT ![task[t].rec] = Unavailable(x)]
          /\ Finish(t) /\ UNCHANGED opened
        BY <1>2 DEF Deactivate
    <2>2. ~Unavailable(x).lifecycle
        BY LifecycleOf, EngineAssumption
    <2>3. QED BY <2>1, <2>2, OthersUnchanged, FrameOfRecord
<1>3. QED BY <1>1, <1>2

LEMMA CallFrame ==
    ASSUME IInv, NEW t \in Tasks, CallReturns(t) \/ CallRaises(t)
    PROVE  Frame(t)
<1> DEFINE r == task[t].rec
           e == task[t].ep
           failed == CallFailed(record[r], e)
<1>1. r \in Records /\ e \in Endpoints /\ task[t].pc = "run" /\ record[r] \in PluginRecord
    BY DEF CallReturns, CallRaises, IInv, RequestsOK, RequestOK, AllSound
<1>2. /\ failed.lifecycle = record[r].lifecycle
      /\ CallSucceeded(record[r], e).lifecycle = record[r].lifecycle
    BY <1>1, LifecycleOf, EngineAssumption
<1>3. failed \in PluginRecord
    BY <1>1, CountersAreSound DEF IInv, AllSound, Sound
<1>4. CASE CallReturns(t)
    <2>1. /\ record' = [record EXCEPT ![r] = CallSucceeded(record[r], e)]
          /\ Finish(t) /\ UNCHANGED opened
        BY <1>4 DEF CallReturns
    <2>2. QED BY <2>1, <1>1, <1>2, OthersUnchanged, FrameOfRecord
<1>5. CASE CallRaises(t) /\ e \in failed.blocked
    <2>1. Deactivate(t, failed)
        BY <1>5 DEF CallRaises, Captured
    <2>2. QED BY <2>1, <1>1, <1>2, <1>3, DeactivateFrame
<1>6. CASE CallRaises(t) /\ e \notin failed.blocked
    <2>1. record' = [record EXCEPT ![r] = failed] /\ Finish(t) /\ UNCHANGED opened
        BY <1>6 DEF CallRaises, Captured
    <2>2. QED BY <2>1, <1>1, <1>2, OthersUnchanged, FrameOfRecord
<1>7. QED BY <1>4, <1>5, <1>6

LEMMA HealthFrame ==
    ASSUME IInv, NEW t \in Tasks, HealthReturns(t) \/ HealthRaises(t)
    PROVE  Frame(t)
<1> DEFINE r == task[t].rec
           passed == HealthPassed(record[r])
           failed == HealthFailed(record[r])
<1>1. r \in Records /\ task[t].pc = "run" /\ record[r] \in PluginRecord
    BY DEF HealthReturns, HealthRaises, IInv, RequestsOK, RequestOK, AllSound
<1>2. passed \in PluginRecord /\ failed \in PluginRecord /\ Registered(passed) \in PluginRecord
    BY <1>1, CountersAreSound, ChangesAreSound DEF IInv, AllSound, Sound
<1>3. /\ passed.lifecycle = record[r].lifecycle
      /\ failed.lifecycle = record[r].lifecycle
      /\ Registered(passed).lifecycle = record[r].lifecycle
      /\ Running(Registered(passed)).lifecycle = record[r].lifecycle
    BY <1>1, <1>2, LifecycleOf, EngineAssumption
<1>4. CASE HealthReturns(t)
    <2>1. /\ UNCHANGED opened
          /\ \/ record' = [record EXCEPT ![r] = passed]
             \/ record' = [record EXCEPT ![r] = Registered(passed)]
             \/ record' = [record EXCEPT ![r] = Running(Registered(passed))]
          /\ Finish(t) \/ Await(t, "init")
        BY <1>4 DEF HealthReturns
    <2>2. \A u \in Tasks \ {t} : task'[u] = task[u]
        BY <2>1, OthersUnchanged
    <2>3. QED BY <2>1, <2>2, <1>1, <1>3, FrameOfRecord
<1>5. CASE HealthRaises(t) /\ failed.health = HealthLimit
    <2>1. Deactivate(t, failed)
        BY <1>5 DEF HealthRaises, Captured
    <2>2. QED BY <2>1, <1>1, <1>2, <1>3, DeactivateFrame
<1>6. CASE HealthRaises(t) /\ failed.health # HealthLimit
    <2>1. record' = [record EXCEPT ![r] = failed] /\ Finish(t) /\ UNCHANGED opened
        BY <1>6 DEF HealthRaises, Captured
    <2>2. QED BY <2>1, <1>1, <1>3, OthersUnchanged, FrameOfRecord
<1>7. QED BY <1>4, <1>5, <1>6

\* The records after one of them has been stopped.
LEMMA StoppedLifecycle ==
    ASSUME IInv, NEW r \in Records
    PROVE  /\ AllSound([record EXCEPT ![r] = Stopped(record[r])])
           /\ \A q \in Records :
                [record EXCEPT ![r] = Stopped(record[r])][q].lifecycle => record[q].lifecycle
           /\ ~[record EXCEPT ![r] = Stopped(record[r])][r].lifecycle
           /\ ~Stopped(record[r]).lifecycle /\ ~Unavailable(record[r]).lifecycle
           /\ ~ActivationFailed(record[r]).lifecycle
           /\ Running(record[r]).lifecycle = record[r].lifecycle
BY StoppedOK, LifecycleOf, EngineAssumption DEF IInv, AllSound

LEMMA LoadFrame ==
    ASSUME IInv, NEW t \in Tasks, NEW n \in Plugins,
           (\E file \in FileOutcomes : LoadFile(t, n, file)) \/ ReloadFile(t, n)
    PROVE  Frame(t)
<1> DEFINE old == catalog[n]
           stopped == [record EXCEPT ![old] = Stopped(record[old])]
<1>1. task[t].pc = "scan" /\ AllSound(record) /\ old \in Records \cup {Nil}
    BY DEF LoadFile, ReloadFile, IInv
<1>2. ASSUME NEW file \in FileOutcomes, LoadFile(t, n, file) PROVE Frame(t)
    <2>1. CASE file = "invalid"
        BY <1>1, <1>2, <2>1, RejectFileFrame DEF LoadFile
    <2>2. CASE file # "invalid" /\ (old = Nil \/ ~record[old].registered)
        BY <1>1, <1>2, <2>2, InstallFrame DEF LoadFile
    <2>3. CASE file # "invalid" /\ old # Nil /\ record[old].registered
        <3>1. old \in Records
            BY <1>1, <2>3
        <3>2. CASE NeedsDone(old)
            <4>1. AwaitDone(t, old, file)
                BY <1>2, <2>3, <3>2 DEF LoadFile
            <4>2. QED BY <4>1, <1>1, <3>1, AwaitDoneFrame
        <3>3. CASE ~NeedsDone(old)
            <4>1. Install(t, n, file, stopped, Unrouted(old))
                BY <1>2, <2>3, <3>3 DEF LoadFile
            <4>2. /\ AllSound(stopped)
                  /\ \A q \in Records : stopped[q].lifecycle => record[q].lifecycle
                BY <3>1, StoppedLifecycle
            <4>3. task[t].pc # "done"
                BY <1>1
            <4>4. QED BY <4>1, <4>2, <4>3, InstallFrame
        <3>4. QED BY <3>2, <3>3
    <2>4. QED BY <2>1, <2>2, <2>3
<1>3. CASE ReloadFile(t, n)
    <2>1. old \in Records
        BY <1>3 DEF ReloadFile, IInv, RequestsOK, RequestOK
    <2>2. CASE NeedsDone(old)
        BY <1>1, <1>3, <2>1, <2>2, AwaitDoneFrame DEF ReloadFile
    <2>3. CASE ~NeedsDone(old)
        <3>1. InstallOrReject(t, n, stopped, Unrouted(old))
            BY <1>3, <2>3 DEF ReloadFile
        <3>2. /\ AllSound(stopped)
              /\ \A q \in Records : stopped[q].lifecycle => record[q].lifecycle
            BY <2>1, StoppedLifecycle
        <3>3. task[t].pc # "done"
            BY <1>1
        <3>4. QED BY <3>1, <3>2, <3>3, InstallOrRejectFrame
    <2>4. QED BY <2>2, <2>3
<1>4. QED BY <1>2, <1>3

LEMMA StartupFrame ==
    ASSUME IInv, NEW t \in Tasks, InitReturns(t) \/ PostinitReturns(t) \/ StartupRaises(t)
    PROVE  Frame(t)
<1> DEFINE r == task[t].rec
<1>1. r \in Records /\ task[t].pc # "done" /\ record[r] \in PluginRecord
    BY DEF InitReturns, PostinitReturns, StartupRaises, IInv, RequestsOK, RequestOK, AllSound
<1>2. CASE InitReturns(t)
    <2>1. /\ record' = [record EXCEPT ![r] = [record[r] EXCEPT !.lifecycle = TRUE]]
          /\ opened' = opened \cup {r} /\ Await(t, "postinit")
        BY <1>2 DEF InitReturns
    <2>2. QED BY <2>1, <1>1, OthersUnchanged DEF Frame, IInv, AllSound
<1>3. CASE PostinitReturns(t)
    <2>1. /\ record' = [record EXCEPT ![r] = Running(record[r])]
          /\ Proceed(t, task[t].todo) /\ UNCHANGED opened
        BY <1>3 DEF PostinitReturns
    <2>2. QED BY <2>1, <1>1, StoppedLifecycle, OthersUnchanged, FrameOfRecord
<1>4. CASE StartupRaises(t) /\ task[t].op = "health"
    <2>1. Finish(t) /\ UNCHANGED <<record, opened>>
        BY <1>4 DEF StartupRaises
    <2>2. QED BY <2>1, <1>1, OthersUnchanged DEF Frame
<1>5. CASE StartupRaises(t) /\ task[t].op # "health"
    <2>1. /\ record' = [record EXCEPT ![r] = ActivationFailed(record[r])]
          /\ Proceed(t, task[t].todo) /\ UNCHANGED opened
        BY <1>5 DEF StartupRaises
    <2>2. QED BY <2>1, <1>1, StoppedLifecycle, OthersUnchanged, FrameOfRecord
<1>6. QED BY <1>2, <1>3, <1>4, <1>5

LEMMA UnloadFrame ==
    ASSUME IInv, NEW t \in Tasks, NEW n \in Plugins, ShutdownPlugin(t, n) \/ StartUnload(t, n)
    PROVE  Frame(t)
<1> DEFINE r == catalog[n]
<1>1. r \in Records /\ task[t].pc \in {"scan", "idle"}
    BY DEF ShutdownPlugin, StartUnload, IsIdle, IInv, RequestsOK, RequestOK
<1>2. CASE ShutdownPlugin(t, n) /\ NeedsDone(r)
    BY <1>1, <1>2, AwaitDoneFrame DEF ShutdownPlugin
<1>3. CASE ShutdownPlugin(t, n) /\ ~NeedsDone(r)
    <2>1. /\ record' = [record EXCEPT ![r] = Stopped(record[r])]
          /\ Proceed(t, task[t].todo \ {n}) /\ UNCHANGED opened
        BY <1>3 DEF ShutdownPlugin
    <2>2. ~Stopped(record[r]).lifecycle
        BY <1>1, StoppedLifecycle
    <2>3. \A u \in Tasks \ {t} : task'[u] = task[u]
        BY <2>1, OthersUnchanged
    <2>4. QED BY <2>1, <2>2, <2>3, <1>1, FrameOfRecord
<1>4. CASE StartUnload(t, n) /\ NeedsDone(r)
    <2>1. /\ task' = [task EXCEPT ![t] =
                        [Idle EXCEPT !.op = "unload", !.pc = "done", !.rec = r]]
          /\ opened' = opened \ {r} /\ UNCHANGED record
        BY <1>4 DEF StartUnload
    <2>2. task'[t].pc = "done" /\ task'[t].rec = r
        BY <2>1 DEF IInv, RequestsOK, Idle
    <2>3. QED BY <2>1, <2>2, <1>1, OthersUnchanged DEF Frame
<1>5. CASE StartUnload(t, n) /\ ~NeedsDone(r)
    <2>1. /\ record' = [record EXCEPT ![r] = Stopped(record[r])]
          /\ UNCHANGED <<task, opened>>
        BY <1>5 DEF StartUnload
    <2>2. QED BY <2>1, <1>1, StoppedLifecycle, OthersUnchanged, FrameOfRecord
<1>6. QED BY <1>2, <1>3, <1>4, <1>5

LEMMA DoneFrame ==
    ASSUME IInv, NEW t \in Tasks, DoneReturns(t)
    PROVE  Frame(t)
<1> DEFINE r == task[t].rec
           n == record[r].name
           stopped == [record EXCEPT ![r] = Stopped(record[r])]
<1>1. r \in Records /\ task[t] \in Request /\ task[t].op # "none" /\ n \in Plugins
    BY DEF DoneReturns, IInv, RequestsOK, RequestOK, AllSound, PluginRecord
<1>7. /\ AllSound(stopped) /\ ~stopped[r].lifecycle
      /\ \A q \in Records : stopped[q].lifecycle => record[q].lifecycle
    BY <1>1, StoppedLifecycle
<1>2. CASE task[t].op \in {"call", "health"}
    <2>1. /\ record' = [record EXCEPT ![r] = Unavailable(record[r])]
          /\ Finish(t) /\ UNCHANGED opened
        BY <1>2 DEF DoneReturns
    <2>2. QED BY <2>1, <1>1, StoppedLifecycle, OthersUnchanged, FrameOfRecord
<1>3. CASE task[t].op \in {"unload", "shutdown"}
    <2>1. record' = stopped /\ Proceed(t, task[t].todo \ {n}) /\ UNCHANGED opened
        BY <1>3 DEF DoneReturns
    <2>2. \A u \in Tasks \ {t} : task'[u] = task[u]
        BY <2>1, OthersUnchanged
    <2>3. QED BY <2>1, <2>2, <1>7 DEF Frame
<1>4. CASE task[t].op \in {"rescan", "load"}
    <2>1. Install(t, n, task[t].file, stopped, Unrouted(r))
        BY <1>4 DEF DoneReturns
    <2>2. QED BY <2>1, <1>1, <1>7, InstallFrame
<1>5. CASE task[t].op = "reload"
    <2>1. InstallOrReject(t, n, stopped, Unrouted(r))
        BY <1>5 DEF DoneReturns
    <2>2. QED BY <2>1, <1>1, <1>7, InstallOrRejectFrame
<1>8. QED BY <1>1, <1>2, <1>3, <1>4, <1>5 DEF Request, AllOperations

LEMMA HealthWithoutModuleFrame ==
    ASSUME IInv, NEW t \in Admins, NEW n \in Plugins, HealthWithoutModule(t, n)
    PROVE  Frame(t)
<1> DEFINE r == catalog[n]
           y == HealthFailed(record[r])
           x == IF y.health = HealthLimit THEN Unavailable(y) ELSE y
<1>1. r \in Records /\ t \in Tasks /\ task[t].pc # "done"
    BY DEF HealthWithoutModule, IInv, IsIdle, Tasks
<1>2. y \in PluginRecord /\ y.lifecycle = record[r].lifecycle
    BY <1>1, CountersAreSound, LifecycleOf, EngineAssumption DEF IInv, AllSound, Sound
<1>3. x.lifecycle => record[r].lifecycle
    BY <1>2, LifecycleOf, EngineAssumption
<1>4. record' = [record EXCEPT ![r] = x] /\ UNCHANGED <<task, opened>>
    BY DEF HealthWithoutModule
<1>5. QED BY <1>1, <1>3, <1>4, OthersUnchanged, FrameOfRecord

\* A request that arrives and only records what it is going to do.
LEMMA StartFrame ==
    ASSUME IInv, NEW t \in Tasks, IsIdle(t), NEW x, task' = [task EXCEPT ![t] = x],
           UNCHANGED <<record, opened>>
    PROVE  Frame(t)
BY OthersUnchanged DEF Frame, IsIdle

LEMMA ArriveFrame ==
    ASSUME IInv, Arrive
    PROVE  \E t \in Tasks : Frame(t)
<1>0. Callers \subseteq Tasks /\ Admins \subseteq Tasks
    BY DEF Tasks
<1>1. ASSUME NEW t \in Callers, NEW n \in Plugins, NEW e \in Endpoints, StartCall(t, n, e)
      PROVE  \E u \in Tasks : Frame(u)
    BY <1>0, <1>1, StartFrame DEF StartCall
<1>2. ASSUME NEW t \in Admins, NEW op, NEW todo, StartLocked(t, op, todo)
      PROVE  \E u \in Tasks : Frame(u)
    BY <1>0, <1>2, StartFrame DEF StartLocked
<1>3. ASSUME NEW t \in Admins, StartShutdown(t)
      PROVE  \E u \in Tasks : Frame(u)
    BY <1>0, <1>3, StartFrame DEF StartShutdown
<1>4. ASSUME NEW t \in Admins, NEW n \in Plugins, StartHealth(t, n)
      PROVE  \E u \in Tasks : Frame(u)
    BY <1>0, <1>4, StartFrame DEF StartHealth
<1>5. ASSUME NEW t \in Admins, NEW n \in Plugins,
             StartUnload(t, n) \/ HealthWithoutModule(t, n)
      PROVE  \E u \in Tasks : Frame(u)
    BY <1>0, <1>5, UnloadFrame, HealthWithoutModuleFrame
<1>6. QED
    BY <1>1, <1>2, <1>3, <1>4, <1>5 DEF Arrive, StartRescan, StartLoad, StartReload

\* A plugin that the engine takes for active has been initialised and not been
\* shut down since, or its plugin_done is just being awaited.
THEOREM ActiveRecordsAreOpen == Spec => []ActiveIsOpen
<1>1. Init => ActiveIsOpen
    BY DEF Init, ActiveIsOpen, NewRecord
<1>2. IInv /\ ActiveIsOpen /\ [Next]_vars => ActiveIsOpen'
    <2> SUFFICES ASSUME IInv, ActiveIsOpen, [Next]_vars PROVE ActiveIsOpen'
        OBVIOUS
    <2>1. CASE Restart
        BY <2>1 DEF Restart, ActiveIsOpen, NewRecord
    <2>2. CASE Arrive
        BY <2>2, ArriveFrame, FrameKeeps
    <2>3. ASSUME NEW t \in Tasks, Step(t) PROVE ActiveIsOpen'
        <3>1. Frame(t)
            BY <2>3, CallFrame, HealthFrame, LoadFrame, StartupFrame, UnloadFrame,
               DoneFrame DEF Step
        <3>2. QED BY <3>1, FrameKeeps
    <2>4. CASE UNCHANGED vars
        BY <2>4 DEF vars, ActiveIsOpen
    <2>5. QED BY <2>1, <2>2, <2>3, <2>4 DEF Next
<1>3. QED BY <1>1, <1>2, IInvHolds, PTL DEF Spec

-----------------------------------------------------------------------------
(* RoutesMatchCatalog, with one administrator and readable plugin files.   *)

OneAdmin == \A a, b \in Admins : a = b
ReadableFiles == "invalid" \notin FileOutcomes

\* The routes are those of the registered records, which are in the catalog
\* under their own names.
RoutesAgree(recs, cat, rts) ==
    /\ \A n \in Plugins : cat[n] # Nil => recs[cat[n]].name = n
    /\ \A n \in Plugins : n \in rts <=> cat[n] # Nil /\ recs[cat[n]].registered
    /\ \A r \in Records : recs[r].registered =>
            Endpoints # {} /\ cat[recs[r].name] = r

Managing(x) == x.op \notin {"none", "call"}

\* A management request is the administrator's, and the record it holds is
\* the one in the catalog; a file it has read before an unload is at hand.
ManagesOK(t, x, recs, cat) ==
    Managing(x) =>
        /\ t \in Admins
        /\ x.rec # Nil => cat[recs[x.rec].name] = x.rec
        /\ x.op \in {"rescan", "load"} /\ x.pc = "done" => x.file \in FileOutcomes

RInv ==
    /\ RoutesAgree(record, catalog, routed)
    /\ \A r \in Records : record[r].module
    /\ \A t \in Tasks : ManagesOK(t, task[t], record, catalog)

\* A change of a record that leaves its name and its routes alone.
LEMMA QuietAgree ==
    ASSUME NEW recs, NEW cat \in [Plugins -> Records \cup {Nil}], NEW rts,
           RoutesAgree(recs, cat, rts), NEW after,
           \A q \in Records : /\ recs[q].name \in Plugins
                              /\ after[q].name = recs[q].name
                              /\ after[q].registered = recs[q].registered
    PROVE  RoutesAgree(after, cat, rts)
<1>1. \A n \in Plugins : cat[n] # Nil => cat[n] \in Records
    OBVIOUS
<1>2. QED BY <1>1 DEF RoutesAgree

\* Unregistering a record's routes.
LEMMA UnrouteAgree ==
    ASSUME NEW recs \in [Records -> PluginRecord],
           NEW cat \in [Plugins -> Records \cup {Nil}], NEW rts,
           RoutesAgree(recs, cat, rts), NEW r \in Records, NEW x,
           x.name = recs[r].name, ~x.registered
    PROVE  RoutesAgree([recs EXCEPT ![r] = x], cat,
                       IF recs[r].registered THEN rts \ {recs[r].name} ELSE rts)
<1> DEFINE after == [recs EXCEPT ![r] = x]
           left == IF recs[r].registered THEN rts \ {recs[r].name} ELSE rts
<1>1. after[r] = x /\ \A q \in Records \ {r} : after[q] = recs[q]
    OBVIOUS
<1>2. \A q \in Records : recs[q].name \in Plugins
    BY DEF PluginRecord
<1>3. \A n \in Plugins : cat[n] # Nil => cat[n] \in Records
    OBVIOUS
<1> HIDE DEF after
<1>4. \A n \in Plugins : cat[n] # Nil => after[cat[n]].name = n
    BY <1>1, <1>3 DEF RoutesAgree
<1>5. ASSUME NEW q \in Records, after[q].registered
      PROVE  Endpoints # {} /\ cat[after[q].name] = q
    BY <1>1, <1>5 DEF RoutesAgree
<1>6. ASSUME NEW n \in Plugins
      PROVE  n \in left <=> cat[n] # Nil /\ after[cat[n]].registered
    <2>1. CASE cat[n] = r
        <3>1. cat[n] # Nil /\ recs[r].name = n
            BY <2>1, EngineAssumption DEF RoutesAgree
        <3>2. QED BY <2>1, <3>1, <1>1 DEF RoutesAgree
    <2>2. CASE cat[n] # r
        <3>1. recs[r].registered => recs[r].name # n
            BY <2>2 DEF RoutesAgree
        <3>2. cat[n] # Nil => after[cat[n]] = recs[cat[n]]
            BY <2>2, <1>1, <1>3
        <3>3. QED BY <3>1, <3>2 DEF RoutesAgree
    <2>3. QED BY <2>1, <2>2
<1>7. QED BY <1>4, <1>5, <1>6 DEF RoutesAgree, after

\* Registering the routes of a record of the catalog, unless it has them.
LEMMA RouteAgree ==
    ASSUME NEW recs \in [Records -> PluginRecord],
           NEW cat \in [Plugins -> Records \cup {Nil}], NEW rts,
           RoutesAgree(recs, cat, rts), NEW r \in Records, NEW x,
           cat[recs[r].name] = r,
           x.name = recs[r].name, x.registered = (Endpoints # {})
    PROVE  RoutesAgree([recs EXCEPT ![r] = x], cat,
                       IF recs[r].registered THEN rts ELSE rts \cup Routes(recs[r].name))
<1> DEFINE after == [recs EXCEPT ![r] = x]
           now == IF recs[r].registered THEN rts ELSE rts \cup Routes(recs[r].name)
<1>1. after[r] = x /\ \A q \in Records \ {r} : after[q] = recs[q]
    OBVIOUS
<1>2. recs[r].name \in Plugins /\ r # Nil
    BY EngineAssumption DEF PluginRecord
<1>3. \A n \in Plugins : cat[n] # Nil => cat[n] \in Records
    OBVIOUS
<1> HIDE DEF after
<1>4. \A n \in Plugins : cat[n] # Nil => after[cat[n]].name = n
    BY <1>1, <1>3 DEF RoutesAgree
<1>5. ASSUME NEW q \in Records, after[q].registered
      PROVE  Endpoints # {} /\ cat[after[q].name] = q
    BY <1>1, <1>5 DEF RoutesAgree
<1>6. ASSUME NEW n \in Plugins
      PROVE  n \in now <=> cat[n] # Nil /\ after[cat[n]].registered
    <2>1. CASE n = recs[r].name
        <3>1. recs[r].registered => Endpoints # {}
            BY DEF RoutesAgree
        <3>2. QED BY <2>1, <3>1, <1>1, <1>2 DEF RoutesAgree, Routes
    <2>2. CASE n # recs[r].name
        <3>1. cat[n] # r
            BY <2>2, <1>2 DEF RoutesAgree
        <3>2. cat[n] # Nil => after[cat[n]] = recs[cat[n]]
            BY <3>1, <1>1, <1>3
        <3>3. QED BY <2>2, <3>2 DEF RoutesAgree, Routes
    <2>3. QED BY <2>1, <2>2
<1>7. QED BY <1>4, <1>5, <1>6 DEF RoutesAgree, after

\* Putting a new record into the catalog in the place of one without routes.
LEMMA InstallAgree ==
    ASSUME NEW recs \in [Records -> PluginRecord],
           NEW cat \in [Plugins -> Records \cup {Nil}], NEW rts,
           RoutesAgree(recs, cat, rts), NEW n \in Plugins,
           cat[n] = Nil \/ ~recs[cat[n]].registered,
           NEW r \in Records, \A m \in Plugins : cat[m] # r,
           NEW x, x.name = n, x.registered => Endpoints # {}
    PROVE  RoutesAgree([recs EXCEPT ![r] = x], [cat EXCEPT ![n] = r],
                       IF x.registered THEN rts \cup Routes(n) ELSE rts)
<1> DEFINE after == [recs EXCEPT ![r] = x]
           place == [cat EXCEPT ![n] = r]
           now == IF x.registered THEN rts \cup Routes(n) ELSE rts
<1>1. after[r] = x /\ \A q \in Records \ {r} : after[q] = recs[q]
    OBVIOUS
<1>2. place[n] = r /\ \A m \in Plugins \ {n} : place[m] = cat[m]
    OBVIOUS
<1>3. \A m \in Plugins : cat[m] # Nil => cat[m] \in Records \ {r}
    OBVIOUS
<1>4. r # Nil
    BY EngineAssumption
<1>5. \A q \in Records : recs[q].name \in Plugins
    BY DEF PluginRecord
<1> HIDE DEF after, place
<1>6. ASSUME NEW m \in Plugins, place[m] # Nil PROVE after[place[m]].name = m
    BY <1>1, <1>2, <1>3, <1>6 DEF RoutesAgree
<1>7. ASSUME NEW q \in Records, after[q].registered
      PROVE  Endpoints # {} /\ place[after[q].name] = q
    <2>1. CASE q = r
        BY <2>1, <1>1, <1>2, <1>7
    <2>2. CASE q # r
        <3>1. recs[q].registered /\ after[q].name = recs[q].name
            BY <2>2, <1>1, <1>7
        <3>2. cat[recs[q].name] = q
            BY <3>1 DEF RoutesAgree
        <3>3. recs[q].name # n
            BY <3>1, <3>2, EngineAssumption
        <3>4. QED BY <3>1, <3>2, <3>3, <1>2, <1>5 DEF RoutesAgree
    <2>3. QED BY <2>1, <2>2
<1>8. ASSUME NEW m \in Plugins
      PROVE  m \in now <=> place[m] # Nil /\ after[place[m]].registered
    <2>1. CASE m = n
        <3>1. m \notin rts
            BY <2>1 DEF RoutesAgree
        <3>2. QED BY <2>1, <3>1, <1>1, <1>2, <1>4 DEF Routes
    <2>2. CASE m # n
        BY <2>2, <1>1, <1>2, <1>3 DEF RoutesAgree, Routes
    <2>3. QED BY <2>1, <2>2
<1>9. QED BY <1>6, <1>7, <1>8 DEF RoutesAgree, after, place

-----------------------------------------------------------------------------
(* The requests.  A step keeps what the other requests hold: it leaves the *)
(* catalog alone, or it is the administrator's.                            *)

\* What a step of request t does to the requests, whatever it does to the routes.
RequestFrame(t) ==
    /\ \A u \in Tasks \ {t} : task'[u] = task[u]
    /\ \A r \in Records : record'[r].module
    /\ ManagesOK(t, task'[t], record', catalog')
    /\ \/ catalog' = catalog /\ \A r \in Records : record'[r].name = record[r].name
       \/ Managing(task[t])

LEMMA FrameKeepsRequests ==
    ASSUME OneAdmin, IInv, RInv, NEW t \in Tasks, RequestFrame(t)
    PROVE  /\ \A r \in Records : record'[r].module
           /\ \A u \in Tasks : ManagesOK(u, task'[u], record', catalog')
<1> SUFFICES ASSUME NEW u \in Tasks \ {t} PROVE ManagesOK(u, task[u], record', catalog')
    BY DEF RequestFrame
<1>1. ManagesOK(u, task[u], record, catalog)
    BY DEF RInv
<1>2. task[u].rec \in Records \cup {Nil}
    BY DEF IInv, RequestsOK, Request
<1>3. CASE catalog' = catalog /\ \A r \in Records : record'[r].name = record[r].name
    BY <1>1, <1>2, <1>3 DEF ManagesOK
<1>4. CASE Managing(task[t])
    BY <1>1, <1>4 DEF ManagesOK, OneAdmin, RInv
<1>5. QED BY <1>3, <1>4 DEF RequestFrame

\* Ending a request, awaiting something, going on to the next plugin.
LEMMA OtherRequests ==
    ASSUME IInv, NEW t \in Tasks,
           \/ \E x : task' = [task EXCEPT ![t] = x]
           \/ Finish(t)
           \/ \E pc : Await(t, pc)
           \/ \E todo : Proceed(t, todo)
    PROVE  \A u \in Tasks \ {t} : task'[u] = task[u]
BY DEF IInv, RequestsOK, Finish, Await, Proceed

LEMMA EndedManages ==
    ASSUME IInv, RInv, NEW t \in Tasks, NEW recs, NEW cat,
           Finish(t) \/ \E todo : Proceed(t, todo)
    PROVE  ManagesOK(t, task'[t], recs, cat)
<1>1. ManagesOK(t, task[t], record, catalog)
    BY DEF RInv
<1>2. task'[t] = Idle \/ /\ task'[t].op = task[t].op /\ task'[t].rec = Nil
                         /\ task'[t].pc = "scan"
    <2>1. task \in [Tasks -> Request] /\ (Finish(t) => task'[t] = Idle)
        BY DEF Finish, IInv, RequestsOK
    <2>2. ASSUME NEW todo, Proceed(t, todo), todo # {}
          PROVE  task'[t].op = task[t].op /\ task'[t].rec = Nil /\ task'[t].pc = "scan"
        <3> DEFINE x == [task[t] EXCEPT !.pc = "scan", !.rec = Nil, !.todo = todo,
                                        !.file = "none"]
        <3>1. task' = [task EXCEPT ![t] = x]
            BY <2>1, <2>2 DEF Proceed, Request
        <3>2. x.op = task[t].op /\ x.rec = Nil /\ x.pc = "scan"
            BY <2>1 DEF Request
        <3> HIDE DEF x
        <3>3. QED BY <2>1, <3>1, <3>2
    <2>3. QED BY <2>1, <2>2 DEF Proceed
<1>3. QED BY <1>1, <1>2 DEF ManagesOK, Managing, Idle

\* What RInv says of a request at work.
LEMMA RequestFacts ==
    ASSUME IInv, NEW t \in Tasks
    PROVE  /\ record \in [Records -> PluginRecord]
           /\ catalog \in [Plugins -> Records \cup {Nil}]
           /\ task \in [Tasks -> Request] /\ RequestOK(task[t], catalog)
           /\ task[t].pc \in {"run", "done", "init", "postinit"} =>
                /\ task[t].rec \in Records /\ task[t].rec # Nil
                /\ record[task[t].rec] \in PluginRecord
                /\ record[task[t].rec].name \in Plugins
                /\ task[t].op # "none"
BY EngineAssumption DEF IInv, AllSound, RequestsOK, RequestOK, PluginRecord

\* A step of a request that rewrites one record and unregisters its routes.
LEMMA UnrouteStep ==
    ASSUME IInv, RInv, NEW r \in Records, NEW x, x.name = record[r].name, ~x.registered,
           record' = [record EXCEPT ![r] = x], routed' = Unrouted(r), UNCHANGED catalog
    PROVE  RoutesAgree(record', catalog', routed')
BY UnrouteAgree DEF RInv, IInv, AllSound, Unrouted

\* A step that rewrites one record and leaves its routes.
LEMMA QuietStep ==
    ASSUME IInv, RInv, NEW r \in Records, NEW x, x.name = record[r].name,
           x.registered = record[r].registered,
           record' = [record EXCEPT ![r] = x], UNCHANGED <<catalog, routed>>
    PROVE  RoutesAgree(record', catalog', routed')
<1>1. \A q \in Records : record'[q].name = record[q].name /\ record'[q].registered = record[q].registered
    BY DEF IInv, AllSound
<1>2. \A q \in Records : record[q].name \in Plugins
    BY DEF IInv, AllSound, PluginRecord
<1>3. QED BY <1>1, <1>2, QuietAgree DEF RInv, IInv

\* One record of a step, for its name, module and the requests.
LEMMA OneRecordStep ==
    ASSUME IInv, RInv, NEW r \in Records, NEW x, x.name = record[r].name, x.module,
           record' = [record EXCEPT ![r] = x]
    PROVE  /\ \A q \in Records : record'[q].module
           /\ \A q \in Records : record'[q].name = record[q].name
BY DEF IInv, RInv, AllSound

\* The operations on a record that keep its name and module.
LEMMA NamesKept ==
    ASSUME NEW x \in PluginRecord
    PROVE  /\ \A y \in {Registered(x), Running(x), ActivationFailed(x), Stopped(x),
                        Unavailable(x), HealthFailed(x), HealthPassed(x),
                        [x EXCEPT !.lifecycle = TRUE]} :
                y.name = x.name /\ y.module = x.module
           /\ \A e \in Endpoints : \A y \in {CallFailed(x, e), CallSucceeded(x, e)} :
                y.name = x.name /\ y.module = x.module /\ y.registered = x.registered
           /\ \A y \in {Running(x), HealthFailed(x), HealthPassed(x),
                        [x EXCEPT !.lifecycle = TRUE]} : y.registered = x.registered
           /\ \A y \in {ActivationFailed(x), Stopped(x), Unavailable(x)} : ~y.registered
BY DEF Registered, Running, ActivationFailed, Stopped, Unavailable, CallFailed,
       CallSucceeded, HealthFailed, HealthPassed, PluginRecord

-----------------------------------------------------------------------------
(* The routes and the requests after each action.                          *)

RStep(t) == RoutesAgree(record', catalog', routed') /\ RequestFrame(t)

\* A request begins, or goes on, without touching a record.
LEMMA BeginStep ==
    ASSUME IInv, RInv, NEW t \in Tasks, NEW x, ManagesOK(t, x, record, catalog),
           task' = [task EXCEPT ![t] = x], UNCHANGED <<record, catalog, routed>>
    PROVE  RStep(t)
<1>1. task'[t] = x /\ \A u \in Tasks \ {t} : task'[u] = task[u]
    BY DEF IInv, RequestsOK
<1>2. QED BY <1>1 DEF RStep, RequestFrame, RInv

\* A request rewrites one record and ends or goes on to the next plugin.
LEMMA EndStep ==
    ASSUME IInv, RInv, NEW t \in Tasks, NEW r \in Records, NEW x,
           x.name = record[r].name, x.module, record' = [record EXCEPT ![r] = x],
           UNCHANGED catalog, Finish(t) \/ \E todo : Proceed(t, todo),
           \/ x.registered = record[r].registered /\ UNCHANGED routed
           \/ ~x.registered /\ routed' = Unrouted(r)
    PROVE  RStep(t)
<1>1. RoutesAgree(record', catalog', routed')
    BY QuietStep, UnrouteStep
<1>2. /\ \A q \in Records : record'[q].module
      /\ \A q \in Records : record'[q].name = record[q].name
    BY OneRecordStep
<1>3. QED BY <1>1, <1>2, OtherRequests, EndedManages DEF RStep, RequestFrame

\* A request rewrites one record, but not its routes, and awaits something.
LEMMA AwaitStep ==
    ASSUME IInv, RInv, NEW t \in Tasks, NEW r \in Records, NEW x,
           x.name = record[r].name, x.module, record' = [record EXCEPT ![r] = x],
           x.registered = record[r].registered, UNCHANGED <<catalog, routed>>,
           NEW pc, Await(t, pc), pc = "done" => task[t].op \notin {"rescan", "load"}
    PROVE  RStep(t)
<1>1. RoutesAgree(record', catalog', routed')
    BY QuietStep
<1>2. /\ \A q \in Records : record'[q].module
      /\ \A q \in Records : record'[q].name = record[q].name
    BY OneRecordStep
<1>3. ManagesOK(t, task[t], record, catalog) /\ task[t].rec \in Records \cup {Nil}
    BY DEF RInv, IInv, RequestsOK, Request
<1>4. /\ task'[t].op = task[t].op /\ task'[t].rec = task[t].rec
      /\ task'[t].file = task[t].file /\ task'[t].pc = pc
    BY DEF Await, IInv, RequestsOK, Request
<1>5. ManagesOK(t, task'[t], record', catalog')
    BY <1>2, <1>3, <1>4 DEF ManagesOK, Managing
<1>6. QED BY <1>1, <1>2, <1>5, OtherRequests DEF RStep, RequestFrame

LEMMA ArriveStep ==
    ASSUME IInv, RInv, Arrive
    PROVE  \E t \in Tasks : RStep(t)
<1>0. Callers \subseteq Tasks /\ Admins \subseteq Tasks
    BY DEF Tasks
<1>1. ASSUME NEW t \in Callers, NEW n \in Plugins, NEW e \in Endpoints, StartCall(t, n, e)
      PROVE  RStep(t)
    <2> DEFINE x == [Idle EXCEPT !.op = "call", !.pc = "run", !.rec = catalog[n], !.ep = e]
    <2>1. ManagesOK(t, x, record, catalog)
        BY DEF ManagesOK, Managing, Idle
    <2>2. task' = [task EXCEPT ![t] = x] /\ UNCHANGED <<record, catalog, routed>>
        BY <1>1 DEF StartCall
    <2>3. QED BY <2>1, <2>2, <1>0, BeginStep
<1>2. ASSUME NEW t \in Admins, NEW op, NEW todo, StartLocked(t, op, todo) PROVE RStep(t)
    <2> DEFINE x == [Idle EXCEPT !.op = op, !.pc = "scan", !.todo = todo]
    <2>1. ManagesOK(t, x, record, catalog)
        BY DEF ManagesOK, Managing, Idle
    <2>2. task' = [task EXCEPT ![t] = x] /\ UNCHANGED <<record, catalog, routed>>
        BY <1>2 DEF StartLocked
    <2>3. QED BY <2>1, <2>2, <1>0, BeginStep
<1>3. ASSUME NEW t \in Admins, StartShutdown(t) PROVE RStep(t)
    <2> DEFINE names == {n \in Plugins : catalog[n] # Nil}
               x == IF names = {} THEN Idle
                    ELSE [Idle EXCEPT !.op = "shutdown", !.pc = "scan", !.todo = names]
    <2>1. ManagesOK(t, x, record, catalog)
        BY DEF ManagesOK, Managing, Idle
    <2>2. task' = [task EXCEPT ![t] = x] /\ UNCHANGED <<record, catalog, routed>>
        BY <1>3 DEF StartShutdown
    <2>3. QED BY <2>1, <2>2, <1>0, BeginStep
<1>4. ASSUME NEW t \in Admins, NEW n \in Plugins, StartHealth(t, n) PROVE RStep(t)
    <2> DEFINE y == record[catalog[n]]
               b == y.state = "unavailable" \/ ~y.available \/ ~y.registered
               x == [Idle EXCEPT !.op = "health", !.pc = "run", !.rec = catalog[n],
                                 !.recover = b]
    <2>1. ManagesOK(t, x, record, catalog)
        BY <1>4 DEF ManagesOK, Managing, Idle, StartHealth, RInv, RoutesAgree
    <2>2. task' = [task EXCEPT ![t] = x] /\ UNCHANGED <<record, catalog, routed>>
        BY <1>4 DEF StartHealth
    <2>3. QED BY <2>1, <2>2, <1>0, BeginStep
<1>5. ASSUME NEW t \in Admins, NEW n \in Plugins, StartUnload(t, n) PROVE RStep(t)
    <2> DEFINE r == catalog[n]
               x == [Idle EXCEPT !.op = "unload", !.pc = "done", !.rec = r]
    <2>1. CASE NeedsDone(r)
        <3>1. ManagesOK(t, x, record, catalog)
            BY <1>5 DEF ManagesOK, Managing, Idle, StartUnload, RInv, RoutesAgree
        <3>2. task' = [task EXCEPT ![t] = x] /\ UNCHANGED <<record, catalog, routed>>
            BY <1>5, <2>1 DEF StartUnload
        <3>3. QED BY <3>1, <3>2, <1>0, BeginStep
    <2>2. CASE ~NeedsDone(r)
        <3>1. r \in Records /\ record[r] \in PluginRecord
            BY <1>5 DEF StartUnload, IInv, AllSound
        <3>2. /\ record' = [record EXCEPT ![r] = Stopped(record[r])]
              /\ routed' = Unrouted(r) /\ UNCHANGED <<catalog, task>>
            BY <1>5, <2>2 DEF StartUnload
        <3>3. /\ Stopped(record[r]).name = record[r].name
              /\ Stopped(record[r]).module = record[r].module
              /\ ~Stopped(record[r]).registered
            BY <3>1, NamesKept
        <3> DEFINE y == Stopped(record[r])
        <3>4. y.module
            BY <3>1, <3>3 DEF RInv
        <3> HIDE DEF y
        <3>5. RoutesAgree(record', catalog', routed')
            BY <3>1, <3>2, <3>3, UnrouteStep DEF y
        <3>6. /\ \A q \in Records : record'[q].module
              /\ \A q \in Records : record'[q].name = record[q].name
            BY <3>1, <3>2, <3>3, <3>4, OneRecordStep DEF y
        <3>7. ManagesOK(t, task[t], record, catalog) /\ task[t].rec \in Records \cup {Nil}
            BY <1>0 DEF RInv, IInv, RequestsOK, Request
        <3>8. ManagesOK(t, task'[t], record', catalog')
            BY <3>2, <3>6, <3>7 DEF ManagesOK
        <3>9. QED BY <3>2, <3>5, <3>6, <3>8 DEF RStep, RequestFrame
    <2>3. QED BY <2>1, <2>2
<1>6. ASSUME NEW t \in Admins, NEW n \in Plugins, HealthWithoutModule(t, n) PROVE FALSE
    BY <1>6 DEF HealthWithoutModule, RInv, IInv
<1>7. QED
    BY <1>0, <1>1, <1>2, <1>3, <1>4, <1>5, <1>6
       DEF Arrive, StartRescan, StartLoad, StartReload

\* A new record takes the place of one that has no routes any more.
LEMMA InstallStep ==
    ASSUME IInv, RInv, NEW t \in Tasks, Managing(task[t]), NEW n \in Plugins,
           NEW file, file \in FileOutcomes, file # "invalid",
           NEW recs \in [Records -> PluginRecord], \A q \in Records : recs[q].module,
           NEW rts, RoutesAgree(recs, catalog, rts),
           catalog[n] = Nil \/ ~recs[catalog[n]].registered,
           Install(t, n, file, recs, rts)
    PROVE  RStep(t)
<1>1. PICK r \in Fresh :
        /\ catalog' = [catalog EXCEPT ![n] = r]
        /\ IF file = "ok"
           THEN /\ record' = [recs EXCEPT ![r] = Loading(n)]
                /\ routed' = rts \cup Routes(n)
                /\ task' = [task EXCEPT ![t].pc = "init", ![t].rec = r,
                                        ![t].todo = @ \ {n}, ![t].file = "none"]
           ELSE /\ record' = [recs EXCEPT ![r] = NotActivated(n, file)]
                /\ routed' = rts
                /\ Proceed(t, task[t].todo \ {n})
    BY DEF Install
<1>2. r \in Records /\ \A m \in Plugins : catalog[m] # r
    BY DEF Fresh
<1>3. ManagesOK(t, task[t], record, catalog) /\ t \in Admins
    BY DEF RInv, ManagesOK
<1>4. file = "incompatible" \/ file = "ok"
    BY EngineAssumption
<1>5. catalog \in [Plugins -> Records \cup {Nil}] /\ task \in [Tasks -> Request]
    BY DEF IInv, RequestsOK
<1>6. CASE file = "ok"
    <2> DEFINE x == [task[t] EXCEPT !.pc = "init", !.rec = r, !.todo = @ \ {n}, !.file = "none"]
               y == Loading(n)
    <2>1. y.name = n /\ y.module /\ y.registered = (Endpoints # {})
        BY DEF Loading, Registered, NewRecord
    <2>2. task' = [task EXCEPT ![t] = x]
        BY <1>1, <1>5, <1>6 DEF Request
    <2>3. x.op = task[t].op /\ x.rec = r /\ x.pc = "init"
        BY <1>5 DEF Request
    <2> HIDE DEF x, y
    <2>4. record' = [recs EXCEPT ![r] = y] /\ routed' = rts \cup Routes(n)
        BY <1>1, <1>6 DEF y
    <2>5. routed' = IF y.registered THEN rts \cup Routes(n) ELSE rts
        BY <2>1, <2>4 DEF Routes
    <2>6. RoutesAgree(record', catalog', routed')
        <3>1. y.registered => Endpoints # {}
            BY <2>1
        <3>2. catalog' = [catalog EXCEPT ![n] = r]
            BY <1>1
        <3>3. RoutesAgree([recs EXCEPT ![r] = y], [catalog EXCEPT ![n] = r],
                          IF y.registered THEN rts \cup Routes(n) ELSE rts)
            BY <1>2, <1>5, <2>1, <3>1, InstallAgree
        <3>4. QED BY <2>4, <2>5, <3>2, <3>3
    <2>7. record'[r] = y /\ \A q \in Records : record'[q].module
        BY <1>2, <2>1, <2>4
    <2>8. task'[t] = x /\ \A u \in Tasks \ {t} : task'[u] = task[u]
        BY <1>5, <2>2
    <2>9. catalog'[n] = r
        BY <1>1, <1>5
    <2>10. ManagesOK(t, task'[t], record', catalog')
        BY <1>3, <2>1, <2>3, <2>7, <2>8, <2>9 DEF ManagesOK
    <2>11. QED BY <2>6, <2>7, <2>8, <2>10 DEF RStep, RequestFrame
<1>7. CASE file = "incompatible"
    <2> DEFINE y == NotActivated(n, file)
    <2>1. y.name = n /\ y.module /\ ~y.registered
        BY <1>7 DEF NotActivated, NewRecord
    <2> HIDE DEF y
    <2>2. /\ record' = [recs EXCEPT ![r] = y] /\ routed' = rts
          /\ Proceed(t, task[t].todo \ {n})
        BY <1>1, <1>7 DEF y
    <2>3. RoutesAgree(record', catalog', routed')
        BY <1>1, <1>2, <1>5, <2>1, <2>2, InstallAgree
    <2>4. \A q \in Records : record'[q].module
        BY <1>2, <2>1, <2>2
    <2>5. QED BY <2>2, <2>3, <2>4, OtherRequests, EndedManages DEF RStep, RequestFrame
<1>8. QED BY <1>4, <1>6, <1>7

LEMMA InstallOrRejectStep ==
    ASSUME ReadableFiles, IInv, RInv, NEW t \in Tasks, Managing(task[t]), NEW n \in Plugins,
           NEW recs \in [Records -> PluginRecord], \A q \in Records : recs[q].module,
           NEW rts, RoutesAgree(recs, catalog, rts),
           catalog[n] = Nil \/ ~recs[catalog[n]].registered,
           InstallOrReject(t, n, recs, rts)
    PROVE  RStep(t)
<1>1. PICK file \in FileOutcomes : file # "invalid" /\ Install(t, n, file, recs, rts)
    BY DEF InstallOrReject, ReadableFiles
<1>2. QED BY <1>1, InstallStep

\* What Unrouted and Stopped leave for a load that follows them.
LEMMA StoppedRecords ==
    ASSUME IInv, RInv, NEW r \in Records
    PROVE  LET recs == [record EXCEPT ![r] = Stopped(record[r])]
           IN  /\ recs \in [Records -> PluginRecord]
               /\ \A q \in Records : recs[q].module
               /\ RoutesAgree(recs, catalog, Unrouted(r))
               /\ ~recs[r].registered
               /\ Stopped(record[r]).name = record[r].name
               /\ Stopped(record[r]).module /\ ~Stopped(record[r]).registered
<1> DEFINE x == Stopped(record[r])
           recs == [record EXCEPT ![r] = x]
<1>1. record[r] \in PluginRecord /\ record \in [Records -> PluginRecord]
      /\ catalog \in [Plugins -> Records \cup {Nil}]
    BY DEF IInv, AllSound
<1>2. x.name = record[r].name /\ x.module /\ ~x.registered
    BY <1>1, NamesKept DEF RInv
<1>3. recs \in [Records -> PluginRecord]
    BY StoppedOK DEF AllSound
<1> HIDE DEF x
<1>4. \A q \in Records : recs[q].module
    BY <1>1, <1>2 DEF RInv
<1>5. RoutesAgree(recs, catalog, Unrouted(r))
    BY <1>1, <1>2, UnrouteAgree DEF RInv, Unrouted
<1>6. ~recs[r].registered
    BY <1>1, <1>2
<1>7. QED BY <1>2, <1>3, <1>4, <1>5, <1>6 DEF x

\* A request awaits the plugin_done of a record of the catalog.
LEMMA AwaitDoneStep ==
    ASSUME IInv, RInv, NEW t \in Tasks, NEW n \in Plugins, catalog[n] # Nil, NEW file,
           task[t].op \in {"rescan", "load"} => file \in FileOutcomes,
           Managing(task[t]), AwaitDone(t, catalog[n], file)
    PROVE  RStep(t)
<1> DEFINE x == [task[t] EXCEPT !.pc = "done", !.rec = catalog[n], !.file = file]
<1>1. task[t] \in Request /\ task \in [Tasks -> Request]
    BY DEF IInv, RequestsOK
<1>2. task' = [task EXCEPT ![t] = x] /\ UNCHANGED <<record, catalog, routed>>
    BY <1>1 DEF AwaitDone, Request
<1>3. x.op = task[t].op /\ x.rec = catalog[n] /\ x.file = file
    BY <1>1 DEF Request
<1>4. record[catalog[n]].name = n /\ ManagesOK(t, task[t], record, catalog)
    BY DEF RInv, RoutesAgree
<1> HIDE DEF x
<1>5. ManagesOK(t, x, record, catalog)
    BY <1>3, <1>4 DEF ManagesOK
<1>6. QED BY <1>2, <1>5, BeginStep

-----------------------------------------------------------------------------
(* The routes and the requests after each step of a request in flight.     *)

LEMMA DeactivateStep ==
    ASSUME IInv, RInv, NEW t \in Tasks, task[t].rec \in Records,
           task[t].op \in {"call", "health"}, NEW x \in PluginRecord,
           x.name = record[task[t].rec].name, x.module,
           x.registered = record[task[t].rec].registered, Deactivate(t, x)
    PROVE  RStep(t)
<1>1. CASE x.lifecycle /\ x.module
    <2>1. /\ record' = [record EXCEPT ![task[t].rec] = x] /\ Await(t, "done")
          /\ UNCHANGED <<routed, catalog>>
        BY <1>1 DEF Deactivate
    <2>2. QED BY <2>1, AwaitStep
<1>2. CASE ~(x.lifecycle /\ x.module)
    <2> DEFINE y == Unavailable(x)
    <2>1. y.name = record[task[t].rec].name /\ y.module /\ ~y.registered
        BY NamesKept
    <2> HIDE DEF y
    <2>2. /\ record' = [record EXCEPT ![task[t].rec] = y]
          /\ routed' = Unrouted(task[t].rec) /\ Finish(t) /\ UNCHANGED catalog
        BY <1>2 DEF Deactivate, y
    <2>3. QED BY <2>1, <2>2, EndStep
<1>3. QED BY <1>1, <1>2

LEMMA CallStep ==
    ASSUME IInv, RInv, NEW t \in Tasks, CallReturns(t) \/ CallRaises(t)
    PROVE  RStep(t)
<1> DEFINE r == task[t].rec
           e == task[t].ep
           failed == CallFailed(record[r], e)
           succeeded == CallSucceeded(record[r], e)
<1>1. r \in Records /\ e \in Endpoints /\ task[t].op = "call" /\ record[r] \in PluginRecord
    BY DEF CallReturns, CallRaises, IInv, RequestsOK, RequestOK, AllSound
<1>2. /\ failed.name = record[r].name /\ failed.registered = record[r].registered
      /\ failed.module
      /\ succeeded.name = record[r].name /\ succeeded.registered = record[r].registered
      /\ succeeded.module
    BY <1>1, NamesKept DEF RInv
<1>3. failed \in PluginRecord
    BY <1>1, CountersAreSound DEF IInv, AllSound, Sound
<1>4. CASE CallReturns(t)
    <2>1. /\ record' = [record EXCEPT ![r] = succeeded] /\ Finish(t)
          /\ UNCHANGED <<catalog, routed>>
        BY <1>4 DEF CallReturns
    <2> HIDE DEF succeeded
    <2>2. QED BY <1>1, <1>2, <2>1, EndStep
<1>5. CASE CallRaises(t) /\ e \in failed.blocked
    <2>1. Deactivate(t, failed)
        BY <1>5 DEF CallRaises, Captured
    <2> HIDE DEF failed
    <2>2. QED BY <1>1, <1>2, <1>3, <2>1, DeactivateStep
<1>6. CASE CallRaises(t) /\ e \notin failed.blocked
    <2>1. /\ record' = [record EXCEPT ![r] = failed] /\ Finish(t)
          /\ UNCHANGED <<catalog, routed>>
        BY <1>6 DEF CallRaises, Captured
    <2> HIDE DEF failed
    <2>2. QED BY <1>1, <1>2, <2>1, EndStep
<1>7. QED BY <1>4, <1>5, <1>6

LEMMA HealthRaisesStep ==
    ASSUME IInv, RInv, NEW t \in Tasks, HealthRaises(t)
    PROVE  RStep(t)
<1> DEFINE r == task[t].rec
           x == HealthFailed(record[r])
<1>1. r \in Records /\ task[t].op = "health" /\ record[r] \in PluginRecord
    BY DEF HealthRaises, IInv, RequestsOK, RequestOK, AllSound
<1>2. x.name = record[r].name /\ x.registered = record[r].registered /\ x.module
    BY <1>1, NamesKept DEF RInv
<1>3. x \in PluginRecord
    BY <1>1, CountersAreSound DEF IInv, AllSound, Sound
<1>4. CASE x.health = HealthLimit
    <2>1. Deactivate(t, x)
        BY <1>4 DEF HealthRaises, Captured
    <2> HIDE DEF x
    <2>2. QED BY <1>1, <1>2, <1>3, <2>1, DeactivateStep
<1>5. CASE x.health # HealthLimit
    <2>1. /\ record' = [record EXCEPT ![r] = x] /\ Finish(t)
          /\ UNCHANGED <<catalog, routed>>
        BY <1>5 DEF HealthRaises, Captured
    <2> HIDE DEF x
    <2>2. QED BY <1>1, <1>2, <2>1, EndStep
<1>6. QED BY <1>4, <1>5

\* A check that recovers a record gives it its routes back.
LEMMA HealthReturnsStep ==
    ASSUME IInv, RInv, NEW t \in Tasks, HealthReturns(t)
    PROVE  RStep(t)
<1> DEFINE r == task[t].rec
           x == HealthPassed(record[r])
           y == Registered(x)
           z == Running(y)
<1>1. r \in Records /\ task[t].op = "health" /\ record[r] \in PluginRecord /\ r # Nil
    BY EngineAssumption DEF HealthReturns, IInv, RequestsOK, RequestOK, AllSound
<1>2. x.name = record[r].name /\ x.registered = record[r].registered /\ x.module
    BY <1>1, NamesKept DEF RInv
<1>3. x \in PluginRecord
    BY <1>1, CountersAreSound DEF IInv, AllSound, Sound
<1>4. y.name = record[r].name /\ y.module /\ y.registered = (Endpoints # {}) /\ y \in PluginRecord
    BY <1>2, <1>3 DEF Registered, PluginRecord
<1>5. z.name = record[r].name /\ z.module /\ z.registered = (Endpoints # {})
    BY <1>4, NamesKept DEF Running, PluginRecord
<1>6. catalog[record[r].name] = r
    BY <1>1 DEF RInv, ManagesOK, Managing
<1>7. task[t] \in Request /\ task \in [Tasks -> Request]
      /\ ManagesOK(t, task[t], record, catalog)
    BY DEF IInv, RequestsOK, RInv
<1>8. CASE ~task[t].recover
    <2>1. /\ record' = [record EXCEPT ![r] = x] /\ Finish(t)
          /\ UNCHANGED <<catalog, routed>>
        BY <1>8 DEF HealthReturns
    <2> HIDE DEF x
    <2>2. QED BY <1>1, <1>2, <2>1, EndStep
<1>9. ASSUME task[t].recover, NEW w \in {y, z}, record' = [record EXCEPT ![r] = w],
             Finish(t) \/ Await(t, "init")
      PROVE  RStep(t)
    <2>1. routed' = IF record[r].registered THEN routed
                    ELSE routed \cup Routes(record[r].name)
        BY <1>2, <1>9 DEF HealthReturns
    <2>2. w.name = record[r].name /\ w.module /\ w.registered = (Endpoints # {})
        BY <1>4, <1>5, <1>9
    <2> HIDE DEF x, y, z
    <2>3. catalog' = catalog /\ record \in [Records -> PluginRecord]
          /\ catalog \in [Plugins -> Records \cup {Nil}]
        BY DEF HealthReturns, IInv, AllSound
    <2>4. RoutesAgree(record', catalog', routed')
        <3>1. RoutesAgree([record EXCEPT ![r] = w], catalog,
                          IF record[r].registered THEN routed
                          ELSE routed \cup Routes(record[r].name))
            BY <1>1, <1>6, <2>2, <2>3, RouteAgree DEF RInv
        <3>2. QED BY <1>9, <2>1, <2>3, <3>1
    <2>5. /\ \A q \in Records : record'[q].module
          /\ \A q \in Records : record'[q].name = record[q].name
        BY <1>1, <1>9, <2>2, OneRecordStep
    <2>6. ManagesOK(t, task'[t], record', catalog')
        <3>1. CASE Finish(t)
            BY <3>1, EndedManages
        <3>2. CASE Await(t, "init")
            <4>1. /\ task'[t].op = task[t].op /\ task'[t].rec = r /\ task'[t].pc = "init"
                BY <1>7, <3>2 DEF Await, Request
            <4>2. QED BY <1>1, <1>7, <2>3, <2>5, <4>1 DEF ManagesOK, Managing
        <3>3. QED BY <1>9, <3>1, <3>2
    <2>7. QED BY <1>9, <2>3, <2>4, <2>5, <2>6, OtherRequests DEF RStep, RequestFrame
<1>10. CASE task[t].recover
    <2>1. \/ record' = [record EXCEPT ![r] = z] /\ Finish(t)
          \/ record' = [record EXCEPT ![r] = y] /\ Await(t, "init")
        BY <1>10 DEF HealthReturns
    <2> HIDE DEF x, y, z
    <2>2. QED BY <1>9, <1>10, <2>1
<1>11. QED BY <1>8, <1>10

LEMMA LoadStep ==
    ASSUME ReadableFiles, IInv, RInv, NEW t \in Tasks, NEW n \in Plugins,
           (\E file \in FileOutcomes : LoadFile(t, n, file)) \/ ReloadFile(t, n)
    PROVE  RStep(t)
<1> DEFINE old == catalog[n]
           recs == [record EXCEPT ![old] = Stopped(record[old])]
<1>1. Managing(task[t]) /\ record \in [Records -> PluginRecord]
      /\ RoutesAgree(record, catalog, routed) /\ old \in Records \cup {Nil}
      /\ \A q \in Records : record[q].module
    BY DEF Managing, LoadFile, ReloadFile, IInv, AllSound, RInv
<1>2. ASSUME NEW file \in FileOutcomes, LoadFile(t, n, file) PROVE RStep(t)
    <2>1. file # "invalid"
        BY DEF ReadableFiles
    <2>2. CASE old = Nil \/ ~record[old].registered
        <3>1. Install(t, n, file, record, routed)
            BY <1>2, <2>1, <2>2 DEF LoadFile
        <3>2. QED BY <1>1, <2>1, <2>2, <3>1, InstallStep
    <2>3. CASE old # Nil /\ record[old].registered
        <3>1. old \in Records
            BY <1>1, <2>3
        <3>2. CASE NeedsDone(old)
            <4>1. AwaitDone(t, old, file)
                BY <1>2, <2>1, <2>3, <3>2 DEF LoadFile
            <4>2. QED BY <1>1, <2>3, <4>1, AwaitDoneStep
        <3>3. CASE ~NeedsDone(old)
            <4>1. Install(t, n, file, recs, Unrouted(old))
                BY <1>2, <2>1, <2>3, <3>3 DEF LoadFile
            <4>2. /\ recs \in [Records -> PluginRecord] /\ \A q \in Records : recs[q].module
                  /\ RoutesAgree(recs, catalog, Unrouted(old)) /\ ~recs[old].registered
                BY <3>1, StoppedRecords
            <4> HIDE DEF recs
            <4>3. QED BY <1>1, <2>1, <4>1, <4>2, InstallStep
        <3>4. QED BY <3>2, <3>3
    <2>4. QED BY <2>2, <2>3
<1>3. ASSUME ReloadFile(t, n) PROVE RStep(t)
    <2>1. old \in Records /\ old # Nil /\ task[t].op = "reload"
        BY <1>3, EngineAssumption DEF ReloadFile, IInv, RequestsOK, RequestOK
    <2>2. CASE NeedsDone(old)
        <3>1. AwaitDone(t, old, "none")
            BY <1>3, <2>2 DEF ReloadFile
        <3>2. QED BY <1>1, <2>1, <3>1, AwaitDoneStep
    <2>3. CASE ~NeedsDone(old)
        <3>1. InstallOrReject(t, n, recs, Unrouted(old))
            BY <1>3, <2>3 DEF ReloadFile
        <3>2. /\ recs \in [Records -> PluginRecord] /\ \A q \in Records : recs[q].module
              /\ RoutesAgree(recs, catalog, Unrouted(old)) /\ ~recs[old].registered
            BY <2>1, StoppedRecords
        <3> HIDE DEF recs
        <3>3. QED BY <1>1, <3>1, <3>2, InstallOrRejectStep
    <2>4. QED BY <2>2, <2>3
<1>4. QED BY <1>2, <1>3

LEMMA StartupStep ==
    ASSUME IInv, RInv, NEW t \in Tasks, InitReturns(t) \/ PostinitReturns(t) \/ StartupRaises(t)
    PROVE  RStep(t)
<1> DEFINE r == task[t].rec
           x == [record[r] EXCEPT !.lifecycle = TRUE]
           y == Running(record[r])
           z == ActivationFailed(record[r])
<1>1. r \in Records /\ record[r] \in PluginRecord
    BY DEF InitReturns, PostinitReturns, StartupRaises, IInv, RequestsOK, RequestOK, AllSound
<1>2. /\ x.name = record[r].name /\ x.registered = record[r].registered /\ x.module
      /\ y.name = record[r].name /\ y.registered = record[r].registered /\ y.module
      /\ z.name = record[r].name /\ ~z.registered /\ z.module
    BY <1>1, NamesKept DEF RInv
<1>3. CASE InitReturns(t)
    <2>1. /\ record' = [record EXCEPT ![r] = x] /\ Await(t, "postinit")
          /\ UNCHANGED <<catalog, routed>>
        BY <1>3 DEF InitReturns
    <2> HIDE DEF x
    <2>2. QED BY <1>1, <1>2, <2>1, AwaitStep
<1>4. CASE PostinitReturns(t)
    <2>1. /\ record' = [record EXCEPT ![r] = y] /\ Proceed(t, task[t].todo)
          /\ UNCHANGED <<catalog, routed>>
        BY <1>4 DEF PostinitReturns
    <2> HIDE DEF y
    <2>2. QED BY <1>1, <1>2, <2>1, EndStep
<1>5. CASE StartupRaises(t) /\ task[t].op = "health"
    <2>1. Finish(t) /\ UNCHANGED <<record, routed, catalog>>
        BY <1>5 DEF StartupRaises
    <2>2. QED BY <2>1, OtherRequests, EndedManages DEF RStep, RequestFrame, RInv
<1>6. CASE StartupRaises(t) /\ task[t].op # "health"
    <2>1. /\ record' = [record EXCEPT ![r] = z] /\ routed' = Unrouted(r)
          /\ Proceed(t, task[t].todo) /\ UNCHANGED catalog
        BY <1>6 DEF StartupRaises
    <2> HIDE DEF z
    <2>2. QED BY <1>1, <1>2, <2>1, EndStep
<1>7. QED BY <1>3, <1>4, <1>5, <1>6

LEMMA ShutdownStep ==
    ASSUME IInv, RInv, NEW t \in Tasks, NEW n \in Plugins, ShutdownPlugin(t, n)
    PROVE  RStep(t)
<1> DEFINE r == catalog[n]
           x == Stopped(record[r])
<1>1. r \in Records /\ r # Nil /\ task[t].op = "shutdown" /\ Managing(task[t])
    BY EngineAssumption DEF ShutdownPlugin, IInv, RequestsOK, RequestOK, Managing
<1>2. CASE NeedsDone(r)
    <2>1. AwaitDone(t, r, "none")
        BY <1>2 DEF ShutdownPlugin
    <2>2. QED BY <1>1, <2>1, AwaitDoneStep
<1>3. CASE ~NeedsDone(r)
    <2>1. /\ record' = [record EXCEPT ![r] = x] /\ routed' = Unrouted(r)
          /\ Proceed(t, task[t].todo \ {n}) /\ UNCHANGED catalog
        BY <1>3 DEF ShutdownPlugin
    <2>2. x.name = record[r].name /\ x.module /\ ~x.registered
        BY <1>1, StoppedRecords
    <2> HIDE DEF x
    <2>3. QED BY <1>1, <2>1, <2>2, EndStep
<1>4. QED BY <1>2, <1>3

LEMMA DoneStep ==
    ASSUME ReadableFiles, IInv, RInv, NEW t \in Tasks, DoneReturns(t)
    PROVE  RStep(t)
<1> DEFINE r == task[t].rec
           n == record[r].name
           recs == [record EXCEPT ![r] = Stopped(record[r])]
           x == Stopped(record[r])
           y == Unavailable(record[r])
<1>1. /\ r \in Records /\ r # Nil /\ task[t].op # "none" /\ task[t] \in Request
      /\ record[r] \in PluginRecord /\ n \in Plugins
    BY EngineAssumption DEF DoneReturns, IInv, RequestsOK, RequestOK, AllSound, PluginRecord
<1>2. /\ recs \in [Records -> PluginRecord] /\ \A q \in Records : recs[q].module
      /\ RoutesAgree(recs, catalog, Unrouted(r)) /\ ~recs[r].registered
      /\ x.name = record[r].name /\ x.module /\ ~x.registered
    BY <1>1, StoppedRecords
<1>3. y.name = record[r].name /\ ~y.registered /\ y.module
    BY <1>1, NamesKept DEF RInv
<1>4. CASE task[t].op \in {"call", "health"}
    <2>1. /\ record' = [record EXCEPT ![r] = y] /\ routed' = Unrouted(r) /\ Finish(t)
          /\ UNCHANGED catalog
        BY <1>4 DEF DoneReturns
    <2> HIDE DEF y
    <2>2. QED BY <1>1, <1>3, <2>1, EndStep
<1>5. CASE task[t].op \in {"unload", "shutdown"}
    <2>1. /\ record' = [record EXCEPT ![r] = x] /\ routed' = Unrouted(r)
          /\ Proceed(t, task[t].todo \ {n}) /\ UNCHANGED catalog
        BY <1>5 DEF DoneReturns
    <2> HIDE DEF x
    <2>2. QED BY <1>1, <1>2, <2>1, EndStep
<1>6. ASSUME task[t].op \in {"rescan", "load", "reload"}
      PROVE  /\ Managing(task[t]) /\ catalog[n] = r
             /\ task[t].op # "reload" => task[t].file \in FileOutcomes
    BY <1>1, <1>6 DEF RInv, ManagesOK, Managing, DoneReturns
<1>7. CASE task[t].op \in {"rescan", "load"}
    <2>1. Install(t, n, task[t].file, recs, Unrouted(r))
        BY <1>7 DEF DoneReturns
    <2>2. task[t].file # "invalid"
        BY <1>6, <1>7 DEF ReadableFiles
    <2> HIDE DEF recs
    <2>3. QED BY <1>1, <1>2, <1>6, <1>7, <2>1, <2>2, InstallStep
<1>8. CASE task[t].op = "reload"
    <2>1. InstallOrReject(t, n, recs, Unrouted(r))
        BY <1>8 DEF DoneReturns
    <2> HIDE DEF recs
    <2>2. QED BY <1>1, <1>2, <1>6, <1>8, <2>1, InstallOrRejectStep
<1>9. QED BY <1>1, <1>4, <1>5, <1>7, <1>8 DEF Request, AllOperations

LEMMA FlightStep ==
    ASSUME ReadableFiles, IInv, RInv, NEW t \in Tasks, Step(t)
    PROVE  RStep(t)
BY CallStep, HealthReturnsStep, HealthRaisesStep, LoadStep, StartupStep, ShutdownStep,
   DoneStep DEF Step

LEMMA NothingIsRouted ==
    LET recs == [r \in Records |-> NewRecord(CHOOSE n \in Plugins : TRUE)]
        cat == [n \in Plugins |-> Nil]
    IN  RoutesAgree(recs, cat, {}) /\ \A r \in Records : recs[r].module
BY DEF RoutesAgree, NewRecord

LEMMA RInvHolds ==
    ASSUME OneAdmin, ReadableFiles
    PROVE  Spec => []RInv
<1>1. Init => RInv
    BY NothingIsRouted DEF Init, RInv, ManagesOK, Managing, Idle
<1>2. IInv /\ RInv /\ [Next]_vars => RInv'
    <2> SUFFICES ASSUME IInv, RInv, [Next]_vars PROVE RInv'
        OBVIOUS
    <2>1. ASSUME NEW t \in Tasks, RStep(t) PROVE RInv'
        BY <2>1, FrameKeepsRequests DEF RStep, RInv
    <2>2. CASE Restart
        <3>1. \A t \in Tasks : task'[t].op = "none"
            BY <2>2 DEF Restart, IsIdle, IInv, RequestsOK, RequestOK, Idle
        <3>2. RoutesAgree(record', catalog', routed') /\ \A r \in Records : record'[r].module
            BY <2>2, NothingIsRouted DEF Restart
        <3>3. QED BY <3>1, <3>2 DEF RInv, ManagesOK, Managing
    <2>3. CASE UNCHANGED vars
        BY <2>3 DEF vars, RInv
    <2>4. QED BY <2>1, <2>2, <2>3, ArriveStep, FlightStep DEF Next
<1>3. QED BY <1>1, <1>2, IInvHolds, PTL DEF Spec

\* With one administrator and readable plugin files, and whatever calls,
\* health checks, unloads and loads overlap, the application's routes are those
\* that the records of the catalog believe they have, and no other record
\* believes that it has any.
THEOREM RoutesMatch ==
    ASSUME OneAdmin, ReadableFiles
    PROVE  Spec => []RoutesMatchCatalog
<1>1. IInv /\ RInv => RoutesMatchCatalog
    <2> SUFFICES ASSUME IInv, RInv, NEW r \in Records \ {catalog[n] : n \in Plugins},
                        record[r].registered
                 PROVE  FALSE
        BY DEF RInv, RoutesAgree, RoutesMatchCatalog
    <2>1. record[r].name \in Plugins
        BY DEF IInv, AllSound, PluginRecord
    <2>2. QED BY <2>1 DEF RInv, RoutesAgree
<1>2. QED BY <1>1, RInvHolds, IInvHolds, PTL

-----------------------------------------------------------------------------
(* SupersededCallsAreInert: a call writes only the record it captured, and *)
(* unregisters nothing that is not that record's.                          *)

LEMMA ArrivalsWereIdle ==
    ASSUME IInv, Arrive
    PROVE  \A t \in Tasks : task'[t] # task[t] => task[t].rec = Nil
<1>1. \A u : IsIdle(u) /\ u \in Tasks => task[u].rec = Nil
    BY DEF IsIdle, IInv, RequestsOK, RequestOK, Idle
<1>2. ASSUME NEW u \in Tasks, NEW x, task' = [task EXCEPT ![u] = x], IsIdle(u)
      PROVE  \A t \in Tasks : task'[t] # task[t] => task[t].rec = Nil
    BY <1>1, <1>2 DEF IInv, RequestsOK
<1>3. \/ UNCHANGED task
      \/ \E u \in Tasks : \E x : task' = [task EXCEPT ![u] = x] /\ IsIdle(u)
    BY DEF Arrive, StartCall, StartRescan, StartLoad, StartReload, StartLocked,
           StartShutdown, StartUnload, StartHealth, HealthWithoutModule, Tasks
<1>4. QED BY <1>2, <1>3

LEMMA CallsTouchTheirRecord ==
    ASSUME NEW t \in Tasks, task[t].op = "call", Step(t)
    PROVE  /\ \/ UNCHANGED record
              \/ \E x : record' = [record EXCEPT ![task[t].rec] = x]
           /\ routed' \in {routed, Unrouted(task[t].rec)}
<1>1. CASE CallReturns(t) \/ CallRaises(t)
    BY <1>1 DEF CallReturns, CallRaises, Deactivate
<1>2. CASE InitReturns(t) \/ PostinitReturns(t) \/ StartupRaises(t)
    BY <1>2 DEF InitReturns, PostinitReturns, StartupRaises
<1>3. CASE DoneReturns(t)
    BY <1>3 DEF DoneReturns
<1>4. QED
    BY <1>1, <1>2, <1>3 DEF Step, HealthReturns, HealthRaises, LoadFile, ReloadFile,
                            ShutdownPlugin

\* A call let in before its plugin was reloaded ends without touching the
\* routes or any record of the catalog.
THEOREM SupersededCalls ==
    ASSUME OneAdmin, ReadableFiles
    PROVE  Spec => SupersededCallsAreInert
<1> DEFINE Inert ==
        \A t \in Callers :
            LET r == task[t].rec
            IN  r # Nil /\ task'[t] # task[t] /\ catalog[record[r].name] # r =>
                    /\ routed' = routed
                    /\ \A n \in Plugins :
                         catalog[n] # Nil => record'[catalog[n]] = record[catalog[n]]
<1>1. IInv /\ RInv /\ [Next]_vars => Inert
    <2> SUFFICES ASSUME IInv, RInv, [Next]_vars, NEW t \in Callers,
                        task[t].rec # Nil, task'[t] # task[t],
                        catalog[record[task[t].rec].name] # task[t].rec
                 PROVE  /\ routed' = routed
                        /\ \A n \in Plugins :
                             catalog[n] # Nil => record'[catalog[n]] = record[catalog[n]]
        OBVIOUS
    <2> DEFINE r == task[t].rec
    <2>1. t \in Tasks /\ r \in Records /\ RequestOK(task[t], catalog)
        BY DEF Tasks, IInv, RequestsOK, Request
    <2>2. task[t].op = "call"
        BY <2>1 DEF RInv, ManagesOK, Managing, RequestOK, Idle
    <2>3. Step(t)
        <3>1. ASSUME NEW u \in Tasks, u # t, Step(u) PROVE FALSE
            BY <3>1, <2>1, FlightStep DEF RStep, RequestFrame
        <3>2. QED BY <3>1, <2>1, ArrivalsWereIdle DEF Next, Restart, vars
    <2>4. \A n \in Plugins : catalog[n] # Nil => catalog[n] # r
        BY DEF RInv, RoutesAgree
    <2>5. ~record[r].registered
        BY <2>1 DEF RInv, RoutesAgree
    <2>6. QED
        BY <2>1, <2>2, <2>3, <2>4, <2>5, CallsTouchTheirRecord
           DEF Unrouted, IInv, AllSound
<1>2. QED BY <1>1, RInvHolds, IInvHolds, PTL DEF Spec, SupersededCallsAreInert

-----------------------------------------------------------------------------
(* AvailableIsServed and BlockedGoesDown, with one administrator and       *)
(* without health checks.  A record is published once its startup is over; *)
(* until then no other request holds it, so that it still has its routes   *)
(* and no failures then.                                                   *)

NoHealthChecks == "health" \notin Operations

Served(x) ==
    x.available => x.lifecycle /\ x.module /\ (Endpoints # {} => x.registered)

Starts(x) == x.pc \in {"init", "postinit"}

\* A record whose startup has come to pc.
StartingOK(x, pc) ==
    /\ ~x.available /\ x.module /\ x.blocked = {}
    /\ Endpoints # {} => x.registered
    /\ pc = "postinit" => x.lifecycle

ServesOK(t, x) ==
    /\ x.op # "health"
    /\ x.pc \in {"scan", "init", "postinit"} => Managing(x)
    /\ Managing(x) => t \in Admins

SInv ==
    /\ \A r \in Records : Served(record[r])
    /\ BlockedGoesDown
    /\ \A t \in Tasks : ServesOK(t, task[t])
    /\ \A t \in Tasks : Starts(task[t]) =>
            /\ StartingOK(record[task[t].rec], task[t].pc)
            /\ \A u \in Tasks \ {t} : task[u].rec # task[t].rec

\* What a step leaves of a failing endpoint's record, as far as request t is
\* concerned: nothing to take down, or somebody still to do it.
GoesDown(t, q) ==
    \/ record'[q].blocked = {} \/ ~record'[q].available
    \/ task'[t].pc = "done" /\ task'[t].rec = q
    \/ record[q].available /\ record[q].blocked # {} /\ task[t].pc # "done"

\* A step of request t that rewrites the records C.
ServeFrame(t, C) ==
    /\ \A u \in Tasks \ {t} : task'[u] = task[u]
    /\ \A q \in Records \ C : record'[q] = record[q]
    /\ \A q \in C : Served(record'[q]) /\ GoesDown(t, q)
    /\ \A u \in Tasks \ {t} : Starts(task[u]) =>
            task[u].rec \notin C /\ task'[t].rec # task[u].rec
    /\ task[t].pc = "done" => task[t].rec \in C
    /\ Starts(task'[t]) =>
            /\ task'[t].rec \in Records
            /\ StartingOK(record'[task'[t].rec], task'[t].pc)
            /\ \A u \in Tasks \ {t} : task[u].rec # task'[t].rec
    /\ ServesOK(t, task'[t])

LEMMA ServeFrameKeeps ==
    ASSUME IInv, SInv, NEW t \in Tasks, NEW C \in SUBSET Records, ServeFrame(t, C)
    PROVE  SInv'
<1>1. \A r \in Records : Served(record'[r])
    BY DEF SInv, ServeFrame
<1>2. BlockedGoesDown'
    <2> SUFFICES ASSUME NEW r \in Records, record'[r].blocked # {}, record'[r].available
                 PROVE  \E u \in Tasks : task'[u].pc = "done" /\ task'[u].rec = r
        BY DEF BlockedGoesDown
    <2>1. CASE r \in C /\ task'[t].pc = "done" /\ task'[t].rec = r
        BY <2>1
    <2>2. CASE ~(r \in C /\ task'[t].pc = "done" /\ task'[t].rec = r)
        <3>1. record[r].blocked # {} /\ record[r].available
            BY <2>2 DEF ServeFrame, GoesDown
        <3>2. PICK u \in Tasks : task[u].pc = "done" /\ task[u].rec = r
            BY <3>1 DEF SInv, BlockedGoesDown
        <3>3. u # t
            BY <2>2, <3>2 DEF ServeFrame, GoesDown
        <3>4. QED BY <3>2, <3>3 DEF ServeFrame
    <2>3. QED BY <2>1, <2>2
<1>3. ASSUME NEW u \in Tasks PROVE ServesOK(u, task'[u])
    BY DEF SInv, ServeFrame
<1>4. ASSUME NEW u \in Tasks, Starts(task'[u])
      PROVE  /\ StartingOK(record'[task'[u].rec], task'[u].pc)
             /\ \A v \in Tasks \ {u} : task'[v].rec # task'[u].rec
    <2>1. CASE u = t
        BY <1>4, <2>1 DEF ServeFrame
    <2>2. CASE u # t
        <3>1. task'[u] = task[u] /\ Starts(task[u])
            BY <1>4, <2>2 DEF ServeFrame
        <3>2. task[u].rec \in Records
            BY <3>1 DEF IInv, RequestsOK, RequestOK, Starts
        <3>3. task[u].rec \notin C /\ task'[t].rec # task[u].rec
            BY <2>2, <3>1 DEF ServeFrame
        <3>4. record'[task[u].rec] = record[task[u].rec]
            BY <3>2, <3>3 DEF ServeFrame
        <3>5. \A v \in Tasks \ {u} : task'[v].rec # task[u].rec
            BY <3>1, <3>3 DEF SInv, ServeFrame
        <3>6. QED BY <3>1, <3>4, <3>5 DEF SInv
    <2>3. QED BY <2>1, <2>2
<1>5. QED BY <1>1, <1>2, <1>3, <1>4 DEF SInv

LEMMA OnlyTheAdminStarts ==
    ASSUME OneAdmin, SInv, NEW t \in Tasks, t \in Admins
    PROVE  \A u \in Tasks \ {t} : ~Starts(task[u])
BY DEF OneAdmin, SInv, ServesOK, Starts

\* What a call must leave alone: the records that are being started.
LEMMA CallsMissStarts ==
    ASSUME IInv, SInv, NEW t \in Tasks, task[t].pc \in {"run", "done"}
    PROVE  \A u \in Tasks \ {t} : Starts(task[u]) =>
                task[u].rec # task[t].rec /\ task[u].rec # Nil
BY EngineAssumption DEF SInv, IInv, RequestsOK, RequestOK, Starts

\* Operations on a record that leave it unavailable, or as available as it was.
LEMMA ServedRecords ==
    ASSUME NEW x \in PluginRecord
    PROVE  /\ \A y \in {ActivationFailed(x), Stopped(x), Unavailable(x)} : ~y.available
           /\ \A n \in Plugins : ~Loading(n).available /\ Loading(n).blocked = {}
                                 /\ Loading(n).module
                                 /\ (Endpoints # {} => Loading(n).registered)
           /\ \A n \in Plugins : \A file : ~NotActivated(n, file).available
           /\ \A e \in Endpoints : \A y \in {CallFailed(x, e), CallSucceeded(x, e)} :
                /\ y.available = x.available /\ y.lifecycle = x.lifecycle
                /\ y.module = x.module /\ y.registered = x.registered
           /\ \A e \in Endpoints :
                /\ CallSucceeded(x, e).blocked \subseteq x.blocked
                /\ e \notin CallFailed(x, e).blocked => CallFailed(x, e).blocked = x.blocked
<1>1. /\ \A y \in {ActivationFailed(x), Stopped(x), Unavailable(x)} : ~y.available
      /\ \A n \in Plugins : ~Loading(n).available /\ Loading(n).blocked = {}
                            /\ Loading(n).module
                            /\ (Endpoints # {} => Loading(n).registered)
      /\ \A n \in Plugins : \A file : ~NotActivated(n, file).available
    BY DEF ActivationFailed, Stopped, Unavailable, Loading, Registered, NewRecord,
           NotActivated, PluginRecord
<1>2. \A e \in Endpoints : \A y \in {CallFailed(x, e), CallSucceeded(x, e)} :
                /\ y.available = x.available /\ y.lifecycle = x.lifecycle
                /\ y.module = x.module /\ y.registered = x.registered
    BY DEF CallFailed, CallSucceeded, PluginRecord
<1>3. \A e \in Endpoints :
                /\ CallSucceeded(x, e).blocked \subseteq x.blocked
                /\ e \notin CallFailed(x, e).blocked => CallFailed(x, e).blocked = x.blocked
    BY DEF CallFailed, CallSucceeded, PluginRecord
<1>4. QED BY <1>1, <1>2, <1>3

-----------------------------------------------------------------------------
(* What is served after each action.                                       *)

\* A request that begins, or goes on to await a plugin_done, touches no record.
LEMMA BeginServe ==
    ASSUME OneAdmin, IInv, SInv, NEW t \in Tasks, NEW x, ServesOK(t, x), ~Starts(x),
           x.rec \in Records => t \in Admins \/ record[x.rec].available,
           x.rec \in Records \cup {Nil},
           task[t].pc # "done", task' = [task EXCEPT ![t] = x], UNCHANGED record
    PROVE  SInv'
<1>1. task'[t] = x /\ \A u \in Tasks \ {t} : task'[u] = task[u]
    BY DEF IInv, RequestsOK
<1>2. ASSUME NEW u \in Tasks \ {t}, Starts(task[u]) PROVE x.rec # task[u].rec
    <2>1. task[u].rec \in Records /\ task[u].rec # Nil
        BY <1>2, EngineAssumption DEF IInv, RequestsOK, RequestOK, Starts
    <2>2. ~record[task[u].rec].available
        BY <1>2 DEF SInv, StartingOK
    <2>3. QED BY <1>2, <2>1, <2>2, OnlyTheAdminStarts
<1>3. ServeFrame(t, {})
    BY <1>1, <1>2 DEF ServeFrame
<1>4. QED BY <1>3, ServeFrameKeeps

LEMMA ArriveServe ==
    ASSUME OneAdmin, NoHealthChecks, IInv, SInv, Arrive
    PROVE  SInv'
<1>0. Callers \subseteq Tasks /\ Admins \subseteq Tasks
    BY DEF Tasks
<1>1. ASSUME NEW t \in Callers, NEW n \in Plugins, NEW e \in Endpoints, StartCall(t, n, e)
      PROVE  SInv'
    <2> DEFINE x == [Idle EXCEPT !.op = "call", !.pc = "run", !.rec = catalog[n], !.ep = e]
    <2>1. /\ task' = [task EXCEPT ![t] = x] /\ UNCHANGED record /\ task[t].pc # "done"
          /\ catalog[n] \in Records /\ record[catalog[n]].available
        BY <1>1 DEF StartCall, IsIdle, IInv
    <2>2. x.op = "call" /\ x.pc = "run" /\ x.rec = catalog[n]
        BY DEF Idle
    <2> HIDE DEF x
    <2>3. ServesOK(t, x) /\ ~Starts(x)
        BY <2>2 DEF ServesOK, Managing, Starts
    <2>4. QED BY <1>0, <2>1, <2>2, <2>3, BeginServe
<1>2. ASSUME NEW t \in Admins, NEW op, NEW todo, StartLocked(t, op, todo), op # "none"
      PROVE  SInv'
    <2> DEFINE x == [Idle EXCEPT !.op = op, !.pc = "scan", !.todo = todo]
    <2>1. /\ task' = [task EXCEPT ![t] = x] /\ UNCHANGED record /\ task[t].pc # "done"
          /\ op # "health"
        BY <1>2 DEF StartLocked, IsIdle, NoHealthChecks
    <2>2. x.op = op /\ x.pc = "scan" /\ x.rec = Nil
        BY DEF Idle
    <2> HIDE DEF x
    <2>3. ServesOK(t, x) \/ op = "call"
        BY <1>2, <2>1, <2>2 DEF ServesOK, Managing
    <2>4. op # "call"
        BY <1>2, EngineAssumption DEF StartLocked, AllOperations
    <2>5. QED BY <1>0, <2>1, <2>2, <2>3, <2>4, BeginServe DEF Starts
<1>3. ASSUME NEW t \in Admins, StartShutdown(t) PROVE SInv'
    <2> DEFINE names == {n \in Plugins : catalog[n] # Nil}
               x == IF names = {} THEN Idle
                    ELSE [Idle EXCEPT !.op = "shutdown", !.pc = "scan", !.todo = names]
    <2>1. task' = [task EXCEPT ![t] = x] /\ UNCHANGED record /\ task[t].pc # "done"
        BY <1>0, <1>3 DEF StartShutdown, IsIdle
    <2>2. x.rec = Nil /\ ServesOK(t, x) /\ ~Starts(x)
        BY DEF Idle, ServesOK, Managing, Starts
    <2> HIDE DEF x
    <2>3. QED BY <1>0, <2>1, <2>2, BeginServe
<1>4. ASSUME NEW t \in Admins, NEW n \in Plugins, StartUnload(t, n) PROVE SInv'
    <2> DEFINE r == catalog[n]
               x == [Idle EXCEPT !.op = "unload", !.pc = "done", !.rec = r]
    <2>1. r \in Records /\ record[r] \in PluginRecord /\ t \in Tasks
          /\ record \in [Records -> PluginRecord]
          /\ task[t].pc = "idle"
        BY <1>0, <1>4 DEF StartUnload, IsIdle, IInv, AllSound
    <2>2. CASE NeedsDone(r)
        <3>1. task' = [task EXCEPT ![t] = x] /\ UNCHANGED record
            BY <1>4, <2>2 DEF StartUnload
        <3>2. x.op = "unload" /\ x.pc = "done" /\ x.rec = r
            BY DEF Idle
        <3> HIDE DEF x
        <3>3. ServesOK(t, x) /\ ~Starts(x)
            BY <3>2 DEF ServesOK, Managing, Starts
        <3>4. QED BY <2>1, <3>1, <3>2, <3>3, BeginServe
    <2>3. CASE ~NeedsDone(r)
        <3> DEFINE y == Stopped(record[r])
        <3>1. record' = [record EXCEPT ![r] = y] /\ UNCHANGED task
            BY <1>4, <2>3 DEF StartUnload
        <3>2. ~y.available
            BY <2>1, ServedRecords
        <3> HIDE DEF y
        <3>3. record'[r] = y /\ \A q \in Records \ {r} : record'[q] = record[q]
            BY <2>1, <3>1
        <3>4. \A u \in Tasks \ {t} : ~Starts(task[u])
            BY <2>1, OnlyTheAdminStarts
        <3>5. ~Starts(task[t]) /\ ServesOK(t, task[t])
            BY <2>1 DEF Starts, SInv
        <3>6. ServeFrame(t, {r})
            BY <2>1, <3>1, <3>2, <3>3, <3>4, <3>5 DEF ServeFrame, GoesDown, Served
        <3>7. QED BY <2>1, <3>6, ServeFrameKeeps
    <2>4. QED BY <2>2, <2>3
<1>5. QED
    BY <1>1, <1>2, <1>3, <1>4
       DEF Arrive, StartRescan, StartLoad, StartReload, StartHealth, HealthWithoutModule,
           NoHealthChecks

LEMMA EndedServes ==
    ASSUME IInv, SInv, NEW t \in Tasks, task[t].pc # "idle",
           \/ Finish(t)
           \/ Managing(task[t]) /\ \E todo : Proceed(t, todo)
    PROVE  /\ task'[t].rec = Nil /\ task'[t].pc # "done" /\ ~Starts(task'[t])
           /\ ServesOK(t, task'[t])
           /\ \A u \in Tasks \ {t} : Starts(task[u]) => task[u].rec # Nil
<1>1. \A u \in Tasks \ {t} : Starts(task[u]) => task[u].rec # Nil
    BY EngineAssumption DEF IInv, RequestsOK, RequestOK, Starts
<1>2. task \in [Tasks -> Request] /\ ServesOK(t, task[t])
    BY DEF IInv, RequestsOK, SInv
<1>3. CASE Finish(t)
    BY <1>1, <1>2, <1>3 DEF Finish, Idle, Starts, ServesOK, Managing
<1>4. ASSUME NEW todo, Proceed(t, todo), ~Finish(t), Managing(task[t])
      PROVE  /\ task'[t].rec = Nil /\ task'[t].pc # "done" /\ ~Starts(task'[t])
             /\ ServesOK(t, task'[t])
    <2> DEFINE x == [task[t] EXCEPT !.pc = "scan", !.rec = Nil, !.todo = todo,
                                    !.file = "none"]
    <2>1. task' = [task EXCEPT ![t] = x]
        BY <1>2, <1>4 DEF Proceed, Request
    <2>2. x.op = task[t].op /\ x.rec = Nil /\ x.pc = "scan"
        BY <1>2 DEF Request
    <2> HIDE DEF x
    <2>3. QED BY <1>2, <1>4, <2>1, <2>2 DEF ServesOK, Managing, Starts
<1>5. QED BY <1>1, <1>3, <1>4

\* A request rewrites its record, leaving it unavailable or as it was, and ends
\* or goes on to the next plugin.
LEMMA EndServe ==
    ASSUME OneAdmin, IInv, SInv, NEW t \in Tasks, task[t].pc # "idle",
           NEW C \in SUBSET Records, \A q \in Records \ C : record'[q] = record[q],
           \A q \in C : /\ Served(record'[q])
                        /\ \/ record'[q].blocked = {} \/ ~record'[q].available
                           \/ record[q].available /\ record[q].blocked # {}
                              /\ task[t].pc # "done",
           task[t].pc = "done" => task[t].rec \in C,
           \/ t \in Admins
           \/ task[t].pc \in {"run", "done"} /\ C = {task[t].rec},
           \/ Finish(t)
           \/ Managing(task[t]) /\ \E todo : Proceed(t, todo)
    PROVE  SInv'
<1>1. /\ task'[t].rec = Nil /\ task'[t].pc # "done" /\ ~Starts(task'[t])
      /\ ServesOK(t, task'[t])
      /\ \A u \in Tasks \ {t} : Starts(task[u]) => task[u].rec # Nil
    BY EndedServes
<1>2. \A u \in Tasks \ {t} : task'[u] = task[u]
    BY OtherRequests
<1>3. \A u \in Tasks \ {t} : Starts(task[u]) => task[u].rec \notin C
    BY OnlyTheAdminStarts, CallsMissStarts
<1>4. ServeFrame(t, C)
    BY <1>1, <1>2, <1>3 DEF ServeFrame, GoesDown
<1>5. QED BY <1>4, ServeFrameKeeps

\* A new record is published by nobody until its startup is over.
LEMMA InstallServe ==
    ASSUME OneAdmin, IInv, SInv, NEW t \in Tasks, Managing(task[t]), NEW n \in Plugins,
           NEW file, NEW recs \in [Records -> PluginRecord], NEW rts,
           NEW C \in SUBSET Records, \A q \in Records \ C : recs[q] = record[q],
           \A q \in C : ~recs[q].available,
           task[t].pc = "done" => task[t].rec \in C,
           Install(t, n, file, recs, rts)
    PROVE  SInv'
<1>1. PICK r \in Fresh :
        IF file = "ok"
        THEN /\ record' = [recs EXCEPT ![r] = Loading(n)]
             /\ task' = [task EXCEPT ![t].pc = "init", ![t].rec = r,
                                     ![t].todo = @ \ {n}, ![t].file = "none"]
        ELSE /\ record' = [recs EXCEPT ![r] = NotActivated(n, file)]
             /\ Proceed(t, task[t].todo \ {n})
    BY DEF Install
<1>2. r \in Records /\ \A u \in Tasks : task[u].rec # r
    BY DEF Fresh
<1>3. ServesOK(t, task[t]) /\ t \in Admins /\ task[t].pc # "idle"
    <2>1. RequestOK(task[t], catalog)
        BY DEF IInv, RequestsOK
    <2>2. task[t].pc # "idle"
        BY <2>1 DEF RequestOK, Idle, Managing
    <2>3. QED BY <2>2 DEF SInv, ServesOK
<1>4. \A u \in Tasks \ {t} : ~Starts(task[u])
    BY <1>3, OnlyTheAdminStarts
<1>5. task \in [Tasks -> Request] /\ record[r] \in PluginRecord
    BY <1>2 DEF IInv, RequestsOK, AllSound
<1> DEFINE D == C \cup {r}
<1>6. /\ D \in SUBSET Records
      /\ task[t].pc = "done" => task[t].rec \in D
    BY <1>2
<1>7. CASE file = "ok"
    <2> DEFINE x == [task[t] EXCEPT !.pc = "init", !.rec = r, !.todo = @ \ {n}, !.file = "none"]
               y == Loading(n)
    <2>1. StartingOK(y, "init") /\ ~y.available
        BY <1>5, ServedRecords DEF StartingOK
    <2>2. task' = [task EXCEPT ![t] = x]
        BY <1>1, <1>5, <1>7 DEF Request
    <2>3. x.op = task[t].op /\ x.rec = r /\ x.pc = "init"
        BY <1>5 DEF Request
    <2>4. record' = [recs EXCEPT ![r] = y]
        BY <1>1, <1>7
    <2> HIDE DEF x, y
    <2>5. task'[t] = x /\ \A u \in Tasks \ {t} : task'[u] = task[u]
        BY <1>5, <2>2
    <2>6. record'[r] = y /\ \A q \in Records \ {r} : record'[q] = recs[q]
        BY <1>2, <2>4
    <2>7. \A q \in D : ~record'[q].available
        BY <2>1, <2>6
    <2>8. ServesOK(t, x)
        BY <1>3, <2>3 DEF ServesOK, Managing
    <2>9. ServeFrame(t, D)
        BY <1>2, <1>4, <2>1, <2>3, <2>5, <2>6, <2>7, <2>8
           DEF ServeFrame, Served, GoesDown, Starts
    <2>10. QED BY <1>6, <2>9, ServeFrameKeeps
<1>8. CASE file # "ok"
    <2> DEFINE y == NotActivated(n, file)
    <2>1. record' = [recs EXCEPT ![r] = y] /\ Proceed(t, task[t].todo \ {n})
        BY <1>1, <1>8
    <2>2. ~y.available
        BY <1>5, ServedRecords
    <2> HIDE DEF y
    <2>3. record'[r] = y /\ \A q \in Records \ {r} : record'[q] = recs[q]
        BY <1>2, <2>1
    <2>4. \A q \in D : ~record'[q].available
        BY <2>2, <2>3
    <2>5. \A q \in Records \ D : record'[q] = record[q]
        BY <2>3
    <2>6. task[t].pc = "done" => task[t].rec \in D
        OBVIOUS
    <2> HIDE DEF D
    <2>7. QED BY <1>3, <1>6, <2>1, <2>4, <2>5, <2>6, EndServe DEF Served
<1>9. QED BY <1>7, <1>8

LEMMA RejectServe ==
    ASSUME OneAdmin, IInv, SInv, NEW t \in Tasks, Managing(task[t]), NEW n \in Plugins,
           NEW recs \in [Records -> PluginRecord], NEW rts,
           NEW C \in SUBSET Records, \A q \in Records \ C : recs[q] = record[q],
           \A q \in C : ~recs[q].available,
           task[t].pc = "done" => task[t].rec \in C,
           \/ RejectFile(t, n, recs, rts)
           \/ InstallOrReject(t, n, recs, rts)
    PROVE  SInv'
<1>1. CASE \E file : Install(t, n, file, recs, rts)
    BY <1>1, InstallServe
<1>2. CASE record' = recs /\ Finish(t)
    <2>1. t \in Admins /\ task[t].pc # "idle"
        BY DEF SInv, ServesOK, IInv, RequestsOK, RequestOK, Idle, Managing
    <2>2. QED BY <1>2, <2>1, EndServe DEF Served
<1>3. QED BY <1>1, <1>2 DEF RejectFile, InstallOrReject

\* The records after a plugin has been stopped, as InstallServe needs them.
LEMMA StoppedServe ==
    ASSUME IInv, NEW r \in Records
    PROVE  LET recs == [record EXCEPT ![r] = Stopped(record[r])]
           IN  /\ recs \in [Records -> PluginRecord]
               /\ \A q \in Records \ {r} : recs[q] = record[q]
               /\ ~recs[r].available
               /\ recs[r] = Stopped(record[r])
<1> DEFINE x == Stopped(record[r])
           recs == [record EXCEPT ![r] = x]
<1>1. recs \in [Records -> PluginRecord] /\ record \in [Records -> PluginRecord]
    BY StoppedOK DEF AllSound, IInv
<1>2. ~x.available
    BY <1>1, ServedRecords
<1> HIDE DEF x
<1>3. recs[r] = x /\ \A q \in Records \ {r} : recs[q] = record[q]
    BY <1>1
<1>4. QED BY <1>1, <1>2, <1>3 DEF x

LEMMA AwaitDoneServe ==
    ASSUME OneAdmin, IInv, SInv, NEW t \in Tasks, Managing(task[t]), task[t].pc = "scan",
           NEW r \in Records, NEW file, AwaitDone(t, r, file)
    PROVE  SInv'
<1> DEFINE x == [task[t] EXCEPT !.pc = "done", !.rec = r, !.file = file]
<1>1. task \in [Tasks -> Request] /\ ServesOK(t, task[t])
    BY DEF IInv, RequestsOK, SInv
<1>2. task' = [task EXCEPT ![t] = x] /\ UNCHANGED record
    BY <1>1 DEF AwaitDone, Request
<1>3. x.op = task[t].op /\ x.pc = "done" /\ x.rec = r
    BY <1>1 DEF Request
<1> HIDE DEF x
<1>4. ServesOK(t, x) /\ ~Starts(x) /\ t \in Admins
    BY <1>1, <1>3 DEF ServesOK, Managing, Starts
<1>5. QED BY <1>2, <1>3, <1>4, BeginServe

LEMMA LoadServe ==
    ASSUME OneAdmin, IInv, SInv, NEW t \in Tasks, NEW n \in Plugins,
           (\E file \in FileOutcomes : LoadFile(t, n, file)) \/ ReloadFile(t, n)
    PROVE  SInv'
<1> DEFINE old == catalog[n]
           recs == [record EXCEPT ![old] = Stopped(record[old])]
<1>1. Managing(task[t]) /\ task[t].pc = "scan" /\ record \in [Records -> PluginRecord]
      /\ old \in Records \cup {Nil}
    BY DEF Managing, LoadFile, ReloadFile, IInv, AllSound
<1>2. ASSUME old \in Records
      PROVE  /\ recs \in [Records -> PluginRecord] /\ ~recs[old].available
             /\ \A q \in Records \ {old} : recs[q] = record[q]
    BY <1>2, StoppedServe
<1>3. ASSUME NEW file \in FileOutcomes, LoadFile(t, n, file) PROVE SInv'
    <2>1. CASE file = "invalid"
        <3>1. RejectFile(t, n, record, routed)
            BY <1>3, <2>1 DEF LoadFile
        <3>2. {} \in SUBSET Records
            OBVIOUS
        <3>3. QED BY <1>1, <3>1, <3>2, RejectServe
    <2>2. CASE file # "invalid" /\ (old = Nil \/ ~record[old].registered)
        <3>1. Install(t, n, file, record, routed)
            BY <1>3, <2>2 DEF LoadFile
        <3>2. {} \in SUBSET Records
            OBVIOUS
        <3>3. QED BY <1>1, <3>1, <3>2, InstallServe
    <2>3. CASE file # "invalid" /\ old # Nil /\ record[old].registered
        <3>1. old \in Records
            BY <1>1, <2>3
        <3>2. CASE NeedsDone(old)
            <4>1. AwaitDone(t, old, file)
                BY <1>3, <2>3, <3>2 DEF LoadFile
            <4>2. QED BY <1>1, <3>1, <4>1, AwaitDoneServe
        <3>3. CASE ~NeedsDone(old)
            <4>1. Install(t, n, file, recs, Unrouted(old))
                BY <1>3, <2>3, <3>3 DEF LoadFile
            <4>2. {old} \in SUBSET Records /\ \A q \in {old} : ~recs[q].available
                BY <1>2, <3>1
            <4> HIDE DEF recs
            <4>3. QED BY <1>1, <1>2, <3>1, <4>1, <4>2, InstallServe
        <3>4. QED BY <3>2, <3>3
    <2>4. QED BY <2>1, <2>2, <2>3
<1>4. ASSUME ReloadFile(t, n) PROVE SInv'
    <2>1. old \in Records
        BY <1>4 DEF ReloadFile, IInv, RequestsOK, RequestOK
    <2>2. CASE NeedsDone(old)
        <3>1. AwaitDone(t, old, "none")
            BY <1>4, <2>2 DEF ReloadFile
        <3>2. QED BY <1>1, <2>1, <3>1, AwaitDoneServe
    <2>3. CASE ~NeedsDone(old)
        <3>1. InstallOrReject(t, n, recs, Unrouted(old))
            BY <1>4, <2>3 DEF ReloadFile
        <3>2. {old} \in SUBSET Records /\ \A q \in {old} : ~recs[q].available
            BY <1>2, <2>1
        <3> HIDE DEF recs
        <3>3. QED BY <1>1, <1>2, <2>1, <3>1, <3>2, RejectServe
    <2>4. QED BY <2>2, <2>3
<1>5. QED BY <1>3, <1>4

LEMMA CallServe ==
    ASSUME OneAdmin, IInv, SInv, NEW t \in Tasks, CallReturns(t) \/ CallRaises(t)
    PROVE  SInv'
<1> DEFINE r == task[t].rec
           e == task[t].ep
           failed == CallFailed(record[r], e)
           succeeded == CallSucceeded(record[r], e)
<1>1. /\ r \in Records /\ e \in Endpoints /\ task[t].op = "call" /\ task[t].pc = "run"
      /\ record[r] \in PluginRecord /\ record \in [Records -> PluginRecord]
      /\ task[t] \in Request /\ task \in [Tasks -> Request]
    BY DEF CallReturns, CallRaises, IInv, RequestsOK, RequestOK, AllSound
<1>2. /\ failed.available = record[r].available /\ Served(failed)
      /\ succeeded.available = record[r].available /\ Served(succeeded)
      /\ succeeded.blocked # {} => record[r].blocked # {}
      /\ e \notin failed.blocked => failed.blocked = record[r].blocked
      /\ failed \in PluginRecord
    <2>1. Served(record[r]) /\ failed \in PluginRecord
        BY <1>1, CountersAreSound DEF SInv, IInv, AllSound, Sound
    <2>2. /\ failed.available = record[r].available /\ failed.lifecycle = record[r].lifecycle
          /\ failed.module = record[r].module /\ failed.registered = record[r].registered
          /\ succeeded.available = record[r].available
          /\ succeeded.lifecycle = record[r].lifecycle
          /\ succeeded.module = record[r].module
          /\ succeeded.registered = record[r].registered
          /\ succeeded.blocked \subseteq record[r].blocked
          /\ e \notin failed.blocked => failed.blocked = record[r].blocked
        BY <1>1, ServedRecords
    <2> HIDE DEF failed, succeeded
    <2>3. QED BY <2>1, <2>2 DEF Served
<1>3. ASSUME NEW y, record' = [record EXCEPT ![r] = y], Served(y), Finish(t),
             ~y.available \/ /\ y.available = record[r].available
                             /\ y.blocked # {} => record[r].blocked # {}
      PROVE  SInv'
    <2>1. record'[r] = y /\ \A q \in Records \ {r} : record'[q] = record[q]
        BY <1>1, <1>3
    <2>2. {r} \in SUBSET Records
        BY <1>1
    <2> DEFINE C == {r}
    <2>3. \A q \in C :
          /\ Served(record'[q])
          /\ \/ record'[q].blocked = {} \/ ~record'[q].available
             \/ record[q].available /\ record[q].blocked # {} /\ task[t].pc # "done"
        BY <1>1, <1>3, <2>1
    <2>4. /\ C \in SUBSET Records /\ C = {task[t].rec}
          /\ \A q \in Records \ C : record'[q] = record[q]
        BY <2>1, <2>2
    <2> HIDE DEF C
    <2>5. QED BY <1>1, <1>3, <2>3, <2>4, EndServe
<1>4. CASE CallReturns(t)
    <2>1. record' = [record EXCEPT ![r] = succeeded] /\ Finish(t)
        BY <1>4 DEF CallReturns
    <2> HIDE DEF succeeded
    <2>2. QED BY <1>2, <1>3, <2>1
<1>5. CASE CallRaises(t) /\ e \notin failed.blocked
    <2>1. record' = [record EXCEPT ![r] = failed] /\ Finish(t)
        BY <1>5 DEF CallRaises, Captured
    <2> HIDE DEF failed
    <2>2. QED BY <1>2, <1>3, <1>5, <2>1
<1>6. CASE CallRaises(t) /\ e \in failed.blocked
    <2>1. Deactivate(t, failed)
        BY <1>6 DEF CallRaises, Captured
    <2>2. CASE failed.lifecycle /\ failed.module
        <3>1. record' = [record EXCEPT ![r] = failed] /\ Await(t, "done")
            BY <2>1, <2>2 DEF Deactivate
        <3> HIDE DEF failed
        <3>2. record'[r] = failed /\ \A q \in Records \ {r} : record'[q] = record[q]
            BY <1>1, <3>1
        <3>3. /\ task'[t].op = "call" /\ task'[t].pc = "done" /\ task'[t].rec = r
              /\ \A u \in Tasks \ {t} : task'[u] = task[u]
            BY <1>1, <3>1 DEF Await, Request
        <3>4. \A u \in Tasks \ {t} : Starts(task[u]) => task[u].rec # r
            BY <1>1, CallsMissStarts
        <3>5. ServeFrame(t, {r})
            BY <1>1, <1>2, <3>2, <3>3, <3>4
               DEF ServeFrame, GoesDown, Starts, ServesOK, Managing
        <3>6. {r} \in SUBSET Records
            BY <1>1
        <3>7. QED BY <3>5, <3>6, ServeFrameKeeps
    <2>3. CASE ~(failed.lifecycle /\ failed.module)
        <3> DEFINE y == Unavailable(failed)
        <3>1. record' = [record EXCEPT ![r] = y] /\ Finish(t)
            BY <2>1, <2>3 DEF Deactivate
        <3>2. ~y.available
            BY <1>2, ServedRecords
        <3> HIDE DEF y
        <3>3. QED BY <1>3, <3>1, <3>2 DEF Served
    <2>4. QED BY <2>2, <2>3
<1>7. QED BY <1>4, <1>5, <1>6

LEMMA StartupServe ==
    ASSUME OneAdmin, IInv, SInv, NEW t \in Tasks,
           InitReturns(t) \/ PostinitReturns(t) \/ StartupRaises(t)
    PROVE  SInv'
<1> DEFINE r == task[t].rec
           x == [record[r] EXCEPT !.lifecycle = TRUE]
           y == Running(record[r])
           z == ActivationFailed(record[r])
<1>1. /\ r \in Records /\ Starts(task[t]) /\ task[t].pc \notin {"idle", "done"}
      /\ record[r] \in PluginRecord /\ record \in [Records -> PluginRecord]
      /\ task[t] \in Request /\ task \in [Tasks -> Request]
    BY DEF InitReturns, PostinitReturns, StartupRaises, Starts, IInv, RequestsOK,
           RequestOK, AllSound
<1>2. /\ StartingOK(record[r], task[t].pc) /\ ServesOK(t, task[t])
      /\ \A u \in Tasks \ {t} : task[u].rec # r
    BY <1>1 DEF SInv
<1>3. Managing(task[t]) /\ t \in Admins /\ task[t].op # "health"
    BY <1>1, <1>2 DEF ServesOK, Starts
<1>4. \A u \in Tasks \ {t} : ~Starts(task[u])
    BY <1>3, OnlyTheAdminStarts
<1>5. {r} \in SUBSET Records
    BY <1>1
<1>6. ASSUME NEW w, record' = [record EXCEPT ![r] = w], Served(w),
             w.blocked = {} \/ ~w.available, Proceed(t, task[t].todo)
      PROVE  SInv'
    <2>1. record'[r] = w /\ \A q \in Records \ {r} : record'[q] = record[q]
        BY <1>1, <1>6
    <2> DEFINE C == {r}
    <2>2. \A q \in C : /\ Served(record'[q])
                       /\ record'[q].blocked = {} \/ ~record'[q].available
        BY <1>6, <2>1
    <2>3. /\ C \in SUBSET Records
          /\ \A q \in Records \ C : record'[q] = record[q]
        BY <1>5, <2>1
    <2> HIDE DEF C
    <2>4. QED BY <1>1, <1>3, <1>6, <2>2, <2>3, EndServe
<1>7. CASE InitReturns(t)
    <2>1. record' = [record EXCEPT ![r] = x] /\ Await(t, "postinit")
        BY <1>7 DEF InitReturns
    <2>2. /\ x.available = record[r].available /\ x.module = record[r].module
          /\ x.blocked = record[r].blocked /\ x.registered = record[r].registered
          /\ x.lifecycle
        BY <1>1 DEF PluginRecord
    <2> HIDE DEF x
    <2>3. record'[r] = x /\ \A q \in Records \ {r} : record'[q] = record[q]
        BY <1>1, <2>1
    <2>4. StartingOK(x, "postinit") /\ Served(x)
        BY <1>2, <2>2 DEF StartingOK, Served
    <2>5. /\ task'[t].op = task[t].op /\ task'[t].pc = "postinit" /\ task'[t].rec = r
          /\ \A u \in Tasks \ {t} : task'[u] = task[u]
        BY <1>1, <2>1 DEF Await, Request
    <2>6. ServesOK(t, task'[t])
        BY <1>3, <2>5 DEF ServesOK, Managing
    <2>7. ServeFrame(t, {r})
        BY <1>1, <1>2, <1>4, <2>3, <2>4, <2>5, <2>6
           DEF ServeFrame, GoesDown, StartingOK
    <2>8. QED BY <1>5, <2>7, ServeFrameKeeps
<1>8. CASE PostinitReturns(t)
    <2>1. record' = [record EXCEPT ![r] = y] /\ Proceed(t, task[t].todo)
        BY <1>8 DEF PostinitReturns
    <2>2. /\ y.lifecycle = record[r].lifecycle /\ y.module = record[r].module
          /\ y.blocked = record[r].blocked /\ y.registered = record[r].registered
        BY <1>1 DEF Running, PluginRecord
    <2>3. task[t].pc = "postinit"
        BY <1>8 DEF PostinitReturns
    <2> HIDE DEF y
    <2>4. Served(y) /\ y.blocked = {}
        BY <1>2, <2>2, <2>3 DEF StartingOK, Served
    <2>5. QED BY <1>6, <2>1, <2>4
<1>9. CASE StartupRaises(t)
    <2>1. record' = [record EXCEPT ![r] = z] /\ Proceed(t, task[t].todo)
        BY <1>3, <1>9 DEF StartupRaises
    <2>2. ~z.available
        BY <1>1, ServedRecords
    <2> HIDE DEF z
    <2>3. QED BY <1>6, <2>1, <2>2 DEF Served
<1>10. QED BY <1>7, <1>8, <1>9

LEMMA ShutdownServe ==
    ASSUME OneAdmin, IInv, SInv, NEW t \in Tasks, NEW n \in Plugins, ShutdownPlugin(t, n)
    PROVE  SInv'
<1> DEFINE r == catalog[n]
           recs == [record EXCEPT ![r] = Stopped(record[r])]
<1>1. r \in Records /\ Managing(task[t]) /\ task[t].pc = "scan" /\ t \in Admins
    BY DEF ShutdownPlugin, IInv, RequestsOK, RequestOK, Managing, SInv, ServesOK
<1>2. CASE NeedsDone(r)
    <2>1. AwaitDone(t, r, "none")
        BY <1>2 DEF ShutdownPlugin
    <2>2. QED BY <1>1, <2>1, AwaitDoneServe
<1>3. CASE ~NeedsDone(r)
    <2>1. record' = recs /\ Proceed(t, task[t].todo \ {n})
        BY <1>3 DEF ShutdownPlugin
    <2>2. ~recs[r].available /\ \A q \in Records \ {r} : recs[q] = record[q]
        BY <1>1, StoppedServe
    <2> HIDE DEF recs
    <2>3. {r} \in SUBSET Records /\ \A q \in {r} : Served(record'[q]) /\ ~record'[q].available
        BY <1>1, <2>1, <2>2 DEF Served
    <2>4. QED BY <1>1, <2>1, <2>2, <2>3, EndServe
<1>4. QED BY <1>2, <1>3

LEMMA DoneServe ==
    ASSUME OneAdmin, IInv, SInv, NEW t \in Tasks, DoneReturns(t)
    PROVE  SInv'
<1> DEFINE r == task[t].rec
           n == record[r].name
           recs == [record EXCEPT ![r] = Stopped(record[r])]
           y == Unavailable(record[r])
<1>1. /\ r \in Records /\ task[t].op # "none" /\ task[t] \in Request
      /\ task[t].pc = "done" /\ task[t].op # "health"
      /\ record[r] \in PluginRecord /\ n \in Plugins
      /\ record \in [Records -> PluginRecord]
    BY DEF DoneReturns, IInv, RequestsOK, RequestOK, AllSound, PluginRecord, SInv, ServesOK
<1>2. /\ recs \in [Records -> PluginRecord] /\ ~recs[r].available
      /\ \A q \in Records \ {r} : recs[q] = record[q]
    BY <1>1, StoppedServe
<1>3. {r} \in SUBSET Records /\ \A q \in {r} : ~recs[q].available
    BY <1>1, <1>2
<1>4. CASE task[t].op = "call"
    <2>1. record' = [record EXCEPT ![r] = y] /\ Finish(t)
        BY <1>4 DEF DoneReturns
    <2>2. ~y.available
        BY <1>1, ServedRecords
    <2> HIDE DEF y
    <2>3. record'[r] = y /\ \A q \in Records \ {r} : record'[q] = record[q]
        BY <1>1, <2>1
    <2>4. QED BY <1>1, <1>3, <2>1, <2>2, <2>3, EndServe DEF Served
<1>5. ASSUME task[t].op # "call" PROVE Managing(task[t]) /\ t \in Admins
    BY <1>1, <1>5 DEF Managing, SInv, ServesOK
<1>6. CASE task[t].op \in {"unload", "shutdown"}
    <2>1. record' = recs /\ Proceed(t, task[t].todo \ {n})
        BY <1>6 DEF DoneReturns
    <2> HIDE DEF recs
    <2>2. QED BY <1>1, <1>2, <1>3, <1>5, <1>6, <2>1, EndServe DEF Served
<1>7. CASE task[t].op \in {"rescan", "load"}
    <2>1. Install(t, n, task[t].file, recs, Unrouted(r))
        BY <1>7 DEF DoneReturns
    <2> HIDE DEF recs
    <2>2. QED BY <1>1, <1>2, <1>3, <1>5, <1>7, <2>1, InstallServe
<1>8. CASE task[t].op = "reload"
    <2>1. InstallOrReject(t, n, recs, Unrouted(r))
        BY <1>8 DEF DoneReturns
    <2> HIDE DEF recs
    <2>2. QED BY <1>1, <1>2, <1>3, <1>5, <1>8, <2>1, RejectServe
<1>9. QED BY <1>1, <1>4, <1>6, <1>7, <1>8 DEF Request, AllOperations

LEMMA FlightServe ==
    ASSUME OneAdmin, IInv, SInv, NEW t \in Tasks, Step(t)
    PROVE  SInv'
<1>1. ~HealthReturns(t) /\ ~HealthRaises(t)
    BY DEF HealthReturns, HealthRaises, SInv, ServesOK
<1>2. QED BY <1>1, CallServe, LoadServe, StartupServe, ShutdownServe, DoneServe DEF Step

LEMMA SInvHolds ==
    ASSUME OneAdmin, NoHealthChecks
    PROVE  Spec => []SInv
<1>1. Init => SInv
    BY DEF Init, SInv, Served, BlockedGoesDown, ServesOK, Starts, Managing, NewRecord, Idle
<1>2. IInv /\ SInv /\ [Next]_vars => SInv'
    <2> SUFFICES ASSUME IInv, SInv, [Next]_vars PROVE SInv'
        OBVIOUS
    <2>1. CASE Restart
        <3>1. \A t \in Tasks : task'[t].op = "none" /\ task'[t].pc = "idle"
            BY <2>1 DEF Restart, IsIdle, IInv, RequestsOK, RequestOK, Idle
        <3>2. \A r \in Records : ~record'[r].available
            BY <2>1 DEF Restart, NewRecord
        <3>3. QED BY <3>1, <3>2 DEF SInv, Served, BlockedGoesDown, ServesOK, Starts, Managing
    <2>2. CASE UNCHANGED vars
        BY <2>2 DEF vars, SInv, BlockedGoesDown
    <2>3. QED BY <2>1, <2>2, ArriveServe, FlightServe DEF Next
<1>3. QED BY <1>1, <1>2, IInvHolds, PTL DEF Spec

\* With one administrator and nobody running health checks, a plugin that is
\* offered has been initialised and has its routes, whatever loads, unloads
\* and failing calls overlap, unreadable files among them.
THEOREM AvailablePluginsAreServed ==
    ASSUME OneAdmin, NoHealthChecks
    PROVE  Spec => []AvailableIsServed
<1>1. SInv => AvailableIsServed
    BY DEF SInv, Served, AvailableIsServed
<1>2. QED BY <1>1, SInvHolds, PTL

\* Under the same hypotheses a plugin with an endpoint at its failure limit is
\* off line, or a request is awaiting its plugin_done to take it down.
THEOREM BlockedPluginsGoDown ==
    ASSUME OneAdmin, NoHealthChecks
    PROVE  Spec => []BlockedGoesDown
<1>1. SInv => BlockedGoesDown
    BY DEF SInv
<1>2. QED BY <1>1, SInvHolds, PTL

=============================================================================
