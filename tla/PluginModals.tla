---------------------------- MODULE PluginModals ----------------------------
(***************************************************************************)
(* Modal sessions and hooks of one plugin, plugin_engine/engine.py: what   *)
(* requests do to a session, and to the failure counters of a hook, around *)
(* the awaits of the plugin's code.  As in PluginEngine an action is the   *)
(* code from one await to the next.                                        *)
(*                                                                         *)
(* PluginEngine has the lifecycle in full.  Here the plugin is only the    *)
(* record in the catalog and whether it is offered.  A request that is     *)
(* refused (404, 409) changes nothing and is no action.                    *)
(***************************************************************************)
EXTENDS Integers, SequencesExt

CONSTANTS
    Sessions,       \* session ids, each one given once
    Controls,       \* controls a modal specification may have
    ModalRequests,  \* requests that start a session or set a control
    Hooked,         \* requests to the endpoint that the hook is for
    HookLimit,      \* hook.failure_limit, after max(1, _)
    MaxRecords,     \* bound on the plugin's records, one per load
    MaxUnloads,     \* bound on the unloads
    MaxHookCalls,   \* bound on the calls of hooks
    NoSession

Stages == {"before", "after"}
RecordNos == 1..MaxRecords

ASSUME ModalAssumption ==
    /\ {HookLimit, MaxRecords} \subseteq Nat \ {0}
    /\ {MaxUnloads, MaxHookCalls} \subseteq Nat
    /\ NoSession \notin Sessions

VARIABLES
    current,    \* the plugin's record in the catalog, 0 before the first load
    offered,    \* its `available`
    unloads,    \* history: unloads that have begun
    session,    \* modal_sessions, and the sessions that have left it
    modalReq,   \* ModalRequests -> the request each one works on
    hook,       \* hook_states of each record
    hooked      \* Hooked -> where each request is

pluginVars == <<current, offered, unloads>>
modalVars == <<session, modalReq>>
hookVars == <<hook, hooked>>
sessionVars == <<pluginVars, modalVars, hookVars>>

\* modal: the controls of its specification.  values: the controls that
\* control_values has a value for.  since: history, the unloads begun before.
\* badSpec: history, the plugin answered with an invalid specification.
ModalSession ==
    [listed : BOOLEAN,
     state : {"new", "opening", "running", "stopped", "error"},
     stopRequested : BOOLEAN, modal : SUBSET Controls, values : SUBSET Controls,
     since : 0..MaxUnloads, badSpec : BOOLEAN]

ModalRequest ==
    [pc : {"idle", "start", "hydrate", "update"},
     session : Sessions \cup {NoSession},
     todo : SUBSET Controls]  \* those hydration has yet to reach, or the one to set

HookState == [failures : 0..HookLimit, blocked : BOOLEAN, log : Seq(BOOLEAN)]

HookedRequest ==
    [pc : {"idle", "before", "handler", "after"}, record : 0..MaxRecords]

ModalTypeOK ==
    /\ current \in 0..MaxRecords
    /\ offered \in BOOLEAN
    /\ unloads \in 0..MaxUnloads
    /\ session \in [Sessions -> ModalSession]
    /\ modalReq \in [ModalRequests -> ModalRequest]
    /\ hook \in [RecordNos \X Stages -> HookState]
    /\ hooked \in [Hooked -> HookedRequest]

UnusedSession ==
    [listed |-> FALSE, state |-> "new", stopRequested |-> FALSE, modal |-> {},
     values |-> {}, since |-> 0, badSpec |-> FALSE]

IdleModalRequest == [pc |-> "idle", session |-> NoSession, todo |-> {}]

NewHookState == [failures |-> 0, blocked |-> FALSE, log |-> << >>]

ModalInit ==
    /\ current = 0 /\ offered = FALSE /\ unloads = 0
    /\ session = [s \in Sessions |-> UnusedSession]
    /\ modalReq = [q \in ModalRequests |-> IdleModalRequest]
    /\ hook = [rs \in RecordNos \X Stages |-> NewHookState]
    /\ hooked = [h \in Hooked |-> [pc |-> "idle", record |-> 0]]

-----------------------------------------------------------------------------
(* The plugin.                                                             *)

\* A load ends with a new record.  (One that replaces a record with routes
\* began with an unload.)
LoadRecord ==
    /\ current < MaxRecords
    /\ current' = current + 1 /\ offered' = TRUE
    /\ UNCHANGED <<unloads, modalVars, hookVars>>

\* _deactivate_record, the end of an unload, and a health check that brings the
\* record back.
SwitchPlugin ==
    /\ current # 0
    /\ offered' = ~offered
    /\ UNCHANGED <<current, unloads, modalVars, hookVars>>

CloseOpenedSessions ==
    session' = [s \in Sessions |->
        IF session[s].listed /\ session[s].state # "opening"
        THEN [session[s] EXCEPT !.listed = FALSE, !.stopRequested = TRUE,
                                !.state = "stopped"]
        ELSE session[s]]

\* _close_modal_sessions_for_plugin
CloseModalSessions ==
    session' = [s \in Sessions |->
        IF session[s].listed
        THEN [session[s] EXCEPT !.listed = FALSE, !.stopRequested = TRUE,
                                !.state = "stopped"]
        ELSE session[s]]

\* unload_plugin up to its await of plugin_done.
BeginUnload ==
    /\ current # 0 /\ unloads < MaxUnloads
    /\ unloads' = unloads + 1
    /\ CloseModalSessions
    /\ UNCHANGED <<current, offered, modalReq, hookVars>>

-----------------------------------------------------------------------------
(* Sessions.                                                               *)

Answered(q) == modalReq' = [modalReq EXCEPT ![q] = IdleModalRequest]
SetSession(s, x) == session' = [session EXCEPT ![s] = x]

OpenSession(given) ==
    [UnusedSession EXCEPT !.listed = TRUE, !.state = "opening",
                          !.values = given, !.since = unloads]

\* start_modal_session: the session is in the table before anything can fail.
StartSession(q, s, given) ==
    /\ modalReq[q].pc = "idle" /\ session[s].state = "new"
    /\ current # 0 /\ offered
    /\ SetSession(s, OpenSession(given))
    /\ modalReq' = [modalReq EXCEPT ![q].pc = "start", ![q].session = s]
    /\ UNCHANGED <<pluginVars, hookVars>>

\* execute_plugin_endpoint raises before its await: the plugin is not offered,
\* has no such endpoint, or its roles exclude the user.
StartRefused(s, given) ==
    /\ session[s].state = "new"
    /\ current # 0
    /\ SetSession(s, [OpenSession(given) EXCEPT !.state = "error"])
    /\ UNCHANGED <<pluginVars, modalReq, hookVars>>

StartRaisesUnnoticed(q) ==
    /\ modalReq[q].pc = "start"
    /\ Answered(q)
    /\ UNCHANGED <<session, pluginVars, hookVars>>

StartRaises(q) ==
    /\ modalReq[q].pc = "start"
    /\ session' = [session EXCEPT ![modalReq[q].session].state = "error"]
    /\ Answered(q)
    /\ UNCHANGED <<pluginVars, hookVars>>

\* The plugin returned nothing that could be a modal specification.
StartWithoutSpec(q) ==
    /\ modalReq[q].pc = "start"
    /\ session' = [session EXCEPT ![modalReq[q].session].listed = FALSE]
    /\ Answered(q)
    /\ UNCHANGED <<pluginVars, hookVars>>

\* _normalize_modal_spec raises outside the try of its caller.
BadSpec(q) ==
    /\ modalReq[q].pc \in {"start", "update"}
    /\ session' = [session EXCEPT ![modalReq[q].session].badSpec =
                                        @ \/ modalReq[q].pc = "start"]
    /\ Answered(q)
    /\ UNCHANGED <<pluginVars, hookVars>>

\* _hydrate_modal_controls from a control on: those with a value are passed
\* over, another one is awaited; after the last one the session runs.
HydrateFrom(q, x, todo) ==
    LET s == modalReq[q].session
    IN  IF todo \subseteq x.values
        THEN /\ SetSession(s, [x EXCEPT !.state = "running"])
             /\ Answered(q)
        ELSE /\ SetSession(s, x)
             /\ modalReq' = [modalReq EXCEPT ![q].pc = "hydrate",
                                             ![q].todo = todo \ x.values]

StartReturns(q, spec) ==
    /\ modalReq[q].pc = "start"
    /\ HydrateFrom(q, [session[modalReq[q].session] EXCEPT !.modal = spec], spec)
    /\ UNCHANGED <<pluginVars, hookVars>>

\* The init endpoint of a control has answered, with None perhaps, or failed,
\* and the control gets its default.
HydrateControl(q, c) ==
    /\ modalReq[q].pc = "hydrate"
    /\ c \in modalReq[q].todo
    /\ LET x == session[modalReq[q].session]
       IN  \E values \in {x.values \cup {c}, x.values \ {c}} :
               HydrateFrom(q, [x EXCEPT !.values = values], modalReq[q].todo \ {c})
    /\ UNCHANGED <<pluginVars, hookVars>>

MayUpdateUnlessStopped(x, c) ==
    /\ x.listed
    /\ x.state # "stopped"
    /\ c \in x.modal

MayUpdate(x, c) ==
    /\ x.listed
    /\ ~x.stopRequested /\ x.state # "stopped"
    /\ c \in x.modal

\* update_modal_control.  The request may bring a value, or None, for each
\* control: any of them may have one afterwards.
UpdateControl(q, s, c, values) ==
    /\ modalReq[q].pc = "idle" /\ offered
    /\ MayUpdate(session[s], c)
    /\ SetSession(s, [session[s] EXCEPT !.values = values])
    /\ modalReq' = [modalReq EXCEPT ![q] =
                       [pc |-> "update", session |-> s, todo |-> {c}]]
    /\ UNCHANGED <<pluginVars, hookVars>>

UpdateRefused(s, c, values) ==
    /\ MayUpdate(session[s], c)
    /\ SetSession(s, [session[s] EXCEPT !.values = values, !.state = "error"])
    /\ UNCHANGED <<pluginVars, modalReq, hookVars>>

\* The result may bring a new specification, and a value for the control.
UpdateReturns(q, spec) ==
    /\ modalReq[q].pc = "update"
    /\ LET s == modalReq[q].session
           c == modalReq[q].todo
       IN  \E values \in {session[s].values, session[s].values \cup c,
                          session[s].values \ c} :
               SetSession(s, [session[s] EXCEPT !.state = "running", !.modal = spec,
                                                !.values = values])
    /\ Answered(q)
    /\ UNCHANGED <<pluginVars, hookVars>>

UpdateRaises(q) ==
    /\ modalReq[q].pc = "update"
    /\ session' = [session EXCEPT ![modalReq[q].session].state = "error"]
    /\ Answered(q)
    /\ UNCHANGED <<pluginVars, hookVars>>

StopSession(s) ==
    /\ session[s].listed
    /\ session' = [session EXCEPT ![s].stopRequested = TRUE, ![s].state = "stopped"]
    /\ UNCHANGED <<pluginVars, modalReq, hookVars>>

CloseSession(s) ==
    /\ session[s].listed
    /\ LET x == session[s]
           stops == ~x.stopRequested /\ x.state \notin {"stopped", "error"}
       IN  SetSession(s, [x EXCEPT !.listed = FALSE,
                                   !.stopRequested = @ \/ stops,
                                   !.state = IF stops THEN "stopped" ELSE @])
    /\ UNCHANGED <<pluginVars, modalReq, hookVars>>

-----------------------------------------------------------------------------
(* Hooks.  run_before_hooks and run_after_hooks pick the records that are   *)
(* offered before the first hook runs.  The call looks the record up again  *)
(* by name and runs its plugin_run, offered or not (internal=True); the     *)
(* result is counted on the record that was picked.                         *)

Picked == IF offered THEN current ELSE 0

HookReady(r, stage) == r # 0 /\ ~hook[<<r, stage>>].blocked

\* The bound: no more than MaxHookCalls calls of hooks begin.
WithinBound ==
    FoldSet(LAMBDA k, n : n + Len(hook[k].log), 0, DOMAIN hook)
      + Cardinality({h \in Hooked : hooked[h].pc \in Stages}) < MaxHookCalls

\* The middleware lets the request in, or lets its answer out.
EnterStage(h, stage, next) ==
    /\ (HookReady(Picked, stage) => WithinBound)
    /\ hooked' = [hooked EXCEPT ![h] =
        IF HookReady(Picked, stage) THEN [pc |-> stage, record |-> Picked]
                                    ELSE [pc |-> next, record |-> 0]]

BeginRequest(h) ==
    /\ hooked[h].pc = "idle"
    /\ EnterStage(h, "before", "handler")
    /\ UNCHANGED <<pluginVars, modalVars, hook>>

AnswerRequest(h) ==
    /\ hooked[h].pc = "handler"
    /\ EnterStage(h, "after", "idle")
    /\ UNCHANGED <<pluginVars, modalVars, hook>>

LeaveStage(h) ==
    hooked' = [hooked EXCEPT ![h] =
        [pc |-> IF @.pc = "before" THEN "handler" ELSE "idle", record |-> 0]]

HookSucceededOnce(x) == [x EXCEPT !.log = Append(@, TRUE)]
HookSucceeded(x) == [x EXCEPT !.failures = 0, !.log = Append(@, TRUE)]

HookFailed(x) ==
    LET n == IF x.failures + 1 >= HookLimit THEN HookLimit ELSE x.failures + 1
    IN  [x EXCEPT !.failures = n, !.blocked = @ \/ n = HookLimit,
                  !.log = Append(@, FALSE)]

HookEnds(h, Outcome(_)) ==
    /\ hooked[h].pc \in Stages
    /\ LET k == <<hooked[h].record, hooked[h].pc>>
       IN  hook' = [hook EXCEPT ![k] = Outcome(@)]

HookReturns(h) ==
    /\ HookEnds(h, HookSucceeded)
    /\ LeaveStage(h)
    /\ UNCHANGED <<pluginVars, modalVars>>

\* The plugin raised, timed out, or knows no such endpoint.
HookRaises(h) ==
    /\ HookEnds(h, HookFailed)
    /\ LeaveStage(h)
    /\ UNCHANGED <<pluginVars, modalVars>>

-----------------------------------------------------------------------------

\* What becomes of a modal request and of a request with hooks.
ModalStep(q) ==
    \/ StartRaises(q) \/ StartWithoutSpec(q) \/ BadSpec(q) \/ UpdateRaises(q)
    \/ \E spec \in SUBSET Controls : StartReturns(q, spec) \/ UpdateReturns(q, spec)
    \/ \E c \in Controls : HydrateControl(q, c)

HookStep(h) == AnswerRequest(h) \/ HookReturns(h) \/ HookRaises(h)

PluginStep == LoadRecord \/ SwitchPlugin \/ BeginUnload

ModalArrives ==
    \/ \E q \in ModalRequests, s \in Sessions, given \in SUBSET Controls :
           \/ StartSession(q, s, given)
           \/ \E c \in Controls : UpdateControl(q, s, c, given)
    \/ \E s \in Sessions, given \in SUBSET Controls :
           \/ StartRefused(s, given)
           \/ \E c \in Controls : UpdateRefused(s, c, given)
    \/ \E s \in Sessions : StopSession(s) \/ CloseSession(s)

ModalNext ==
    \/ PluginStep
    \/ ModalArrives
    \/ \E q \in ModalRequests : ModalStep(q)

HookNext == LoadRecord \/ SwitchPlugin \/ \E h \in Hooked : BeginRequest(h) \/ HookStep(h)

ModalSpec == ModalInit /\ [][ModalNext \/ HookNext]_sessionVars

\* Every call of the plugin ends (asyncio.wait_for).
ModalFairness == \A q \in ModalRequests : WF_sessionVars(ModalStep(q))

-----------------------------------------------------------------------------
(* Properties.                                                             *)

\* Once a stop has been requested no further call of a control reaches the
\* plugin, also when a call that was under way made the session "running"
\* again after the stop (engine.py:384, 431).
StopRequestIsFinal ==
    [][ \A q \in ModalRequests :
            modalReq[q].pc = "idle" /\ modalReq'[q].pc = "update"
            => ~session[modalReq'[q].session].stopRequested ]_sessionVars

\* An unload leaves no session that is older than itself: a session in the
\* table began after the last unload did, during its plugin_done included.
UnloadClosesEarlierSessions ==
    \A s \in Sessions : session[s].listed => session[s].since = unloads

\* A session does not stay in "opening", whatever the plugin does, unless it
\* answers with an invalid specification (engine.py:382).
OpeningIsResolved ==
    \A s \in Sessions :
        session[s].state = "opening" ~>
            session[s].state # "opening" \/ ~session[s].listed \/ session[s].badSpec

\* plugins/README.md:128: a hook of a record is blocked exactly when it has
\* failed HookLimit times in a row, for overlapping requests too: a success
\* that is counted in between is not lost, and a late one unblocks nothing.
HooksBlockAfterARow ==
    \A k \in RecordNos \X Stages :
        hook[k].blocked <=>
            \E i \in 1..(Len(hook[k].log) - HookLimit + 1) :
                \A j \in i..(i + HookLimit - 1) : ~hook[k].log[j]
=============================================================================
