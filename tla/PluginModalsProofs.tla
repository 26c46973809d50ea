------------------------- MODULE PluginModalsProofs -------------------------
(***************************************************************************)
(* The invariants of PluginModals, for every number of sessions, controls, *)
(* requests and records, and every failure limit.                          *)
(***************************************************************************)
EXTENDS PluginModals, TLAPS

-----------------------------------------------------------------------------
(* Sessions.                                                               *)

PluginTypes ==
    /\ current \in 0..MaxRecords
    /\ offered \in BOOLEAN
    /\ unloads \in 0..MaxUnloads

\* A request that has been let in works on a session.
OnASession == \A q \in ModalRequests :
    modalReq[q].pc # "idle" => modalReq[q].session \in Sessions

Requested ==
    /\ modalReq \in [ModalRequests -> ModalRequest]
    /\ OnASession

Sessioned ==
    /\ session \in [Sessions -> ModalSession]
    /\ UnloadClosesEarlierSessions

ModalInv == PluginTypes /\ Requested /\ Sessioned

\* What a step may not do once the session has been asked to stop.
NoLateUpdate ==
    \A q \in ModalRequests :
        modalReq[q].pc = "idle" /\ modalReq'[q].pc = "update"
        => ~session[modalReq'[q].session].stopRequested

Current(x) == x \in ModalSession /\ (x.listed => x.since = unloads)

LEMMA SessionOf ==
    ASSUME ModalInv, NEW q \in ModalRequests, modalReq[q].pc # "idle"
    PROVE  /\ modalReq[q].session \in Sessions
           /\ Current(session[modalReq[q].session])
           /\ modalReq[q].todo \subseteq Controls
BY DEF ModalInv, Requested, OnASession, Sessioned, UnloadClosesEarlierSessions,
       Current, ModalRequest

LEMMA OneSession ==
    ASSUME ModalInv, NEW s \in Sessions, NEW x, Current(x),
           session' = [session EXCEPT ![s] = x], UNCHANGED unloads
    PROVE  Sessioned'
<1>1. /\ session' \in [Sessions -> ModalSession]
      /\ \A r \in Sessions : session'[r] = IF r = s THEN x ELSE session[r]
    BY DEF ModalInv, Sessioned, Current
<1>2. ASSUME NEW r \in Sessions, session'[r].listed
      PROVE  session'[r].since = unloads'
    BY <1>1, <1>2 DEF ModalInv, Sessioned, UnloadClosesEarlierSessions, Current
<1> QED BY <1>1, <1>2 DEF Sessioned, UnloadClosesEarlierSessions

LEMMA SessionsSame ==
    ASSUME ModalInv, UNCHANGED <<session, unloads>>
    PROVE  Sessioned'
BY DEF ModalInv, Sessioned, UnloadClosesEarlierSessions

LEMMA OneRequest ==
    ASSUME ModalInv, NEW q \in ModalRequests, NEW r \in ModalRequest,
           r.pc # "idle" => r.session \in Sessions,
           modalReq[q].pc = "idle" /\ r.pc = "update" =>
               ~session[r.session].stopRequested,
           modalReq' = [modalReq EXCEPT ![q] = r]
    PROVE  Requested' /\ NoLateUpdate
<1>1. /\ modalReq' \in [ModalRequests -> ModalRequest]
      /\ \A p \in ModalRequests : modalReq'[p] = IF p = q THEN r ELSE modalReq[p]
    BY DEF ModalInv, Requested
<1>2. Requested'
    BY <1>1 DEF ModalInv, Requested, OnASession
<1>3. NoLateUpdate
    <2> SUFFICES ASSUME NEW p \in ModalRequests,
                        modalReq[p].pc = "idle", modalReq'[p].pc = "update"
                 PROVE  ~session[modalReq'[p].session].stopRequested
        BY DEF NoLateUpdate
    <2>1. p = q /\ modalReq'[p] = r
        BY <1>1
    <2> QED BY <2>1
<1> QED BY <1>2, <1>3

LEMMA RequestsSame ==
    ASSUME ModalInv, UNCHANGED modalReq
    PROVE  Requested' /\ NoLateUpdate
BY DEF ModalInv, Requested, OnASession, NoLateUpdate

LEMMA IdleRequest == IdleModalRequest \in ModalRequest /\ IdleModalRequest.pc = "idle"
BY DEF IdleModalRequest, ModalRequest

LEMMA AnsweredRequest ==
    ASSUME ModalInv, NEW q \in ModalRequests, Answered(q)
    PROVE  Requested' /\ NoLateUpdate
<1>1. modalReq' = [modalReq EXCEPT ![q] = IdleModalRequest]
    BY DEF Answered
<1> QED BY <1>1, IdleRequest, OneRequest

\* Everything a step on the sessions keeps, and what it never does.
Kept == ModalInv' /\ NoLateUpdate

LEMMA KeptByParts ==
    ASSUME ModalInv, Requested' /\ NoLateUpdate, Sessioned', UNCHANGED pluginVars
    PROVE  Kept
BY DEF Kept, ModalInv, PluginTypes, pluginVars

LEMMA Opened ==
    ASSUME ModalInv, NEW given \in SUBSET Controls
    PROVE  /\ Current(OpenSession(given))
           /\ Current([OpenSession(given) EXCEPT !.state = "error"])
BY DEF ModalInv, PluginTypes, Current, OpenSession, UnusedSession, ModalSession

LEMMA StartSessionKept ==
    ASSUME ModalInv, NEW q \in ModalRequests, NEW s \in Sessions,
           NEW given \in SUBSET Controls, StartSession(q, s, given)
    PROVE  Kept
<1> DEFINE r == [modalReq[q] EXCEPT !.pc = "start", !.session = s]
<1>1. r \in ModalRequest /\ r.pc = "start" /\ r.session = s
    BY DEF ModalInv, Requested, ModalRequest
<1>2. modalReq' = [modalReq EXCEPT ![q] = r]
    BY DEF StartSession, ModalInv, Requested
<1> HIDE DEF r
<1>3. Requested' /\ NoLateUpdate
    BY <1>1, <1>2, OneRequest
<1>4. Sessioned'
    BY Opened, OneSession DEF StartSession, SetSession, pluginVars
<1> QED BY <1>3, <1>4, KeptByParts DEF StartSession

LEMMA StartRefusedKept ==
    ASSUME ModalInv, NEW s \in Sessions, NEW given \in SUBSET Controls,
           StartRefused(s, given)
    PROVE  Kept
<1>1. Sessioned'
    BY Opened, OneSession DEF StartRefused, SetSession, pluginVars
<1> QED BY <1>1, RequestsSame, KeptByParts DEF StartRefused

LEMMA UpdateControlKept ==
    ASSUME ModalInv, NEW q \in ModalRequests, NEW s \in Sessions,
           NEW c \in Controls, NEW values \in SUBSET Controls,
           UpdateControl(q, s, c, values)
    PROVE  Kept
<1> DEFINE r == [pc |-> "update", session |-> s, todo |-> {c}]
           x == [session[s] EXCEPT !.values = values]
<1>1. r \in ModalRequest /\ r.pc = "update" /\ r.session = s
    BY DEF ModalRequest
<1>2. modalReq' = [modalReq EXCEPT ![q] = r] /\ ~session[s].stopRequested
    BY DEF UpdateControl, MayUpdate
<1> HIDE DEF r
<1>3. Requested' /\ NoLateUpdate
    BY <1>1, <1>2, OneRequest
<1>4. Current(x)
    BY DEF ModalInv, Sessioned, UnloadClosesEarlierSessions, ModalSession, Current
<1>5. session' = [session EXCEPT ![s] = x]
    BY DEF UpdateControl, SetSession
<1> HIDE DEF x
<1>6. Sessioned'
    BY <1>4, <1>5, OneSession DEF UpdateControl, pluginVars
<1> QED BY <1>3, <1>6, KeptByParts DEF UpdateControl

LEMMA UpdateRefusedKept ==
    ASSUME ModalInv, NEW s \in Sessions, NEW c \in Controls,
           NEW values \in SUBSET Controls, UpdateRefused(s, c, values)
    PROVE  Kept
<1> DEFINE x == [session[s] EXCEPT !.values = values, !.state = "error"]
<1>1. Current(x)
    BY DEF ModalInv, Sessioned, UnloadClosesEarlierSessions, ModalSession, Current
<1>2. session' = [session EXCEPT ![s] = x]
    BY DEF UpdateRefused, SetSession
<1> HIDE DEF x
<1>3. Sessioned'
    BY <1>1, <1>2, OneSession DEF UpdateRefused, pluginVars
<1> QED BY <1>3, RequestsSame, KeptByParts DEF UpdateRefused

LEMMA StopKept ==
    ASSUME ModalInv, NEW s \in Sessions, StopSession(s)
    PROVE  Kept
<1> DEFINE x == [session[s] EXCEPT !.stopRequested = TRUE, !.state = "stopped"]
<1>1. Current(x)
    BY DEF ModalInv, Sessioned, UnloadClosesEarlierSessions, ModalSession, Current
<1>2. session' = [session EXCEPT ![s] = x]
    BY DEF StopSession, ModalInv, Sessioned
<1> HIDE DEF x
<1>3. Sessioned'
    BY <1>1, <1>2, OneSession DEF StopSession, pluginVars
<1> QED BY <1>3, RequestsSame, KeptByParts DEF StopSession

LEMMA CloseKept ==
    ASSUME ModalInv, NEW s \in Sessions, CloseSession(s)
    PROVE  Kept
<1> DEFINE stops == /\ ~session[s].stopRequested
                    /\ session[s].state \notin {"stopped", "error"}
           asked == session[s].stopRequested \/ stops
           state == IF stops THEN "stopped" ELSE session[s].state
           x == [session[s] EXCEPT !.listed = FALSE, !.stopRequested = asked,
                                   !.state = state]
<1>1. asked \in BOOLEAN
    OBVIOUS
<1>2. state \in {"new", "opening", "running", "stopped", "error"}
    BY DEF ModalInv, Sessioned, ModalSession
<1>3. session' = [session EXCEPT ![s] = x]
    BY DEF CloseSession, SetSession
<1> HIDE DEF stops, asked, state
<1>4. Current(x)
    BY <1>1, <1>2 DEF ModalInv, Sessioned, ModalSession, Current
<1> HIDE DEF x
<1>5. Sessioned'
    BY <1>3, <1>4, OneSession DEF CloseSession, pluginVars
<1> QED BY <1>5, RequestsSame, KeptByParts DEF CloseSession

\* The steps that answer a request and set its session.
LEMMA AnswerKept ==
    ASSUME ModalInv, NEW q \in ModalRequests, modalReq[q].pc # "idle", NEW x,
           Current(x), session' = [session EXCEPT ![modalReq[q].session] = x],
           Answered(q), UNCHANGED pluginVars
    PROVE  Kept
<1>1. Sessioned'
    BY SessionOf, OneSession DEF pluginVars
<1> QED BY <1>1, AnsweredRequest, KeptByParts

LEMMA RaisesKept ==
    ASSUME ModalInv, NEW q \in ModalRequests, StartRaises(q) \/ UpdateRaises(q)
    PROVE  Kept
<1> DEFINE s == modalReq[q].session
           x == [session[s] EXCEPT !.state = "error"]
<1>1. modalReq[q].pc # "idle" /\ Answered(q) /\ UNCHANGED pluginVars
    BY DEF StartRaises, UpdateRaises
<1>2. s \in Sessions /\ Current(session[s])
    BY <1>1, SessionOf
<1>3. session' = [session EXCEPT ![s] = x]
    BY <1>2 DEF StartRaises, UpdateRaises, ModalInv, Sessioned
<1>4. Current(x)
    BY <1>2 DEF ModalSession, Current
<1> HIDE DEF x
<1> QED BY <1>1, <1>3, <1>4, AnswerKept

LEMMA StartWithoutSpecKept ==
    ASSUME ModalInv, NEW q \in ModalRequests, StartWithoutSpec(q)
    PROVE  Kept
<1> DEFINE s == modalReq[q].session
           x == [session[s] EXCEPT !.listed = FALSE]
<1>1. modalReq[q].pc # "idle" /\ Answered(q) /\ UNCHANGED pluginVars
    BY DEF StartWithoutSpec
<1>2. s \in Sessions /\ Current(session[s])
    BY <1>1, SessionOf
<1>3. session' = [session EXCEPT ![s] = x]
    BY <1>2 DEF StartWithoutSpec, ModalInv, Sessioned
<1>4. Current(x)
    BY <1>2 DEF ModalSession, Current
<1> HIDE DEF x
<1> QED BY <1>1, <1>3, <1>4, AnswerKept

LEMMA BadSpecKept ==
    ASSUME ModalInv, NEW q \in ModalRequests, BadSpec(q)
    PROVE  Kept
<1> DEFINE s == modalReq[q].session
           bad == session[s].badSpec \/ modalReq[q].pc = "start"
           x == [session[s] EXCEPT !.badSpec = bad]
<1>1. modalReq[q].pc # "idle" /\ Answered(q) /\ UNCHANGED pluginVars
    BY DEF BadSpec
<1>2. s \in Sessions /\ Current(session[s])
    BY <1>1, SessionOf
<1>3. session' = [session EXCEPT ![s] = x]
    BY <1>2 DEF BadSpec, ModalInv, Sessioned
<1>4. bad \in BOOLEAN
    OBVIOUS
<1> HIDE DEF bad
<1>5. Current(x)
    BY <1>2, <1>4 DEF ModalSession, Current
<1> HIDE DEF x
<1> QED BY <1>1, <1>3, <1>5, AnswerKept

LEMMA UpdateReturnsKept ==
    ASSUME ModalInv, NEW q \in ModalRequests, NEW spec \in SUBSET Controls,
           UpdateReturns(q, spec)
    PROVE  Kept
<1> DEFINE s == modalReq[q].session
           x(values) == [session[s] EXCEPT !.state = "running", !.modal = spec,
                                           !.values = values]
<1>1. modalReq[q].pc # "idle" /\ Answered(q) /\ UNCHANGED pluginVars
    BY DEF UpdateReturns
<1>2. s \in Sessions /\ Current(session[s]) /\ modalReq[q].todo \subseteq Controls
    BY <1>1, SessionOf
<1>3. PICK values \in {session[s].values, session[s].values \cup modalReq[q].todo,
                       session[s].values \ modalReq[q].todo} :
          session' = [session EXCEPT ![s] = x(values)]
    BY DEF UpdateReturns, SetSession
<1>4. values \subseteq Controls
    BY <1>2, <1>3 DEF Current, ModalSession
<1>5. Current(x(values))
    BY <1>2, <1>4 DEF ModalSession, Current
<1> HIDE DEF x
<1> QED BY <1>1, <1>3, <1>5, AnswerKept

\* Hydration, from a session on that the step has changed.
LEMMA HydrateKept ==
    ASSUME ModalInv, NEW q \in ModalRequests, modalReq[q].pc # "idle", NEW x,
           Current(x), NEW todo \in SUBSET Controls, HydrateFrom(q, x, todo),
           UNCHANGED pluginVars
    PROVE  Kept
<1> DEFINE s == modalReq[q].session
           y == [x EXCEPT !.state = "running"]
           r == [modalReq[q] EXCEPT !.pc = "hydrate", !.todo = todo \ x.values]
<1>1. s \in Sessions
    BY SessionOf
<1>2. CASE todo \subseteq x.values
    <2>1. Current(y)
        BY DEF Current, ModalSession
    <2>2. session' = [session EXCEPT ![s] = y] /\ Answered(q)
        BY <1>2 DEF HydrateFrom, SetSession
    <2> HIDE DEF y
    <2> QED BY <2>1, <2>2, AnswerKept
<1>3. CASE ~(todo \subseteq x.values)
    <2>1. session' = [session EXCEPT ![s] = x]
        BY <1>3 DEF HydrateFrom, SetSession
    <2>2. modalReq' = [modalReq EXCEPT ![q] = r]
        BY <1>3 DEF HydrateFrom, ModalInv, Requested
    <2>3. r \in ModalRequest /\ r.pc = "hydrate" /\ r.session = s
        BY DEF ModalInv, Requested, ModalRequest
    <2> HIDE DEF r, s
    <2>4. Requested' /\ NoLateUpdate
        BY <1>1, <2>2, <2>3, OneRequest
    <2>5. Sessioned'
        BY <1>1, <2>1, OneSession DEF pluginVars
    <2> QED BY <2>4, <2>5, KeptByParts
<1> QED BY <1>2, <1>3

LEMMA StartReturnsKept ==
    ASSUME ModalInv, NEW q \in ModalRequests, NEW spec \in SUBSET Controls,
           StartReturns(q, spec)
    PROVE  Kept
<1> DEFINE x == [session[modalReq[q].session] EXCEPT !.modal = spec]
<1>1. modalReq[q].pc # "idle" /\ UNCHANGED pluginVars /\ HydrateFrom(q, x, spec)
    BY DEF StartReturns
<1>2. Current(session[modalReq[q].session])
    BY <1>1, SessionOf
<1>3. Current(x)
    BY <1>2 DEF ModalSession, Current
<1> HIDE DEF x
<1> QED BY <1>1, <1>3, HydrateKept

LEMMA HydrateControlKept ==
    ASSUME ModalInv, NEW q \in ModalRequests, NEW c \in Controls,
           HydrateControl(q, c)
    PROVE  Kept
<1> DEFINE y == session[modalReq[q].session]
           x(values) == [y EXCEPT !.values = values]
           todo == modalReq[q].todo \ {c}
<1>1. modalReq[q].pc # "idle" /\ UNCHANGED pluginVars
    BY DEF HydrateControl
<1>2. Current(y) /\ todo \in SUBSET Controls
    BY <1>1, SessionOf
<1>3. PICK values \in {y.values \cup {c}, y.values \ {c}} :
          HydrateFrom(q, x(values), todo)
    BY DEF HydrateControl
<1> HIDE DEF y, todo
<1>4. values \subseteq Controls
    BY <1>2, <1>3 DEF Current, ModalSession
<1>5. Current(x(values))
    BY <1>2, <1>4 DEF ModalSession, Current
<1> HIDE DEF x
<1> QED BY <1>1, <1>2, <1>3, <1>5, HydrateKept

\* An unload takes the sessions it finds out of the table.
LEMMA BeginUnloadKept ==
    ASSUME ModalInv, BeginUnload
    PROVE  Kept
<1> DEFINE closed(s) == [session[s] EXCEPT !.listed = FALSE, !.stopRequested = TRUE,
                                           !.state = "stopped"]
<1>1. ASSUME NEW s \in Sessions
      PROVE  session[s] \in ModalSession /\ closed(s) \in ModalSession
             /\ ~closed(s).listed
    <2>1. session[s] \in ModalSession
        BY DEF ModalInv, Sessioned
    <2> QED BY <2>1 DEF ModalSession
<1>2. session' = [s \in Sessions |->
                    IF session[s].listed THEN closed(s) ELSE session[s]]
    BY DEF BeginUnload, CloseModalSessions
<1> HIDE DEF closed
<1>3. \A s \in Sessions : session'[s] \in ModalSession /\ ~session'[s].listed
    <2> SUFFICES ASSUME NEW s \in Sessions
                 PROVE  session'[s] \in ModalSession /\ ~session'[s].listed
        OBVIOUS
    <2>1. session[s].listed \in BOOLEAN
        BY <1>1 DEF ModalSession
    <2> QED BY <1>1, <1>2, <2>1
<1>4. session' = [s \in Sessions |-> session'[s]]
    BY <1>2
<1>5. Sessioned'
    BY <1>3, <1>4 DEF Sessioned, UnloadClosesEarlierSessions
<1>6. unloads' \in 0..MaxUnloads
    BY ModalAssumption DEF BeginUnload, ModalInv, PluginTypes
<1>7. PluginTypes'
    BY <1>6 DEF BeginUnload, ModalInv, PluginTypes
<1> QED BY <1>5, <1>7, RequestsSame DEF Kept, ModalInv, BeginUnload

LEMMA RestKept ==
    ASSUME ModalInv,
           \/ LoadRecord \/ SwitchPlugin \/ UNCHANGED sessionVars
           \/ \E h \in Hooked : BeginRequest(h) \/ HookStep(h)
    PROVE  Kept
<1>1. UNCHANGED <<session, modalReq, unloads>>
    BY DEF LoadRecord, SwitchPlugin, BeginRequest, HookStep, AnswerRequest,
           HookReturns, HookRaises, sessionVars, pluginVars, modalVars
<1>2. current' \in 0..MaxRecords /\ offered' \in BOOLEAN
    <2>1. CASE LoadRecord
        BY <2>1, ModalAssumption DEF LoadRecord, ModalInv, PluginTypes
    <2>2. CASE SwitchPlugin
        BY <2>2 DEF SwitchPlugin, ModalInv, PluginTypes
    <2>3. CASE UNCHANGED pluginVars
        BY <2>3 DEF pluginVars, ModalInv, PluginTypes
    <2> QED BY <2>1, <2>2, <2>3 DEF BeginRequest, HookStep, AnswerRequest,
               HookReturns, HookRaises, sessionVars
<1>3. PluginTypes'
    BY <1>1, <1>2 DEF ModalInv, PluginTypes
<1> QED BY <1>1, <1>3, RequestsSame, SessionsSame DEF Kept, ModalInv

LEMMA ModalBounds ==
    MaxRecords \in Nat \ {0} /\ MaxUnloads \in Nat /\ HookLimit \in Nat \ {0}
BY ModalAssumption

LEMMA ModalInvInit == ModalInit => ModalInv
<1> SUFFICES ASSUME ModalInit PROVE ModalInv
    OBVIOUS
<1>1. PluginTypes
    <2>1. current = 0 /\ offered = FALSE /\ unloads = 0
        BY DEF ModalInit
    <2>2. 0 \in 0..MaxRecords /\ 0 \in 0..MaxUnloads
        BY ModalBounds
    <2> QED BY <2>1, <2>2 DEF PluginTypes
<1>2. Requested
    BY IdleRequest DEF ModalInit, Requested, OnASession
<1>3. UnusedSession \in ModalSession /\ UnusedSession.listed = FALSE
    BY ModalAssumption DEF UnusedSession, ModalSession
<1>4. Sessioned
    BY <1>3 DEF ModalInit, Sessioned, UnloadClosesEarlierSessions
<1> QED BY <1>1, <1>2, <1>4 DEF ModalInv

LEMMA ModalInvNext ==
    ASSUME ModalInv, [ModalNext \/ HookNext]_sessionVars
    PROVE  Kept
<1>1. CASE PluginStep
    BY <1>1, BeginUnloadKept, RestKept DEF PluginStep
<1>2. CASE ModalArrives
    BY <1>2, StartSessionKept, StartRefusedKept, UpdateControlKept,
       UpdateRefusedKept, StopKept, CloseKept DEF ModalArrives
<1>3. ASSUME NEW q \in ModalRequests, ModalStep(q) PROVE Kept
    BY <1>3, RaisesKept, StartWithoutSpecKept, BadSpecKept, UpdateReturnsKept,
       StartReturnsKept, HydrateControlKept DEF ModalStep
<1>4. CASE HookNext \/ UNCHANGED sessionVars
    BY <1>4, RestKept DEF HookNext
<1> QED BY <1>1, <1>2, <1>3, <1>4 DEF ModalNext

LEMMA ModalsHold == ModalSpec => []ModalInv
<1>1. ModalInv /\ [ModalNext \/ HookNext]_sessionVars => ModalInv'
    BY ModalInvNext DEF Kept
<1> QED BY <1>1, ModalInvInit, PTL DEF ModalSpec

\* The sessions in the table began after the last unload did
\* (engine.py:_close_modal_sessions_for_plugin).
THEOREM UnloadsClose == ModalSpec => []UnloadClosesEarlierSessions
<1>1. ModalInv => UnloadClosesEarlierSessions
    BY DEF ModalInv, Sessioned
<1> QED BY <1>1, ModalsHold, PTL

\* No call of a control begins in a session that was asked to stop, although a
\* call that was under way may have set its state to "running" since
\* (update_modal_control, engine.py).
THEOREM StopsAreFinal == ModalSpec => StopRequestIsFinal
<1>1. ModalInv /\ [ModalNext \/ HookNext]_sessionVars => [NoLateUpdate]_sessionVars
    BY ModalInvNext DEF Kept
<1>2. NoLateUpdate <=>
        \A q \in ModalRequests :
            modalReq[q].pc = "idle" /\ modalReq'[q].pc = "update"
            => ~session[modalReq'[q].session].stopRequested
    BY DEF NoLateUpdate
<1> QED BY <1>1, <1>2, ModalsHold, PTL DEF ModalSpec, StopRequestIsFinal

-----------------------------------------------------------------------------
(* Hooks.                                                                  *)

HasRow(log) ==
    \E i \in 1..(Len(log) - HookLimit + 1) :
        \A j \in i..(i + HookLimit - 1) : ~log[j]

\* The counter of a hook: the length of the row of failures that its log ends
\* with, or HookLimit when that is longer.
Counted(x) ==
    /\ x \in HookState
    /\ x.failures <= Len(x.log)
    /\ \A j \in (Len(x.log) - x.failures + 1)..Len(x.log) : ~x.log[j]
    /\ x.failures < HookLimit /\ x.failures < Len(x.log) =>
          x.log[Len(x.log) - x.failures]
    /\ x.failures = HookLimit => x.blocked
    /\ x.blocked <=> HasRow(x.log)

LEMMA LogGrows ==
    ASSUME NEW log \in Seq(BOOLEAN), NEW b \in BOOLEAN
    PROVE  /\ Append(log, b) \in Seq(BOOLEAN)
           /\ Len(log) \in Nat
           /\ Len(Append(log, b)) = Len(log) + 1
           /\ \A j \in 1..Len(log) : Append(log, b)[j] = log[j]
           /\ Append(log, b)[Len(log) + 1] = b
OBVIOUS

\* A row of the longer log is one of the log, or ends with the new entry.
LEMMA RowGrows ==
    ASSUME NEW log \in Seq(BOOLEAN), NEW b \in BOOLEAN
    PROVE  HasRow(Append(log, b)) <=>
              \/ HasRow(log)
              \/ /\ ~b /\ HookLimit <= Len(log) + 1
                 /\ \A j \in (Len(log) + 2 - HookLimit)..Len(log) : ~log[j]
<1> DEFINE n == Len(log)
           new == Append(log, b)
<1>1. /\ n \in Nat /\ Len(new) = n + 1 /\ HookLimit \in Nat /\ HookLimit >= 1
      /\ \A j \in 1..n : new[j] = log[j]
      /\ new[n + 1] = b
    BY LogGrows, ModalBounds
<1> HIDE DEF n, new
<1>2. ASSUME HasRow(log) PROVE HasRow(new)
    <2>1. PICK i \in 1..(n - HookLimit + 1) :
              \A j \in i..(i + HookLimit - 1) : ~log[j]
        BY <1>2 DEF HasRow, n
    <2>2. i \in 1..(Len(new) - HookLimit + 1)
        BY <1>1
    <2>3. \A j \in i..(i + HookLimit - 1) : j \in 1..n
        BY <1>1
    <2>4. \A j \in i..(i + HookLimit - 1) : ~new[j]
        BY <1>1, <2>1, <2>3
    <2> QED BY <2>2, <2>4 DEF HasRow
<1>3. ASSUME ~b, HookLimit <= n + 1, \A j \in (n + 2 - HookLimit)..n : ~log[j]
      PROVE  HasRow(new)
    <2> DEFINE i == n + 2 - HookLimit
    <2>1. i \in 1..(Len(new) - HookLimit + 1) /\ i + HookLimit - 1 = n + 1
        BY <1>1, <1>3
    <2>2. ASSUME NEW j \in i..(n + 1) PROVE ~new[j]
        <3>1. CASE j = n + 1
            BY <1>1, <1>3, <3>1
        <3>2. CASE j # n + 1
            <4>1. j \in 1..n /\ j \in (n + 2 - HookLimit)..n
                BY <1>1, <1>3, <3>2
            <4> QED BY <1>1, <1>3, <4>1
        <3> QED BY <3>1, <3>2
    <2> HIDE DEF i
    <2> QED BY <2>1, <2>2 DEF HasRow
<1>4. ASSUME HasRow(new), ~HasRow(log)
      PROVE  /\ ~b /\ HookLimit <= n + 1
             /\ \A j \in (n + 2 - HookLimit)..n : ~log[j]
    <2>4. PICK i \in 1..(Len(new) - HookLimit + 1) :
              \A j \in i..(i + HookLimit - 1) : ~new[j]
        BY <1>4 DEF HasRow
    <2>1. i \in 1..(n + 2 - HookLimit) /\ \A j \in i..(i + HookLimit - 1) : ~new[j]
        BY <1>1, <2>4
    <2>2. CASE i <= n - HookLimit + 1
        <3>1. i \in 1..(n - HookLimit + 1)
            BY <1>1, <2>2
        <3>2. \A j \in i..(i + HookLimit - 1) : j \in 1..n
            BY <1>1, <2>2
        <3>3. \A j \in i..(i + HookLimit - 1) : ~log[j]
            BY <1>1, <2>1, <3>2
        <3> QED BY <1>4, <3>1, <3>3 DEF HasRow, n
    <2>3. CASE i = n + 2 - HookLimit
        <3>1. HookLimit <= n + 1 /\ n + 1 \in i..(i + HookLimit - 1)
            BY <1>1, <2>3
        <3>2. ASSUME NEW j \in (n + 2 - HookLimit)..n PROVE ~log[j]
            <4>1. j \in i..(i + HookLimit - 1) /\ j \in 1..n
                BY <1>1, <2>3, <3>1
            <4> QED BY <1>1, <2>1, <4>1
        <3> QED BY <1>1, <2>1, <3>1, <3>2
    <2> QED BY <1>1, <2>2, <2>3
<1> QED BY <1>2, <1>3, <1>4 DEF n, new

LEMMA LogAfterSuccess ==
    ASSUME NEW log \in Seq(BOOLEAN)
    PROVE  /\ Append(log, TRUE) \in Seq(BOOLEAN)
           /\ Len(Append(log, TRUE)) = Len(log) + 1
           /\ Append(log, TRUE)[Len(log) + 1]
           /\ HasRow(Append(log, TRUE)) <=> HasRow(log)
<1> DEFINE b == TRUE
<1>1. b \in BOOLEAN /\ b
    OBVIOUS
<1> HIDE DEF b
<1>2. /\ Append(log, b) \in Seq(BOOLEAN)
      /\ Len(Append(log, b)) = Len(log) + 1
      /\ Append(log, b)[Len(log) + 1] = b
    BY <1>1, LogGrows
<1>3. HasRow(Append(log, b)) <=> HasRow(log)
    BY <1>1, RowGrows
<1> QED BY <1>1, <1>2, <1>3 DEF b

LEMMA LogAfterFailure ==
    ASSUME NEW log \in Seq(BOOLEAN)
    PROVE  /\ Append(log, FALSE) \in Seq(BOOLEAN)
           /\ Len(Append(log, FALSE)) = Len(log) + 1
           /\ \A j \in 1..Len(log) : Append(log, FALSE)[j] = log[j]
           /\ ~Append(log, FALSE)[Len(log) + 1]
           /\ HasRow(Append(log, FALSE)) <=>
                 \/ HasRow(log)
                 \/ /\ HookLimit <= Len(log) + 1
                    /\ \A j \in (Len(log) + 2 - HookLimit)..Len(log) : ~log[j]
<1> DEFINE b == FALSE
<1>1. b \in BOOLEAN /\ ~b
    OBVIOUS
<1> HIDE DEF b
<1>2. /\ Append(log, b) \in Seq(BOOLEAN)
      /\ Len(Append(log, b)) = Len(log) + 1
      /\ \A j \in 1..Len(log) : Append(log, b)[j] = log[j]
      /\ Append(log, b)[Len(log) + 1] = b
    BY <1>1, LogGrows
<1>3. HasRow(Append(log, b)) <=>
          \/ HasRow(log)
          \/ /\ HookLimit <= Len(log) + 1
             /\ \A j \in (Len(log) + 2 - HookLimit)..Len(log) : ~log[j]
    BY <1>1, RowGrows
<1> QED BY <1>1, <1>2, <1>3 DEF b

LEMMA SuccessCounted ==
    ASSUME NEW x, Counted(x)
    PROVE  Counted(HookSucceeded(x))
<1> DEFINE log == x.log
           y == HookSucceeded(x)
<1>1. log \in Seq(BOOLEAN) /\ Len(log) \in Nat /\ x.blocked \in BOOLEAN
      /\ HookLimit \in Nat /\ HookLimit >= 1
    BY ModalBounds DEF Counted, HookState
<1>2. /\ y \in HookState /\ y.failures = 0 /\ y.blocked = x.blocked
      /\ y.log = Append(log, TRUE)
    <2> DEFINE new == Append(log, TRUE)
    <2>1. new \in Seq(BOOLEAN)
        BY <1>1, LogAfterSuccess
    <2>2. y = [x EXCEPT !.failures = 0, !.log = new]
        BY DEF HookSucceeded
    <2>3. x \in HookState
        BY DEF Counted
    <2> HIDE DEF new, y
    <2>4. 0 \in 0..HookLimit
        BY <1>1
    <2>5. y \in HookState
        BY <2>1, <2>2, <2>3, <2>4 DEF HookState
    <2>6. y.failures = 0 /\ y.log = new
        BY <2>2, <2>3 DEF HookState
    <2>7. y.blocked = x.blocked
        BY <2>2, <2>3 DEF HookState
    <2> QED BY <2>5, <2>6, <2>7 DEF new
<1>3. HasRow(y.log) <=> HasRow(log)
    BY <1>1, <1>2, LogAfterSuccess
<1>4. x.blocked <=> HasRow(log)
    BY DEF Counted
<1>5. Len(y.log) = Len(log) + 1 /\ y.log[Len(y.log)]
    BY <1>1, <1>2, LogAfterSuccess
<1> HIDE DEF log, y
<1>6. y.blocked <=> HasRow(y.log)
    BY <1>2, <1>3, <1>4
<1>7. Counted(y)
    <2>1. y \in HookState /\ y.failures <= Len(y.log)
        BY <1>1, <1>2, <1>5
    <2>2. \A j \in (Len(y.log) - y.failures + 1)..Len(y.log) : ~y.log[j]
        BY <1>1, <1>2, <1>5
    <2>3. y.failures < HookLimit /\ y.failures < Len(y.log) =>
              y.log[Len(y.log) - y.failures]
        BY <1>1, <1>2, <1>5
    <2>4. y.failures # HookLimit
        BY <1>1, <1>2
    <2> QED BY <1>6, <2>1, <2>2, <2>3, <2>4 DEF Counted
<1> QED BY <1>7 DEF y

LEMMA FailureCounted ==
    ASSUME NEW x, Counted(x)
    PROVE  Counted(HookFailed(x))
<1> DEFINE log == x.log
           l == Len(x.log)
           f == x.failures
           n == IF f + 1 >= HookLimit THEN HookLimit ELSE f + 1
           y == HookFailed(x)
<1>1. /\ log \in Seq(BOOLEAN) /\ l \in Nat /\ x.blocked \in BOOLEAN
      /\ HookLimit \in Nat /\ HookLimit >= 1 /\ f \in 0..HookLimit
    BY ModalBounds DEF Counted, HookState
<1>2. n \in 0..HookLimit /\ n <= f + 1 /\ (n < HookLimit => n = f + 1)
    BY <1>1
<1>3. /\ y \in HookState /\ y.failures = n /\ y.log = Append(log, FALSE)
      /\ y.blocked <=> x.blocked \/ n = HookLimit
    <2> DEFINE new == Append(log, FALSE)
               b == x.blocked \/ n = HookLimit
    <2>1. new \in Seq(BOOLEAN) /\ b \in BOOLEAN
        BY <1>1, LogAfterFailure
    <2>2. y = [x EXCEPT !.failures = n, !.blocked = b, !.log = new]
        BY DEF HookFailed
    <2>3. x \in HookState
        BY DEF Counted
    <2> HIDE DEF new, y, b, n
    <2>4. y \in HookState /\ y.failures = n /\ y.blocked = b /\ y.log = new
        BY <1>1, <1>2, <2>1, <2>2, <2>3 DEF HookState
    <2> QED BY <2>4 DEF new, b
<1>4. /\ Len(y.log) = l + 1
      /\ \A j \in 1..l : y.log[j] = log[j]
      /\ ~y.log[l + 1]
    BY <1>1, <1>3, LogAfterFailure
<1>5. /\ f <= l
      /\ \A j \in (l - f + 1)..l : ~log[j]
      /\ f < HookLimit /\ f < l => log[l - f]
      /\ f = HookLimit => x.blocked
      /\ x.blocked <=> HasRow(log)
    BY DEF Counted
<1>6. HasRow(y.log) <=>
          \/ HasRow(log)
          \/ HookLimit <= l + 1 /\ \A j \in (l + 2 - HookLimit)..l : ~log[j]
    BY <1>1, <1>3, LogAfterFailure
<1>7. n = HookLimit <=> f + 1 >= HookLimit
    BY <1>1
<1> HIDE DEF log, l, f, n, y
<1>8. ASSUME NEW j \in (l + 1 - n + 1)..(l + 1) PROVE ~y.log[j]
    <2>1. CASE j = l + 1
        BY <1>4, <2>1
    <2>2. CASE j # l + 1
        <3>1. j \in (l - f + 1)..l /\ j \in 1..l
            BY <1>1, <1>2, <1>5, <2>2
        <3> QED BY <1>4, <1>5, <3>1
    <2> QED BY <2>1, <2>2
<1>9. ASSUME n < HookLimit, n < l + 1 PROVE y.log[l + 1 - n]
    <2>1. f < HookLimit /\ f < l /\ n = f + 1 /\ l + 1 - n = l - f /\ l - f \in 1..l
        BY <1>1, <1>2, <1>9
    <2> QED BY <1>4, <1>5, <2>1
<1>10. ASSUME n = HookLimit PROVE HasRow(y.log)
    <2>1. f >= HookLimit - 1 /\ HookLimit <= l + 1
        BY <1>1, <1>5, <1>7, <1>10
    <2>2. \A j \in (l + 2 - HookLimit)..l : j \in (l - f + 1)..l
        BY <1>1, <2>1
    <2> QED BY <1>5, <1>6, <2>1, <2>2
<1>11. ASSUME HasRow(y.log), ~HasRow(log) PROVE n = HookLimit
    <2>1. HookLimit <= l + 1 /\ \A j \in (l + 2 - HookLimit)..l : ~log[j]
        BY <1>6, <1>11
    <2>2. ASSUME f + 1 < HookLimit PROVE FALSE
        <3>1. f < l /\ l - f \in (l + 2 - HookLimit)..l
            BY <1>1, <2>1, <2>2
        <3> QED BY <1>1, <1>5, <2>1, <2>2, <3>1
    <2> QED BY <1>1, <1>7, <2>2
<1>12. y.blocked <=> HasRow(y.log)
    BY <1>3, <1>5, <1>6, <1>10, <1>11
<1>13. n <= l + 1
    BY <1>1, <1>2, <1>5
<1>14. Counted(y)
    <2>1. y \in HookState /\ y.failures <= Len(y.log)
        BY <1>3, <1>4, <1>13
    <2>5. Len(y.log) = l + 1 /\ y.failures = n
        BY <1>3, <1>4
    <2>2. \A j \in (Len(y.log) - y.failures + 1)..Len(y.log) : ~y.log[j]
        BY <1>1, <1>2, <2>5, <1>8
    <2>3. y.failures < HookLimit /\ y.failures < Len(y.log) =>
              y.log[Len(y.log) - y.failures]
        BY <1>1, <1>2, <2>5, <1>9
    <2>4. y.failures = HookLimit => y.blocked
        BY <1>3
    <2> QED BY <1>12, <2>1, <2>2, <2>3, <2>4 DEF Counted
<1> QED BY <1>14 DEF y

HookedTypes == hooked \in [Hooked -> HookedRequest]

HookInv ==
    /\ hook \in [RecordNos \X Stages -> HookState]
    /\ \A k \in RecordNos \X Stages : Counted(hook[k])
    /\ HookedTypes

\* What a step leaves of the hooks, and where it leaves their requests.
LEMMA EndCounted ==
    ASSUME HookInv, NEW k, NEW y, k \in RecordNos \X Stages => Counted(y),
           hook' = [hook EXCEPT ![k] = y]
    PROVE  /\ hook' \in [RecordNos \X Stages -> HookState]
           /\ \A j \in RecordNos \X Stages : Counted(hook'[j])
<1>1. \A j \in RecordNos \X Stages : hook'[j] = IF j = k THEN y ELSE hook[j]
    BY DEF HookInv
<1>2. \A j \in RecordNos \X Stages : Counted(hook'[j])
    BY <1>1 DEF HookInv
<1>3. \A j \in RecordNos \X Stages : hook'[j] \in HookState
    BY <1>2 DEF Counted
<1>4. hook' = [j \in RecordNos \X Stages |-> hook'[j]]
    BY DEF HookInv
<1>5. hook' \in [RecordNos \X Stages -> HookState]
    BY <1>3, <1>4
<1> QED BY <1>2, <1>5

LEMMA LeaveTypes ==
    ASSUME HookedTypes, NEW h \in Hooked, LeaveStage(h)
    PROVE  HookedTypes'
<1> DEFINE r == [pc |-> IF hooked[h].pc = "before" THEN "handler" ELSE "idle",
                 record |-> 0]
<1>1. r \in HookedRequest
    BY ModalBounds DEF HookedRequest
<1>2. hooked' = [hooked EXCEPT ![h] = r]
    BY DEF LeaveStage
<1> HIDE DEF r
<1> QED BY <1>1, <1>2 DEF HookedTypes

LEMMA HookReturnsCounted ==
    ASSUME HookInv, NEW h \in Hooked, HookReturns(h)
    PROVE  HookInv'
<1> DEFINE k == <<hooked[h].record, hooked[h].pc>>
           y == HookSucceeded(hook[k])
<1>1. hook' = [hook EXCEPT ![k] = y]
    BY DEF HookReturns, HookEnds
<1>2. k \in RecordNos \X Stages => Counted(y)
    BY SuccessCounted DEF HookInv
<1> HIDE DEF k, y
<1>3. HookedTypes'
    BY LeaveTypes DEF HookReturns, HookInv
<1> QED BY <1>1, <1>2, <1>3, EndCounted DEF HookInv

LEMMA HookRaisesCounted ==
    ASSUME HookInv, NEW h \in Hooked, HookRaises(h)
    PROVE  HookInv'
<1> DEFINE k == <<hooked[h].record, hooked[h].pc>>
           y == HookFailed(hook[k])
<1>1. hook' = [hook EXCEPT ![k] = y]
    BY DEF HookRaises, HookEnds
<1>2. k \in RecordNos \X Stages => Counted(y)
    BY FailureCounted DEF HookInv
<1> HIDE DEF k, y
<1>3. HookedTypes'
    BY LeaveTypes DEF HookRaises, HookInv
<1> QED BY <1>1, <1>2, <1>3, EndCounted DEF HookInv

LEMMA EnterTypes ==
    ASSUME HookedTypes, PluginTypes, NEW h \in Hooked, NEW stage \in Stages,
           NEW next \in {"handler", "idle"}, EnterStage(h, stage, next)
    PROVE  HookedTypes'
<1> DEFINE r == IF HookReady(Picked, stage) THEN [pc |-> stage, record |-> Picked]
                                            ELSE [pc |-> next, record |-> 0]
<1>1. Picked \in 0..MaxRecords /\ 0 \in 0..MaxRecords
    BY ModalBounds DEF Picked, PluginTypes
<1>2. r \in HookedRequest
    BY <1>1 DEF HookedRequest, Stages
<1>3. hooked' = [hooked EXCEPT ![h] = r]
    BY DEF EnterStage
<1> HIDE DEF r
<1> QED BY <1>2, <1>3 DEF HookedTypes

LEMMA HooksSame ==
    ASSUME HookInv, UNCHANGED hook, HookedTypes'
    PROVE  HookInv'
BY DEF HookInv

LEMMA HookInvInit == ModalInit => HookInv
<1> SUFFICES ASSUME ModalInit PROVE HookInv
    OBVIOUS
<1> DEFINE x == NewHookState
<1>1. x.failures = 0 /\ x.blocked = FALSE /\ x.log = << >> /\ Len(x.log) = 0
    BY DEF NewHookState
<1>2. x \in HookState
    BY ModalBounds DEF NewHookState, HookState
<1> HIDE DEF x
<1>3. ~HasRow(x.log)
    BY <1>1, ModalBounds DEF HasRow
<1>4. x.failures # HookLimit
    BY <1>1, ModalBounds
<1>5. Counted(x)
    <2>1. x.failures <= Len(x.log) /\ ~(x.failures < Len(x.log))
        BY <1>1
    <2>2. \A j \in (Len(x.log) - x.failures + 1)..Len(x.log) : ~x.log[j]
        BY <1>1
    <2>3. x.blocked <=> HasRow(x.log)
        BY <1>1, <1>3
    <2> QED BY <1>2, <1>4, <2>1, <2>2, <2>3 DEF Counted
<1>6. hook = [k \in RecordNos \X Stages |-> x]
    BY DEF ModalInit, x
<1>7. HookedTypes
    <2>1. [pc |-> "idle", record |-> 0] \in HookedRequest
        BY ModalBounds DEF HookedRequest
    <2> QED BY <2>1 DEF ModalInit, HookedTypes
<1> QED BY <1>2, <1>5, <1>6, <1>7 DEF HookInv

LEMMA HookInvNext ==
    ASSUME HookInv, PluginTypes, [ModalNext \/ HookNext]_sessionVars
    PROVE  HookInv'
<1>1. CASE UNCHANGED hookVars
    BY <1>1, HooksSame DEF hookVars, HookInv, HookedTypes
<1>2. ASSUME NEW h \in Hooked, BeginRequest(h) PROVE HookInv'
    <2>1. HookedTypes'
        BY <1>2, EnterTypes DEF BeginRequest, HookInv, Stages
    <2> QED BY <1>2, <2>1, HooksSame DEF BeginRequest
<1>3. ASSUME NEW h \in Hooked, AnswerRequest(h) PROVE HookInv'
    <2>1. HookedTypes'
        BY <1>3, EnterTypes DEF AnswerRequest, HookInv, Stages
    <2> QED BY <1>3, <2>1, HooksSame DEF AnswerRequest
<1>4. CASE ModalNext \/ LoadRecord \/ SwitchPlugin \/ UNCHANGED sessionVars
    <2>1. CASE PluginStep \/ UNCHANGED sessionVars
        BY <2>1, <1>1 DEF PluginStep, LoadRecord, SwitchPlugin, BeginUnload, sessionVars
    <2>2. CASE ModalArrives
        BY <2>2, <1>1 DEF ModalArrives, StartSession, UpdateControl, StartRefused,
           UpdateRefused, StopSession, CloseSession
    <2>3. ASSUME NEW q \in ModalRequests, ModalStep(q) PROVE HookInv'
        BY <2>3, <1>1 DEF ModalStep, StartRaises, StartWithoutSpec, BadSpec,
           UpdateRaises, StartReturns, UpdateReturns, HydrateControl
    <2> QED BY <1>4, <2>1, <2>2, <2>3 DEF ModalNext, PluginStep
<1> QED BY <1>2, <1>3, <1>4, HookReturnsCounted, HookRaisesCounted
        DEF HookNext, HookStep

LEMMA HooksHold == ModalSpec => []HookInv
<1>1. HookInv /\ ModalInv /\ [ModalNext \/ HookNext]_sessionVars => HookInv'
    BY HookInvNext DEF ModalInv
<1> QED BY <1>1, HookInvInit, ModalsHold, PTL DEF ModalSpec

\* A hook of a record is blocked exactly when its log has a row of HookLimit
\* failures (hook_states in engine.py).
THEOREM HooksBlock == ModalSpec => []HooksBlockAfterARow
<1>1. HookInv => HooksBlockAfterARow
    BY DEF HookInv, Counted, HasRow, HooksBlockAfterARow
<1> QED BY <1>1, HooksHold, PTL

\* The state of the sessions and of the hooks has its types.
THEOREM ModalTypeCorrect == ModalSpec => []ModalTypeOK
<1>1. ModalInv /\ HookInv => ModalTypeOK
    BY DEF ModalInv, PluginTypes, Requested, Sessioned, HookInv, HookedTypes, ModalTypeOK
<1> QED BY <1>1, ModalsHold, HooksHold, PTL
=============================================================================
