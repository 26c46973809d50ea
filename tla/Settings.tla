------------------------------ MODULE Settings ------------------------------
(***************************************************************************)
(* What a start of the server adds to the database (roles, the first       *)
(* administrator, the rows of global_config), and the settings it then     *)
(* keeps in memory (app_settings.py): loaded once, changed by the requests *)
(* of routes/admin_config.py, each change first in memory and then in the  *)
(* database.  The runtime cache is built from the settings in memory.      *)
(*                                                                         *)
(* Requests: "put" is the coroutine update_global_config, whose write runs *)
(* in another thread while it waits; "plan" is apply_llm_autoconfigure,    *)
(* a thread of its own that applies and writes key after key.              *)
(***************************************************************************)
EXTENDS Integers, SequencesExt

CONSTANTS
    Admins,         \* requests that change settings
    Providers,      \* PROVIDER_CATALOG
    ModelsOf,       \* Providers -> sequence of models a provider may offer, sorted
    Embedding,      \* models that are no chat models
    Score,          \* tier -> model -> what its name scores
    DefaultModel,   \* Providers -> tier -> model
    CacheValues,    \* values of the settings of the runtime cache
    PutKeys,        \* settings that are put one by one
    MaxChanges,     \* bound on the requests
    MaxKills,       \* bound on the ends of the server process
    NoRow

Tiers == {"simple", "primary"}
RoleNames == {"admin", "developer", "viewer"}

\* The settings a plan gives values to, in the order of config_updates; those
\* that repeat the value of another one are left out.
PlanKeys == <<"OPTIMIZER_PROVIDER", "OPTIMIZER_MODEL", "PROMPT_COMPRESSION_MODEL">>
CacheKey == "PROMPTMAN_RUNTIME_CACHE_BACKEND"
SettingKeys == ToSet(PlanKeys) \cup {CacheKey}
Models == (UNION {ToSet(ModelsOf[p]) : p \in Providers})
              \cup {DefaultModel[p][t] : p \in Providers, t \in Tiers}

ValuesOf(k) == CASE k = "OPTIMIZER_PROVIDER" -> Providers
                 [] k = CacheKey -> CacheValues
                 [] OTHER -> Models
AllValues == UNION {ValuesOf(k) : k \in SettingKeys}

\* _DEFAULTS.  Its models are its provider's.
Defaults ==
    LET p == CHOOSE q \in Providers : TRUE
    IN  [k \in SettingKeys |->
            CASE k = "OPTIMIZER_PROVIDER" -> p
              [] k = CacheKey -> CHOOSE v \in CacheValues : TRUE
              [] OTHER -> DefaultModel[p]["simple"]]

ASSUME SettingsAssumption ==
    /\ PutKeys \subseteq SettingKeys
    /\ NoRow \notin AllValues
    /\ {MaxChanges, MaxKills} \subseteq Nat
    /\ Providers # {} /\ CacheValues # {}
    /\ \A p \in Providers : ModelsOf[p] \in Seq(ToSet(ModelsOf[p]))
    /\ \A t \in Tiers, m \in Models : Score[t][m] \in Int

VARIABLES
    process,    \* how far the server process is
    roles,      \* the names in table roles
    accounts,   \* table users is not empty
    rows,       \* table global_config: setting -> value or NoRow
    memory,     \* _store
    toLoad,     \* the keys load_from_db still has to look at
    backend,    \* the settings that _runtime_backend was built from, or none
    admin,      \* Admins -> request
    unsettled,  \* history: settings being changed, and those whose last change
                \* overlapped with another one or did not get to its end
    mixed,      \* history: the same of the settings of a plan as a whole
    changes,
    kills

settingsVars == <<process, roles, accounts, rows, memory, toLoad, backend, admin,
                  unsettled, mixed, changes, kills>>
dataVars == <<roles, accounts, rows, mixed>>
serverVars == <<memory, toLoad, backend, unsettled>>

\* updates: what the request still has to apply and write.  alone: history, no
\* other request was changing its present key at the same time.  pure: history,
\* no other request has changed a key of its plan.
AdminRequest ==
    [pc : {"idle", "apply", "write", "finish"}, kind : {"put", "plan"},
     updates : Seq(SettingKeys \X AllValues), alone : BOOLEAN, pure : BOOLEAN]

SettingsTypeOK ==
    /\ process \in {"down", "roles", "admin", "settings", "serving"}
    /\ roles \subseteq RoleNames
    /\ accounts \in BOOLEAN
    /\ \A k \in SettingKeys :
        rows[k] \in ValuesOf(k) \cup {NoRow} /\ memory[k] \in ValuesOf(k)
    /\ backend \in CacheValues \cup {NoRow}
    /\ admin \in [Admins -> AdminRequest]
    /\ unsettled \subseteq SettingKeys

IdleAdmin == [pc |-> "idle", kind |-> "put", updates |-> << >>,
              alone |-> TRUE, pure |-> TRUE]

SettingsInit ==
    /\ process = "down"
    /\ roles = {} /\ accounts = FALSE
    /\ rows = [k \in SettingKeys |-> NoRow]
    /\ memory = Defaults
    /\ toLoad = << >> /\ backend = NoRow
    /\ admin = [a \in Admins |-> IdleAdmin]
    /\ unsettled = {} /\ mixed = FALSE /\ changes = 0 /\ kills = 0

-----------------------------------------------------------------------------
(* Startup.  An action is one commit, or one key that is read.             *)

\* The module is imported again; create_app_lifespan runs the migrations
\* (module Migrations) and then _bootstrap.
StartProcess ==
    /\ process = "down"
    /\ process' = "roles"
    /\ memory' = Defaults /\ backend' = NoRow /\ unsettled' = {}
    /\ UNCHANGED <<dataVars, toLoad, admin, changes, kills>>

\* maybe_bootstrap_admin: ensure_default_roles, then the first account.
EnsureDefaultRoles ==
    /\ process = "roles"
    /\ roles' = roles \cup RoleNames
    /\ process' = "admin"
    /\ UNCHANGED <<accounts, rows, mixed, serverVars, admin, changes, kills>>

MaybeBootstrapAdmin ==
    /\ process = "admin"
    /\ accounts' = TRUE
    /\ process' = "settings" /\ toLoad' = SetToSeq(SettingKeys)
    /\ UNCHANGED <<roles, rows, mixed, memory, backend, unsettled, admin, changes, kills>>

RowUnlessMissing(k) == rows[k]
RowFor(k) == IF rows[k] = NoRow THEN Defaults[k] ELSE rows[k]

\* load_from_db, one key: a missing row is inserted, a row goes into memory.
LoadKey ==
    /\ process = "settings" /\ toLoad # << >>
    /\ LET k == Head(toLoad)
       IN  /\ rows' = [rows EXCEPT ![k] = RowFor(k)]
           /\ memory' = IF rows[k] = NoRow THEN memory
                        ELSE [memory EXCEPT ![k] = rows[k]]
    /\ toLoad' = Tail(toLoad)
    /\ UNCHANGED <<process, roles, accounts, mixed, backend, unsettled, admin, changes, kills>>

Ready ==
    /\ process = "settings" /\ toLoad = << >>
    /\ process' = "serving"
    /\ UNCHANGED <<dataVars, serverVars, admin, changes, kills>>

\* The process ends, at any moment; its requests end with it.
Kill ==
    /\ process # "down" /\ kills < MaxKills
    /\ process' = "down" /\ kills' = kills + 1
    /\ admin' = [a \in Admins |-> IdleAdmin]
    /\ toLoad' = << >>
    /\ UNCHANGED <<dataVars, memory, backend, unsettled, changes>>

\* Revisions run backwards while the server is down take data along: the
\* viewer role, the roles and users, or the settings.
Downgrade ==
    /\ process = "down"
    /\ \/ roles' = roles \ {"viewer"} /\ UNCHANGED <<accounts, rows>>
       \/ roles' = {} /\ accounts' = FALSE /\ UNCHANGED rows
       \/ rows' = [k \in SettingKeys |-> NoRow] /\ UNCHANGED <<roles, accounts>>
    /\ UNCHANGED <<process, mixed, serverVars, admin, changes, kills>>

-----------------------------------------------------------------------------
(* The plan of _build_llm_plan.  discovered: the models the provider named. *)

\* _pick_best_model; ToSet(models) is not empty.
Candidates(models) ==
    IF ToSet(models) \subseteq Embedding THEN ToSet(models)
    ELSE ToSet(models) \ Embedding

PickBestModel(models, tier) ==
    CHOOSE m \in Candidates(models) :
        \A n \in Candidates(models) : Score[tier][m] >= Score[tier][n]

\* A preferred model is a sequence of at most one.
ModelFor(provider, models, tier, preferred) ==
    IF models = << >> THEN DefaultModel[provider][tier]
    ELSE IF ToSet(preferred) \cap ToSet(models) # {} THEN preferred[1]
    ELSE PickBestModel(models, tier)

ModelUpdates(provider, primary, simple) ==
    << <<PlanKeys[2], primary>>, <<PlanKeys[3], simple>> >>

ConfigUpdates(provider, primary, simple) ==
    << <<PlanKeys[1], provider>>, <<PlanKeys[2], primary>>, <<PlanKeys[3], simple>> >>

BuildLlmPlan(provider, models, preferred, strategy) ==
    LET primary == ModelFor(provider, models, "primary", preferred)
        simple == ModelFor(provider, models, "simple", << >>)
        unified == IF preferred # << >> THEN preferred[1]
                   ELSE IF models # << >> THEN models[1] ELSE primary
    IN  IF strategy = "uniform" THEN ConfigUpdates(provider, unified, unified)
        ELSE ConfigUpdates(provider, primary, simple)

-----------------------------------------------------------------------------
(* Requests that change settings.                                          *)

SetAdmin(a, r) == admin' = [admin EXCEPT ![a] = r]

KeyOf(a) == admin[a].updates[1][1]
ValueOf(a) == admin[a].updates[1][2]

Changing(k) == {b \in Admins : admin[b].pc \in {"write", "finish"} /\ KeyOf(b) = k}

\* A plan overlaps with other plans, and with the put of one of its settings.
Plans == {b \in Admins : admin[b].kind = "plan" /\ admin[b].pc # "idle"}

\* Resolving the base URL and the token reads settings and changes nothing;
\* a provider that cannot be asked has named no models.
StartPlan(a) ==
    /\ process = "serving" /\ admin[a].pc = "idle" /\ changes < MaxChanges
    /\ changes' = changes + 1
    /\ \E p \in Providers, strategy \in {"uniform", "intelligent"} :
       \E models \in {ModelsOf[p], << >>},
          preferred \in {<< >>} \cup {<<m>> : m \in ToSet(ModelsOf[p])} :
            admin' = [b \in Admins |->
                IF b = a
                THEN [pc |-> "apply", kind |-> "plan", alone |-> TRUE,
                      updates |-> BuildLlmPlan(p, models, preferred, strategy),
                      pure |-> Plans = {}
                                  /\ \A k \in ToSet(PlanKeys) : Changing(k) = {}]
                ELSE [admin[b] EXCEPT !.pure = @ /\ admin[b].kind = "put"]]
    /\ mixed' = TRUE
    /\ UNCHANGED <<process, roles, accounts, rows, serverVars, kills>>

\* app_settings.apply, and what that means for the requests in between.
ApplySetting(a, r, k, v) ==
    /\ memory' = [memory EXCEPT ![k] = v]
    /\ unsettled' = unsettled \cup {k}
    /\ admin' = [b \in Admins |->
           IF b = a THEN [r EXCEPT !.pc = "write", !.alone = Changing(k) = {}]
           ELSE [admin[b] EXCEPT !.alone = @ /\ b \notin Changing(k),
                                 !.pure = @ /\ ~(r.kind = "put" /\ k \in ToSet(PlanKeys))]]

\* update_global_config up to its await.  (An unknown key is refused.)
StartPut(a) ==
    /\ process = "serving" /\ admin[a].pc = "idle" /\ changes < MaxChanges
    /\ changes' = changes + 1
    /\ \E k \in PutKeys : \E v \in ValuesOf(k) :
        /\ ApplySetting(a, [IdleAdmin EXCEPT !.updates = << <<k, v>> >>], k, v)
        /\ mixed' = (mixed \/ k \in ToSet(PlanKeys))
    /\ UNCHANGED <<process, roles, accounts, rows, toLoad, backend, kills>>

ApplyPlanned(a) ==
    /\ admin[a].pc = "apply"
    /\ ApplySetting(a, admin[a], KeyOf(a), ValueOf(a))
    /\ UNCHANGED <<process, dataVars, toLoad, backend, changes, kills>>

Settles(a) == unsettled' = IF admin[a].alone THEN unsettled \ {KeyOf(a)} ELSE unsettled

\* set_global_config.  When another request writes the same row after this one
\* has loaded it, the session may find nothing to write.
SetGlobalConfig(a) ==
    \/ rows' = [rows EXCEPT ![KeyOf(a)] = ValueOf(a)]
    \/ ~admin[a].alone /\ UNCHANGED rows

\* For a put, in a thread of the pool.
WritePut(a) ==
    /\ admin[a].pc = "write" /\ admin[a].kind = "put"
    /\ SetGlobalConfig(a)
    /\ SetAdmin(a, [admin[a] EXCEPT !.pc = "finish"])
    /\ UNCHANGED <<process, roles, accounts, mixed, serverVars, changes, kills>>

FinishUnreset(a) ==
    /\ admin[a].pc = "finish"
    /\ backend' = backend
    /\ Settles(a)
    /\ SetAdmin(a, IdleAdmin)
    /\ UNCHANGED <<process, dataVars, memory, toLoad, changes, kills>>

\* The coroutine goes on: reset_runtime_cache reads what is in memory now.
\* (PROMPTMAN_PLUGINS_SIGNED_ONLY starts a rescan here: module PluginEngine.)
FinishPut(a) ==
    /\ admin[a].pc = "finish"
    /\ backend' = IF KeyOf(a) = CacheKey THEN memory[CacheKey] ELSE backend
    /\ Settles(a)
    /\ SetAdmin(a, IdleAdmin)
    /\ UNCHANGED <<process, dataVars, memory, toLoad, changes, kills>>

\* For a key of a plan, in the thread of the request.
WritePlanned(a) ==
    /\ admin[a].pc = "write" /\ admin[a].kind = "plan"
    /\ SetGlobalConfig(a)
    /\ Settles(a)
    /\ IF Len(admin[a].updates) = 1
       THEN SetAdmin(a, IdleAdmin) /\ mixed' = ~admin[a].pure
       ELSE /\ SetAdmin(a, [admin[a] EXCEPT !.pc = "apply", !.updates = Tail(@)])
            /\ UNCHANGED mixed
    /\ UNCHANGED <<process, roles, accounts, memory, toLoad, backend, changes, kills>>

\* The database refuses: the request ends, memory is as it is.
WriteRaises(a) ==
    /\ admin[a].pc = "write"
    /\ SetAdmin(a, IdleAdmin)
    /\ UNCHANGED <<process, dataVars, serverVars, changes, kills>>

\* get_runtime_cache, first use.
FirstCacheUse ==
    /\ process = "serving" /\ backend = NoRow
    /\ backend' = memory[CacheKey]
    /\ UNCHANGED <<process, dataVars, memory, toLoad, unsettled, admin, changes, kills>>

AdminStep(a) ==
    \/ StartPlan(a) \/ StartPut(a) \/ ApplyPlanned(a) \/ WritePut(a)
    \/ FinishPut(a) \/ WritePlanned(a) \/ WriteRaises(a)

SettingsNext ==
    \/ StartProcess \/ EnsureDefaultRoles \/ MaybeBootstrapAdmin \/ LoadKey \/ Ready
    \/ Kill \/ Downgrade \/ FirstCacheUse
    \/ \E a \in Admins : AdminStep(a)

SettingsSpec == SettingsInit /\ [][SettingsNext]_settingsVars

-----------------------------------------------------------------------------
(* Properties.                                                             *)

\* A server that takes requests has every role, an account to log in with and a
\* row for every setting, wherever earlier starts were cut short and whatever
\* downgrades took away.
StartupDataIsComplete ==
    process = "serving" =>
        roles = RoleNames /\ accounts /\ \A k \in SettingKeys : rows[k] # NoRow

\* A setting is the same in memory, in the database and in the runtime cache
\* built from it, except while it is being changed and after changes of it that
\* overlapped or that the database refused.  A restart makes them the same.
SettledSettingsAgree ==
    process = "serving" =>
        /\ \A k \in SettingKeys \ unsettled : memory[k] = rows[k]
        /\ CacheKey \notin unsettled => backend \in {NoRow, memory[CacheKey]}

\* The optimizer's model is one of its provider's, across restarts, unless plans
\* overlapped, one did not get to its end, or a setting of it was put on its own.
PlansAreWhole ==
    process = "serving" /\ ~mixed =>
        LET p == memory["OPTIMIZER_PROVIDER"]
        IN  \A i \in 2..3 : memory[PlanKeys[i]] \in
                ToSet(ModelsOf[p]) \cup {DefaultModel[p][t] : t \in Tiers}
=============================================================================
