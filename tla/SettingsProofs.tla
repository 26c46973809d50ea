--------------------------- MODULE SettingsProofs ---------------------------
(***************************************************************************)
(* The invariants of Settings, for every number of requests, providers and *)
(* models, and for any number of ends of the server process.               *)
(***************************************************************************)
EXTENDS Settings, FiniteSetTheorems, WellFoundedInduction, TLAPS

-----------------------------------------------------------------------------
(* Sequences of keys and of models.                                        *)

LEMMA SequenceIsFinite ==
    ASSUME NEW T, NEW s \in Seq(T)
    PROVE  IsFiniteSet(ToSet(s))
<1>1. Len(s) \in Nat /\ s \in [1..Len(s) -> ToSet(s)] /\ DOMAIN s = 1..Len(s)
  BY DEF ToSet
<1>2. s \in Surjection(1..Len(s), ToSet(s))
  BY <1>1 DEF Surjection, ToSet
<1>3. IsFiniteSet(1..Len(s))
  BY <1>1, FS_Interval
<1>. QED BY <1>2, <1>3, FS_Surjection

\* The order of load_from_db takes in every setting.
LEMMA EveryKeyIsInTurn ==
    ASSUME NEW S, IsFiniteSet(S)
    PROVE  SetToSeq(S) \in Seq(S) /\ ToSet(SetToSeq(S)) = S
<1>. DEFINE n == Cardinality(S)
            T == 1..n
<1>1. n \in Nat /\ ExistsBijection(T, S)
  BY FS_CardinalityType
<1>2. IsFiniteSet(T) /\ Cardinality(T) = n
  BY <1>1, FS_Interval
<1>3. \E f \in [T -> S] : IsInjective(f)
  BY <1>1 DEF ExistsBijection, Bijection, Injection, IsInjective
<1>4. SetToSeq(S) \in [T -> S] /\ IsInjective(SetToSeq(S))
  BY <1>3 DEF SetToSeq
<1>. DEFINE f == SetToSeq(S)
<1>5. f \in Injection(T, S)
  BY <1>4 DEF Injection, IsInjective
<1>6. f \in Surjection(T, S)
  BY <1>2, <1>5, FS_Injection
<1>7. f \in Seq(S) /\ DOMAIN f = T
  BY <1>1, <1>4
<1>. QED BY <1>6, <1>7 DEF ToSet, Surjection

LEMMA TheKeys ==
    /\ ToSet(PlanKeys) = {PlanKeys[1], PlanKeys[2], PlanKeys[3]}
    /\ PlanKeys[1] = "OPTIMIZER_PROVIDER"
    /\ PlanKeys[2] = "OPTIMIZER_MODEL"
    /\ PlanKeys[3] = "PROMPT_COMPRESSION_MODEL"
    /\ CacheKey \notin ToSet(PlanKeys)
<1>1. /\ PlanKeys[1] = "OPTIMIZER_PROVIDER"
      /\ PlanKeys[2] = "OPTIMIZER_MODEL"
      /\ PlanKeys[3] = "PROMPT_COMPRESSION_MODEL"
  BY DEF PlanKeys
<1>2. DOMAIN PlanKeys = 1..3
  BY DEF PlanKeys
<1>3. ToSet(PlanKeys) = {PlanKeys[1], PlanKeys[2], PlanKeys[3]}
  BY <1>2 DEF ToSet
<1>. QED BY <1>1, <1>3 DEF CacheKey

LEMMA KeysAreFinite == IsFiniteSet(SettingKeys)
<1>1. SettingKeys = {PlanKeys[1]} \cup {PlanKeys[2]} \cup {PlanKeys[3]} \cup {CacheKey}
  BY TheKeys DEF SettingKeys
<1>2. \A k : IsFiniteSet({k})
  BY FS_Singleton
<1>3. IsFiniteSet({PlanKeys[1]} \cup {PlanKeys[2]})
  BY <1>2, FS_Union
<1>4. IsFiniteSet({PlanKeys[1]} \cup {PlanKeys[2]} \cup {PlanKeys[3]})
  BY <1>2, <1>3, FS_Union
<1>5. IsFiniteSet({PlanKeys[1]} \cup {PlanKeys[2]} \cup {PlanKeys[3]} \cup {CacheKey})
  BY <1>2, <1>4, FS_Union
<1>. QED BY <1>1, <1>5

\* A key that is read leaves the others in turn.
LEMMA NextKey ==
    ASSUME NEW T, NEW s \in Seq(T), s # << >>
    PROVE  /\ Head(s) \in T /\ Tail(s) \in Seq(T)
           /\ ToSet(s) = {Head(s)} \cup ToSet(Tail(s))
<1>1. Head(s) \in T /\ Tail(s) \in Seq(T)
  OBVIOUS
<1>2. \A i \in 1..Len(Tail(s)) : Tail(s)[i] = s[i + 1]
  OBVIOUS
<1>3. Len(Tail(s)) = Len(s) - 1 /\ Len(s) \in Nat /\ Len(s) >= 1
  OBVIOUS
<1>4. DOMAIN s = 1..Len(s) /\ DOMAIN Tail(s) = 1..Len(Tail(s))
  BY <1>1
<1>5. \A i \in DOMAIN s : i = 1 \/ (i - 1 \in DOMAIN Tail(s) /\ s[i] = Tail(s)[i - 1])
  BY <1>2, <1>3, <1>4
<1>6. \A i \in DOMAIN Tail(s) : i + 1 \in DOMAIN s /\ Tail(s)[i] = s[i + 1]
  BY <1>2, <1>3, <1>4
<1>7. 1 \in DOMAIN s /\ s[1] = Head(s)
  BY <1>3, <1>4
<1>. QED BY <1>5, <1>6, <1>7 DEF ToSet

\* Of finitely many models one scores best, so that the CHOOSE of PickBestModel
\* has one to choose.
LEMMA SomeModelIsBest ==
    ASSUME NEW S, IsFiniteSet(S), S # {}, NEW score, \A m \in S : score[m] \in Int
    PROVE  \E m \in S : \A n \in S : score[m] >= score[n]
<1>. DEFINE Above(m) == {n \in S : score[n] > score[m]}
            T == {Above(m) : m \in S}
<1>1. T \subseteq FiniteSubsetsOf(S) /\ T # {}
  <2>1. \A m \in S : Above(m) \in SUBSET S
    OBVIOUS
  <2>2. T \subseteq SUBSET S
    BY <2>1
  <2>3. T # {}
    OBVIOUS
  <2>4. FiniteSubsetsOf(S) = SUBSET S
    BY FS_FiniteSubsetsOfFinite
  <2>. QED BY <2>2, <2>3, <2>4
<1>2. PICK U \in T : \A V \in T : ~ (<<V, U>> \in StrictSubsetOrdering(S))
  BY <1>1, FS_StrictSubsetOrderingWellFounded, WFMin
<1>3. PICK m \in S : U = Above(m)
  BY <1>2
<1>4. SUFFICES ASSUME NEW n \in S, ~(score[m] >= score[n]) PROVE FALSE
  BY <1>3
<1>5. score[n] > score[m] /\ score[n] \in Int /\ score[m] \in Int
  BY <1>4
<1>6. n \in Above(m) /\ n \notin Above(n) /\ Above(n) \subseteq Above(m)
  BY <1>5
<1>7. <<Above(n), Above(m)>> \in StrictSubsetOrdering(S)
  BY <1>6 DEF StrictSubsetOrdering
<1>. QED BY <1>2, <1>3, <1>7
-----------------------------------------------------------------------------
(* Plans.                                                                  *)

\* What the server may give the optimizer of a provider to use.
OwnModels(p) == ToSet(ModelsOf[p]) \cup {DefaultModel[p][t] : t \in Tiers}

LEMMA OwnModelsAreModels ==
    ASSUME NEW p \in Providers
    PROVE  OwnModels(p) \subseteq Models
BY DEF OwnModels, Models

LEMMA PickedFromTheModels ==
    ASSUME NEW p \in Providers, ModelsOf[p] # << >>, NEW tier \in Tiers
    PROVE  PickBestModel(ModelsOf[p], tier) \in ToSet(ModelsOf[p])
<1>. DEFINE s == ModelsOf[p]
            C == Candidates(s)
            score == Score[tier]
<1>1. s \in Seq(ToSet(s))
  BY SettingsAssumption
<1>2. IsFiniteSet(ToSet(s))
  BY <1>1, SequenceIsFinite
<1>3. C \subseteq ToSet(s)
  BY DEF Candidates
<1>4. ToSet(s) # {}
  <2>1. 1 \in DOMAIN s
    BY <1>1
  <2>. QED BY <2>1 DEF ToSet
<1>5. C # {}
  BY <1>4 DEF Candidates
<1>6. IsFiniteSet(C)
  BY <1>2, <1>3, FS_Subset
<1>7. \A m \in C : score[m] \in Int
  BY <1>3, SettingsAssumption DEF Models
<1>8. \E m \in C : \A n \in C : score[m] >= score[n]
  BY <1>5, <1>6, <1>7, SomeModelIsBest
<1>9. PickBestModel(s, tier) \in C
  BY <1>8 DEF PickBestModel
<1>. QED BY <1>3, <1>9

LEMMA ModelIsOwn ==
    ASSUME NEW p \in Providers, NEW models \in {ModelsOf[p], << >>}, NEW tier \in Tiers,
           NEW preferred \in {<< >>} \cup {<<m>> : m \in ToSet(ModelsOf[p])}
    PROVE  ModelFor(p, models, tier, preferred) \in OwnModels(p)
<1>1. CASE models = << >>
  BY <1>1 DEF ModelFor, OwnModels
<1>2. CASE models # << >> /\ ToSet(preferred) \cap ToSet(models) # {}
  <2>1. preferred # << >>
    <3>1. ToSet(<< >>) = {}
      BY DEF ToSet
    <3>. QED BY <1>2, <3>1
  <2>2. PICK m \in ToSet(ModelsOf[p]) : preferred = <<m>>
    BY <2>1
  <2>3. ModelFor(p, models, tier, preferred) = m
    BY <1>2, <2>2 DEF ModelFor
  <2>. QED BY <2>3 DEF OwnModels
<1>3. CASE models # << >> /\ ToSet(preferred) \cap ToSet(models) = {}
  <2>1. ModelFor(p, models, tier, preferred) = PickBestModel(models, tier)
    BY <1>3 DEF ModelFor
  <2>. QED BY <1>3, <2>1, PickedFromTheModels DEF OwnModels
<1>. QED BY <1>1, <1>2, <1>3

IsWholePlan(updates, p) ==
    \E m2, m3 \in OwnModels(p) : updates = ConfigUpdates(p, m2, m3)

\* A plan names a provider and models of its own.
LEMMA PlansAreBuiltWhole ==
    ASSUME NEW p \in Providers, NEW models \in {ModelsOf[p], << >>},
           NEW preferred \in {<< >>} \cup {<<m>> : m \in ToSet(ModelsOf[p])},
           NEW strategy
    PROVE  IsWholePlan(BuildLlmPlan(p, models, preferred, strategy), p)
<1>. DEFINE primary == ModelFor(p, models, "primary", preferred)
            simple == ModelFor(p, models, "simple", << >>)
            unified == IF preferred # << >> THEN preferred[1]
                       ELSE IF models # << >> THEN models[1] ELSE primary
<1>1. primary \in OwnModels(p) /\ simple \in OwnModels(p)
  BY ModelIsOwn DEF Tiers
<1>2. unified \in OwnModels(p)
  <2>1. CASE preferred # << >>
    BY <2>1 DEF OwnModels
  <2>2. CASE preferred = << >> /\ models # << >>
    <3>1. ModelsOf[p] \in Seq(ToSet(ModelsOf[p]))
      BY SettingsAssumption
    <3>2. models[1] \in ToSet(ModelsOf[p])
      BY <2>2, <3>1
    <3>. QED BY <2>2, <3>2 DEF OwnModels
  <2>3. CASE preferred = << >> /\ models = << >>
    BY <1>1, <2>3
  <2>. QED BY <2>1, <2>2, <2>3
<1>. QED BY <1>1, <1>2 DEF BuildLlmPlan, IsWholePlan

-----------------------------------------------------------------------------
(* Requests.                                                               *)

\* What is left of a plan: everything, its models, or the last one.
LeftOf(updates, p, m2, m3) ==
    \/ updates = ConfigUpdates(p, m2, m3)
    \/ updates = ModelUpdates(p, m2, m3)
    \/ updates = << <<PlanKeys[3], m3>> >>

IsPlan(updates) ==
    \E p \in Providers : \E m2, m3 \in OwnModels(p) : LeftOf(updates, p, m2, m3)

IsPut(updates) ==
    \E k \in SettingKeys : \E v \in ValuesOf(k) : updates = << <<k, v>> >>

Sound(r) ==
    /\ r \in AdminRequest
    /\ r.kind = "put" => r.pc # "apply"
    /\ r.kind = "plan" => r.pc # "finish"
    /\ r.kind = "put" /\ r.pc # "idle" => IsPut(r.updates)
    /\ r.kind = "plan" /\ r.pc # "idle" => IsPlan(r.updates)

LEMMA Values ==
    /\ ValuesOf(PlanKeys[1]) = Providers
    /\ ValuesOf(PlanKeys[2]) = Models /\ ValuesOf(PlanKeys[3]) = Models
    /\ ValuesOf(CacheKey) = CacheValues
    /\ \A k \in SettingKeys : ValuesOf(k) \subseteq AllValues
    /\ \A k \in SettingKeys : NoRow \notin ValuesOf(k)
<1>1. \A k \in SettingKeys : ValuesOf(k) \subseteq AllValues
  BY DEF AllValues
<1>2. /\ ValuesOf(PlanKeys[1]) = Providers
      /\ ValuesOf(PlanKeys[2]) = Models /\ ValuesOf(PlanKeys[3]) = Models
  BY TheKeys DEF ValuesOf, CacheKey
<1>3. ValuesOf(CacheKey) = CacheValues
  BY DEF ValuesOf, CacheKey
<1>. QED BY <1>1, <1>2, <1>3, SettingsAssumption

LEMMA PlanKeysAreSettings == ToSet(PlanKeys) \subseteq SettingKeys /\ CacheKey \in SettingKeys
BY DEF SettingKeys

\* The key and the value of the update that is next.
LEMMA NextOfPlan ==
    ASSUME NEW u, IsPlan(u)
    PROVE  /\ u # << >> /\ u[1][1] \in ToSet(PlanKeys) /\ u[1][2] \in ValuesOf(u[1][1])
           /\ Len(u) # 1 => IsPlan(Tail(u))
           /\ u \in Seq(SettingKeys \X AllValues)
<1>1. PICK p \in Providers : \E m2, m3 \in OwnModels(p) : LeftOf(u, p, m2, m3)
  BY DEF IsPlan
<1>2. PICK m2 \in OwnModels(p), m3 \in OwnModels(p) : LeftOf(u, p, m2, m3)
  BY <1>1
<1>3. m2 \in Models /\ m3 \in Models
  BY OwnModelsAreModels
<1>4. \A i \in 1..3 : PlanKeys[i] \in SettingKeys
  BY TheKeys, PlanKeysAreSettings
<1>. DEFINE A == <<PlanKeys[1], p>>
            B == <<PlanKeys[2], m2>>
            C == <<PlanKeys[3], m3>>
<1>5. /\ A \in SettingKeys \X AllValues /\ B \in SettingKeys \X AllValues
      /\ C \in SettingKeys \X AllValues
  BY <1>3, <1>4, Values
<1>6. /\ A[1] \in ToSet(PlanKeys) /\ A[2] \in ValuesOf(A[1])
      /\ B[1] \in ToSet(PlanKeys) /\ B[2] \in ValuesOf(B[1])
      /\ C[1] \in ToSet(PlanKeys) /\ C[2] \in ValuesOf(C[1])
  BY <1>3, Values, TheKeys
<1>7. ConfigUpdates(p, m2, m3) = <<A, B, C>> /\ ModelUpdates(p, m2, m3) = <<B, C>>
  BY DEF ConfigUpdates, ModelUpdates
<1>. HIDE DEF A, B, C
<1>8. u \in {<<A, B, C>>, <<B, C>>, <<C>>}
  BY <1>2, <1>7 DEF LeftOf, C
<1>9. Tail(<<A, B, C>>) = <<B, C>> /\ Tail(<<B, C>>) = <<C>> /\ Len(<<C>>) = 1
  OBVIOUS
<1>10. Len(u) # 1 => LeftOf(Tail(u), p, m2, m3)
  BY <1>7, <1>8, <1>9 DEF LeftOf, C
<1>11. u[1] \in {A, B, C} /\ u # << >>
  BY <1>8
<1>12. u \in Seq(SettingKeys \X AllValues)
  <2>. DEFINE U == SettingKeys \X AllValues
  <2>. HIDE DEF U
  <2>1. A \in U /\ B \in U /\ C \in U
    BY <1>5 DEF U
  <2>2. <<A, B, C>> \in Seq(U) /\ <<B, C>> \in Seq(U) /\ <<C>> \in Seq(U)
    BY <2>1
  <2>. QED BY <1>8, <2>2 DEF U
<1>. QED BY <1>6, <1>10, <1>11, <1>12 DEF IsPlan

LEMMA NextOfPut ==
    ASSUME NEW u, IsPut(u)
    PROVE  /\ u # << >> /\ Len(u) = 1 /\ u[1][1] \in SettingKeys
           /\ u[1][2] \in ValuesOf(u[1][1]) /\ u \in Seq(SettingKeys \X AllValues)
BY Values DEF IsPut

LEMMA BusyRequest ==
    ASSUME NEW r, Sound(r), r.pc # "idle"
    PROVE  /\ r.updates # << >> /\ r.updates[1][1] \in SettingKeys
           /\ r.updates[1][2] \in ValuesOf(r.updates[1][1])
           /\ r.kind = "plan" => r.updates[1][1] \in ToSet(PlanKeys)
<1>1. CASE r.kind = "put"
  BY <1>1, NextOfPut DEF Sound
<1>2. CASE r.kind = "plan"
  BY <1>2, NextOfPlan, PlanKeysAreSettings DEF Sound
<1>. QED BY <1>1, <1>2 DEF Sound, AdminRequest

LEMMA IdleIsSound == Sound(IdleAdmin)
<1>1. << >> \in Seq(SettingKeys \X AllValues)
  OBVIOUS
<1>. QED BY <1>1 DEF Sound, IdleAdmin, AdminRequest

-----------------------------------------------------------------------------
(* The start.                                                              *)

Tables ==
    /\ roles \subseteq RoleNames /\ accounts \in BOOLEAN /\ mixed \in BOOLEAN
    /\ rows \in [SettingKeys -> AllValues \cup {NoRow}]
    /\ memory \in [SettingKeys -> AllValues]
    /\ \A k \in SettingKeys : rows[k] \in ValuesOf(k) \cup {NoRow}
    /\ \A k \in SettingKeys : memory[k] \in ValuesOf(k)
    /\ toLoad \in Seq(SettingKeys)
    /\ backend \in CacheValues \cup {NoRow}
    /\ unsettled \subseteq SettingKeys

Requests ==
    /\ admin \in [Admins -> AdminRequest]
    /\ \A a \in Admins : Sound(admin[a])

\* What is there already at each point of a start; nobody is served before its
\* end.
Begun ==
    /\ process \in {"down", "roles", "admin", "settings", "serving"}
    /\ process \in {"admin", "settings", "serving"} => roles = RoleNames
    /\ process \in {"settings", "serving"} => accounts
    /\ process = "settings" =>
          \A k \in SettingKeys : rows[k] # NoRow \/ k \in ToSet(toLoad)
    /\ process = "serving" => \A k \in SettingKeys : rows[k] # NoRow
    /\ process # "serving" => \A a \in Admins : admin[a].pc = "idle"

StartInv == Tables /\ Requests /\ Begun

LEMMA DefaultsAreValues ==
    /\ Defaults \in [SettingKeys -> AllValues]
    /\ \A k \in SettingKeys : Defaults[k] \in ValuesOf(k)
<1>. DEFINE p == CHOOSE q \in Providers : TRUE
            c == CHOOSE v \in CacheValues : TRUE
            D == [k \in SettingKeys |->
                    CASE k = "OPTIMIZER_PROVIDER" -> p
                      [] k = CacheKey -> c
                      [] OTHER -> DefaultModel[p]["simple"]]
<1>1. p \in Providers /\ c \in CacheValues
  BY SettingsAssumption
<1>2. Defaults = D
  BY DEF Defaults
<1>3. DefaultModel[p]["simple"] \in Models
  BY <1>1, OwnModelsAreModels DEF OwnModels, Tiers
<1>. HIDE DEF p, c
<1>4. \A k \in SettingKeys : D[k] \in ValuesOf(k)
  BY <1>1, <1>3 DEF ValuesOf, CacheKey
<1>5. \A k \in SettingKeys : D[k] \in AllValues
  BY <1>4, Values
<1>6. D \in [SettingKeys -> AllValues]
  BY <1>5
<1>. QED BY <1>2, <1>4, <1>6

LEMMA StartBegins == SettingsInit => StartInv
<1>. SUFFICES ASSUME SettingsInit PROVE StartInv
  OBVIOUS
<1>1. Tables
  <2>1. rows \in [SettingKeys -> AllValues \cup {NoRow}] /\ memory \in [SettingKeys -> AllValues]
    BY DefaultsAreValues DEF SettingsInit
  <2>2. \A k \in SettingKeys : rows[k] = NoRow /\ memory[k] \in ValuesOf(k)
    BY DefaultsAreValues DEF SettingsInit
  <2>3. toLoad \in Seq(SettingKeys)
    BY DEF SettingsInit
  <2>. QED BY <2>1, <2>2, <2>3 DEF SettingsInit, Tables
<1>2. Requests
  BY IdleIsSound DEF SettingsInit, Requests, Sound
<1>3. Begun
  BY DEF SettingsInit, Begun, IdleAdmin
<1>. QED BY <1>1, <1>2, <1>3 DEF StartInv

LEMMA NoRequestMoves ==
    ASSUME Requests, UNCHANGED admin
    PROVE  Requests'
BY DEF Requests

LEMMA OneRequestMoves ==
    ASSUME Requests, NEW a \in Admins, NEW r, Sound(r), SetAdmin(a, r)
    PROVE  Requests'
BY DEF Requests, SetAdmin, Sound

\* What a request does is done by a server that serves.
LEMMA OnlyServed ==
    ASSUME StartInv, NEW a \in Admins, admin[a].pc # "idle"
    PROVE  process = "serving"
BY DEF StartInv, Begun

LEMMA StartProcessStarts ==
    ASSUME StartInv, StartProcess PROVE StartInv'
<1>1. Tables'
  BY DefaultsAreValues DEF StartInv, Tables, StartProcess, dataVars
<1>2. Requests'
  BY NoRequestMoves DEF StartInv, StartProcess
<1>3. Begun'
  BY DEF StartInv, Begun, StartProcess
<1>. QED BY <1>1, <1>2, <1>3 DEF StartInv

LEMMA EnsureDefaultRolesStarts ==
    ASSUME StartInv, EnsureDefaultRoles PROVE StartInv'
<1>1. Tables'
  BY DEF StartInv, Tables, EnsureDefaultRoles, serverVars
<1>2. Requests'
  BY NoRequestMoves DEF StartInv, EnsureDefaultRoles
<1>3. Begun'
  BY DEF StartInv, Tables, Begun, EnsureDefaultRoles
<1>. QED BY <1>1, <1>2, <1>3 DEF StartInv

LEMMA MaybeBootstrapAdminStarts ==
    ASSUME StartInv, MaybeBootstrapAdmin PROVE StartInv'
<1>0. toLoad' \in Seq(SettingKeys) /\ ToSet(toLoad') = SettingKeys
  BY KeysAreFinite, EveryKeyIsInTurn DEF MaybeBootstrapAdmin
<1>1. Tables'
  BY <1>0 DEF StartInv, Tables, MaybeBootstrapAdmin
<1>2. Requests'
  BY NoRequestMoves DEF StartInv, MaybeBootstrapAdmin
<1>3. Begun'
  BY <1>0 DEF StartInv, Begun, MaybeBootstrapAdmin
<1>. QED BY <1>1, <1>2, <1>3 DEF StartInv

\* What reading one key does.
LEMMA OneKeyIsLoaded ==
    ASSUME StartInv, LoadKey
    PROVE  \E k \in SettingKeys :
              /\ k = Head(toLoad) /\ toLoad' \in Seq(SettingKeys)
              /\ ToSet(toLoad) = {k} \cup ToSet(toLoad')
              /\ rows' = [rows EXCEPT ![k] = RowFor(k)]
              /\ RowFor(k) \in ValuesOf(k)
              /\ memory' = IF rows[k] = NoRow THEN memory
                           ELSE [memory EXCEPT ![k] = rows[k]]
<1>. DEFINE k == Head(toLoad)
<1>1. toLoad \in Seq(SettingKeys) /\ toLoad # << >> /\ toLoad' = Tail(toLoad)
  BY DEF StartInv, Tables, LoadKey
<1>2. /\ k \in SettingKeys /\ toLoad' \in Seq(SettingKeys)
      /\ ToSet(toLoad) = {k} \cup ToSet(toLoad')
  BY <1>1, NextKey
<1>3. RowFor(k) \in ValuesOf(k)
  BY <1>2, DefaultsAreValues DEF StartInv, Tables, RowFor
<1>. QED BY <1>2, <1>3 DEF LoadKey

LEMMA LoadKeyStarts ==
    ASSUME StartInv, LoadKey PROVE StartInv'
<1>. PICK k \in SettingKeys :
              /\ k = Head(toLoad) /\ toLoad' \in Seq(SettingKeys)
              /\ ToSet(toLoad) = {k} \cup ToSet(toLoad')
              /\ rows' = [rows EXCEPT ![k] = RowFor(k)]
              /\ RowFor(k) \in ValuesOf(k)
              /\ memory' = IF rows[k] = NoRow THEN memory
                           ELSE [memory EXCEPT ![k] = rows[k]]
  BY OneKeyIsLoaded
<1>0. RowFor(k) \in AllValues /\ RowFor(k) # NoRow
  BY Values
<1>1. Tables'
  <2>1. /\ rows' \in [SettingKeys -> AllValues \cup {NoRow}]
        /\ \A j \in SettingKeys : rows'[j] \in ValuesOf(j) \cup {NoRow}
    BY <1>0 DEF StartInv, Tables
  <2>2. CASE rows[k] = NoRow
    BY <2>1, <2>2 DEF StartInv, Tables, LoadKey
  <2>3. CASE rows[k] # NoRow
    <3>1. rows[k] \in ValuesOf(k) /\ rows[k] \in AllValues
      BY <2>3 DEF StartInv, Tables
    <3>. QED BY <2>1, <2>3, <3>1 DEF StartInv, Tables, LoadKey
  <2>. QED BY <2>2, <2>3
<1>2. Requests'
  BY NoRequestMoves DEF StartInv, LoadKey
<1>3. Begun'
  <2>1. \A j \in SettingKeys : rows'[j] # NoRow \/ j \in ToSet(toLoad')
    BY <1>0 DEF StartInv, Tables, Begun, LoadKey
  <2>. QED BY <2>1 DEF StartInv, Begun, LoadKey
<1>. QED BY <1>1, <1>2, <1>3 DEF StartInv

LEMMA NothingLeftToLoad == ToSet(<< >>) = {}
BY DEF ToSet

LEMMA ReadyStarts ==
    ASSUME StartInv, Ready PROVE StartInv'
<1>1. Tables'
  BY DEF StartInv, Tables, Ready, dataVars, serverVars
<1>2. Requests'
  BY NoRequestMoves DEF StartInv, Ready
<1>3. Begun'
  BY NothingLeftToLoad DEF StartInv, Begun, Ready, dataVars, serverVars
<1>. QED BY <1>1, <1>2, <1>3 DEF StartInv

LEMMA KillStarts ==
    ASSUME StartInv, Kill PROVE StartInv'
<1>1. Tables'
  BY DEF StartInv, Tables, Kill, dataVars
<1>2. Requests'
  BY IdleIsSound DEF StartInv, Requests, Kill, Sound
<1>3. Begun'
  BY DEF StartInv, Begun, Kill, IdleAdmin
<1>. QED BY <1>1, <1>2, <1>3 DEF StartInv

LEMMA DowngradeStarts ==
    ASSUME StartInv, Downgrade PROVE StartInv'
<1>1. Tables'
  BY DEF StartInv, Tables, Downgrade, serverVars
<1>2. Requests'
  BY NoRequestMoves DEF StartInv, Downgrade
<1>3. Begun'
  BY DEF StartInv, Begun, Downgrade
<1>. QED BY <1>1, <1>2, <1>3 DEF StartInv

LEMMA FirstCacheUseStarts ==
    ASSUME StartInv, FirstCacheUse PROVE StartInv'
<1>1. memory[CacheKey] \in CacheValues
  BY Values, PlanKeysAreSettings DEF StartInv, Tables
<1>2. Tables'
  BY <1>1 DEF StartInv, Tables, FirstCacheUse, dataVars
<1>3. Requests'
  BY NoRequestMoves DEF StartInv, FirstCacheUse
<1>4. Begun'
  BY DEF StartInv, Begun, FirstCacheUse, dataVars
<1>. QED BY <1>2, <1>3, <1>4 DEF StartInv

\* What a step of a request leaves alone, and the one row it may write.
Served ==
    /\ process = "serving" /\ UNCHANGED <<process, roles, accounts, toLoad>>
    /\ \/ UNCHANGED rows
       \/ \E k \in SettingKeys : \E v \in ValuesOf(k) : rows' = [rows EXCEPT ![k] = v]

LEMMA ServedKeepsTheStart ==
    ASSUME StartInv, Served
    PROVE  /\ Begun'
           /\ rows' \in [SettingKeys -> AllValues \cup {NoRow}]
           /\ \A k \in SettingKeys : rows'[k] \in ValuesOf(k) \cup {NoRow}
<1>1. CASE UNCHANGED rows
  BY <1>1 DEF StartInv, Tables, Begun, Served
<1>2. CASE \E k \in SettingKeys : \E v \in ValuesOf(k) : rows' = [rows EXCEPT ![k] = v]
  <2>1. PICK k \in SettingKeys : \E v \in ValuesOf(k) : rows' = [rows EXCEPT ![k] = v]
    BY <1>2
  <2>2. PICK v \in ValuesOf(k) : rows' = [rows EXCEPT ![k] = v] /\ v \in AllValues /\ v # NoRow
    BY <2>1, Values
  <2>. QED BY <2>1, <2>2 DEF StartInv, Tables, Begun, Served
<1>. QED BY <1>1, <1>2 DEF Served

\* ApplySetting, for a request r that is sound once it has to write.
LEMMA ApplyingKeepsTypes ==
    ASSUME StartInv, NEW a \in Admins, NEW r, NEW k \in SettingKeys, NEW v \in ValuesOf(k),
           Sound(r) \/ r.pc = "idle", r \in AdminRequest, r.kind = "plan" => IsPlan(r.updates),
           r.kind = "put" => IsPut(r.updates),
           ApplySetting(a, r, k, v)
    PROVE  /\ Requests'
           /\ memory' \in [SettingKeys -> AllValues]
           /\ \A j \in SettingKeys : memory'[j] \in ValuesOf(j)
           /\ unsettled' \subseteq SettingKeys
<1>1. v \in AllValues
  BY Values
<1>2. /\ memory' \in [SettingKeys -> AllValues]
      /\ \A j \in SettingKeys : memory'[j] \in ValuesOf(j)
  BY <1>1 DEF StartInv, Tables, ApplySetting
<1>3. unsettled' \subseteq SettingKeys
  BY DEF StartInv, Tables, ApplySetting
<1>4. \A b \in Admins : admin'[b] \in AdminRequest /\ Sound(admin'[b])
  <2>1. TAKE b \in Admins
  <2>2. CASE b = a
    <3>. DEFINE alone == Changing(k) = {}
    <3>1. alone \in BOOLEAN
      OBVIOUS
    <3>2. admin'[a] = [r EXCEPT !.pc = "write", !.alone = alone]
      BY DEF ApplySetting
    <3>. HIDE DEF alone
    <3>. QED BY <2>2, <3>1, <3>2 DEF Sound, AdminRequest
  <2>3. CASE b # a
    <3>. DEFINE alone == admin[b].alone /\ b \notin Changing(k)
                pure == admin[b].pure /\ ~(r.kind = "put" /\ k \in ToSet(PlanKeys))
    <3>1. alone \in BOOLEAN /\ pure \in BOOLEAN
      OBVIOUS
    <3>2. admin'[b] = [admin[b] EXCEPT !.alone = alone, !.pure = pure]
      BY <2>3 DEF ApplySetting
    <3>3. admin[b] \in AdminRequest /\ Sound(admin[b])
      BY DEF StartInv, Requests
    <3>. HIDE DEF alone, pure
    <3>. QED BY <3>1, <3>2, <3>3 DEF Sound, AdminRequest
  <2>. QED BY <2>2, <2>3
<1>5. admin' = [b \in Admins |-> admin'[b]]
  BY DEF ApplySetting
<1>. QED BY <1>2, <1>3, <1>4, <1>5 DEF Requests

LEMMA StartPlanStarts ==
    ASSUME StartInv, NEW a \in Admins, StartPlan(a) PROVE StartInv'
<1>1. PICK p \in Providers, strategy \in {"uniform", "intelligent"} :
      \E models \in {ModelsOf[p], << >>},
         preferred \in {<< >>} \cup {<<m>> : m \in ToSet(ModelsOf[p])} :
            admin' = [b \in Admins |->
                IF b = a
                THEN [pc |-> "apply", kind |-> "plan", alone |-> TRUE,
                      updates |-> BuildLlmPlan(p, models, preferred, strategy),
                      pure |-> Plans = {}
                                  /\ \A k \in ToSet(PlanKeys) : Changing(k) = {}]
                ELSE [admin[b] EXCEPT !.pure = @ /\ admin[b].kind = "put"]]
  BY DEF StartPlan
<1>. DEFINE pure == Plans = {} /\ \A k \in ToSet(PlanKeys) : Changing(k) = {}
<1>2. PICK models \in {ModelsOf[p], << >>},
         preferred \in {<< >>} \cup {<<m>> : m \in ToSet(ModelsOf[p])} :
            admin' = [b \in Admins |->
                IF b = a
                THEN [pc |-> "apply", kind |-> "plan", alone |-> TRUE,
                      updates |-> BuildLlmPlan(p, models, preferred, strategy),
                      pure |-> pure]
                ELSE [admin[b] EXCEPT !.pure = @ /\ admin[b].kind = "put"]]
  BY <1>1
<1>. DEFINE u == BuildLlmPlan(p, models, preferred, strategy)
<1>3. IsPlan(u)
  BY PlansAreBuiltWhole DEF IsPlan, LeftOf, IsWholePlan
<1>4. u \in Seq(SettingKeys \X AllValues)
  BY <1>3, NextOfPlan
<1>5. pure \in BOOLEAN
  OBVIOUS
<1>. HIDE DEF u, pure
<1>6. \A b \in Admins : Sound(admin'[b])
  <2>1. TAKE b \in Admins
  <2>2. CASE b = a
    BY <1>2, <1>3, <1>4, <1>5, <2>2 DEF Sound, AdminRequest, u
  <2>3. CASE b # a
    <3>. DEFINE still == admin[b].pure /\ admin[b].kind = "put"
    <3>1. still \in BOOLEAN
      OBVIOUS
    <3>2. admin'[b] = [admin[b] EXCEPT !.pure = still]
      BY <1>2, <2>3
    <3>3. Sound(admin[b])
      BY DEF StartInv, Requests
    <3>. HIDE DEF still
    <3>. QED BY <3>1, <3>2, <3>3 DEF Sound, AdminRequest
  <2>. QED BY <2>2, <2>3
<1>7. Requests'
  <2>1. admin' = [b \in Admins |-> admin'[b]]
    BY <1>2
  <2>. QED BY <1>6, <2>1 DEF Requests, Sound
<1>8. Tables' /\ Begun'
  BY DEF StartInv, Tables, Begun, StartPlan, serverVars
<1>. QED BY <1>7, <1>8 DEF StartInv

LEMMA StartPutStarts ==
    ASSUME StartInv, NEW a \in Admins, StartPut(a) PROVE StartInv'
<1>0. PICK k \in PutKeys : \E v \in ValuesOf(k) :
        /\ ApplySetting(a, [IdleAdmin EXCEPT !.updates = << <<k, v>> >>], k, v)
        /\ mixed' = (mixed \/ k \in ToSet(PlanKeys))
  BY DEF StartPut
<1>1. PICK v \in ValuesOf(k) :
        /\ ApplySetting(a, [IdleAdmin EXCEPT !.updates = << <<k, v>> >>], k, v)
        /\ mixed' = (mixed \/ k \in ToSet(PlanKeys))
  BY <1>0
<1>. DEFINE u == << <<k, v>> >>
            r == [IdleAdmin EXCEPT !.updates = u]
<1>2. k \in SettingKeys
  BY SettingsAssumption
<1>3. IsPut(u) /\ u \in Seq(SettingKeys \X AllValues)
  BY <1>2, NextOfPut DEF IsPut
<1>. HIDE DEF u
<1>4. Sound(r) /\ r \in AdminRequest /\ r.kind = "put" /\ r.updates = u
  BY <1>3 DEF Sound, AdminRequest, IdleAdmin
<1>. HIDE DEF r
<1>5. ApplySetting(a, r, k, v)
  BY <1>1 DEF r, u
<1>6. /\ Requests'
      /\ memory' \in [SettingKeys -> AllValues]
      /\ \A j \in SettingKeys : memory'[j] \in ValuesOf(j)
      /\ unsettled' \subseteq SettingKeys
  BY <1>2, <1>3, <1>4, <1>5, ApplyingKeepsTypes
<1>7. mixed' \in BOOLEAN
  BY <1>1
<1>8. Tables' /\ Begun'
  BY <1>6, <1>7 DEF StartInv, Tables, Begun, StartPut
<1>. QED BY <1>6, <1>8 DEF StartInv

LEMMA ApplyPlannedStarts ==
    ASSUME StartInv, NEW a \in Admins, ApplyPlanned(a) PROVE StartInv'
<1>. DEFINE r == admin[a]
<1>1. Sound(r) /\ r.pc = "apply" /\ r.kind = "plan" /\ IsPlan(r.updates) /\ r \in AdminRequest
  BY DEF StartInv, Requests, ApplyPlanned, Sound, AdminRequest
<1>2. KeyOf(a) \in SettingKeys /\ ValueOf(a) \in ValuesOf(KeyOf(a))
  BY <1>1, BusyRequest DEF KeyOf, ValueOf
<1>3. ApplySetting(a, r, KeyOf(a), ValueOf(a))
  BY DEF ApplyPlanned
<1>4. /\ Requests'
      /\ memory' \in [SettingKeys -> AllValues]
      /\ \A j \in SettingKeys : memory'[j] \in ValuesOf(j)
      /\ unsettled' \subseteq SettingKeys
  <2>. HIDE DEF r
  <2>. QED BY <1>1, <1>2, <1>3, ApplyingKeepsTypes
<1>5. process = "serving"
  BY <1>1, OnlyServed
<1>6. Tables' /\ Begun'
  BY <1>4, <1>5 DEF StartInv, Tables, Begun, ApplyPlanned, dataVars
<1>. QED BY <1>4, <1>6 DEF StartInv

\* SetGlobalConfig writes the row of the request's key, or none.
LEMMA OneRowIsWritten ==
    ASSUME StartInv, NEW a \in Admins, admin[a].pc # "idle", SetGlobalConfig(a)
    PROVE  \/ UNCHANGED rows
           \/ \E k \in SettingKeys : \E v \in ValuesOf(k) : rows' = [rows EXCEPT ![k] = v]
<1>1. KeyOf(a) \in SettingKeys /\ ValueOf(a) \in ValuesOf(KeyOf(a))
  BY BusyRequest DEF KeyOf, ValueOf, StartInv, Requests
<1>. QED BY <1>1 DEF SetGlobalConfig

LEMMA WritePutStarts ==
    ASSUME StartInv, NEW a \in Admins, WritePut(a) PROVE StartInv'
<1>. DEFINE r == [admin[a] EXCEPT !.pc = "finish"]
<1>1. Sound(r)
  BY DEF StartInv, Requests, WritePut, Sound, AdminRequest
<1>2. Requests'
  <2>. HIDE DEF r
  <2>1. SetAdmin(a, r)
    BY DEF WritePut, r
  <2>. QED BY <1>1, <2>1, OneRequestMoves DEF StartInv
<1>3. Served
  BY OnlyServed, OneRowIsWritten DEF WritePut, Served, serverVars
<1>4. Tables' /\ Begun'
  BY <1>3, ServedKeepsTheStart DEF StartInv, Tables, WritePut, serverVars
<1>. QED BY <1>2, <1>4 DEF StartInv

LEMMA FinishPutStarts ==
    ASSUME StartInv, NEW a \in Admins, FinishPut(a) PROVE StartInv'
<1>1. Requests'
  BY IdleIsSound, OneRequestMoves DEF StartInv, FinishPut
<1>2. backend' \in CacheValues \cup {NoRow}
  BY Values, PlanKeysAreSettings DEF StartInv, Tables, FinishPut
<1>3. unsettled' \subseteq SettingKeys
  BY DEF StartInv, Tables, FinishPut, Settles
<1>4. Served
  BY OnlyServed DEF FinishPut, Served, dataVars
<1>5. Tables' /\ Begun'
  BY <1>2, <1>3, <1>4, ServedKeepsTheStart DEF StartInv, Tables, FinishPut, dataVars
<1>. QED BY <1>1, <1>5 DEF StartInv

LEMMA WritePlannedStarts ==
    ASSUME StartInv, NEW a \in Admins, WritePlanned(a) PROVE StartInv'
<1>1. Served
  BY OnlyServed, OneRowIsWritten DEF WritePlanned, Served
<1>2. unsettled' \subseteq SettingKeys
  BY DEF StartInv, Tables, WritePlanned, Settles
<1>3. Sound(admin[a]) /\ IsPlan(admin[a].updates)
  BY DEF StartInv, Requests, WritePlanned, Sound
<1>4. Requests' /\ mixed' \in BOOLEAN
  <2>1. CASE Len(admin[a].updates) = 1
    <3>1. SetAdmin(a, IdleAdmin) /\ mixed' = ~admin[a].pure
      BY <2>1 DEF WritePlanned
    <3>. QED BY <3>1, IdleIsSound, OneRequestMoves DEF StartInv
  <2>2. CASE Len(admin[a].updates) # 1
    <3>. DEFINE r == [admin[a] EXCEPT !.pc = "apply", !.updates = Tail(@)]
    <3>1. SetAdmin(a, r) /\ UNCHANGED mixed
      BY <2>2 DEF WritePlanned
    <3>2. IsPlan(Tail(admin[a].updates))
      BY <1>3, <2>2, NextOfPlan
    <3>3. Tail(admin[a].updates) \in Seq(SettingKeys \X AllValues)
      BY <3>2, NextOfPlan
    <3>4. Sound(r)
      BY <1>3, <3>2, <3>3 DEF Sound, AdminRequest, WritePlanned
    <3>. HIDE DEF r
    <3>. QED BY <3>1, <3>4, OneRequestMoves DEF StartInv, Tables
  <2>. QED BY <2>1, <2>2
<1>5. Tables' /\ Begun'
  BY <1>1, <1>2, <1>4, ServedKeepsTheStart DEF StartInv, Tables, WritePlanned
<1>. QED BY <1>4, <1>5 DEF StartInv

LEMMA WriteRaisesStarts ==
    ASSUME StartInv, NEW a \in Admins, WriteRaises(a) PROVE StartInv'
<1>1. Requests'
  BY IdleIsSound, OneRequestMoves DEF StartInv, WriteRaises
<1>2. Served
  BY OnlyServed DEF WriteRaises, Served, dataVars, serverVars
<1>3. Tables' /\ Begun'
  BY <1>2, ServedKeepsTheStart DEF StartInv, Tables, WriteRaises, dataVars, serverVars
<1>. QED BY <1>1, <1>3 DEF StartInv

LEMMA StartInvIsKept == StartInv /\ [SettingsNext]_settingsVars => StartInv'
<1>. SUFFICES ASSUME StartInv, [SettingsNext]_settingsVars PROVE StartInv'
  OBVIOUS
<1>1. CASE \E a \in Admins : AdminStep(a)
  BY <1>1, StartPlanStarts, StartPutStarts, ApplyPlannedStarts, WritePutStarts,
     FinishPutStarts, WritePlannedStarts, WriteRaisesStarts DEF AdminStep
<1>2. CASE UNCHANGED settingsVars
  BY <1>2 DEF settingsVars, StartInv, Tables, Requests, Begun
<1>. QED BY <1>1, <1>2, StartProcessStarts, EnsureDefaultRolesStarts,
       MaybeBootstrapAdminStarts, LoadKeyStarts, ReadyStarts, KillStarts, DowngradeStarts,
       FirstCacheUseStarts DEF SettingsNext

LEMMA StartInvHolds == SettingsSpec => []StartInv
BY StartBegins, StartInvIsKept, PTL DEF SettingsSpec

\* The tables, what is in memory and the requests have their types.
THEOREM SettingsTypeCorrect == SettingsSpec => []SettingsTypeOK
<1>1. StartInv => SettingsTypeOK
  BY DEF StartInv, Tables, Requests, Begun, SettingsTypeOK
<1>. QED BY <1>1, StartInvHolds, PTL

\* A server that takes requests has its roles, an account and every row: a start
\* that was cut short is made up for by the next one (create_app_lifespan,
\* load_from_db).
THEOREM StartsComplete == SettingsSpec => []StartupDataIsComplete
<1>1. StartInv => StartupDataIsComplete
  BY DEF StartInv, Begun, StartupDataIsComplete
<1>. QED BY <1>1, StartInvHolds, PTL

-----------------------------------------------------------------------------
(* Settings in memory and in the database.                                 *)

Writing(a) == admin[a].pc \in {"write", "finish"}

\* A request that writes has unsettled its key.  While it is alone, what it puts
\* there is in memory, and after its write in the row too.
HoldsItsKey(a) ==
    Writing(a) =>
        /\ KeyOf(a) \in unsettled
        /\ admin[a].alone =>
              /\ \A b \in Admins : Writing(b) /\ KeyOf(b) = KeyOf(a) => b = a
              /\ memory[KeyOf(a)] = ValueOf(a)
              /\ admin[a].pc = "finish" => rows[KeyOf(a)] = ValueOf(a)

Loading ==
    /\ process \in {"roles", "admin", "settings"} => unsettled = {} /\ backend = NoRow
    /\ process \in {"roles", "admin"} => memory = Defaults
    /\ process = "settings" =>
          \A k \in SettingKeys : \/ memory[k] = rows[k]
                                 \/ k \in ToSet(toLoad) /\ memory[k] = Defaults[k]

SyncInv ==
    /\ Loading
    /\ SettledSettingsAgree
    /\ \A a \in Admins : HoldsItsKey(a)

SyncAll == StartInv /\ SyncInv

LEMMA SyncBegins == SettingsInit => SyncInv
BY DEF SettingsInit, SyncInv, Loading, SettledSettingsAgree, HoldsItsKey, Writing, IdleAdmin

\* Before and after the server serves there is no request.
LEMMA NobodyWrites ==
    ASSUME StartInv', process' # "serving"
    PROVE  (\A a \in Admins : HoldsItsKey(a))' /\ SettledSettingsAgree'
BY DEF StartInv, Begun, HoldsItsKey, Writing, SettledSettingsAgree

LEMMA StartingSyncs ==
    ASSUME SyncAll, StartInv',
           \/ StartProcess \/ EnsureDefaultRoles \/ MaybeBootstrapAdmin
           \/ Kill \/ Downgrade
    PROVE  SyncInv'
<1>1. process' # "serving"
  BY DEF StartProcess, EnsureDefaultRoles, MaybeBootstrapAdmin, Kill, Downgrade
<1>2. Loading'
  <2>1. CASE StartProcess
    BY <2>1 DEF StartProcess, Loading
  <2>2. CASE EnsureDefaultRoles
    BY <2>2 DEF EnsureDefaultRoles, Loading, SyncAll, SyncInv, serverVars
  <2>3. CASE MaybeBootstrapAdmin
    <3>1. ToSet(toLoad') = SettingKeys
      BY <2>3, KeysAreFinite, EveryKeyIsInTurn DEF MaybeBootstrapAdmin
    <3>. QED BY <2>3, <3>1 DEF MaybeBootstrapAdmin, Loading, SyncAll, SyncInv
  <2>4. CASE Kill \/ Downgrade
    BY <2>4 DEF Kill, Downgrade, Loading
  <2>. QED BY <2>1, <2>2, <2>3, <2>4
<1>. QED BY <1>1, <1>2, NobodyWrites DEF SyncInv

LEMMA LoadKeySyncs ==
    ASSUME SyncAll, StartInv', LoadKey PROVE SyncInv'
<1>. PICK k \in SettingKeys :
              /\ k = Head(toLoad) /\ toLoad' \in Seq(SettingKeys)
              /\ ToSet(toLoad) = {k} \cup ToSet(toLoad')
              /\ rows' = [rows EXCEPT ![k] = RowFor(k)]
              /\ RowFor(k) \in ValuesOf(k)
              /\ memory' = IF rows[k] = NoRow THEN memory
                           ELSE [memory EXCEPT ![k] = rows[k]]
  BY OneKeyIsLoaded DEF SyncAll
<1>1. memory[k] # NoRow
  BY Values DEF SyncAll, StartInv, Tables
<1>2. memory'[k] = rows'[k]
  <2>1. rows'[k] = RowFor(k)
    BY DEF SyncAll, StartInv, Tables
  <2>2. CASE rows[k] = NoRow
    BY <1>1, <2>1, <2>2 DEF RowFor, LoadKey, SyncAll, SyncInv, Loading
  <2>3. CASE rows[k] # NoRow
    BY <2>1, <2>3 DEF RowFor, SyncAll, StartInv, Tables
  <2>. QED BY <2>2, <2>3
<1>3. \A j \in SettingKeys \ {k} : memory'[j] = memory[j] /\ rows'[j] = rows[j]
  BY DEF SyncAll, StartInv, Tables
<1>4. Loading'
  BY <1>2, <1>3 DEF Loading, LoadKey, SyncAll, SyncInv
<1>5. process' # "serving"
  BY DEF LoadKey
<1>. QED BY <1>4, <1>5, NobodyWrites DEF SyncInv

LEMMA ReadySyncs ==
    ASSUME SyncAll, StartInv', Ready PROVE SyncInv'
<1>1. Loading'
  BY DEF Loading, Ready
<1>2. \A a \in Admins : ~Writing(a)'
  BY DEF SyncAll, StartInv, Begun, Ready, Writing
<1>3. SettledSettingsAgree'
  BY NothingLeftToLoad DEF SettledSettingsAgree, Ready, SyncAll, SyncInv, Loading, dataVars,
     serverVars
<1>. QED BY <1>1, <1>2, <1>3 DEF SyncInv, HoldsItsKey

LEMMA FirstCacheUseSyncs ==
    ASSUME SyncAll, StartInv', FirstCacheUse PROVE SyncInv'
<1>1. Loading'
  BY DEF Loading, FirstCacheUse
<1>2. \A a \in Admins : HoldsItsKey(a)'
  BY DEF SyncAll, SyncInv, FirstCacheUse, HoldsItsKey, Writing, KeyOf, ValueOf, dataVars
<1>3. SettledSettingsAgree'
  BY DEF SettledSettingsAgree, FirstCacheUse, SyncAll, SyncInv, dataVars
<1>. QED BY <1>1, <1>2, <1>3 DEF SyncInv

LEMMA StartPlanSyncs ==
    ASSUME SyncAll, StartInv', NEW a \in Admins, StartPlan(a) PROVE SyncInv'
<1>1. Loading'
  BY DEF Loading, StartPlan
<1>2. /\ admin'[a].pc = "apply"
      /\ \A b \in Admins \ {a} : /\ admin'[b].pc = admin[b].pc
                                 /\ admin'[b].alone = admin[b].alone
                                 /\ admin'[b].updates = admin[b].updates
  BY DEF StartPlan, SyncAll, StartInv, Requests, AdminRequest
<1>3. ASSUME NEW b \in Admins PROVE HoldsItsKey(b)'
  BY <1>2 DEF SyncAll, SyncInv, StartPlan, HoldsItsKey, Writing, KeyOf, ValueOf, serverVars
<1>4. SettledSettingsAgree'
  BY DEF SettledSettingsAgree, StartPlan, SyncAll, SyncInv, serverVars
<1>. QED BY <1>1, <1>3, <1>4 DEF SyncInv

\* ApplySetting, for a request that was not writing yet.
LEMMA ApplyingSyncs ==
    ASSUME SyncAll, NEW a \in Admins, NEW r \in AdminRequest, ~Writing(a),
           r.updates[1][1] \in SettingKeys,
           ApplySetting(a, r, r.updates[1][1], r.updates[1][2]),
           process = "serving", UNCHANGED <<process, rows, backend>>
    PROVE  SyncInv'
<1>. DEFINE k == r.updates[1][1]
            v == r.updates[1][2]
<1>1. Loading'
  BY DEF Loading
<1>2. /\ memory' = [memory EXCEPT ![k] = v] /\ unsettled' = unsettled \cup {k}
      /\ memory \in [SettingKeys -> AllValues]
  BY DEF ApplySetting, SyncAll, StartInv, Tables
<1>3. /\ admin'[a].pc = "write" /\ admin'[a].updates = r.updates
      /\ admin'[a].alone <=> Changing(k) = {}
  <2>. DEFINE alone == Changing(k) = {}
  <2>1. admin'[a] = [r EXCEPT !.pc = "write", !.alone = alone]
    BY DEF ApplySetting
  <2>. HIDE DEF alone
  <2>2. admin'[a].alone = alone /\ admin'[a].pc = "write" /\ admin'[a].updates = r.updates
    BY <2>1 DEF AdminRequest
  <2>. QED BY <2>2 DEF alone
<1>4. \A b \in Admins \ {a} : /\ admin'[b].pc = admin[b].pc
                              /\ admin'[b].updates = admin[b].updates
                              /\ admin'[b].alone => admin[b].alone /\ b \notin Changing(k)
  <2>1. SUFFICES ASSUME NEW b \in Admins \ {a}
                 PROVE  /\ admin'[b].pc = admin[b].pc
                        /\ admin'[b].updates = admin[b].updates
                        /\ admin'[b].alone => admin[b].alone /\ b \notin Changing(k)
    OBVIOUS
  <2>. DEFINE alone == admin[b].alone /\ b \notin Changing(k)
              pure == admin[b].pure /\ ~(r.kind = "put" /\ k \in ToSet(PlanKeys))
  <2>2. admin'[b] = [admin[b] EXCEPT !.alone = alone, !.pure = pure]
    BY DEF ApplySetting
  <2>3. admin[b] \in AdminRequest
    BY DEF SyncAll, StartInv, Requests
  <2>. HIDE DEF alone, pure
  <2>4. /\ admin'[b].pc = admin[b].pc /\ admin'[b].updates = admin[b].updates
        /\ admin'[b].alone = alone
    BY <2>2, <2>3 DEF AdminRequest
  <2>. QED BY <2>4 DEF alone
<1>. HIDE DEF k, v
<1>5. k \in SettingKeys /\ KeyOf(a)' = k /\ ValueOf(a)' = v /\ Writing(a)'
  BY <1>3 DEF k, v, KeyOf, ValueOf, Writing
<1>6. \A b \in Admins \ {a} :
        /\ Writing(b)' <=> Writing(b) /\ KeyOf(b)' = KeyOf(b) /\ ValueOf(b)' = ValueOf(b)
        /\ b \in Changing(k) <=> Writing(b) /\ KeyOf(b) = k
  BY <1>4 DEF KeyOf, ValueOf, Writing, Changing
<1>7. HoldsItsKey(a)'
  BY <1>2, <1>3, <1>4, <1>5, <1>6 DEF HoldsItsKey, Writing, KeyOf, ValueOf, Changing
<1>8. ASSUME NEW b \in Admins \ {a} PROVE HoldsItsKey(b)'
  <2>1. SUFFICES ASSUME Writing(b)'
                 PROVE  /\ KeyOf(b)' \in unsettled'
                        /\ admin'[b].alone =>
                            /\ \A c \in Admins : Writing(c)' /\ KeyOf(c)' = KeyOf(b)' => c = b
                            /\ memory'[KeyOf(b)'] = ValueOf(b)'
                            /\ admin'[b].pc = "finish" => rows'[KeyOf(b)'] = ValueOf(b)'
    BY DEF HoldsItsKey
  <2>2. KeyOf(b)' = KeyOf(b) /\ ValueOf(b)' = ValueOf(b) /\ Writing(b)
    BY <1>4, <2>1 DEF Writing, KeyOf, ValueOf
  <2>3. HoldsItsKey(b)
    BY DEF SyncAll, SyncInv
  <2>4. KeyOf(b) \in unsettled
    BY <2>2, <2>3 DEF HoldsItsKey
  <2>5. KeyOf(b)' \in unsettled'
    BY <1>2, <2>2, <2>4
  <2>6. ASSUME admin'[b].alone
        PROVE  /\ \A c \in Admins : Writing(c)' /\ KeyOf(c)' = KeyOf(b)' => c = b
               /\ memory'[KeyOf(b)'] = ValueOf(b)'
               /\ admin'[b].pc = "finish" => rows'[KeyOf(b)'] = ValueOf(b)'
    <3>1. admin[b].alone /\ KeyOf(b) # k
      BY <1>4, <2>2, <2>6 DEF Changing, Writing
    <3>2. /\ \A c \in Admins : Writing(c) /\ KeyOf(c) = KeyOf(b) => c = b
          /\ memory[KeyOf(b)] = ValueOf(b)
          /\ admin[b].pc = "finish" => rows[KeyOf(b)] = ValueOf(b)
      BY <2>2, <2>3, <3>1 DEF HoldsItsKey
    <3>3. \A c \in Admins : Writing(c)' /\ KeyOf(c)' = KeyOf(b)' => c = b
      <4>1. ASSUME NEW c \in Admins, Writing(c)', KeyOf(c)' = KeyOf(b)' PROVE c = b
        <5>1. c # a
          BY <1>5, <2>2, <3>1, <4>1
        <5>2. Writing(c) /\ KeyOf(c) = KeyOf(b)
          BY <1>4, <2>2, <4>1, <5>1 DEF Writing, KeyOf
        <5>. QED BY <3>2, <5>2
      <4>. QED BY <4>1
    <3>4. KeyOf(b) \in SettingKeys /\ memory'[KeyOf(b)] = memory[KeyOf(b)]
      <4>1. KeyOf(b) \in SettingKeys
        BY <2>2, BusyRequest DEF SyncAll, StartInv, Requests, KeyOf, Writing
      <4>. QED BY <1>2, <3>1, <4>1
    <3>. QED BY <1>4, <2>2, <3>2, <3>3, <3>4
  <2>. QED BY <2>5, <2>6
<1>9. SettledSettingsAgree'
  BY <1>2, <1>5 DEF SettledSettingsAgree, SyncAll, SyncInv
<1>. QED BY <1>1, <1>7, <1>8, <1>9 DEF SyncInv

LEMMA StartPutSyncs ==
    ASSUME SyncAll, NEW a \in Admins, StartPut(a) PROVE SyncInv'
<1>1. PICK k \in PutKeys : \E v \in ValuesOf(k) :
        ApplySetting(a, [IdleAdmin EXCEPT !.updates = << <<k, v>> >>], k, v)
  BY DEF StartPut
<1>2. PICK v \in ValuesOf(k) :
        ApplySetting(a, [IdleAdmin EXCEPT !.updates = << <<k, v>> >>], k, v)
  BY <1>1
<1>. DEFINE u == << <<k, v>> >>
            r == [IdleAdmin EXCEPT !.updates = u]
<1>3. k \in SettingKeys
  BY SettingsAssumption
<1>4. IsPut(u) /\ u \in Seq(SettingKeys \X AllValues) /\ u[1][1] = k /\ u[1][2] = v
  BY <1>3, NextOfPut DEF IsPut
<1>. HIDE DEF u
<1>5. r \in AdminRequest /\ r.updates = u
  BY <1>4 DEF AdminRequest, IdleAdmin
<1>. HIDE DEF r
<1>6. ApplySetting(a, r, r.updates[1][1], r.updates[1][2])
  BY <1>2, <1>4, <1>5 DEF r, u
<1>7. r.updates[1][1] \in SettingKeys
  BY <1>3, <1>4, <1>5
<1>8. ~Writing(a) /\ process = "serving" /\ UNCHANGED <<process, rows, backend>>
  BY DEF StartPut, Writing
<1>. QED BY <1>5, <1>6, <1>7, <1>8, ApplyingSyncs

LEMMA ApplyPlannedSyncs ==
    ASSUME SyncAll, NEW a \in Admins, ApplyPlanned(a) PROVE SyncInv'
<1>. DEFINE r == admin[a]
<1>1. Sound(r) /\ r.pc = "apply" /\ r \in AdminRequest
  BY DEF SyncAll, StartInv, Requests, ApplyPlanned
<1>2. r.updates[1][1] \in SettingKeys
  BY <1>1, BusyRequest
<1>3. ApplySetting(a, r, r.updates[1][1], r.updates[1][2])
  BY DEF ApplyPlanned, KeyOf, ValueOf
<1>4. ~Writing(a) /\ process = "serving" /\ UNCHANGED <<process, rows, backend>>
  BY <1>1, OnlyServed DEF SyncAll, ApplyPlanned, Writing, dataVars
<1>. HIDE DEF r
<1>. QED BY <1>1, <1>2, <1>3, <1>4, ApplyingSyncs

\* A request writes its row, goes on or ends, and settles its key if it was alone.
\* r: what becomes of it.
LEMMA WritingSyncs ==
    ASSUME SyncAll, NEW a \in Admins, Writing(a), NEW r, SetAdmin(a, r),
           SetGlobalConfig(a) \/ UNCHANGED rows,
           \/ /\ r = [admin[a] EXCEPT !.pc = "finish"] /\ UNCHANGED unsettled
              /\ SetGlobalConfig(a)
           \/ r.pc \notin {"write", "finish"} /\ unsettled' \in {unsettled, unsettled \ {KeyOf(a)}},
           unsettled' # unsettled => admin[a].alone,
           UNCHANGED <<process, memory>>
    PROVE  \A b \in Admins : HoldsItsKey(b)'
<1>0. /\ admin \in [Admins -> AdminRequest] /\ KeyOf(a) \in SettingKeys
      /\ rows \in [SettingKeys -> AllValues \cup {NoRow}]
      /\ \A b \in Admins : HoldsItsKey(b)
  BY BusyRequest DEF SyncAll, SyncInv, StartInv, Tables, Requests, KeyOf, Writing
<1>1. admin'[a] = r /\ \A b \in Admins \ {a} : admin'[b] = admin[b]
  BY <1>0 DEF SetAdmin
<1>2. \A b \in Admins \ {a} :
        Writing(b)' = Writing(b) /\ KeyOf(b)' = KeyOf(b) /\ ValueOf(b)' = ValueOf(b)
  BY <1>1 DEF Writing, KeyOf, ValueOf
<1>3. Writing(a)' => KeyOf(a)' = KeyOf(a) /\ ValueOf(a)' = ValueOf(a)
  BY <1>0, <1>1 DEF Writing, KeyOf, ValueOf, AdminRequest
<1>4. \A k \in SettingKeys : k # KeyOf(a) => rows'[k] = rows[k]
  BY <1>0 DEF SetGlobalConfig
<1>5. HoldsItsKey(a)'
  <2>1. SUFFICES ASSUME Writing(a)' PROVE HoldsItsKey(a)'
    BY DEF HoldsItsKey
  <2>2. r = [admin[a] EXCEPT !.pc = "finish"] /\ UNCHANGED unsettled /\ SetGlobalConfig(a)
    BY <1>1, <2>1 DEF Writing
  <2>3. admin'[a].alone = admin[a].alone
    BY <1>0, <1>1, <2>2 DEF AdminRequest
  <2>4. admin[a].alone => rows'[KeyOf(a)] = ValueOf(a)
    BY <1>0, <2>2 DEF SetGlobalConfig
  <2>. QED BY <1>0, <1>2, <1>3, <2>1, <2>2, <2>3, <2>4 DEF HoldsItsKey
<1>6. ASSUME NEW b \in Admins \ {a} PROVE HoldsItsKey(b)'
  <2>1. SUFFICES ASSUME Writing(b) PROVE HoldsItsKey(b)'
    BY <1>2 DEF HoldsItsKey
  <2>2. KeyOf(b) \in unsettled /\ KeyOf(b) \in SettingKeys
    BY <1>0, <2>1, BusyRequest DEF HoldsItsKey, SyncAll, StartInv, Requests, KeyOf, Writing
  <2>3. KeyOf(b) \in unsettled'
    <3>1. CASE unsettled' = unsettled
      BY <2>2, <3>1
    <3>2. CASE unsettled' = unsettled \ {KeyOf(a)} /\ admin[a].alone
      BY <1>0, <2>1, <2>2, <3>2 DEF HoldsItsKey
    <3>. QED BY <3>1, <3>2
  <2>4. ASSUME admin[b].alone
        PROVE  /\ \A c \in Admins : Writing(c)' /\ KeyOf(c)' = KeyOf(b) => c = b
               /\ memory[KeyOf(b)] = ValueOf(b)
               /\ admin[b].pc = "finish" => rows'[KeyOf(b)] = ValueOf(b)
    <3>1. /\ \A c \in Admins : Writing(c) /\ KeyOf(c) = KeyOf(b) => c = b
          /\ memory[KeyOf(b)] = ValueOf(b)
          /\ admin[b].pc = "finish" => rows[KeyOf(b)] = ValueOf(b)
      BY <1>0, <2>1, <2>4 DEF HoldsItsKey
    <3>2. KeyOf(b) # KeyOf(a)
      BY <3>1
    <3>. QED BY <1>2, <1>3, <1>4, <2>2, <3>1, <3>2
  <2>. QED BY <1>1, <1>2, <2>1, <2>3, <2>4 DEF HoldsItsKey
<1>. QED BY <1>5, <1>6

LEMMA LoadingIsOver ==
    ASSUME process = "serving", UNCHANGED process
    PROVE  Loading'
BY DEF Loading

LEMMA WritePutSyncs ==
    ASSUME SyncAll, NEW a \in Admins, WritePut(a) PROVE SyncInv'
<1>1. process = "serving" /\ Writing(a) /\ HoldsItsKey(a)
  BY OnlyServed DEF SyncAll, SyncInv, WritePut, Writing
<1>2. \A b \in Admins : HoldsItsKey(b)'
  BY <1>1, WritingSyncs DEF WritePut, serverVars
<1>3. KeyOf(a) \in unsettled /\ \A k \in SettingKeys \ {KeyOf(a)} : rows'[k] = rows[k]
  BY <1>1 DEF HoldsItsKey, WritePut, SetGlobalConfig, SyncAll, StartInv, Tables
<1>4. SettledSettingsAgree'
  BY <1>3 DEF SettledSettingsAgree, SyncAll, SyncInv, WritePut, serverVars
<1>. QED BY <1>1, <1>2, <1>4, LoadingIsOver DEF SyncInv, WritePut

LEMMA FinishPutSyncs ==
    ASSUME SyncAll, NEW a \in Admins, FinishPut(a) PROVE SyncInv'
<1>1. process = "serving" /\ Writing(a) /\ HoldsItsKey(a)
  BY OnlyServed DEF SyncAll, SyncInv, FinishPut, Writing
<1>2. \A b \in Admins : HoldsItsKey(b)'
  BY <1>1, WritingSyncs DEF FinishPut, Settles, dataVars, IdleAdmin
<1>3. SettledSettingsAgree'
  <2>1. admin[a].alone => memory[KeyOf(a)] = rows[KeyOf(a)]
    BY <1>1 DEF HoldsItsKey, FinishPut
  <2>2. \A k \in SettingKeys \ unsettled' : memory[k] = rows[k]
    BY <1>1, <2>1 DEF SettledSettingsAgree, SyncAll, SyncInv, FinishPut, Settles
  <2>3. CacheKey \notin unsettled' => backend' \in {NoRow, memory[CacheKey]}
    BY <1>1 DEF SettledSettingsAgree, SyncAll, SyncInv, FinishPut, Settles
  <2>. QED BY <2>2, <2>3 DEF SettledSettingsAgree, FinishPut, dataVars
<1>. QED BY <1>1, <1>2, <1>3, LoadingIsOver DEF SyncInv, FinishPut

LEMMA WritePlannedSyncs ==
    ASSUME SyncAll, NEW a \in Admins, WritePlanned(a) PROVE SyncInv'
<1>1. process = "serving" /\ Writing(a) /\ HoldsItsKey(a)
  BY OnlyServed DEF SyncAll, SyncInv, WritePlanned, Writing
<1>2. KeyOf(a) # CacheKey /\ KeyOf(a) \in SettingKeys
  BY BusyRequest, TheKeys DEF SyncAll, StartInv, Requests, WritePlanned, KeyOf
<1>3. PICK r : SetAdmin(a, r) /\ r.pc \notin {"write", "finish"}
  <2>1. admin[a] \in AdminRequest
    BY DEF SyncAll, StartInv, Requests
  <2>2. CASE Len(admin[a].updates) = 1
    BY <2>2 DEF WritePlanned, IdleAdmin
  <2>3. CASE Len(admin[a].updates) # 1
    <3>. DEFINE r == [admin[a] EXCEPT !.pc = "apply", !.updates = Tail(@)]
    <3>1. SetAdmin(a, r)
      BY <2>3 DEF WritePlanned
    <3>2. r.pc = "apply"
      BY <2>1 DEF AdminRequest
    <3>. QED BY <3>1, <3>2
  <2>. QED BY <2>2, <2>3
<1>4. \A b \in Admins : HoldsItsKey(b)'
  BY <1>1, <1>3, WritingSyncs DEF WritePlanned, Settles
<1>5. SettledSettingsAgree'
  <2>1. /\ \A k \in SettingKeys \ {KeyOf(a)} : rows'[k] = rows[k]
        /\ admin[a].alone => rows'[KeyOf(a)] = ValueOf(a)
    BY <1>2 DEF WritePlanned, SetGlobalConfig, SyncAll, StartInv, Tables
  <2>2. admin[a].alone => memory[KeyOf(a)] = ValueOf(a)
    BY <1>1 DEF HoldsItsKey
  <2>3. \A k \in SettingKeys \ unsettled' : memory[k] = rows'[k]
    <3>1. CASE admin[a].alone
      BY <1>1, <2>1, <2>2, <3>1 DEF SettledSettingsAgree, SyncAll, SyncInv, WritePlanned, Settles
    <3>2. CASE ~admin[a].alone
      BY <1>1, <2>1, <3>2 DEF SettledSettingsAgree, SyncAll, SyncInv, WritePlanned, Settles,
         HoldsItsKey
    <3>. QED BY <3>1, <3>2
  <2>4. CacheKey \notin unsettled' => backend \in {NoRow, memory[CacheKey]}
    BY <1>1, <1>2 DEF SettledSettingsAgree, SyncAll, SyncInv, WritePlanned, Settles
  <2>. QED BY <2>3, <2>4 DEF SettledSettingsAgree, WritePlanned
<1>. QED BY <1>1, <1>4, <1>5, LoadingIsOver DEF SyncInv, WritePlanned

LEMMA WriteRaisesSyncs ==
    ASSUME SyncAll, NEW a \in Admins, WriteRaises(a) PROVE SyncInv'
<1>1. process = "serving" /\ Writing(a)
  BY OnlyServed DEF SyncAll, SyncInv, WriteRaises, Writing
<1>2. \A b \in Admins : HoldsItsKey(b)'
  BY <1>1, WritingSyncs DEF WriteRaises, IdleAdmin, dataVars, serverVars
<1>3. SettledSettingsAgree'
  BY DEF SettledSettingsAgree, SyncAll, SyncInv, WriteRaises, dataVars, serverVars
<1>. QED BY <1>1, <1>2, <1>3, LoadingIsOver DEF SyncInv, WriteRaises

LEMMA SyncAllIsKept == SyncAll /\ [SettingsNext]_settingsVars => SyncAll'
<1>. SUFFICES ASSUME SyncAll, [SettingsNext]_settingsVars PROVE SyncAll'
  OBVIOUS
<1>1. StartInv'
  BY StartInvIsKept DEF SyncAll
<1>2. SyncInv'
  <2>1. CASE \E a \in Admins : AdminStep(a)
    BY <1>1, <2>1, StartPlanSyncs, StartPutSyncs, ApplyPlannedSyncs, WritePutSyncs,
       FinishPutSyncs, WritePlannedSyncs, WriteRaisesSyncs DEF AdminStep
  <2>2. CASE UNCHANGED settingsVars
    BY <2>2 DEF settingsVars, SyncAll, SyncInv, Loading, SettledSettingsAgree, HoldsItsKey,
       Writing, KeyOf, ValueOf
  <2>. QED BY <1>1, <2>1, <2>2, StartingSyncs, LoadKeySyncs, ReadySyncs, FirstCacheUseSyncs
         DEF SettingsNext
<1>. QED BY <1>1, <1>2 DEF SyncAll

LEMMA SyncAllHolds == SettingsSpec => []SyncAll
<1>1. SettingsInit => SyncAll
  BY StartBegins, SyncBegins DEF SyncAll
<1>. QED BY <1>1, SyncAllIsKept, PTL DEF SettingsSpec

\* A setting that no request is changing is the same in memory, in its row and in
\* the runtime cache (app_settings.apply before set_global_config, and
\* reset_runtime_cache after it), however the requests and restarts interleave.
THEOREM SettledAgree == SettingsSpec => []SettledSettingsAgree
<1>1. SyncAll => SettledSettingsAgree
  BY DEF SyncAll, SyncInv
<1>. QED BY <1>1, SyncAllHolds, PTL

-----------------------------------------------------------------------------
(* Plans are whole.                                                        *)

\* What the next start makes of the rows.
WholeRows ==
    \A i \in 2..3 : RowFor(PlanKeys[i]) \in OwnModels(RowFor(PlanKeys[1]))

InPlan(a) == admin[a].kind = "plan" /\ admin[a].pc # "idle"

\* A request that is changing a setting of a plan.
Touches(a) == InPlan(a) \/ (Writing(a) /\ KeyOf(a) \in ToSet(PlanKeys))

Stored(i, v) == memory[PlanKeys[i]] = v /\ rows[PlanKeys[i]] = v

\* What an undisturbed plan has done already is in memory and in the rows.
Done(a, p, m2, m3) ==
    \/ admin[a].updates = ConfigUpdates(p, m2, m3)
    \/ admin[a].updates = ModelUpdates(p, m2, m3) /\ Stored(1, p)
    \/ admin[a].updates = << <<PlanKeys[3], m3>> >> /\ Stored(1, p) /\ Stored(2, m2)

PureIsAlone(a) ==
    InPlan(a) /\ admin[a].pure =>
        /\ \A b \in Admins : Touches(b) => b = a
        /\ admin[a].pc = "write" => admin[a].alone
        /\ \E p \in Providers : \E m2, m3 \in OwnModels(p) : Done(a, p, m2, m3)

\* Until the first plan, and after one that nothing disturbed.
Unmixed ==
    ~mixed => /\ \A a \in Admins : ~Touches(a)
              /\ WholeRows
              /\ process = "serving" => \A k \in ToSet(PlanKeys) : memory[k] = rows[k]

PlanInv == Unmixed /\ \A a \in Admins : PureIsAlone(a)

PlanAll == SyncAll /\ PlanInv

LEMMA DefaultsAreWhole ==
    \A i \in 2..3 : Defaults[PlanKeys[i]] \in OwnModels(Defaults[PlanKeys[1]])
<1>. DEFINE p == CHOOSE q \in Providers : TRUE
<1>1. Defaults[PlanKeys[1]] = p
  BY TheKeys, PlanKeysAreSettings DEF Defaults
<1>2. \A i \in 2..3 : Defaults[PlanKeys[i]] = DefaultModel[p]["simple"]
  BY TheKeys, PlanKeysAreSettings DEF Defaults, CacheKey
<1>3. DefaultModel[p]["simple"] \in OwnModels(p)
  BY DEF OwnModels, Tiers
<1>. HIDE DEF p
<1>. QED BY <1>1, <1>2, <1>3

LEMMA PlansBegin == SettingsInit => PlanInv
<1>. SUFFICES ASSUME SettingsInit PROVE PlanInv
  OBVIOUS
<1>1. \A k \in ToSet(PlanKeys) : RowFor(k) = Defaults[k]
  BY PlanKeysAreSettings DEF SettingsInit, RowFor
<1>2. WholeRows
  <2>1. \A i \in 1..3 : RowFor(PlanKeys[i]) = Defaults[PlanKeys[i]]
    BY <1>1, TheKeys
  <2>. QED BY <2>1, DefaultsAreWhole DEF WholeRows
<1>3. \A a \in Admins : ~Touches(a) /\ ~InPlan(a)
  BY DEF SettingsInit, Touches, InPlan, Writing, IdleAdmin
<1>. QED BY <1>2, <1>3 DEF SettingsInit, PlanInv, Unmixed, PureIsAlone

\* While nobody is served the rows keep their meaning, or are all taken away.
LEMMA StartingKeepsPlans ==
    ASSUME PlanAll, \A a \in Admins : admin'[a].pc = "idle", UNCHANGED mixed,
           \/ \A k \in ToSet(PlanKeys) : RowFor(k)' = RowFor(k)
           \/ \A k \in ToSet(PlanKeys) : RowFor(k)' = Defaults[k],
           process' = "serving" => \A k \in ToSet(PlanKeys) : memory'[k] = rows'[k]
    PROVE  PlanInv'
<1>1. \A a \in Admins : ~Touches(a)' /\ ~InPlan(a)'
  BY DEF Touches, InPlan, Writing
<1>2. ~mixed => WholeRows'
  <2>1. CASE \A k \in ToSet(PlanKeys) : RowFor(k)' = RowFor(k)
    <3>1. \A i \in 1..3 : RowFor(PlanKeys[i])' = RowFor(PlanKeys[i])
      BY <2>1, TheKeys
    <3>. QED BY <3>1 DEF WholeRows, PlanAll, PlanInv, Unmixed
  <2>2. CASE \A k \in ToSet(PlanKeys) : RowFor(k)' = Defaults[k]
    <3>1. \A i \in 1..3 : RowFor(PlanKeys[i])' = Defaults[PlanKeys[i]]
      BY <2>2, TheKeys
    <3>2. WholeRows'
      BY <3>1, DefaultsAreWhole DEF WholeRows
    <3>. QED BY <3>2
  <2>. QED BY <2>1, <2>2
<1>. QED BY <1>1, <1>2 DEF PlanInv, Unmixed, PureIsAlone

\* A step that has nothing to do with a plan.
LEMMA ElsewhereKeepsPlans ==
    ASSUME PlanAll, UNCHANGED <<mixed, process>>,
           \A k \in ToSet(PlanKeys) : rows'[k] = rows[k] /\ memory'[k] = memory[k],
           \A b \in Admins : Touches(b)' => Touches(b),
           \A b \in Admins : InPlan(b)' /\ admin'[b].pure =>
               /\ InPlan(b) /\ admin[b].pure /\ admin'[b].updates = admin[b].updates
               /\ admin'[b].pc = admin[b].pc
               /\ admin[b].pc = "write" /\ admin[b].alone => admin'[b].alone
    PROVE  PlanInv'
<1>1. \A i \in 1..3 : /\ RowFor(PlanKeys[i])' = RowFor(PlanKeys[i])
                      /\ rows'[PlanKeys[i]] = rows[PlanKeys[i]]
                      /\ memory'[PlanKeys[i]] = memory[PlanKeys[i]]
  BY TheKeys DEF RowFor
<1>2. Unmixed'
  <2>1. WholeRows => WholeRows'
    BY <1>1 DEF WholeRows
  <2>. QED BY <2>1 DEF PlanAll, PlanInv, Unmixed
<1>3. ASSUME NEW b \in Admins PROVE PureIsAlone(b)'
  <2>1. SUFFICES ASSUME InPlan(b)', admin'[b].pure PROVE PureIsAlone(b)'
    BY DEF PureIsAlone
  <2>2. /\ InPlan(b) /\ admin[b].pure /\ admin'[b].updates = admin[b].updates
        /\ admin'[b].pc = admin[b].pc
        /\ admin[b].pc = "write" /\ admin[b].alone => admin'[b].alone
    BY <2>1
  <2>3. /\ \A c \in Admins : Touches(c) => c = b
        /\ admin[b].pc = "write" => admin[b].alone
        /\ \E p \in Providers : \E m2, m3 \in OwnModels(p) : Done(b, p, m2, m3)
    BY <2>2 DEF PlanAll, PlanInv, PureIsAlone
  <2>4. \A p, m2, m3 : Done(b, p, m2, m3) => Done(b, p, m2, m3)'
    BY <1>1, <2>2 DEF Done, Stored
  <2>. QED BY <2>2, <2>3, <2>4 DEF PureIsAlone
<1>. QED BY <1>2, <1>3 DEF PlanInv

\* The steps outside requests.
LEMMA ServerKeepsPlans ==
    ASSUME PlanAll, StartInv', SyncInv',
           \/ StartProcess \/ EnsureDefaultRoles \/ MaybeBootstrapAdmin \/ LoadKey \/ Ready
           \/ Kill \/ Downgrade
    PROVE  PlanInv'
<1>1. \A a \in Admins : admin'[a].pc = "idle"
  <2>1. CASE Ready
    BY <2>1 DEF Ready, PlanAll, SyncAll, StartInv, Begun
  <2>2. CASE ~Ready
    <3>1. process' # "serving"
      BY <2>2 DEF StartProcess, EnsureDefaultRoles, MaybeBootstrapAdmin, LoadKey, Kill, Downgrade
    <3>. QED BY <3>1 DEF StartInv, Begun
  <2>. QED BY <2>1, <2>2
<1>2. UNCHANGED mixed
  BY DEF StartProcess, EnsureDefaultRoles, MaybeBootstrapAdmin, LoadKey, Ready, Kill, Downgrade,
         dataVars
<1>3. \/ \A k \in ToSet(PlanKeys) : RowFor(k)' = RowFor(k)
      \/ \A k \in ToSet(PlanKeys) : RowFor(k)' = Defaults[k]
  <2>1. CASE LoadKey
    <3>. PICK k \in SettingKeys :
              /\ rows' = [rows EXCEPT ![k] = RowFor(k)]
              /\ RowFor(k) \in ValuesOf(k)
      BY <2>1, OneKeyIsLoaded DEF PlanAll, SyncAll
    <3>1. RowFor(k) # NoRow
      BY Values
    <3>2. rows'[k] = RowFor(k) /\ \A j \in SettingKeys : j # k => rows'[j] = rows[j]
      BY DEF PlanAll, SyncAll, StartInv, Tables
    <3>3. \A j \in SettingKeys : RowFor(j)' = RowFor(j)
      BY <3>1, <3>2 DEF RowFor
    <3>. QED BY <3>3, PlanKeysAreSettings
  <2>2. CASE Downgrade
    <3>1. rows' = rows \/ rows' = [k \in SettingKeys |-> NoRow]
      BY <2>2 DEF Downgrade
    <3>. QED BY <3>1, PlanKeysAreSettings DEF RowFor
  <2>3. CASE ~LoadKey /\ ~Downgrade
    <3>1. UNCHANGED rows
      BY <2>3 DEF StartProcess, EnsureDefaultRoles, MaybeBootstrapAdmin, Ready, Kill, dataVars
    <3>. QED BY <3>1 DEF RowFor
  <2>. QED BY <2>1, <2>2, <2>3
<1>4. process' = "serving" => \A k \in ToSet(PlanKeys) : memory'[k] = rows'[k]
  <2>1. SUFFICES ASSUME process' = "serving"
                 PROVE  \A k \in ToSet(PlanKeys) : memory'[k] = rows'[k]
    OBVIOUS
  <2>2. Ready
    BY <2>1 DEF StartProcess, EnsureDefaultRoles, MaybeBootstrapAdmin, LoadKey, Kill, Downgrade
  <2>. QED BY <2>2, NothingLeftToLoad, PlanKeysAreSettings
         DEF Ready, PlanAll, SyncAll, SyncInv, Loading, dataVars, serverVars
<1>. QED BY <1>1, <1>2, <1>3, <1>4, StartingKeepsPlans

LEMMA FirstCacheUseKeepsPlans ==
    ASSUME PlanAll, FirstCacheUse PROVE PlanInv'
<1>1. UNCHANGED <<mixed, process, rows, memory, admin>>
  BY DEF FirstCacheUse, dataVars
<1>2. \A b \in Admins : Touches(b)' = Touches(b) /\ InPlan(b)' = InPlan(b)
  BY <1>1 DEF Touches, InPlan, Writing, KeyOf
<1>. QED BY <1>1, <1>2, ElsewhereKeepsPlans

\* A step after which no plan is undisturbed.
LEMMA DisturbedKeepsPlans ==
    ASSUME mixed', \A b \in Admins : ~(InPlan(b)' /\ admin'[b].pure)
    PROVE  PlanInv'
BY DEF PlanInv, Unmixed, PureIsAlone

LEMMA StartPlanKeepsPlans ==
    ASSUME PlanAll, NEW a \in Admins, StartPlan(a) PROVE PlanInv'
<1>1. PICK p \in Providers, strategy \in {"uniform", "intelligent"} :
      \E models \in {ModelsOf[p], << >>},
         preferred \in {<< >>} \cup {<<m>> : m \in ToSet(ModelsOf[p])} :
            admin' = [b \in Admins |->
                IF b = a
                THEN [pc |-> "apply", kind |-> "plan", alone |-> TRUE,
                      updates |-> BuildLlmPlan(p, models, preferred, strategy),
                      pure |-> Plans = {}
                                  /\ \A k \in ToSet(PlanKeys) : Changing(k) = {}]
                ELSE [admin[b] EXCEPT !.pure = @ /\ admin[b].kind = "put"]]
  BY DEF StartPlan
<1>. DEFINE pure == Plans = {} /\ \A k \in ToSet(PlanKeys) : Changing(k) = {}
<1>2. PICK models \in {ModelsOf[p], << >>},
         preferred \in {<< >>} \cup {<<m>> : m \in ToSet(ModelsOf[p])} :
            admin' = [b \in Admins |->
                IF b = a
                THEN [pc |-> "apply", kind |-> "plan", alone |-> TRUE,
                      updates |-> BuildLlmPlan(p, models, preferred, strategy),
                      pure |-> pure]
                ELSE [admin[b] EXCEPT !.pure = @ /\ admin[b].kind = "put"]]
  BY <1>1
<1>. DEFINE u == BuildLlmPlan(p, models, preferred, strategy)
<1>3. PICK m2 \in OwnModels(p), m3 \in OwnModels(p) : u = ConfigUpdates(p, m2, m3)
  <2>1. IsWholePlan(u, p)
    BY PlansAreBuiltWhole
  <2>. QED BY <2>1 DEF IsWholePlan
<1>. HIDE DEF u, pure
<1>4. /\ admin'[a].pc = "apply" /\ admin'[a].updates = u /\ admin'[a].pure = pure
  BY <1>2 DEF u
<1>5. \A b \in Admins \ {a} :
        /\ admin'[b].pc = admin[b].pc /\ admin'[b].kind = admin[b].kind
        /\ admin'[b].updates = admin[b].updates
        /\ InPlan(b) => ~admin'[b].pure
  <2>1. TAKE b \in Admins \ {a}
  <2>. DEFINE still == admin[b].pure /\ admin[b].kind = "put"
  <2>2. admin'[b] = [admin[b] EXCEPT !.pure = still]
    BY <1>2
  <2>3. admin[b] \in AdminRequest
    BY DEF PlanAll, SyncAll, StartInv, Requests
  <2>. HIDE DEF still
  <2>4. /\ admin'[b].pc = admin[b].pc /\ admin'[b].kind = admin[b].kind
        /\ admin'[b].updates = admin[b].updates /\ admin'[b].pure = still
    BY <2>2, <2>3 DEF AdminRequest
  <2>. QED BY <2>4 DEF InPlan, still
<1>6. ASSUME NEW b \in Admins PROVE PureIsAlone(b)'
  <2>1. CASE b # a
    BY <1>5, <2>1 DEF PureIsAlone, InPlan
  <2>2. CASE b = a
    <3>1. SUFFICES ASSUME pure PROVE PureIsAlone(a)'
      BY <1>4, <2>2 DEF PureIsAlone
    <3>2. ASSUME NEW c \in Admins \ {a}, Touches(c)' PROVE FALSE
      <4>1. Touches(c)
        BY <1>5, <3>2 DEF Touches, InPlan, Writing, KeyOf
      <4>. QED BY <3>1, <4>1 DEF pure, Touches, InPlan, Plans, Changing, Writing
    <3>3. Done(a, p, m2, m3)'
      BY <1>3, <1>4 DEF Done
    <3>4. \A c \in Admins : Touches(c)' => c = a
      BY <3>2
    <3>5. \E q \in Providers : \E n2, n3 \in OwnModels(q) : Done(a, q, n2, n3)'
      BY <3>3
    <3>. QED BY <1>4, <3>4, <3>5 DEF PureIsAlone
  <2>. QED BY <2>1, <2>2
<1>. QED BY <1>6 DEF PlanInv, Unmixed, StartPlan

LEMMA StartPutKeepsPlans ==
    ASSUME PlanAll, NEW a \in Admins, StartPut(a) PROVE PlanInv'
<1>1. PICK k \in PutKeys : \E v \in ValuesOf(k) :
        /\ ApplySetting(a, [IdleAdmin EXCEPT !.updates = << <<k, v>> >>], k, v)
        /\ mixed' = (mixed \/ k \in ToSet(PlanKeys))
  BY DEF StartPut
<1>2. PICK v \in ValuesOf(k) :
        /\ ApplySetting(a, [IdleAdmin EXCEPT !.updates = << <<k, v>> >>], k, v)
        /\ mixed' = (mixed \/ k \in ToSet(PlanKeys))
  BY <1>1
<1>. DEFINE alone == Changing(k) = {}
<1>3. /\ admin'[a].kind = "put" /\ admin'[a].updates = << <<k, v>> >>
  BY <1>2 DEF ApplySetting, IdleAdmin
<1>4. \A b \in Admins \ {a} :
        /\ admin'[b].pc = admin[b].pc /\ admin'[b].kind = admin[b].kind
        /\ admin'[b].updates = admin[b].updates
        /\ admin'[b].pure => admin[b].pure /\ k \notin ToSet(PlanKeys)
        /\ admin[b].alone /\ b \notin Changing(k) => admin'[b].alone
  <2>1. TAKE b \in Admins \ {a}
  <2>. DEFINE still == admin[b].alone /\ b \notin Changing(k)
              pure == admin[b].pure /\ ~("put" = "put" /\ k \in ToSet(PlanKeys))
  <2>2. admin'[b] = [admin[b] EXCEPT !.alone = still, !.pure = pure]
    BY <1>2 DEF ApplySetting, IdleAdmin
  <2>3. admin[b] \in AdminRequest
    BY DEF PlanAll, SyncAll, StartInv, Requests
  <2>. HIDE DEF still, pure
  <2>4. /\ admin'[b].pc = admin[b].pc /\ admin'[b].kind = admin[b].kind
        /\ admin'[b].updates = admin[b].updates /\ admin'[b].pure = pure
        /\ admin'[b].alone = still
    BY <2>2, <2>3 DEF AdminRequest
  <2>. QED BY <2>4 DEF still, pure
<1>5. CASE k \in ToSet(PlanKeys)
  <2>1. \A b \in Admins : ~(InPlan(b)' /\ admin'[b].pure)
    BY <1>3, <1>4, <1>5 DEF InPlan
  <2>. QED BY <1>2, <1>5, <2>1, DisturbedKeepsPlans
<1>6. CASE k \notin ToSet(PlanKeys)
  <2>1. UNCHANGED <<mixed, process, rows>>
    BY <1>2, <1>6 DEF StartPut, PlanAll, SyncAll, StartInv, Tables
  <2>2. \A j \in ToSet(PlanKeys) : memory'[j] = memory[j]
    BY <1>2, <1>6, PlanKeysAreSettings DEF ApplySetting, PlanAll, SyncAll, StartInv, Tables
  <2>3. \A b \in Admins : Touches(b)' => Touches(b)
    <3>1. ~Touches(a)'
      BY <1>3, <1>6 DEF Touches, InPlan, KeyOf
    <3>. QED BY <1>4, <3>1 DEF Touches, InPlan, Writing, KeyOf
  <2>4. ASSUME NEW b \in Admins, InPlan(b)', admin'[b].pure
        PROVE  /\ InPlan(b) /\ admin[b].pure /\ admin'[b].updates = admin[b].updates
               /\ admin'[b].pc = admin[b].pc
               /\ admin[b].pc = "write" /\ admin[b].alone => admin'[b].alone
    <3>1. b # a
      BY <1>3, <2>4 DEF InPlan
    <3>2. InPlan(b) /\ admin[b].pure
      BY <1>4, <2>4, <3>1 DEF InPlan
    <3>3. KeyOf(b) \in ToSet(PlanKeys)
      BY <3>2, BusyRequest DEF InPlan, PlanAll, SyncAll, StartInv, Requests, KeyOf
    <3>4. b \notin Changing(k)
      BY <1>6, <3>3 DEF Changing
    <3>. QED BY <1>4, <3>1, <3>2, <3>4
  <2>. QED BY <2>1, <2>2, <2>3, <2>4, ElsewhereKeepsPlans
<1>. QED BY <1>5, <1>6

\* No other request's plan is undisturbed while one touches its settings.
LEMMA OthersAreDisturbed ==
    ASSUME PlanAll, NEW a \in Admins, Touches(a)
    PROVE  mixed /\ \A b \in Admins \ {a} : ~(InPlan(b) /\ admin[b].pure)
BY DEF PlanAll, PlanInv, Unmixed, PureIsAlone

LEMMA ApplyPlannedKeepsPlans ==
    ASSUME PlanAll, NEW a \in Admins, ApplyPlanned(a) PROVE PlanInv'
<1>. DEFINE r == admin[a]
            k == KeyOf(a)
            v == ValueOf(a)
<1>1. /\ r \in AdminRequest /\ Sound(r) /\ r.pc = "apply" /\ r.kind = "plan"
      /\ InPlan(a) /\ Touches(a) /\ ~Writing(a) /\ mixed
  BY OthersAreDisturbed
     DEF PlanAll, SyncAll, StartInv, Requests, ApplyPlanned, Sound, AdminRequest, InPlan,
         Touches, Writing
<1>2. k \in ToSet(PlanKeys)
  BY <1>1, BusyRequest DEF KeyOf
<1>3. /\ admin'[a].pc = "write" /\ admin'[a].updates = r.updates /\ admin'[a].pure = r.pure
      /\ admin'[a].alone <=> Changing(k) = {}
  <2>. DEFINE alone == Changing(k) = {}
  <2>1. admin'[a] = [r EXCEPT !.pc = "write", !.alone = alone]
    BY DEF ApplyPlanned, ApplySetting
  <2>. HIDE DEF alone, r
  <2>2. /\ admin'[a].pc = "write" /\ admin'[a].updates = r.updates /\ admin'[a].pure = r.pure
        /\ admin'[a].alone = alone
    BY <1>1, <2>1 DEF AdminRequest
  <2>. QED BY <2>2 DEF alone
<1>4. \A b \in Admins \ {a} :
        /\ admin'[b].pc = admin[b].pc /\ admin'[b].kind = admin[b].kind
        /\ admin'[b].updates = admin[b].updates
        /\ admin'[b].pure => admin[b].pure
  <2>1. TAKE b \in Admins \ {a}
  <2>. DEFINE alone == admin[b].alone /\ b \notin Changing(k)
              pure == admin[b].pure /\ ~(r.kind = "put" /\ k \in ToSet(PlanKeys))
  <2>2. admin'[b] = [admin[b] EXCEPT !.alone = alone, !.pure = pure]
    BY DEF ApplyPlanned, ApplySetting
  <2>3. admin[b] \in AdminRequest
    BY DEF PlanAll, SyncAll, StartInv, Requests
  <2>. HIDE DEF alone, pure
  <2>4. /\ admin'[b].pc = admin[b].pc /\ admin'[b].kind = admin[b].kind
        /\ admin'[b].updates = admin[b].updates /\ admin'[b].pure = pure
    BY <2>2, <2>3 DEF AdminRequest
  <2>. QED BY <2>4 DEF pure
<1>5. ASSUME NEW b \in Admins \ {a} PROVE PureIsAlone(b)'
  BY <1>1, <1>4, OthersAreDisturbed DEF PureIsAlone, InPlan
<1>6. PureIsAlone(a)'
  <2>1. SUFFICES ASSUME r.pure PROVE PureIsAlone(a)'
    BY <1>3 DEF PureIsAlone
  <2>2. /\ \A b \in Admins : Touches(b) => b = a
        /\ \E p \in Providers : \E m2, m3 \in OwnModels(p) : Done(a, p, m2, m3)
    BY <1>1, <2>1 DEF PlanAll, PlanInv, PureIsAlone
  <2>3. \A b \in Admins : Touches(b)' => b = a
    BY <1>4, <2>2 DEF Touches, InPlan, Writing, KeyOf
  <2>4. Changing(k) = {}
    BY <1>1, <1>2, <2>2 DEF Changing, Touches, Writing
  <2>5. \A p \in Providers : \A m2, m3 \in OwnModels(p) : Done(a, p, m2, m3) => Done(a, p, m2, m3)'
    <3>1. SUFFICES ASSUME NEW p \in Providers, NEW m2 \in OwnModels(p), NEW m3 \in OwnModels(p),
                          Done(a, p, m2, m3)
                   PROVE  Done(a, p, m2, m3)'
      OBVIOUS
    <3>2. /\ memory' = [memory EXCEPT ![k] = v] /\ UNCHANGED rows
          /\ memory \in [SettingKeys -> AllValues]
      BY DEF ApplyPlanned, ApplySetting, dataVars, PlanAll, SyncAll, StartInv, Tables
    <3>. HIDE DEF k, v
    <3>3. CASE admin[a].updates = ConfigUpdates(p, m2, m3)
      BY <1>3, <3>3 DEF Done
    <3>4. CASE admin[a].updates = ModelUpdates(p, m2, m3) /\ Stored(1, p)
      <4>1. k = PlanKeys[2]
        BY <3>4 DEF k, KeyOf, ModelUpdates
      <4>2. Stored(1, p)'
        BY <3>2, <3>4, <4>1, TheKeys DEF Stored
      <4>. QED BY <1>3, <3>4, <4>2 DEF Done
    <3>5. CASE admin[a].updates = << <<PlanKeys[3], m3>> >> /\ Stored(1, p) /\ Stored(2, m2)
      <4>1. k = PlanKeys[3]
        BY <3>5 DEF k, KeyOf
      <4>2. Stored(1, p)' /\ Stored(2, m2)'
        BY <3>2, <3>5, <4>1, TheKeys DEF Stored
      <4>. QED BY <1>3, <3>5, <4>2 DEF Done
    <3>. QED BY <3>1, <3>3, <3>4, <3>5 DEF Done
  <2>6. \E p \in Providers : \E m2, m3 \in OwnModels(p) : Done(a, p, m2, m3)'
    BY <2>2, <2>5
  <2>. QED BY <1>3, <2>3, <2>4, <2>6 DEF PureIsAlone
<1>7. Unmixed'
  BY <1>1 DEF Unmixed, ApplyPlanned, dataVars
<1>. QED BY <1>5, <1>6, <1>7 DEF PlanInv

\* Requests that go on or end, with what happens to the tables.
LEMMA OneRequestKeepsPlans ==
    ASSUME PlanAll, NEW a \in Admins, NEW r, SetAdmin(a, r), UNCHANGED <<mixed, process, memory>>,
           r.pc = "idle" \/ (r.kind = "put" /\ Writing(a) /\ r.updates = admin[a].updates),
           UNCHANGED rows \/ (admin[a].kind = "put" /\ Writing(a) /\ SetGlobalConfig(a))
    PROVE  PlanInv'
<1>1. /\ admin \in [Admins -> AdminRequest] /\ admin'[a] = r
      /\ \A b \in Admins \ {a} : admin'[b] = admin[b]
  BY DEF PlanAll, SyncAll, StartInv, Requests, SetAdmin
<1>2. ~InPlan(a)'
  <2>1. CASE r.pc = "idle"
    BY <1>1, <2>1 DEF InPlan
  <2>2. CASE r.kind = "put"
    BY <1>1, <2>2 DEF InPlan
  <2>. QED BY <2>1, <2>2
<1>3. \A b \in Admins : InPlan(b)' => b # a /\ InPlan(b) /\ admin'[b] = admin[b]
  BY <1>1, <1>2 DEF InPlan
<1>4. \A b \in Admins : Touches(b)' => Touches(b)
  <2>1. Touches(a)' => Touches(a)
    BY <1>1, <1>2 DEF Touches, Writing, KeyOf
  <2>. QED BY <1>1, <2>1 DEF Touches, Writing, KeyOf, InPlan
<1>5. CASE \A k \in ToSet(PlanKeys) : rows'[k] = rows[k]
  BY <1>3, <1>4, <1>5, ElsewhereKeepsPlans
<1>6. CASE ~ \A k \in ToSet(PlanKeys) : rows'[k] = rows[k]
  <2>1. /\ admin[a].kind = "put" /\ Writing(a) /\ SetGlobalConfig(a)
    BY <1>6
  <2>2. KeyOf(a) \in ToSet(PlanKeys)
    BY <1>6, <2>1, PlanKeysAreSettings DEF SetGlobalConfig, PlanAll, SyncAll, StartInv, Tables
  <2>3. Touches(a)
    BY <2>1, <2>2 DEF Touches
  <2>4. mixed' /\ \A b \in Admins : ~(InPlan(b)' /\ admin'[b].pure)
    BY <1>3, <2>3, OthersAreDisturbed
  <2>. QED BY <2>4, DisturbedKeepsPlans
<1>. QED BY <1>5, <1>6

LEMMA PutsKeepPlans ==
    ASSUME PlanAll, NEW a \in Admins, WritePut(a) \/ FinishPut(a) \/ WriteRaises(a)
    PROVE  PlanInv'
<1>1. CASE WritePut(a)
  <2>. DEFINE r == [admin[a] EXCEPT !.pc = "finish"]
  <2>1. SetAdmin(a, r) /\ SetGlobalConfig(a) /\ UNCHANGED <<mixed, process, memory>>
    BY <1>1 DEF WritePut, serverVars
  <2>2. admin[a] \in AdminRequest /\ admin[a].kind = "put" /\ Writing(a)
    BY <1>1 DEF WritePut, PlanAll, SyncAll, StartInv, Requests, Writing
  <2>3. r.kind = "put" /\ r.updates = admin[a].updates
    BY <2>2 DEF AdminRequest
  <2>. HIDE DEF r
  <2>. QED BY <2>1, <2>2, <2>3, OneRequestKeepsPlans
<1>2. CASE FinishPut(a)
  BY <1>2, OneRequestKeepsPlans DEF FinishPut, IdleAdmin, dataVars
<1>3. CASE WriteRaises(a)
  BY <1>3, OneRequestKeepsPlans DEF WriteRaises, IdleAdmin, dataVars, serverVars
<1>. QED BY <1>1, <1>2, <1>3

\* The write of an undisturbed plan takes place and is one more that is done.
LEMMA PureWrite ==
    ASSUME PlanAll, NEW a \in Admins, WritePlanned(a), admin[a].pure
    PROVE  /\ \A b \in Admins : Touches(b) => b = a
           /\ KeyOf(a) \in SettingKeys
           /\ rows' = [rows EXCEPT ![KeyOf(a)] = ValueOf(a)]
           /\ memory[KeyOf(a)] = ValueOf(a)
           /\ \E p \in Providers : \E m2, m3 \in OwnModels(p) : Done(a, p, m2, m3)
<1>1. InPlan(a) /\ Writing(a) /\ admin[a].pc = "write" /\ SetGlobalConfig(a)
  BY DEF WritePlanned, InPlan, Writing
<1>2. /\ \A b \in Admins : Touches(b) => b = a
      /\ admin[a].alone
      /\ \E p \in Providers : \E m2, m3 \in OwnModels(p) : Done(a, p, m2, m3)
  BY <1>1 DEF PlanAll, PlanInv, PureIsAlone
<1>3. memory[KeyOf(a)] = ValueOf(a)
  BY <1>1, <1>2 DEF PlanAll, SyncAll, SyncInv, HoldsItsKey
<1>4. KeyOf(a) \in SettingKeys
  BY <1>1, BusyRequest DEF PlanAll, SyncAll, StartInv, Requests, KeyOf, InPlan
<1>. QED BY <1>1, <1>2, <1>3, <1>4 DEF SetGlobalConfig

LEMMA WhatIsLeft ==
    ASSUME NEW p, NEW m2, NEW m3
    PROVE  /\ Tail(ConfigUpdates(p, m2, m3)) = ModelUpdates(p, m2, m3)
           /\ Tail(ModelUpdates(p, m2, m3)) = << <<PlanKeys[3], m3>> >>
           /\ Len(ConfigUpdates(p, m2, m3)) = 3 /\ Len(ModelUpdates(p, m2, m3)) = 2
           /\ Len(<< <<PlanKeys[3], m3>> >>) = 1
           /\ ConfigUpdates(p, m2, m3)[1] = <<PlanKeys[1], p>>
           /\ ModelUpdates(p, m2, m3)[1] = <<PlanKeys[2], m2>>
BY DEF ConfigUpdates, ModelUpdates

LEMMA WritePlannedKeepsPlans ==
    ASSUME PlanAll, NEW a \in Admins, WritePlanned(a) PROVE PlanInv'
<1>1. /\ InPlan(a) /\ Touches(a) /\ mixed
      /\ admin \in [Admins -> AdminRequest]
      /\ \A b \in Admins \ {a} : admin'[b] = admin[b]
  <2>1. InPlan(a) /\ Touches(a) /\ mixed
    BY OthersAreDisturbed DEF WritePlanned, InPlan, Touches
  <2>2. admin \in [Admins -> AdminRequest]
    BY DEF PlanAll, SyncAll, StartInv, Requests
  <2>. QED BY <2>1, <2>2 DEF WritePlanned, SetAdmin
<1>2. ASSUME NEW b \in Admins \ {a}, InPlan(b)', admin'[b].pure PROVE FALSE
  BY <1>1, <1>2, OthersAreDisturbed DEF InPlan
<1>3. UNCHANGED <<process, memory>>
  BY DEF WritePlanned
<1>4. CASE Len(admin[a].updates) = 1
  <2>1. SetAdmin(a, IdleAdmin) /\ mixed' = ~admin[a].pure
    BY <1>4 DEF WritePlanned
  <2>2. admin'[a].pc = "idle"
    BY <1>1, <2>1 DEF SetAdmin, IdleAdmin
  <2>3. \A b \in Admins : ~(InPlan(b)' /\ admin'[b].pure)
    BY <1>2, <2>2 DEF InPlan
  <2>4. CASE ~admin[a].pure
    BY <2>1, <2>3, <2>4, DisturbedKeepsPlans
  <2>5. CASE admin[a].pure
    <3>1. /\ \A b \in Admins : Touches(b) => b = a
          /\ KeyOf(a) \in SettingKeys
          /\ rows' = [rows EXCEPT ![KeyOf(a)] = ValueOf(a)]
          /\ memory[KeyOf(a)] = ValueOf(a)
          /\ \E p \in Providers : \E m2, m3 \in OwnModels(p) : Done(a, p, m2, m3)
      BY <2>5, PureWrite
    <3>2. PICK p \in Providers : \E m2, m3 \in OwnModels(p) : Done(a, p, m2, m3)
      BY <3>1
    <3>3. PICK m2 \in OwnModels(p), m3 \in OwnModels(p) : Done(a, p, m2, m3)
      BY <3>2
    <3>4. admin[a].updates = << <<PlanKeys[3], m3>> >> /\ Stored(1, p) /\ Stored(2, m2)
      <4>1. Len(ConfigUpdates(p, m2, m3)) = 3 /\ Len(ModelUpdates(p, m2, m3)) = 2
        BY WhatIsLeft
      <4>. QED BY <1>4, <3>3, <4>1 DEF Done
    <3>5. KeyOf(a) = PlanKeys[3] /\ ValueOf(a) = m3
      BY <3>4 DEF KeyOf, ValueOf
    <3>6. rows \in [SettingKeys -> AllValues \cup {NoRow}]
      BY DEF PlanAll, SyncAll, StartInv, Tables
    <3>7. /\ rows'[PlanKeys[1]] = p /\ rows'[PlanKeys[2]] = m2 /\ rows'[PlanKeys[3]] = m3
          /\ memory[PlanKeys[1]] = p /\ memory[PlanKeys[2]] = m2 /\ memory[PlanKeys[3]] = m3
      BY <3>1, <3>4, <3>5, <3>6, TheKeys DEF Stored
    <3>8. p # NoRow /\ m2 # NoRow /\ m3 # NoRow
      <4>1. m2 \in Models /\ m3 \in Models
        BY OwnModelsAreModels
      <4>2. \A i \in 1..3 : PlanKeys[i] \in SettingKeys
        BY TheKeys, PlanKeysAreSettings
      <4>. QED BY <4>1, <4>2, Values
    <3>9. /\ RowFor(PlanKeys[1])' = p /\ RowFor(PlanKeys[2])' = m2 /\ RowFor(PlanKeys[3])' = m3
      BY <3>7, <3>8 DEF RowFor
    <3>10. WholeRows'
      <4>1. \A i \in 2..3 : i = 2 \/ i = 3
        OBVIOUS
      <4>. QED BY <3>9, <4>1 DEF WholeRows
    <3>11. \A k \in ToSet(PlanKeys) : memory'[k] = rows'[k]
      BY <1>3, <3>7, TheKeys
    <3>12. \A b \in Admins : ~Touches(b)'
      BY <1>1, <2>2, <3>1 DEF Touches, InPlan, Writing, KeyOf
    <3>. QED BY <2>3, <3>10, <3>11, <3>12 DEF PlanInv, Unmixed, PureIsAlone
  <2>. QED BY <2>4, <2>5
<1>5. CASE Len(admin[a].updates) # 1
  <2>. DEFINE r == [admin[a] EXCEPT !.pc = "apply", !.updates = Tail(@)]
  <2>1. SetAdmin(a, r) /\ UNCHANGED mixed
    BY <1>5 DEF WritePlanned
  <2>2. /\ admin'[a].pc = "apply" /\ admin'[a].updates = Tail(admin[a].updates)
        /\ admin'[a].pure = admin[a].pure
    BY <1>1, <2>1 DEF SetAdmin, AdminRequest
  <2>3. CASE ~admin[a].pure
    <3>1. \A b \in Admins : ~(InPlan(b)' /\ admin'[b].pure)
      BY <1>2, <2>2, <2>3
    <3>. QED BY <1>1, <2>1, <3>1, DisturbedKeepsPlans
  <2>4. CASE admin[a].pure
    <3>1. /\ \A b \in Admins : Touches(b) => b = a
          /\ KeyOf(a) \in SettingKeys
          /\ rows' = [rows EXCEPT ![KeyOf(a)] = ValueOf(a)]
          /\ memory[KeyOf(a)] = ValueOf(a)
          /\ \E p \in Providers : \E m2, m3 \in OwnModels(p) : Done(a, p, m2, m3)
      BY <2>4, PureWrite
    <3>2. rows \in [SettingKeys -> AllValues \cup {NoRow}]
      BY DEF PlanAll, SyncAll, StartInv, Tables
    <3>3. \A p \in Providers : \A m2, m3 \in OwnModels(p) :
              Done(a, p, m2, m3) => Done(a, p, m2, m3)'
      <4>1. SUFFICES ASSUME NEW p \in Providers, NEW m2 \in OwnModels(p),
                            NEW m3 \in OwnModels(p), Done(a, p, m2, m3)
                     PROVE  Done(a, p, m2, m3)'
        OBVIOUS
      <4>2. CASE admin[a].updates = ConfigUpdates(p, m2, m3)
        <5>1. KeyOf(a) = PlanKeys[1] /\ ValueOf(a) = p
          BY <4>2, WhatIsLeft DEF KeyOf, ValueOf
        <5>2. Stored(1, p)'
          BY <1>3, <3>1, <3>2, <5>1 DEF Stored
        <5>. QED BY <2>2, <4>2, <5>2, WhatIsLeft DEF Done
      <4>3. CASE admin[a].updates = ModelUpdates(p, m2, m3) /\ Stored(1, p)
        <5>1. KeyOf(a) = PlanKeys[2] /\ ValueOf(a) = m2
          BY <4>3, WhatIsLeft DEF KeyOf, ValueOf
        <5>2. Stored(1, p)' /\ Stored(2, m2)'
          BY <1>3, <3>1, <3>2, <4>3, <5>1, TheKeys DEF Stored
        <5>. QED BY <2>2, <4>3, <5>2, WhatIsLeft DEF Done
      <4>4. CASE admin[a].updates = << <<PlanKeys[3], m3>> >>
        BY <1>5, <4>4, WhatIsLeft
      <4>. QED BY <4>1, <4>2, <4>3, <4>4 DEF Done
    <3>4. \E p \in Providers : \E m2, m3 \in OwnModels(p) : Done(a, p, m2, m3)'
      BY <3>1, <3>3
    <3>5. \A b \in Admins : Touches(b)' => b = a
      BY <1>1, <3>1 DEF Touches, InPlan, Writing, KeyOf
    <3>6. PureIsAlone(a)'
      BY <2>2, <3>4, <3>5 DEF PureIsAlone
    <3>7. \A b \in Admins \ {a} : PureIsAlone(b)'
      BY <1>2 DEF PureIsAlone
    <3>. QED BY <1>1, <2>1, <3>6, <3>7 DEF PlanInv, Unmixed
  <2>. QED BY <2>3, <2>4
<1>. QED BY <1>4, <1>5

LEMMA PlanAllIsKept == PlanAll /\ [SettingsNext]_settingsVars => PlanAll'
<1>. SUFFICES ASSUME PlanAll, [SettingsNext]_settingsVars PROVE PlanAll'
  OBVIOUS
<1>1. SyncAll' /\ StartInv' /\ SyncInv'
  BY SyncAllIsKept DEF PlanAll, SyncAll
<1>2. PlanInv'
  <2>1. CASE \E a \in Admins : AdminStep(a)
    BY <2>1, StartPlanKeepsPlans, StartPutKeepsPlans, ApplyPlannedKeepsPlans, PutsKeepPlans,
       WritePlannedKeepsPlans DEF AdminStep
  <2>2. CASE UNCHANGED settingsVars
    <3>1. UNCHANGED <<mixed, process, rows, memory, admin>>
      BY <2>2 DEF settingsVars
    <3>2. \A b \in Admins : Touches(b)' = Touches(b) /\ InPlan(b)' = InPlan(b)
      BY <3>1 DEF Touches, InPlan, Writing, KeyOf
    <3>. QED BY <3>1, <3>2, ElsewhereKeepsPlans
  <2>. QED BY <1>1, <2>1, <2>2, ServerKeepsPlans, FirstCacheUseKeepsPlans DEF SettingsNext
<1>. QED BY <1>1, <1>2 DEF PlanAll

LEMMA PlanAllHolds == SettingsSpec => []PlanAll
<1>1. SettingsInit => PlanAll
  BY StartBegins, SyncBegins, PlansBegin DEF PlanAll, SyncAll
<1>. QED BY <1>1, PlanAllIsKept, PTL DEF SettingsSpec

\* The optimizer is given a provider and models of that provider, whatever
\* overlaps, fails or is restarted: apply_llm_autoconfigure applies and writes a
\* plan key by key, and only a plan that nothing disturbed is taken as whole.
THEOREM WholePlans == SettingsSpec => []PlansAreWhole
<1>1. PlanAll => PlansAreWhole
  <2>1. SUFFICES ASSUME PlanAll, process = "serving", ~mixed PROVE PlansAreWhole
    BY DEF PlansAreWhole
  <2>2. \A k \in ToSet(PlanKeys) : RowFor(k) = memory[k]
    BY <2>1, PlanKeysAreSettings DEF PlanAll, PlanInv, Unmixed, SyncAll, StartInv, Begun, RowFor
  <2>3. \A i \in 1..3 : RowFor(PlanKeys[i]) = memory[PlanKeys[i]]
    BY <2>2, TheKeys
  <2>4. WholeRows
    BY <2>1 DEF PlanAll, PlanInv, Unmixed
  <2>. QED BY <2>3, <2>4, TheKeys DEF WholeRows, PlansAreWhole, OwnModels
<1>. QED BY <1>1, PlanAllHolds, PTL
=============================================================================
