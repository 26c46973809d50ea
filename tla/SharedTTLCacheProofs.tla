------------------------ MODULE SharedTTLCacheProofs ------------------------
(***************************************************************************)
(* The invariants of SharedTTLCache, for every number of threads and keys  *)
(* and every limit.                                                        *)
(***************************************************************************)
EXTENDS SharedTTLCache, TLAPS

-----------------------------------------------------------------------------
(* The table of entries.                                                   *)

\* What CacheTypeOK says of entries, of any table.
Table(t) ==
    /\ DOMAIN t \subseteq CacheKeys
    /\ t \in [DOMAIN t -> CacheEntry]
    /\ \A k \in DOMAIN t : t[k].later \subseteq DOMAIN t \ {k}
    /\ \A i, j, k \in DOMAIN t :
          /\ i # j => (j \in t[i].later <=> i \notin t[j].later)
          /\ j \in t[i].later /\ k \in t[j].later => k \in t[i].later

LEMMA TableOfEntries ==
    Table(entries) <=>
        /\ DOMAIN entries \subseteq CacheKeys
        /\ entries \in [DOMAIN entries -> CacheEntry]
        /\ \A k \in DOMAIN entries : entries[k].later \subseteq DOMAIN entries \ {k}
        /\ LaterIsLinear
BY DEF Table, LaterIsLinear

\* What a table says of a key, apart from the order of the keys.
SameEntry(e, f) == e.value = f.value /\ e.late = f.late

LEMMA EntryFields ==
    ASSUME NEW e \in CacheEntry, NEW S \in SUBSET CacheKeys
    PROVE  /\ [e EXCEPT !.later = S] \in CacheEntry
           /\ [e EXCEPT !.later = S].later = S
           /\ SameEntry([e EXCEPT !.later = S], e)
BY DEF CacheEntry, SameEntry

\* Dropping keys leaves a table with the same entries.
LEMMA KeepingTable ==
    ASSUME NEW t, Table(t), NEW keys, keys \subseteq DOMAIN t
    PROVE  /\ Table(Keeping(t, keys))
           /\ DOMAIN Keeping(t, keys) = keys
           /\ \A k \in keys : SameEntry(Keeping(t, keys)[k], t[k])
<1> DEFINE u == Keeping(t, keys)
<1>1. DOMAIN u = keys
    BY DEF Keeping
<1>2. ASSUME NEW k \in keys
      PROVE  /\ u[k] \in CacheEntry
             /\ u[k].later = t[k].later \cap keys
             /\ SameEntry(u[k], t[k])
    <2>1. t[k] \in CacheEntry /\ t[k].later \cap keys \in SUBSET CacheKeys
        BY DEF Table
    <2>2. u[k] = [t[k] EXCEPT !.later = t[k].later \cap keys]
        BY DEF Keeping
    <2> HIDE DEF u
    <2> QED BY <2>1, <2>2, EntryFields
<1>3. u \in [keys -> CacheEntry]
    <2>1. u = [k \in keys |-> u[k]]
        BY DEF Keeping
    <2> HIDE DEF u
    <2> QED BY <1>2, <2>1
<1> HIDE DEF u
<1>4. \A k \in keys : u[k].later \subseteq keys \ {k}
    BY <1>2 DEF Table
<1>5. \A i, j, k \in keys :
          /\ i # j => (j \in u[i].later <=> i \notin u[j].later)
          /\ j \in u[i].later /\ k \in u[j].later => k \in u[i].later
    BY <1>2 DEF Table
<1>6. keys \subseteq CacheKeys
    BY DEF Table
<1>7. Table(u)
    BY <1>1, <1>3, <1>4, <1>5, <1>6 DEF Table
<1> QED BY <1>1, <1>2, <1>7 DEF u

\* A key that gets the next number is later than the others.
LEMMA TouchedTable ==
    ASSUME NEW t, Table(t), NEW k \in DOMAIN t
    PROVE  /\ Table(Touched(t, k))
           /\ DOMAIN Touched(t, k) = DOMAIN t
           /\ \A j \in DOMAIN t : SameEntry(Touched(t, k)[j], t[j])
<1> DEFINE u == Touched(t, k)
           D == DOMAIN t
<1>1. DOMAIN u = D
    BY DEF Touched
<1>2. ASSUME NEW j \in D
      PROVE  /\ u[j] \in CacheEntry
             /\ u[j].later = IF j = k THEN {} ELSE t[j].later \cup {k}
             /\ SameEntry(u[j], t[j])
    <2> DEFINE l == IF j = k THEN {} ELSE t[j].later \cup {k}
    <2>1. t[j] \in CacheEntry /\ l \in SUBSET CacheKeys
        BY DEF Table
    <2>2. u[j] = [t[j] EXCEPT !.later = l]
        BY DEF Touched
    <2> HIDE DEF u, l
    <2>3. u[j] \in CacheEntry /\ u[j].later = l /\ SameEntry(u[j], t[j])
        BY <2>1, <2>2, EntryFields
    <2> QED BY <2>3 DEF l
<1>3. u \in [D -> CacheEntry]
    <2>1. u = [j \in D |-> u[j]]
        BY DEF Touched
    <2> HIDE DEF u
    <2> QED BY <1>2, <2>1
<1> HIDE DEF u
<1> HIDE DEF D
<1>4. /\ \A j \in D : u[j].later = IF j = k THEN {} ELSE t[j].later \cup {k}
      /\ \A j \in DOMAIN t : t[j].later \subseteq DOMAIN t \ {j}
      /\ \A i, j \in DOMAIN t : i # j => (j \in t[i].later <=> i \notin t[j].later)
      /\ \A i, j, l \in DOMAIN t :
            j \in t[i].later /\ l \in t[j].later => l \in t[i].later
      /\ D = DOMAIN t /\ k \in D
    BY <1>2 DEF Table, D
<1>10. ASSUME NEW j \in D, NEW x
       PROVE  x \in u[j].later <=> j # k /\ (x = k \/ x \in t[j].later)
    <2>1. CASE j = k
        <3>1. u[j].later = {}
            BY <1>4, <2>1
        <3> QED BY <2>1, <3>1
    <2>2. CASE j # k
        <3>1. u[j].later = t[j].later \cup {k}
            BY <1>4, <2>2
        <3> QED BY <2>2, <3>1
    <2> QED BY <2>1, <2>2
<1>5. \A j \in D : u[j].later \subseteq D \ {j}
    BY <1>4, <1>10
<1>6. \A i, j \in D : i # j => (j \in u[i].later <=> i \notin u[j].later)
    BY <1>4, <1>10
<1>7. \A i, j, l \in D : j \in u[i].later /\ l \in u[j].later => l \in u[i].later
    BY <1>4, <1>10
<1>8. D \subseteq CacheKeys
    BY DEF Table, D
<1>9. Table(u)
    BY <1>1, <1>3, <1>5, <1>6, <1>7, <1>8 DEF Table
<1> QED BY <1>1, <1>2, <1>9 DEF u, D

\* Inserting a key: it is later than the others, too.
LEMMA WithTable ==
    ASSUME NEW t, Table(t), NEW k \in CacheKeys, k \notin DOMAIN t,
           NEW e \in CacheEntry
    PROVE  LET u == Touched(With(t, k, e), k)
           IN  /\ Table(u)
               /\ DOMAIN u = DOMAIN t \cup {k}
               /\ \A j \in DOMAIN t : SameEntry(u[j], t[j])
               /\ SameEntry(u[k], e)
<1> DEFINE w == With(t, k, e)
           u == Touched(w, k)
           D == DOMAIN t \cup {k}
<1>1. DOMAIN u = D /\ DOMAIN w = D
    BY DEF Touched, With
<1>2. \A j \in D : w[j] = IF j = k THEN e ELSE t[j]
    BY DEF With
<1>3. ASSUME NEW j \in D
      PROVE  /\ u[j] \in CacheEntry
             /\ u[j].later = IF j = k THEN {} ELSE t[j].later \cup {k}
             /\ SameEntry(u[j], w[j])
    <2> DEFINE l == IF j = k THEN {} ELSE w[j].later \cup {k}
    <2>1. w[j] \in CacheEntry /\ l \in SUBSET CacheKeys
        BY <1>2 DEF Table
    <2>2. u[j] = [w[j] EXCEPT !.later = l]
        BY DEF Touched, With
    <2>3. l = IF j = k THEN {} ELSE t[j].later \cup {k}
        BY <1>2
    <2> HIDE DEF u, w, l
    <2>4. u[j] \in CacheEntry /\ u[j].later = l /\ SameEntry(u[j], w[j])
        BY <2>1, <2>2, EntryFields
    <2> QED BY <2>3, <2>4
<1>4. u \in [D -> CacheEntry]
    <2>1. u = [j \in D |-> u[j]]
        BY DEF Touched, With
    <2> HIDE DEF u, w
    <2> QED BY <1>3, <2>1
<1> HIDE DEF u, w
<1> HIDE DEF D
<1>5. /\ \A j \in D : u[j].later = IF j = k THEN {} ELSE t[j].later \cup {k}
      /\ \A j \in DOMAIN t : t[j].later \subseteq DOMAIN t \ {j}
      /\ \A i, j \in DOMAIN t : i # j => (j \in t[i].later <=> i \notin t[j].later)
      /\ \A i, j, l \in DOMAIN t :
            j \in t[i].later /\ l \in t[j].later => l \in t[i].later
      /\ D = DOMAIN t \cup {k} /\ k \notin DOMAIN t
    BY <1>3 DEF Table, D
<1>13. ASSUME NEW j \in D, NEW x
       PROVE  x \in u[j].later <=> j # k /\ (x = k \/ x \in t[j].later)
    <2>1. CASE j = k
        <3>1. u[j].later = {}
            BY <1>5, <2>1
        <3> QED BY <2>1, <3>1
    <2>2. CASE j # k
        <3>1. u[j].later = t[j].later \cup {k}
            BY <1>5, <2>2
        <3> QED BY <2>2, <3>1
    <2> QED BY <2>1, <2>2
<1>6. \A j \in D : u[j].later \subseteq D \ {j}
    BY <1>5, <1>13
<1>7. \A i, j \in D : i # j => (j \in u[i].later <=> i \notin u[j].later)
    BY <1>5, <1>13
<1>11. \A i, j, l \in D : j \in u[i].later /\ l \in u[j].later => l \in u[i].later
    BY <1>5, <1>13
<1>12. D \subseteq CacheKeys
    BY DEF Table, D
<1>8. Table(u)
    BY <1>1, <1>4, <1>6, <1>7, <1>11, <1>12 DEF Table
<1>9. ASSUME NEW j \in DOMAIN t PROVE SameEntry(u[j], t[j])
    <2>1. w[j] = t[j] /\ j \in D
        BY <1>2, <1>5
    <2> QED BY <1>3, <2>1
<1>10. SameEntry(u[k], e)
    <2>1. w[k] = e /\ k \in D
        BY <1>2, <1>5
    <2> QED BY <1>3, <2>1
<1> QED BY <1>1, <1>8, <1>9, <1>10 DEF u, w, D

\* What an insertion leaves: the new entry, perhaps, and some of the others.
LEMMA InsertTable ==
    ASSUME Table(entries), NEW k \in CacheKeys, NEW e \in CacheEntry, Insert(k, e)
    PROVE  /\ Table(entries')
           /\ \A j \in DOMAIN entries' :
                 \/ j = k /\ SameEntry(entries'[j], e)
                 \/ j \in DOMAIN entries /\ SameEntry(entries'[j], entries[j])
<1>1. PICK pruned \in SUBSET DOMAIN entries :
          LET others == Keeping(entries, DOMAIN entries \ (pruned \cup {k}))
          IN  entries' = Evicted(Touched(With(others, k, e), k))
    BY DEF Insert
<1> DEFINE rest == DOMAIN entries \ (pruned \cup {k})
           others == Keeping(entries, rest)
           u == Touched(With(others, k, e), k)
           kept == {j \in DOMAIN u : Cardinality(u[j].later) < MaxEntries}
<1>2. /\ Table(others)
      /\ DOMAIN others = rest
      /\ \A j \in rest : SameEntry(others[j], entries[j])
    BY KeepingTable
<1>3. entries' = Keeping(u, kept)
    BY <1>1 DEF Evicted
<1>4. /\ Table(u)
      /\ DOMAIN u = rest \cup {k}
      /\ \A j \in rest : SameEntry(u[j], others[j])
      /\ SameEntry(u[k], e)
    <2>1. k \notin rest
        OBVIOUS
    <2> HIDE DEF others, rest
    <2> QED BY <1>2, <2>1, WithTable
<1>5. kept \subseteq DOMAIN u
    OBVIOUS
<1> HIDE DEF u, others, kept
<1>6. /\ Table(entries')
      /\ DOMAIN entries' = kept
      /\ \A j \in kept : SameEntry(entries'[j], u[j])
    BY <1>3, <1>4, <1>5, KeepingTable
<1>7. ASSUME NEW j \in kept
      PROVE  \/ j = k /\ SameEntry(entries'[j], e)
             \/ j \in DOMAIN entries /\ SameEntry(entries'[j], entries[j])
    BY <1>2, <1>4, <1>5, <1>6 DEF SameEntry
<1> QED BY <1>6, <1>7

-----------------------------------------------------------------------------
(* What the threads do.                                                    *)

CallTypes ==
    /\ inflight \in [CacheKeys -> CacheThreads \cup {NoThread}]
    /\ call \in [CacheThreads -> CacheCall]
    /\ source \in Versions
    /\ enabled \in BOOLEAN
    /\ clearedAt \in [CacheKeys -> Versions]

LEMMA CacheTypes == CacheTypeOK <=> Table(entries) /\ CallTypes
BY TableOfEntries DEF CacheTypeOK, CallTypes

LEMMA VersionNumbers == Versions \subseteq Nat /\ None \in Versions
BY CacheAssumption DEF Versions, None

LEMMA NewCalls ==
    ASSUME NEW k \in CacheKeys, NEW pc \in {"direct", "factory"}
    PROVE  [IdleCall EXCEPT !.pc = pc, !.key = k] \in
               {c \in CacheCall : c.pc = pc /\ c.key = k /\ ~c.orphaned}
BY VersionNumbers DEF IdleCall, CacheCall

LEMMA IdleCallType == IdleCall \in CacheCall /\ IdleCall.pc = "idle"
BY VersionNumbers DEF IdleCall, CacheCall

\* A step that sets the call of one thread.
LEMMA OneCall ==
    ASSUME CallTypes, NEW t \in CacheThreads, NEW r \in CacheCall,
           call' = [call EXCEPT ![t] = r]
    PROVE  /\ call' \in [CacheThreads -> CacheCall]
           /\ call'[t] = r
           /\ \A u \in CacheThreads : u # t => call'[u] = call[u]
BY DEF CallTypes

WaitsFor(u, t) == call[u].pc = "wait" /\ call[u].owner = t

Finished(t) ==
    /\ call' \in [CacheThreads -> CacheCall]
    /\ inflight' = [inflight EXCEPT ![call[t].key] = NoThread]
    /\ inflight' \in [CacheKeys -> CacheThreads \cup {NoThread}]
    /\ call'[t] = IdleCall
    /\ \A u \in CacheThreads \ {t} :
          /\ WaitsFor(u, t) => call'[u].pc = "woken"
          /\ ~WaitsFor(u, t) =>
                /\ call'[u].pc = call[u].pc
                /\ call'[u].key = call[u].key
                /\ call'[u].owner = call[u].owner
                /\ call'[u].value = call[u].value
                /\ call'[u].orphaned =
                      IF inflight[call[t].key] = u THEN TRUE ELSE call[u].orphaned

\* The end of a call: those that wait for it go on, the others keep their place.
LEMMA FinishCalls ==
    ASSUME CallTypes, NEW t \in CacheThreads, NEW failed \in BOOLEAN,
           Finish(t, failed), call[t].key \in CacheKeys,
           \A u \in CacheThreads : inflight[call[t].key] = u => Working(u)
    PROVE  Finished(t)
<1> DEFINE k == call[t].key
           woken(u) == [call[u] EXCEPT !.pc = "woken", !.error = failed,
                                       !.value = IF failed THEN None ELSE call[t].value]
           orphan(u) == [call[u] EXCEPT !.orphaned = TRUE]
<1>1. ASSUME NEW u \in CacheThreads
      PROVE  /\ call[u] \in CacheCall /\ IdleCall \in CacheCall
             /\ woken(u) \in CacheCall /\ woken(u).pc = "woken"
             /\ orphan(u) \in CacheCall
             /\ orphan(u).pc = call[u].pc
             /\ orphan(u).key = call[u].key
             /\ orphan(u).owner = call[u].owner
             /\ orphan(u).value = call[u].value
             /\ orphan(u).orphaned = TRUE
    <2>1. call[u] \in CacheCall /\ call[t].value \in Versions
        BY DEF CallTypes, CacheCall
    <2> QED BY <2>1, VersionNumbers, IdleCallType DEF CacheCall
<1>2. call' = [u \in CacheThreads |->
              CASE u = t -> IdleCall
                [] u # t /\ call[u].pc = "wait" /\ call[u].owner = t -> woken(u)
                [] u # t /\ inflight[k] = u -> orphan(u)
                [] OTHER -> call[u]]
    BY DEF Finish
<1> HIDE DEF woken, orphan
<1>3. call'[t] = IdleCall
    BY <1>2
<1>4. ASSUME NEW u \in CacheThreads \ {t}
      PROVE  /\ WaitsFor(u, t) => call'[u] = woken(u)
             /\ ~WaitsFor(u, t) =>
                   call'[u] = IF inflight[k] = u THEN orphan(u) ELSE call[u]
    <2>1. WaitsFor(u, t) => inflight[k] # u
        BY DEF WaitsFor, Working
    <2> QED BY <1>2, <2>1 DEF WaitsFor
<1>5. call' \in [CacheThreads -> CacheCall]
    <2>1. \A u \in CacheThreads : call'[u] \in CacheCall
        BY <1>1, <1>3, <1>4
    <2>2. call' = [u \in CacheThreads |-> call'[u]]
        BY <1>2
    <2> QED BY <2>1, <2>2
<1>6. /\ inflight' = [inflight EXCEPT ![k] = NoThread]
      /\ inflight' \in [CacheKeys -> CacheThreads \cup {NoThread}]
    BY DEF Finish, CallTypes
<1>7. ASSUME NEW u \in CacheThreads \ {t}
      PROVE  /\ WaitsFor(u, t) => call'[u].pc = "woken"
             /\ ~WaitsFor(u, t) =>
                   /\ call'[u].pc = call[u].pc
                   /\ call'[u].key = call[u].key
                   /\ call'[u].owner = call[u].owner
                   /\ call'[u].value = call[u].value
                   /\ call'[u].orphaned =
                         IF inflight[k] = u THEN TRUE ELSE call[u].orphaned
    BY <1>1, <1>4
<1> QED BY <1>3, <1>5, <1>6, <1>7 DEF Finished

-----------------------------------------------------------------------------
(* The invariant of the calls.                                             *)

\* A state in _inflight is that of a call of its key that is under way.
Announced ==
    \A k \in CacheKeys : inflight[k] # NoThread =>
        Working(inflight[k]) /\ call[inflight[k]].key = k

\* A call that is under way is announced, unless it has been orphaned.
Announces(t) ==
    Working(t) =>
        /\ call[t].key \in CacheKeys
        /\ ~call[t].orphaned => inflight[call[t].key] = t

HasOwner(t) ==
    call[t].pc = "wait" =>
        /\ call[t].owner \in CacheThreads
        /\ Working(call[t].owner)
        /\ call[call[t].owner].key = call[t].key

CallInv ==
    /\ CallTypes
    /\ Announced
    /\ \A t \in CacheThreads : Announces(t) /\ HasOwner(t)

LEMMA CallsSame ==
    ASSUME CallInv, UNCHANGED <<call, inflight>>, source' \in Versions,
           enabled' \in BOOLEAN, clearedAt' \in [CacheKeys -> Versions]
    PROVE  CallInv'
BY DEF CallInv, CallTypes, Announced, Announces, HasOwner, Working

LEMMA OthersSame ==
    ASSUME CallInv, UNCHANGED <<source, enabled, clearedAt>>
    PROVE  source' \in Versions /\ enabled' \in BOOLEAN
           /\ clearedAt' \in [CacheKeys -> Versions]
BY DEF CallInv, CallTypes

\* A call that is not under way is set, and no call under way.
LEMMA CallSet ==
    ASSUME CallInv, NEW t \in CacheThreads, NEW r \in CacheCall,
           ~Working(t), call' = [call EXCEPT ![t] = r], UNCHANGED inflight,
           UNCHANGED <<source, enabled, clearedAt>>,
           r.pc \notin {"factory", "store"},
           r.pc = "wait" => /\ r.owner \in CacheThreads /\ Working(r.owner)
                            /\ call[r.owner].key = r.key
    PROVE  CallInv'
<1>1. /\ call' \in [CacheThreads -> CacheCall]
      /\ call'[t] = r
      /\ \A u \in CacheThreads : u # t => call'[u] = call[u]
    BY OneCall DEF CallInv
<1>2. CallTypes'
    BY <1>1, OthersSame DEF CallInv, CallTypes
<1>3. Announced'
    <2> SUFFICES ASSUME NEW k \in CacheKeys, inflight[k] # NoThread
                 PROVE  Working(inflight[k])' /\ call'[inflight[k]].key = k
        BY DEF Announced
    <2>1. inflight[k] \in CacheThreads /\ Working(inflight[k])
          /\ call[inflight[k]].key = k
        BY DEF CallInv, CallTypes, Announced
    <2> QED BY <1>1, <2>1 DEF Working
<1>4. ASSUME NEW u \in CacheThreads PROVE Announces(u)'
    BY <1>1 DEF CallInv, Announces, Working
<1>5. ASSUME NEW u \in CacheThreads PROVE HasOwner(u)'
    <2>1. CASE u = t
        BY <1>1, <2>1 DEF HasOwner, Working
    <2>2. CASE u # t
        BY <1>1, <2>2 DEF CallInv, HasOwner, Working
    <2> QED BY <2>1, <2>2
<1> QED BY <1>2, <1>3, <1>4, <1>5 DEF CallInv

LEMMA CallDirectlyCalls ==
    ASSUME CallInv, NEW t \in CacheThreads, NEW k \in ComputedKeys, CallDirectly(t, k)
    PROVE  CallInv'
<1> DEFINE r == [IdleCall EXCEPT !.pc = "direct", !.key = k]
<1>1. r \in CacheCall /\ r.pc = "direct"
    BY NewCalls, CacheAssumption DEF CacheCall
<1>2. call' = [call EXCEPT ![t] = r]
    BY DEF CallDirectly
<1>3. ~Working(t) /\ UNCHANGED <<inflight, source, enabled, clearedAt>>
    BY DEF CallDirectly, Free, Working
<1> HIDE DEF r
<1> QED BY <1>1, <1>2, <1>3, CallSet

LEMMA CallWaitsCalls ==
    ASSUME CallInv, NEW t \in CacheThreads, NEW k \in ComputedKeys, CallWaits(t, k)
    PROVE  CallInv'
<1> DEFINE o == inflight[k]
           r == [IdleCall EXCEPT !.pc = "wait", !.key = k, !.owner = o]
<1>1. k \in CacheKeys /\ o \in CacheThreads /\ Working(o) /\ call[o].key = k
    BY CacheAssumption DEF CallWaits, CallInv, CallTypes, Announced
<1> HIDE DEF o
<1>2. r \in CacheCall /\ r.pc = "wait" /\ r.key = k /\ r.owner = o
    BY <1>1, VersionNumbers DEF IdleCall, CacheCall
<1>3. call' = [call EXCEPT ![t] = r]
    BY DEF CallWaits, o
<1>4. ~Working(t) /\ UNCHANGED <<inflight, source, enabled, clearedAt>>
    BY DEF CallWaits, Free, Working
<1> HIDE DEF r
<1> QED BY <1>1, <1>2, <1>3, <1>4, CallSet

LEMMA EndsCalls ==
    ASSUME CallInv, NEW t \in CacheThreads, ~Working(t), Ends(t),
           UNCHANGED <<inflight, source, enabled, clearedAt>>
    PROVE  CallInv'
<1>1. call' = [call EXCEPT ![t] = IdleCall]
    BY DEF Ends
<1> QED BY <1>1, IdleCallType, CallSet

LEMMA CallOwnsCalls ==
    ASSUME CallInv, NEW t \in CacheThreads, NEW k \in ComputedKeys, CallOwns(t, k)
    PROVE  CallInv'
<1> DEFINE r == [IdleCall EXCEPT !.pc = "factory", !.key = k]
<1>1. k \in CacheKeys /\ r \in CacheCall /\ r.pc = "factory" /\ r.key = k
    BY NewCalls, CacheAssumption DEF CacheCall
<1>2. call' = [call EXCEPT ![t] = r]
    BY DEF CallOwns
<1> HIDE DEF r
<1>3. /\ call' \in [CacheThreads -> CacheCall]
      /\ call'[t] = r
      /\ \A u \in CacheThreads : u # t => call'[u] = call[u]
    BY <1>1, <1>2, OneCall DEF CallInv
<1>4. /\ inflight' \in [CacheKeys -> CacheThreads \cup {NoThread}]
      /\ inflight'[k] = t
      /\ \A j \in CacheKeys : j # k => inflight'[j] = inflight[j]
    BY <1>1 DEF CallOwns, CallInv, CallTypes
<1>5. call[t].pc = "idle" /\ inflight[k] = NoThread
    BY DEF CallOwns, Free
<1>6. CallTypes'
    BY <1>3, <1>4, OthersSame DEF CallOwns, CallInv, CallTypes
<1>7. Announced'
    <2> SUFFICES ASSUME NEW j \in CacheKeys, NEW u, u = inflight'[j], u # NoThread
                 PROVE  call'[u].pc \in {"factory", "store"} /\ call'[u].key = j
        BY DEF Announced, Working
    <2>1. CASE j = k
        BY <1>1, <1>3, <1>4, <2>1
    <2>2. CASE j # k
        <3>1. u = inflight[j] /\ u \in CacheThreads
            BY <1>4, <2>2 DEF CallInv, CallTypes
        <3>2. call[u].pc \in {"factory", "store"} /\ call[u].key = j
            BY <3>1 DEF CallInv, Announced, Working
        <3> QED BY <1>3, <1>5, <3>1, <3>2
    <2> QED BY <2>1, <2>2
<1>8. ASSUME NEW u \in CacheThreads PROVE Announces(u)'
    <2>1. CASE u = t
        BY <1>1, <1>3, <1>4, <2>1 DEF Announces
    <2>2. CASE u # t
        <3>1. inflight[k] # u
            BY <1>5, CacheAssumption
        <3> QED BY <1>3, <1>4, <2>2, <3>1 DEF CallInv, Announces, Working
    <2> QED BY <2>1, <2>2
<1>9. ASSUME NEW u \in CacheThreads PROVE HasOwner(u)'
    <2>1. CASE u = t
        BY <1>1, <1>3, <2>1 DEF HasOwner
    <2>2. CASE u # t
        BY <1>3, <1>5, <2>2 DEF CallInv, HasOwner, Working
    <2> QED BY <2>1, <2>2
<1> QED BY <1>6, <1>7, <1>8, <1>9 DEF CallInv

LEMMA FactoryReturnsCalls ==
    ASSUME CallInv, NEW t \in CacheThreads, FactoryReturns(t)
    PROVE  /\ CallInv'
           /\ call'[t] = [call[t] EXCEPT !.pc = "store", !.value = source]
           /\ \A u \in CacheThreads : u # t => call'[u] = call[u]
<1> DEFINE r == [call[t] EXCEPT !.pc = "store", !.value = source]
<1>1. /\ r \in CacheCall /\ r.pc = "store" /\ r.key = call[t].key
      /\ r.orphaned = call[t].orphaned
    BY DEF CallInv, CallTypes, CacheCall
<1>2. call' = [call EXCEPT ![t] = r]
    BY DEF FactoryReturns, CallInv, CallTypes
<1>3. call[t].pc = "factory" /\ UNCHANGED <<inflight, source, enabled, clearedAt>>
    BY DEF FactoryReturns
<1>4. r = [call[t] EXCEPT !.pc = "store", !.value = source]
    OBVIOUS
<1> HIDE DEF r
<1>5. /\ call' \in [CacheThreads -> CacheCall]
      /\ call'[t] = r
      /\ \A u \in CacheThreads : u # t => call'[u] = call[u]
    BY <1>1, <1>2, OneCall DEF CallInv
<1>6. \A u \in CacheThreads :
          /\ Working(u)' <=> Working(u)
          /\ call'[u].pc = "wait" <=> call[u].pc = "wait"
          /\ call'[u].key = call[u].key
          /\ call'[u].orphaned = call[u].orphaned
    BY <1>1, <1>3, <1>5 DEF Working
<1>7. \A u \in CacheThreads : call[u].pc = "wait" => call'[u] = call[u]
    BY <1>3, <1>5
<1>8. CallTypes'
    BY <1>3, <1>5 DEF CallInv, CallTypes
<1>9. Announced'
    <2> SUFFICES ASSUME NEW k \in CacheKeys, inflight[k] # NoThread
                 PROVE  Working(inflight[k])' /\ call'[inflight[k]].key = k
        BY <1>3 DEF Announced
    <2> DEFINE u == inflight[k]
    <2>1. u \in CacheThreads /\ Working(u) /\ call[u].key = k
        BY DEF CallInv, CallTypes, Announced
    <2>2. u' = u
        BY <1>3
    <2> QED BY <1>6, <2>1, <1>3 DEF Working
<1>10. ASSUME NEW u \in CacheThreads PROVE Announces(u)'
    BY <1>3, <1>6 DEF CallInv, Announces
<1>11. ASSUME NEW u \in CacheThreads PROVE HasOwner(u)'
    <2>1. HasOwner(u)
        BY DEF CallInv
    <2> QED BY <1>6, <1>7, <2>1 DEF HasOwner, Working
<1> QED BY <1>4, <1>5, <1>8, <1>9, <1>10, <1>11 DEF CallInv

\* At the end of a call nobody waits for it any more.
LEMMA FinishKeepsCalls ==
    ASSUME CallInv, NEW t \in CacheThreads, NEW failed \in BOOLEAN,
           Working(t), Finish(t, failed), UNCHANGED <<source, enabled, clearedAt>>
    PROVE  CallInv'
<1> DEFINE k == call[t].key
<1>1. k \in CacheKeys
    BY DEF CallInv, Announces
<1>2. \A u \in CacheThreads : inflight[k] = u => Working(u)
    <2>1. \A u \in CacheThreads : u # NoThread
        BY CacheAssumption
    <2> QED BY <1>1, <2>1 DEF CallInv, Announced
<1>10. Finished(t)
    BY <1>1, <1>2, FinishCalls DEF CallInv
<1>3. /\ call' \in [CacheThreads -> CacheCall]
      /\ inflight' = [inflight EXCEPT ![k] = NoThread]
      /\ inflight' \in [CacheKeys -> CacheThreads \cup {NoThread}]
      /\ call'[t] = IdleCall
      /\ \A u \in CacheThreads \ {t} :
            /\ WaitsFor(u, t) => call'[u].pc = "woken"
            /\ ~WaitsFor(u, t) =>
                  /\ call'[u].pc = call[u].pc
                  /\ call'[u].key = call[u].key
                  /\ call'[u].owner = call[u].owner
                  /\ call'[u].value = call[u].value
                  /\ call'[u].orphaned =
                        IF inflight[k] = u THEN TRUE ELSE call[u].orphaned
    BY <1>10 DEF Finished
<1> HIDE DEF k
<1>4. /\ inflight'[k] = NoThread
      /\ \A j \in CacheKeys : j # k => inflight'[j] = inflight[j]
    BY <1>1, <1>3 DEF CallInv, CallTypes
<1>5. CallTypes'
    BY <1>3, OthersSame DEF CallTypes
<1>6. Announced'
    <2> SUFFICES ASSUME NEW j \in CacheKeys, NEW u, u = inflight'[j], u # NoThread
                 PROVE  call'[u].pc \in {"factory", "store"} /\ call'[u].key = j
        BY DEF Announced, Working
    <2>1. j # k /\ u = inflight[j] /\ u \in CacheThreads
        BY <1>4 DEF CallInv, CallTypes
    <2>2. call[u].pc \in {"factory", "store"} /\ call[u].key = j
        BY <2>1 DEF CallInv, Announced, Working
    <2>3. u # t
        BY <2>1, <2>2 DEF k
    <2>4. ~WaitsFor(u, t)
        BY <2>2 DEF WaitsFor
    <2> QED BY <1>3, <2>1, <2>2, <2>3, <2>4
<1>7. ASSUME NEW u \in CacheThreads PROVE Announces(u)'
    <2>1. CASE u = t
        BY <1>3, <2>1, IdleCallType DEF Announces, Working
    <2>2. CASE u # t /\ call'[u].pc \in {"factory", "store"}
        <3>1. ~WaitsFor(u, t)
            BY <1>3, <2>2
        <3>2. call'[u].pc = call[u].pc /\ call'[u].key = call[u].key
            BY <1>3, <2>2, <3>1
        <3>3. call'[u].orphaned = IF inflight[k] = u THEN TRUE ELSE call[u].orphaned
            BY <1>3, <2>2, <3>1
        <3>4. Announces(u) /\ Working(u)
            BY <2>2, <3>2 DEF CallInv, Working
        <3>5. ~call'[u].orphaned => inflight[k] # u /\ ~call[u].orphaned
            BY <3>3
        <3>6. ~call'[u].orphaned => call[u].key # k /\ inflight[call[u].key] = u
            BY <3>4, <3>5 DEF Announces
        <3> QED BY <1>4, <3>2, <3>4, <3>6 DEF Announces
    <2>3. CASE call'[u].pc \notin {"factory", "store"}
        BY <2>3 DEF Announces, Working
    <2> QED BY <2>1, <2>2, <2>3
<1>8. ASSUME NEW u \in CacheThreads PROVE HasOwner(u)'
    <2>1. CASE u = t
        BY <1>3, <2>1, IdleCallType DEF HasOwner
    <2>2. CASE u # t /\ call'[u].pc = "wait"
        <3>1. ~WaitsFor(u, t)
            BY <1>3, <2>2
        <3>2. call[u].pc = "wait" /\ call'[u].key = call[u].key
              /\ call'[u].owner = call[u].owner
            BY <1>3, <2>2, <3>1
        <3> DEFINE o == call[u].owner
        <3>3. o \in CacheThreads \ {t} /\ Working(o) /\ call[o].key = call[u].key
            BY <3>1, <3>2 DEF CallInv, HasOwner, WaitsFor
        <3> HIDE DEF o
        <3>4. ~WaitsFor(o, t)
            BY <3>3 DEF WaitsFor, Working
        <3>5. call'[o].pc = call[o].pc /\ call'[o].key = call[o].key
            BY <1>3, <3>3, <3>4
        <3> QED BY <3>2, <3>3, <3>5 DEF HasOwner, Working, o
    <2>3. CASE call'[u].pc # "wait"
        BY <2>3 DEF HasOwner
    <2> QED BY <2>1, <2>2, <2>3
<1> QED BY <1>5, <1>6, <1>7, <1>8 DEF CallInv

\* clear() keeps every call where it is, and orphans those of the keys of S.
LEMMA ClearCalls ==
    ASSUME CallTypes, NEW S, Clear(S)
    PROVE  /\ call' \in [CacheThreads -> CacheCall]
           /\ \A t \in CacheThreads :
                 /\ call'[t].pc = call[t].pc
                 /\ call'[t].key = call[t].key
                 /\ call'[t].owner = call[t].owner
                 /\ call'[t].value = call[t].value
                 /\ ~call'[t].orphaned => ~call[t].orphaned
                 /\ ~call'[t].orphaned /\ Working(t) => call[t].key \notin S
<1> DEFINE orphan(t) == [call[t] EXCEPT !.orphaned = TRUE]
<1>1. ASSUME NEW t \in CacheThreads
      PROVE  /\ call[t] \in CacheCall
             /\ orphan(t) \in CacheCall
             /\ orphan(t).pc = call[t].pc
             /\ orphan(t).key = call[t].key
             /\ orphan(t).owner = call[t].owner
             /\ orphan(t).value = call[t].value
             /\ orphan(t).orphaned = TRUE
    <2>1. call[t] \in CacheCall
        BY DEF CallTypes
    <2> QED BY <2>1 DEF CacheCall
<1>2. call' = [t \in CacheThreads |->
                  IF Working(t) /\ call[t].key \in S THEN orphan(t) ELSE call[t]]
    BY DEF Clear
<1> HIDE DEF orphan
<1>3. ASSUME NEW t \in CacheThreads
      PROVE  /\ call'[t] \in CacheCall
             /\ call'[t].pc = call[t].pc
             /\ call'[t].key = call[t].key
             /\ call'[t].owner = call[t].owner
             /\ call'[t].value = call[t].value
             /\ ~call'[t].orphaned => ~call[t].orphaned
             /\ ~call'[t].orphaned /\ Working(t) => call[t].key \notin S
    <2>1. CASE Working(t) /\ call[t].key \in S
        <3>1. call'[t] = orphan(t)
            BY <1>2, <2>1
        <3> QED BY <1>1, <3>1
    <2>2. CASE ~(Working(t) /\ call[t].key \in S)
        <3>1. call'[t] = call[t]
            BY <1>2, <2>2
        <3> QED BY <1>1, <2>2, <3>1
    <2> QED BY <2>1, <2>2
<1>4. call' = [t \in CacheThreads |-> call'[t]]
    BY <1>2
<1>5. call' \in [CacheThreads -> CacheCall]
    BY <1>3, <1>4
<1> QED BY <1>3, <1>5

LEMMA ClearKeepsCalls ==
    ASSUME CallInv, NEW S, Clear(S)
    PROVE  CallInv'
<1>1. /\ call' \in [CacheThreads -> CacheCall]
      /\ \A t \in CacheThreads :
            /\ call'[t].pc = call[t].pc
            /\ call'[t].key = call[t].key
            /\ call'[t].owner = call[t].owner
            /\ ~call'[t].orphaned => ~call[t].orphaned
            /\ ~call'[t].orphaned /\ Working(t) => call[t].key \notin S
    BY ClearCalls DEF CallInv
<1>2. /\ inflight' \in [CacheKeys -> CacheThreads \cup {NoThread}]
      /\ \A k \in CacheKeys :
            inflight'[k] = IF k \in S THEN NoThread ELSE inflight[k]
    BY DEF Clear, CallInv, CallTypes
<1>3. clearedAt' \in [CacheKeys -> Versions] /\ source' = source /\ enabled' = enabled
    BY DEF Clear, CallInv, CallTypes
<1>4. CallTypes'
    BY <1>1, <1>2, <1>3 DEF CallInv, CallTypes
<1>5. Announced'
    <2> SUFFICES ASSUME NEW k \in CacheKeys, NEW u, u = inflight'[k], u # NoThread
                 PROVE  call'[u].pc \in {"factory", "store"} /\ call'[u].key = k
        BY DEF Announced, Working
    <2>1. u = inflight[k] /\ u \in CacheThreads
        BY <1>2 DEF CallInv, CallTypes
    <2>2. call[u].pc \in {"factory", "store"} /\ call[u].key = k
        BY <2>1 DEF CallInv, Announced, Working
    <2> QED BY <1>1, <2>1, <2>2
<1>6. ASSUME NEW u \in CacheThreads PROVE Announces(u)'
    <2>1. Announces(u)
        BY DEF CallInv
    <2> QED BY <1>1, <1>2, <2>1 DEF Announces, Working
<1>7. ASSUME NEW u \in CacheThreads PROVE HasOwner(u)'
    <2>1. HasOwner(u)
        BY DEF CallInv
    <2> QED BY <1>1, <2>1 DEF HasOwner, Working
<1> QED BY <1>4, <1>5, <1>6, <1>7 DEF CallInv

LEMMA CallInvInit == CacheInit => CallInv
<1> SUFFICES ASSUME CacheInit PROVE CallInv
    OBVIOUS
<1>1. CallTypes
    BY IdleCallType, VersionNumbers DEF CacheInit, CallTypes, None
<1>2. \A t \in CacheThreads : call[t].pc = "idle"
    BY IdleCallType DEF CacheInit
<1>3. Announced
    BY DEF CacheInit, Announced
<1> QED BY <1>1, <1>2, <1>3 DEF CallInv, Announces, HasOwner, Working

LEMMA CallInvNext ==
    ASSUME CallInv, [CacheNext]_cacheVars
    PROVE  CallInv'
<1> USE DEF CacheNext
<1>1. ASSUME NEW t \in CacheThreads, NEW k \in ComputedKeys, CallHits(t, k)
      PROVE  CallInv'
    BY <1>1, OthersSame, CallsSame DEF CallHits
<1>2. ASSUME NEW t \in CacheThreads, FactoryRaises(t)
      PROVE  CallInv'
    <2>1. Working(t) /\ Finish(t, TRUE) /\ UNCHANGED <<source, enabled, clearedAt>>
        BY <1>2 DEF FactoryRaises, Working
    <2> QED BY <2>1, FinishKeepsCalls
<1>3. ASSUME NEW t \in CacheThreads, StoreValue(t)
      PROVE  CallInv'
    <2>1. Working(t) /\ Finish(t, FALSE) /\ UNCHANGED <<source, enabled, clearedAt>>
        BY <1>3 DEF StoreValue, Working
    <2> QED BY <2>1, FinishKeepsCalls
<1>4. ASSUME NEW t \in CacheThreads, Wake(t)
      PROVE  CallInv'
    <2>1. ~Working(t) /\ Ends(t) /\ UNCHANGED <<inflight, source, enabled, clearedAt>>
        BY <1>4 DEF Wake, Working
    <2> QED BY <2>1, EndsCalls
<1>5. ASSUME NEW t \in CacheThreads, DirectEnds(t)
      PROVE  CallInv'
    <2>1. ~Working(t) /\ Ends(t) /\ UNCHANGED <<inflight, source, enabled, clearedAt>>
        BY <1>5 DEF DirectEnds, Working
    <2> QED BY <2>1, EndsCalls
<1>6. ASSUME NEW k \in CacheKeys,
             GetEntry(k) \/ SetEntry(k) \/ DeleteEntry(k) \/ Expire(k)
      PROVE  CallInv'
    <2>1. UNCHANGED <<inflight, call, source, enabled, clearedAt>>
        BY <1>6 DEF GetEntry, SetEntry, DeleteEntry, Expire
    <2> QED BY <2>1, OthersSame, CallsSame
<1>7. CASE SwitchCache
    BY <1>7, CallsSame DEF SwitchCache, CallInv, CallTypes
<1>8. CASE SourceChanges
    <2>1. source' \in Versions
        BY <1>8, CacheAssumption DEF SourceChanges, Versions, CallInv, CallTypes
    <2> QED BY <1>8, <2>1, CallsSame DEF SourceChanges, CallInv, CallTypes
<1>9. CASE UNCHANGED cacheVars
    BY <1>9, OthersSame, CallsSame DEF cacheVars
<1> QED BY <1>1, <1>2, <1>3, <1>4, <1>5, <1>6, <1>7, <1>8, <1>9, CallDirectlyCalls,
           CallOwnsCalls, CallWaitsCalls, FactoryReturnsCalls, ClearKeepsCalls
        DEF CacheStep

LEMMA CallsHold == CacheSpec => []CallInv
<1>1. CallInv /\ [CacheNext]_cacheVars => CallInv'
    BY CallInvNext
<1> QED BY <1>1, CallInvInit, PTL DEF CacheSpec

\* No thread waits for a call that has ended: an owner that stores its value
\* or raises wakes all that wait for it (ttl_cache.py:154, 163-181), whatever
\* clear() has done to _inflight.
THEOREM WaitersAreWoken == CacheSpec => []WaitersHaveAnOwner
<1>1. CallInv => WaitersHaveAnOwner
    BY DEF CallInv, HasOwner, WaitersHaveAnOwner
<1> QED BY <1>1, CallsHold, PTL

\* Of two calls that compute one key at the same time a clear() has orphaned
\* one (ttl_cache.py:145-151).
THEOREM ComputedOnce == CacheSpec => []FactoriesOverlapOnlyAfterClear
<1>1. CallInv => FactoriesOverlapOnlyAfterClear
    BY DEF CallInv, Announces, FactoriesOverlapOnlyAfterClear
<1> QED BY <1>1, CallsHold, PTL

-----------------------------------------------------------------------------
(* The values.                                                             *)

\* What a call that kept its place is about to store was read after the last
\* clear() of its key.
ReadAfterClear(t) ==
    call[t].pc = "store" /\ ~call[t].orphaned =>
        call[t].value >= clearedAt[call[t].key]

ValueInv ==
    /\ Table(entries)
    /\ \A k \in CacheKeys : clearedAt[k] <= source
    /\ \A t \in CacheThreads : ReadAfterClear(t)
    /\ OnlyOrphansRevive

\* A step that changes no entry but the order of access, whether it is expired,
\* and whether it is there.
EntriesKept ==
    /\ Table(entries')
    /\ \A k \in DOMAIN entries' :
          k \in DOMAIN entries /\ SameEntry(entries'[k], entries[k])

LEMMA SameKept ==
    ASSUME Table(entries), UNCHANGED entries
    PROVE  EntriesKept
BY DEF Table, EntriesKept, SameEntry

LEMMA DropKept ==
    ASSUME Table(entries), NEW S, DropEntries(S)
    PROVE  /\ EntriesKept
           /\ \A k \in DOMAIN entries' : k \notin S
<1>1. entries' = Keeping(entries, DOMAIN entries \ S)
    BY DEF DropEntries
<1>2. DOMAIN entries \ S \subseteq DOMAIN entries
    OBVIOUS
<1> QED BY <1>1, <1>2, KeepingTable DEF EntriesKept

LEMMA TouchKept ==
    ASSUME Table(entries), NEW k, Held(k), entries' = Touched(entries, k)
    PROVE  EntriesKept
BY TouchedTable DEF EntriesKept, Held

LEMMA ExpireKept ==
    ASSUME Table(entries), NEW k \in CacheKeys, Expire(k)
    PROVE  EntriesKept
<1>1. /\ k \in DOMAIN entries
      /\ entries' = [entries EXCEPT ![k].expired = TRUE]
    BY DEF Expire, Live, Held
<1>2. /\ DOMAIN entries' = DOMAIN entries
      /\ \A j \in DOMAIN entries :
            entries'[j] = IF j = k THEN [entries[k] EXCEPT !.expired = TRUE]
                                   ELSE entries[j]
    BY <1>1 DEF Table
<1>3. \A j \in DOMAIN entries :
          /\ entries'[j] \in CacheEntry
          /\ entries'[j].later = entries[j].later
          /\ SameEntry(entries'[j], entries[j])
    <2> SUFFICES ASSUME NEW j \in DOMAIN entries
                 PROVE  /\ entries'[j] \in CacheEntry
                        /\ entries'[j].later = entries[j].later
                        /\ SameEntry(entries'[j], entries[j])
        OBVIOUS
    <2>1. entries[j] \in CacheEntry
        BY DEF Table
    <2> QED BY <1>2, <2>1 DEF CacheEntry, SameEntry
<1>4. entries' \in [DOMAIN entries -> CacheEntry]
    <2>1. entries' = [j \in DOMAIN entries |-> entries'[j]]
        BY <1>1 DEF Table
    <2> QED BY <1>3, <2>1
<1>5. Table(entries')
    BY <1>2, <1>3, <1>4 DEF Table
<1> QED BY <1>2, <1>3, <1>5 DEF EntriesKept

LEMMA KeptValues ==
    ASSUME CallInv, ValueInv, EntriesKept, UNCHANGED <<source, clearedAt>>,
           \A t \in CacheThreads : ReadAfterClear(t)'
    PROVE  ValueInv'
BY DEF ValueInv, EntriesKept, OnlyOrphansRevive, SameEntry

\* The calls that are about to store a value, in a step that begins none.
LEMMA NoNewValues ==
    ASSUME ValueInv, UNCHANGED clearedAt,
           \A t \in CacheThreads :
               call'[t].pc = "store" /\ ~call'[t].orphaned =>
                   /\ call[t].pc = "store" /\ ~call[t].orphaned
                   /\ call'[t].value = call[t].value /\ call'[t].key = call[t].key
    PROVE  \A t \in CacheThreads : ReadAfterClear(t)'
BY DEF ValueInv, ReadAfterClear

LEMMA FinishValues ==
    ASSUME CallInv, ValueInv, NEW t \in CacheThreads, NEW failed \in BOOLEAN,
           Working(t), Finish(t, failed), UNCHANGED clearedAt
    PROVE  \A u \in CacheThreads : ReadAfterClear(u)'
<1>1. call[t].key \in CacheKeys
    BY DEF CallInv, Announces
<1>2. \A u \in CacheThreads : inflight[call[t].key] = u => Working(u)
    <2>1. \A u \in CacheThreads : u # NoThread
        BY CacheAssumption
    <2> QED BY <1>1, <2>1 DEF CallInv, Announced
<1>3. Finished(t)
    BY <1>1, <1>2, FinishCalls DEF CallInv
<1>4. \A u \in CacheThreads :
          call'[u].pc = "store" /\ ~call'[u].orphaned =>
              /\ call[u].pc = "store" /\ ~call[u].orphaned
              /\ call'[u].value = call[u].value /\ call'[u].key = call[u].key
    <2> SUFFICES ASSUME NEW u \in CacheThreads,
                        call'[u].pc = "store", ~call'[u].orphaned
                 PROVE  /\ call[u].pc = "store" /\ ~call[u].orphaned
                        /\ call'[u].value = call[u].value
                        /\ call'[u].key = call[u].key
        OBVIOUS
    <2>1. u # t
        BY <1>3, IdleCallType DEF Finished
    <2>2. ~WaitsFor(u, t)
        BY <1>3, <2>1 DEF Finished
    <2>3. call'[u].orphaned =
              IF inflight[call[t].key] = u THEN TRUE ELSE call[u].orphaned
        BY <1>3, <2>1, <2>2 DEF Finished
    <2> QED BY <1>3, <2>1, <2>2, <2>3 DEF Finished
<1> QED BY <1>4, NoNewValues

LEMMA FinishKeepsValues ==
    ASSUME CallInv, ValueInv, NEW t \in CacheThreads, FactoryRaises(t)
    PROVE  ValueInv'
<1>1. \A u \in CacheThreads : ReadAfterClear(u)'
    BY FinishValues DEF FactoryRaises, Working
<1>2. EntriesKept
    BY SameKept DEF FactoryRaises, ValueInv
<1> QED BY <1>1, <1>2, KeptValues DEF FactoryRaises

\* The value that is stored was read after the last clear() of its key, or the
\* entry is marked late.
LEMMA StoreKeepsValues ==
    ASSUME CallInv, ValueInv, NEW t \in CacheThreads, StoreValue(t)
    PROVE  ValueInv'
<1> DEFINE k == call[t].key
           e == [value |-> call[t].value, expired |-> FALSE, later |-> {},
                 late |-> call[t].orphaned]
<1>1. k \in CacheKeys /\ call[t] \in CacheCall
    BY DEF StoreValue, CallInv, CallTypes, Announces, Working
<1>2. e \in CacheEntry
    BY <1>1 DEF CacheEntry, CacheCall
<1>3. Insert(k, e)
    BY DEF StoreValue
<1>4. e.late = call[t].orphaned /\ e.value = call[t].value
    OBVIOUS
<1>5. ~call[t].orphaned => call[t].value >= clearedAt[k]
    BY DEF StoreValue, ValueInv, ReadAfterClear
<1> HIDE DEF k, e
<1>6. /\ Table(entries')
      /\ \A j \in DOMAIN entries' :
            \/ j = k /\ SameEntry(entries'[j], e)
            \/ j \in DOMAIN entries /\ SameEntry(entries'[j], entries[j])
    BY <1>1, <1>2, <1>3, InsertTable DEF ValueInv
<1>7. OnlyOrphansRevive'
    BY <1>4, <1>5, <1>6 DEF ValueInv, OnlyOrphansRevive, SameEntry, StoreValue
<1>8. \A u \in CacheThreads : ReadAfterClear(u)'
    BY FinishValues DEF StoreValue, Working
<1> QED BY <1>6, <1>7, <1>8 DEF ValueInv, StoreValue

LEMMA SetKeepsValues ==
    ASSUME CallInv, ValueInv, NEW k \in CacheKeys, SetEntry(k)
    PROVE  ValueInv'
<1> DEFINE e == [value |-> source, expired |-> FALSE, later |-> {}, late |-> FALSE]
<1>1. e \in CacheEntry
    BY DEF CacheEntry, CallInv, CallTypes
<1>2. Insert(k, e)
    BY DEF SetEntry
<1>3. e.value = source /\ clearedAt[k] <= source
    BY DEF ValueInv
<1> HIDE DEF e
<1>4. /\ Table(entries')
      /\ \A j \in DOMAIN entries' :
            \/ j = k /\ SameEntry(entries'[j], e)
            \/ j \in DOMAIN entries /\ SameEntry(entries'[j], entries[j])
    BY <1>1, <1>2, InsertTable DEF ValueInv
<1>5. e.value >= clearedAt[k]
    BY <1>3, VersionNumbers DEF CallInv, CallTypes
<1>6. OnlyOrphansRevive'
    BY <1>4, <1>5 DEF ValueInv, OnlyOrphansRevive, SameEntry, SetEntry
<1> QED BY <1>4, <1>6 DEF ValueInv, ReadAfterClear, SetEntry

\* What clear() leaves in the table, it left alone.
LEMMA ClearKeepsValues ==
    ASSUME CallInv, ValueInv, NEW S, Clear(S)
    PROVE  ValueInv'
<1>1. EntriesKept /\ \A k \in DOMAIN entries' : k \notin S
    BY DropKept DEF Clear, ValueInv
<1>2. /\ \A k \in CacheKeys : clearedAt'[k] = IF k \in S THEN source ELSE clearedAt[k]
      /\ source' = source
    BY DEF Clear
<1>3. \A k \in CacheKeys : clearedAt'[k] <= source'
    BY <1>2, VersionNumbers DEF ValueInv, CallInv, CallTypes
<1>4. OnlyOrphansRevive'
    <2>1. \A k \in DOMAIN entries' : k \in CacheKeys /\ clearedAt'[k] = clearedAt[k]
        BY <1>1, <1>2 DEF EntriesKept, Table
    <2> QED BY <1>1, <2>1 DEF EntriesKept, ValueInv, OnlyOrphansRevive, SameEntry
<1>5. ASSUME NEW t \in CacheThreads PROVE ReadAfterClear(t)'
    <2> SUFFICES ASSUME call'[t].pc = "store", ~call'[t].orphaned
                 PROVE  call'[t].value >= clearedAt'[call'[t].key]
        BY DEF ReadAfterClear
    <2>1. /\ call[t].pc = "store" /\ ~call[t].orphaned /\ call[t].key \notin S
          /\ call'[t].value = call[t].value /\ call'[t].key = call[t].key
        BY ClearCalls DEF CallInv, Working
    <2>2. call[t].key \in CacheKeys
        BY <2>1 DEF CallInv, Announces, Working
    <2>3. call[t].value >= clearedAt[call[t].key]
        BY <2>1 DEF ValueInv, ReadAfterClear
    <2> QED BY <1>2, <2>1, <2>2, <2>3
<1> QED BY <1>1, <1>3, <1>4, <1>5 DEF EntriesKept, ValueInv

LEMMA ReturnKeepsValues ==
    ASSUME CallInv, ValueInv, NEW t \in CacheThreads, FactoryReturns(t)
    PROVE  ValueInv'
<1>1. EntriesKept
    BY SameKept DEF FactoryReturns, ValueInv
<1>2. call[t].key \in CacheKeys /\ call[t] \in CacheCall
    BY DEF FactoryReturns, CallInv, CallTypes, Announces, Working
<1>3. ASSUME NEW u \in CacheThreads PROVE ReadAfterClear(u)'
    <2>1. CASE u = t
        <3>1. call'[t].value = source /\ call'[t].key = call[t].key
            BY <1>2, FactoryReturnsCalls DEF CacheCall
        <3>2. source >= clearedAt[call[t].key]
            BY <1>2, VersionNumbers DEF ValueInv, CallInv, CallTypes
        <3> QED BY <2>1, <3>1, <3>2 DEF ReadAfterClear, FactoryReturns
    <2>2. CASE u # t
        <3>1. call'[u] = call[u]
            BY <2>2, FactoryReturnsCalls
        <3> QED BY <3>1 DEF ValueInv, ReadAfterClear, FactoryReturns
    <2> QED BY <2>1, <2>2
<1> QED BY <1>1, <1>3, KeptValues DEF FactoryReturns

\* A step that gives a thread a call that has no value yet, or none.
LEMMA CallKeepsValues ==
    ASSUME CallInv, ValueInv, NEW t \in CacheThreads, NEW r,
           r.pc # "store", call' = [call EXCEPT ![t] = r],
           EntriesKept, UNCHANGED <<source, clearedAt>>
    PROVE  ValueInv'
<1>1. \A u \in CacheThreads : call'[u] = IF u = t THEN r ELSE call[u]
    BY DEF CallInv, CallTypes
<1>2. \A u \in CacheThreads : ReadAfterClear(u)'
    BY <1>1, NoNewValues
<1> QED BY <1>2, KeptValues

LEMMA RestKeepsValues ==
    ASSUME CallInv, ValueInv, EntriesKept, UNCHANGED <<source, call, clearedAt>>
    PROVE  ValueInv'
<1>1. \A u \in CacheThreads : ReadAfterClear(u)'
    BY NoNewValues
<1> QED BY <1>1, KeptValues

LEMMA BeginKeepsValues ==
    ASSUME CallInv, ValueInv, NEW t \in CacheThreads, NEW k \in ComputedKeys,
           CallDirectly(t, k) \/ CallHits(t, k) \/ CallOwns(t, k) \/ CallWaits(t, k)
    PROVE  ValueInv'
<1>1. EntriesKept
    <2>1. CASE UNCHANGED entries
        BY <2>1, SameKept DEF ValueInv
    <2>2. CASE Held(k) /\ entries' = Touched(entries, k)
        BY <2>2, TouchKept DEF ValueInv
    <2>3. CASE DropEntries({k})
        BY <2>3, DropKept DEF ValueInv
    <2> QED BY <2>1, <2>2, <2>3 DEF CallDirectly, CallHits, CallOwns, CallWaits, Live
<1>2. CASE CallHits(t, k)
    BY <1>1, <1>2, RestKeepsValues DEF CallHits
<1>3. CASE CallDirectly(t, k) \/ CallOwns(t, k) \/ CallWaits(t, k)
    <2>1. PICK r : r.pc # "store" /\ call' = [call EXCEPT ![t] = r]
        <3>1. /\ [IdleCall EXCEPT !.pc = "direct", !.key = k].pc = "direct"
              /\ [IdleCall EXCEPT !.pc = "factory", !.key = k].pc = "factory"
              /\ [IdleCall EXCEPT !.pc = "wait", !.key = k,
                                  !.owner = inflight[k]].pc = "wait"
            BY DEF IdleCall
        <3> QED BY <1>3, <3>1 DEF CallDirectly, CallOwns, CallWaits
    <2> QED BY <1>1, <1>3, <2>1, CallKeepsValues DEF CallDirectly, CallOwns, CallWaits
<1> QED BY <1>2, <1>3

LEMMA EndKeepsValues ==
    ASSUME CallInv, ValueInv, NEW t \in CacheThreads, Wake(t) \/ DirectEnds(t)
    PROVE  ValueInv'
<1>1. EntriesKept
    <2>1. CASE UNCHANGED entries
        BY <2>1, SameKept DEF ValueInv
    <2>2. CASE Held(call[t].key) /\ entries' = Touched(entries, call[t].key)
        BY <2>2, TouchKept DEF ValueInv
    <2>3. CASE DropEntries({call[t].key})
        BY <2>3, DropKept DEF ValueInv
    <2> QED BY <2>1, <2>2, <2>3 DEF Wake, DirectEnds, Live
<1>2. IdleCall.pc # "store" /\ call' = [call EXCEPT ![t] = IdleCall]
    BY IdleCallType DEF Wake, DirectEnds, Ends
<1> QED BY <1>1, <1>2, CallKeepsValues DEF Wake, DirectEnds

LEMMA TableKeepsValues ==
    ASSUME CallInv, ValueInv, NEW k \in CacheKeys,
           GetEntry(k) \/ DeleteEntry(k) \/ Expire(k)
    PROVE  ValueInv'
<1>1. EntriesKept
    <2>1. CASE Held(k) /\ entries' = Touched(entries, k)
        BY <2>1, TouchKept DEF ValueInv
    <2>2. CASE DropEntries({k})
        BY <2>2, DropKept DEF ValueInv
    <2>3. CASE Expire(k)
        BY <2>3, ExpireKept DEF ValueInv
    <2> QED BY <2>1, <2>2, <2>3 DEF GetEntry, DeleteEntry
<1> QED BY <1>1, RestKeepsValues DEF GetEntry, DeleteEntry, Expire

LEMMA ValueInvInit == CacheInit => ValueInv
<1> SUFFICES ASSUME CacheInit PROVE ValueInv
    OBVIOUS
<1>1. entries = << >> /\ DOMAIN entries = {}
    BY DEF CacheInit
<1>2. entries \in [DOMAIN entries -> CacheEntry]
    BY <1>1
<1>3. Table(entries) /\ OnlyOrphansRevive
    BY <1>1, <1>2 DEF Table, OnlyOrphansRevive
<1>4. \A t \in CacheThreads : call[t].pc = "idle"
    BY IdleCallType DEF CacheInit
<1> QED BY <1>3, <1>4 DEF CacheInit, ValueInv, ReadAfterClear, None

LEMMA ValueInvNext ==
    ASSUME CallInv, ValueInv, [CacheNext]_cacheVars
    PROVE  ValueInv'
<1>1. CASE SwitchCache \/ UNCHANGED cacheVars
    <2>1. EntriesKept
        BY <1>1, SameKept DEF SwitchCache, cacheVars, ValueInv
    <2> QED BY <1>1, <2>1, RestKeepsValues DEF SwitchCache, cacheVars
<1>2. CASE SourceChanges
    <2>1. source' = source + 1 /\ UNCHANGED <<entries, call, clearedAt>>
        BY <1>2 DEF SourceChanges
    <2>2. \A k \in CacheKeys : clearedAt'[k] <= source'
        <3>1. source \in Nat /\ \A k \in CacheKeys : clearedAt[k] \in Nat
            BY VersionNumbers DEF CallInv, CallTypes
        <3>2. \A k \in CacheKeys : clearedAt[k] <= source
            BY DEF ValueInv
        <3> QED BY <2>1, <3>1, <3>2
    <2>3. \A t \in CacheThreads : ReadAfterClear(t)'
        BY <2>1, NoNewValues
    <2> QED BY <2>1, <2>2, <2>3 DEF ValueInv, OnlyOrphansRevive
<1> QED BY <1>1, <1>2, BeginKeepsValues, EndKeepsValues, TableKeepsValues,
           FinishKeepsValues, StoreKeepsValues, SetKeepsValues, ClearKeepsValues,
           ReturnKeepsValues
        DEF CacheNext, CacheStep

LEMMA ValuesHold == CacheSpec => []ValueInv
<1>1. CallInv /\ ValueInv /\ [CacheNext]_cacheVars => ValueInv'
    BY ValueInvNext
<1> QED BY <1>1, ValueInvInit, CallsHold, PTL DEF CacheSpec

\* The state of the cache has its types, and the order in which its entries
\* were last used is a linear one (ttl_cache.py:18-30).
THEOREM CacheTypeCorrect == CacheSpec => []CacheTypeOK
<1>1. CallInv /\ ValueInv => CacheTypeOK
    BY CacheTypes DEF CallInv, ValueInv
<1> QED BY <1>1, CallsHold, ValuesHold, PTL

\* An entry that is older than the last clear() of its key was stored by a call
\* that the clear() had orphaned (ttl_cache.py:93-109, 170-181).
THEOREM ClearedStaysCleared == CacheSpec => []OnlyOrphansRevive
<1>1. ValueInv => OnlyOrphansRevive
    BY DEF ValueInv
<1> QED BY <1>1, ValuesHold, PTL
=============================================================================
