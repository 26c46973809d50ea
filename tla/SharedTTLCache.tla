--------------------------- MODULE SharedTTLCache ---------------------------
(***************************************************************************)
(* The shared cache of cache/ttl_cache.py behind the functions of          *)
(* cache/shared_cache.py.  Threads of the pool ask for a key; the first    *)
(* one that finds nothing computes the value, the others wait for it.      *)
(*                                                                         *)
(* One action is one section under the lock, or one step of the factory.   *)
(* The value of a key is the version of what the factory reads; version 0  *)
(* stands for None.  Time is the action Expire.  The access counts are     *)
(* left out: only get_hot_entries reads them, and main.py installs none of *)
(* the actions that would call it.                                         *)
(***************************************************************************)
EXTENDS Integers, FiniteSets

CONSTANTS
    CacheThreads,   \* threads that use the cache
    CacheKeys,      \* keys of entries
    ComputedKeys,   \* those that get_or_set is used for
    PrefixKeys,     \* those that start with the prefix given to clear
    MaxEntries,     \* max_entries, 512 in the program
    SampleLimit,    \* how many entries a prune looks at, 16 in the program
    MaxVersion,     \* bound on the changes of the source
    NoThread

ASSUME CacheAssumption ==
    /\ PrefixKeys \cup ComputedKeys \subseteq CacheKeys
    /\ {MaxEntries, SampleLimit, MaxVersion} \subseteq Nat
    /\ NoThread \notin CacheThreads

VARIABLES
    entries,    \* _entries: the keys it holds -> entry
    inflight,   \* _inflight: CacheKeys -> the thread whose state it is
    call,       \* CacheThreads -> what each thread is doing
    source,     \* what a factory would read now
    enabled,    \* PROMPTMAN_CACHE_ENABLED
    clearedAt   \* history: CacheKeys -> the source at the last clear

cacheVars == <<entries, inflight, call, source, enabled, clearedAt>>

Versions == 0..MaxVersion
None == 0

\* later: last_access_seq, as the keys of the table that have a higher one.
\* late: history, the call that stored it had lost its place in _inflight.
CacheEntry == [value : Versions, expired : BOOLEAN, later : SUBSET CacheKeys,
               late : BOOLEAN]

\* orphaned: history, since the call began its key was cleared, or the end of
\* a call that had been orphaned before removed its state.
CacheCall ==
    [pc : {"idle", "factory", "store", "direct", "wait", "woken"},
     key : CacheKeys \cup {NoThread},
     owner : CacheThreads \cup {NoThread},  \* whose event it waits for
     value : Versions,
     error : BOOLEAN,
     orphaned : BOOLEAN]

\* The order of last_access_seq is a linear one.
LaterIsLinear ==
    \A i, j, k \in DOMAIN entries :
        /\ i # j => (j \in entries[i].later <=> i \notin entries[j].later)
        /\ j \in entries[i].later /\ k \in entries[j].later => k \in entries[i].later

CacheTypeOK ==
    /\ DOMAIN entries \subseteq CacheKeys
    /\ entries \in [DOMAIN entries -> CacheEntry]
    /\ \A k \in DOMAIN entries : entries[k].later \subseteq DOMAIN entries \ {k}
    /\ LaterIsLinear
    /\ inflight \in [CacheKeys -> CacheThreads \cup {NoThread}]
    /\ call \in [CacheThreads -> CacheCall]
    /\ source \in Versions
    /\ enabled \in BOOLEAN
    /\ clearedAt \in [CacheKeys -> Versions]

IdleCall == [pc |-> "idle", key |-> NoThread, owner |-> NoThread,
             value |-> None, error |-> FALSE, orphaned |-> FALSE]

CacheInit ==
    /\ entries = << >>
    /\ inflight = [k \in CacheKeys |-> NoThread]
    /\ call = [t \in CacheThreads |-> IdleCall]
    /\ source = None
    /\ enabled = TRUE
    /\ clearedAt = [k \in CacheKeys |-> 0]

-----------------------------------------------------------------------------
(* The table of entries.                                                   *)

Held(k) == k \in DOMAIN entries
Live(k) == Held(k) /\ ~entries[k].expired

\* What is left of the table t when it keeps only these keys.
Keeping(t, keys) == [k \in keys |-> [t[k] EXCEPT !.later = @ \cap keys]]

DropEntries(S) == entries' = Keeping(entries, DOMAIN entries \ S)

\* Key k gets the next number.
Touched(t, k) ==
    [j \in DOMAIN t |-> [t[j] EXCEPT !.later = IF j = k THEN {} ELSE @ \cup {k}]]

\* _evict_lru_unlocked: the MaxEntries last used stay.
Evicted(t) ==
    Keeping(t, {k \in DOMAIN t : Cardinality(t[k].later) < MaxEntries})

\* _prune_expired_unlocked: the expired ones among the first entries.
Prunable(S) ==
    LET expired == {k \in DOMAIN entries : entries[k].expired}
    IN  /\ S \subseteq expired
        /\ Cardinality(DOMAIN entries) <= SampleLimit => S = expired

With(t, k, entry) ==
    [j \in DOMAIN t \cup {k} |-> IF j = k THEN entry ELSE t[j]]

\* Insert an entry, prune and evict.
Insert(k, entry) ==
    \E pruned \in SUBSET DOMAIN entries :
        /\ Prunable(pruned)
        /\ LET others == Keeping(entries, DOMAIN entries \ (pruned \cup {k}))
           IN  entries' = Evicted(Touched(With(others, k, entry), k))

-----------------------------------------------------------------------------
(* get_or_set.                                                             *)

Free(t) == call[t].pc = "idle"
Working(t) == call[t].pc \in {"factory", "store"}

\* The call ends: with a value, None included, or an exception.
Ends(t) == call' = [call EXCEPT ![t] = IdleCall]

\* cache_get_or_set with the cache turned off only runs the factory.
CallDirectly(t, k) ==
    /\ Free(t)
    /\ ~enabled
    /\ call' = [call EXCEPT ![t] = [IdleCall EXCEPT !.pc = "direct", !.key = k]]
    /\ UNCHANGED <<entries, inflight, source, enabled, clearedAt>>

\* get_or_set on a live entry, and get() on any.
CallHits(t, k) ==
    /\ Free(t)
    /\ enabled
    /\ Live(k)
    /\ entries' = Touched(entries, k)
    /\ UNCHANGED <<inflight, call, source, enabled, clearedAt>>

CallOwnsUnannounced(t, k) ==
    /\ Free(t)
    /\ enabled
    /\ ~Live(k)
    /\ inflight[k] = NoThread
    /\ DropEntries({k})
    /\ inflight' = [inflight EXCEPT ![k] = IF Held(k) THEN NoThread ELSE t]
    /\ call' = [call EXCEPT ![t] = [IdleCall EXCEPT !.pc = "factory", !.key = k]]
    /\ UNCHANGED <<source, enabled, clearedAt>>

\* Nobody computes the key: this thread will, and says so in _inflight.
CallOwns(t, k) ==
    /\ Free(t)
    /\ enabled
    /\ ~Live(k)
    /\ inflight[k] = NoThread
    /\ DropEntries({k})
    /\ inflight' = [inflight EXCEPT ![k] = t]
    /\ call' = [call EXCEPT ![t] = [IdleCall EXCEPT !.pc = "factory", !.key = k]]
    /\ UNCHANGED <<source, enabled, clearedAt>>

CallWaits(t, k) ==
    /\ Free(t)
    /\ enabled
    /\ ~Live(k)
    /\ inflight[k] # NoThread
    /\ DropEntries({k})
    /\ call' = [call EXCEPT ![t] =
                   [IdleCall EXCEPT !.pc = "wait", !.key = k, !.owner = inflight[k]]]
    /\ UNCHANGED <<inflight, source, enabled, clearedAt>>

\* The factory has read its value; what follows is under the lock.
FactoryReturns(t) ==
    /\ call[t].pc = "factory"
    /\ call' = [call EXCEPT ![t].pc = "store", ![t].value = source]
    /\ UNCHANGED <<entries, inflight, source, enabled, clearedAt>>

DirectEnds(t) ==
    /\ call[t].pc = "direct"
    /\ Ends(t)
    /\ UNCHANGED <<entries, inflight, source, enabled, clearedAt>>

\* The owner is done: its key leaves _inflight, whoever's state is there by
\* now, and all that wait on its event go on.
Finish(t, failed) ==
    LET k == call[t].key
    IN  /\ inflight' = [inflight EXCEPT ![k] = NoThread]
        /\ call' = [u \in CacheThreads |->
              CASE u = t -> IdleCall
                [] u # t /\ call[u].pc = "wait" /\ call[u].owner = t ->
                     [call[u] EXCEPT !.pc = "woken", !.error = failed,
                                     !.value = IF failed THEN None ELSE call[t].value]
                [] u # t /\ inflight[k] = u ->
                     [call[u] EXCEPT !.orphaned = TRUE]
                [] OTHER -> call[u]]

FactoryRaisesAlone(t) ==
    /\ call[t].pc = "factory"
    /\ inflight' = [inflight EXCEPT ![call[t].key] = NoThread]
    /\ Ends(t)
    /\ UNCHANGED <<entries, source, enabled, clearedAt>>

FactoryRaises(t) ==
    /\ call[t].pc = "factory"
    /\ Finish(t, TRUE)
    /\ UNCHANGED <<entries, source, enabled, clearedAt>>

StoreValue(t) ==
    /\ call[t].pc = "store"
    /\ Insert(call[t].key, [value |-> call[t].value, expired |-> FALSE,
                            later |-> {}, late |-> call[t].orphaned])
    /\ Finish(t, FALSE)
    /\ UNCHANGED <<source, enabled, clearedAt>>

\* A waiter goes on.  It takes None for no value and looks at the table.
Wake(t) ==
    /\ call[t].pc = "woken"
    /\ LET k == call[t].key
           again == ~call[t].error /\ call[t].value = None
       IN  /\ IF again /\ Live(k)
              THEN entries' = Touched(entries, k)
              ELSE IF again THEN DropEntries({k})
              ELSE UNCHANGED entries
           /\ Ends(t)
    /\ UNCHANGED <<inflight, source, enabled, clearedAt>>

-----------------------------------------------------------------------------
(* The other operations, each one section under the lock.                  *)

GetEntry(k) ==
    /\ enabled
    /\ Held(k)
    /\ IF Live(k) THEN entries' = Touched(entries, k) ELSE DropEntries({k})
    /\ UNCHANGED <<inflight, call, source, enabled, clearedAt>>

SetEntry(k) ==
    /\ enabled
    /\ Insert(k, [value |-> source, expired |-> FALSE, later |-> {}, late |-> FALSE])
    /\ UNCHANGED <<inflight, call, source, enabled, clearedAt>>

DeleteEntry(k) ==
    /\ enabled
    /\ Held(k)
    /\ DropEntries({k})
    /\ UNCHANGED <<inflight, call, source, enabled, clearedAt>>

ClearInflightOnly(S) ==
    /\ enabled
    /\ DropEntries({})
    /\ inflight' = [k \in CacheKeys |-> IF k \in S THEN NoThread ELSE inflight[k]]
    /\ call' = [t \in CacheThreads |->
                  IF Working(t) /\ call[t].key \in S
                  THEN [call[t] EXCEPT !.orphaned = TRUE] ELSE call[t]]
    /\ clearedAt' = [k \in CacheKeys |-> IF k \in S THEN source ELSE clearedAt[k]]
    /\ UNCHANGED <<source, enabled>>

\* clear() and clear(prefix) also forget the calls in flight for the keys.
Clear(S) ==
    /\ enabled
    /\ DropEntries(S)
    /\ inflight' = [k \in CacheKeys |-> IF k \in S THEN NoThread ELSE inflight[k]]
    /\ call' = [t \in CacheThreads |->
                  IF Working(t) /\ call[t].key \in S
                  THEN [call[t] EXCEPT !.orphaned = TRUE] ELSE call[t]]
    /\ clearedAt' = [k \in CacheKeys |-> IF k \in S THEN source ELSE clearedAt[k]]
    /\ UNCHANGED <<source, enabled>>

Expire(k) ==
    /\ Live(k)
    /\ entries' = [entries EXCEPT ![k].expired = TRUE]
    /\ UNCHANGED <<inflight, call, source, enabled, clearedAt>>

\* An administrator changes PROMPTMAN_CACHE_ENABLED.
SwitchCache ==
    /\ enabled' = ~enabled
    /\ UNCHANGED <<entries, inflight, call, source, clearedAt>>

SourceChanges ==
    /\ source < MaxVersion
    /\ source' = source + 1
    /\ UNCHANGED <<entries, inflight, call, enabled, clearedAt>>

-----------------------------------------------------------------------------

\* What a thread does by itself once it has begun a call.
CacheStep(t) ==
    \/ FactoryReturns(t) \/ FactoryRaises(t) \/ StoreValue(t) \/ Wake(t)
    \/ DirectEnds(t)

CacheNext ==
    \/ \E t \in CacheThreads, k \in ComputedKeys :
           CallDirectly(t, k) \/ CallHits(t, k) \/ CallOwns(t, k) \/ CallWaits(t, k)
    \/ \E t \in CacheThreads : CacheStep(t)
    \/ \E k \in CacheKeys : GetEntry(k) \/ SetEntry(k) \/ DeleteEntry(k) \/ Expire(k)
    \/ \E S \in {CacheKeys, PrefixKeys} : Clear(S)
    \/ SwitchCache
    \/ SourceChanges

CacheSpec == CacheInit /\ [][CacheNext]_cacheVars

\* A factory ends: the one in use is an HTTP request with a timeout.
CacheFairness == \A t \in CacheThreads : WF_cacheVars(CacheStep(t))

-----------------------------------------------------------------------------
(* Properties.                                                             *)

\* Every thread that waits waits for a call of its key that is under way: an
\* owner never ends, normally or not, without setting the event of those that
\* wait without a timeout (ttl_cache.py:154), also when clear() has taken its
\* state out of _inflight.
WaitersHaveAnOwner ==
    \A t \in CacheThreads : call[t].pc = "wait" =>
        /\ Working(call[t].owner)
        /\ call[call[t].owner].key = call[t].key

\* Two threads compute one key at the same time only after a clear() in the
\* middle of one of the two: otherwise a computation is never done twice.
FactoriesOverlapOnlyAfterClear ==
    \A t, u \in CacheThreads :
        /\ t # u
        /\ Working(t) /\ Working(u)
        /\ call[t].key = call[u].key
        => call[t].orphaned \/ call[u].orphaned

\* What was cleared comes back only through a computation that had begun
\* before the clear() and stores its value after it (ttl_cache.py:170).
OnlyOrphansRevive ==
    \A k \in DOMAIN entries :
        ~entries[k].late => entries[k].value >= clearedAt[k]

\* Every caller that waits for another one's computation gets an answer.
WaitersReturn ==
    \A t \in CacheThreads : call[t].pc = "wait" ~> call[t].pc = "idle"
=============================================================================
