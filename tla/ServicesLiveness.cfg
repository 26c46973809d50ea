CONSTANTS
    MaxCrashes = 1
    LegacyRows <- MCLegacyRows
    Sessions = {s1}
    Controls = {c1}
    ModalRequests = {q1, q2}
    Hooked = {h1, h2}
    HookLimit = 2
    MaxRecords = 2
    MaxUnloads = 1
    MaxHookCalls = 4
    NoSession = NoSession
    CacheThreads = {t1, t2, t3}
    CacheKeys = {k1, k2}
    PrefixKeys = {k1}
    ComputedKeys = {k1}
    MaxEntries = 1
    SampleLimit = 16
    MaxVersion = 1
    NoThread = NoThread
SPECIFICATION ServicesSpec
INVARIANTS
    ServingMeansCurrentSchema
    WaitersHaveAnOwner
    FactoriesOverlapOnlyAfterClear
    OnlyOrphansRevive
PROPERTIES
    
    OpeningIsResolved
    WaitersReturn
CHECK_DEADLOCK FALSE
