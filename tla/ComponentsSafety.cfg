CONSTANTS
    Admins = {a1, a2}
    Providers = {"ollama", "openai"}
    ModelsOf <- MCModelsOf
    DefaultModel <- MCDefaultModel
    Score <- MCScore
    Embedding = {"bge"}
    CacheValues = {"memory", "redis"}
    PutKeys = {"PROMPTMAN_RUNTIME_CACHE_BACKEND", "OPTIMIZER_MODEL"}
    MaxChanges = 3
    MaxKills = 1
    NoRow = NoRow
    UserIds = {"u1", "u2", "u3"}
    ProjectIds = {p1, p2}
    Names = {"ann", "demo", "Demo"}
    Folded <- MCFolded
    Changes <- MCChanges
    AccessLists <- MCAccessLists
    AccountRequests = {r1, r2}
    MaxRequests = 3
    FirstAdmins <- MCFirstAdmins
    Nothing = Nothing
    ChainNames = {"intro", "Intro", "synthetic"}
    SameName <- MCSameName
    Writers = {"demo_admin", "ann"}
    ChainRequests = {"seed", "q1"}
    LLMSettings <- MCLLMSettings
    HeuristicLevel = 1
    Replies <- MCReplies
    TestRunLimit = 2
    MaxVersions = 4
    MaxTestRuns = 3
    Nobody = Nobody
    SeedSlot = "seed"
    SeedAdmin = "demo_admin"
    DemoChain = "intro"
    DemoVersions = 1
    SyntheticChain = "synthetic"
    Scales = {0, 3}
    DemoAccess = {"sales", "support"}
    Projects = {"sales", "support"}
    MaxSeedRuns = 3
    MaxTouches = 1
    Sessions = {s1, s2}
    Controls = {c1}
    ModalRequests = {q1, q2}
    Hooked = {h1, h2}
    HookLimit = 2
    MaxRecords = 2
    MaxUnloads = 1
    MaxHookCalls = 4
    NoSession = NoSession
SPECIFICATION ComponentsSpec
INVARIANTS
    StartupDataIsComplete
    SettledSettingsAgree
    
    AnAdminRemains
    ChainsNameTheirLastAuthor
    SeedIsWhole
    UnloadClosesEarlierSessions
    HooksBlockAfterARow

    
CHECK_DEADLOCK FALSE
