CONSTANTS
    Nil = Nil
    Plugins = {p1}
    Endpoints = {e1}
    Records = {r1, r2, r3, r4}
    Callers = {c1, c2}
    Admins = {a1}
    RuntimeLimit = 1
    HealthLimit = 1
    Operations = {"rescan", "load", "reload", "unload", "health", "shutdown"}
    FileOutcomes = {"ok", "incompatible"}
SPECIFICATION Spec
SYMMETRY Symmetry
VIEW LiveView
INVARIANTS
    TypeOK
    RoutesMatchCatalog
PROPERTIES
    SupersededCallsAreInert
