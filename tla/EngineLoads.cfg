CONSTANTS
    Nil = Nil
    Plugins = {p1, p2}
    Endpoints = {e1}
    Records = {r1, r2, r3, r4, r5}
    Callers = {c1, c2}
    Admins = {a1}
    RuntimeLimit = 2
    HealthLimit = 2
    Operations = {"rescan", "load", "reload", "unload", "shutdown"}
    FileOutcomes = {"ok", "incompatible"}
SPECIFICATION Spec
SYMMETRY Symmetry
VIEW LiveView
INVARIANTS
    AvailableIsServed
    BlockedGoesDown
    RoutesMatchCatalog
PROPERTIES
    SupersededCallsAreInert
