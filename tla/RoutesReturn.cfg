CONSTANTS
    Nil = Nil
    Plugins = {p1}
    Endpoints = {e1}
    Records = {r1, r2, r3}
    Callers = {c1}
    Admins = {a1}
    RuntimeLimit = 1
    HealthLimit = 3
    Operations = {"rescan", "health"}
    FileOutcomes = {"ok"}
SPECIFICATION Spec
PROPERTY RoutesReturnOnlyByLoad
