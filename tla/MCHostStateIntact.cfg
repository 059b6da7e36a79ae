SPECIFICATION HostSpec
CONSTANTS
    Procs = {p1, p2}
    Cleaners = {c1}
    Services = {s1}
    NRoutes = 2
    TunRoutes = {1}
    MaxFaults = 0
    UserEdits = FALSE
    Nil = Nil
CHECK_DEADLOCK FALSE
INVARIANTS AlwaysIntact
