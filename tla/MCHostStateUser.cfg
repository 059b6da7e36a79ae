SPECIFICATION FairHostSpec
CONSTANTS
    Procs = {p1}
    Cleaners = {c1}
    Services = {s1}
    NRoutes = 2
    TunRoutes = {1}
    MaxFaults = 1
    UserEdits = TRUE
    Nil = Nil
CHECK_DEADLOCK FALSE
INVARIANTS UserDNSKept
PROPERTIES CleanupRestores
