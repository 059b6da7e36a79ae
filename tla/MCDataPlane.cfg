SPECIFICATION FairPlaneSpec
CONSTANTS
    t1 = t1
    u1 = u1
    u2 = u2
    k1 = k1
    k2 = k2
    s1 = s1
    Flows = {t1, u1, u2}
    UDPFlows = {u1, u2}
    Keys = {k1, k2}
    Sources = {s1}
    KeyOf <- MCKeyOf
    SourceOf <- MCSourceOf
    MaxSessions = 2
    MaxPerSource = 1
    MaxGenerations = 2
    Nil = Nil
CHECK_DEADLOCK FALSE
INVARIANTS RefsExact InUseRetained StatsExact WithinCapacity
PROPERTIES FlowsServed RetiredFreed
