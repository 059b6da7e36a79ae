SPECIFICATION RuntimeSpec
CONSTANTS
    Domain = {"d"}
    Addr = {"x"}
    Outbound = {"one"}
    Query = {"q", "r"}
    Scenarios <- MCScenarios
    MaxConcurrent = 1
    Buffers = 2
CHECK_DEADLOCK FALSE
INVARIANTS PolicyAgrees
PROPERTIES NetworkApplied RunEnds OutputFlows
