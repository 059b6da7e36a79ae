SPECIFICATION SessionSpec
CONSTANTS
    Domain = {"d", "e"}
    Addr = {"x", "y"}
    Outbound = {"one", "two", "block"}
    Flow = {"f", "g"}
    Scenarios <- MCScenarios
    Servers = 2
    MaxConcurrent = 1
    MaxCache = 1
    MaxTCPFlows = 1
    MaxNow = 1
CHECK_DEADLOCK FALSE
INVARIANTS RouteHonoured CompletedDelivered NothingLeaks
PROPERTIES StackCloses
