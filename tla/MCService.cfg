SPECIFICATION FairServiceSpec
CONSTANTS
    Configs = {c1, c2}
    Boot = c1
    CacheLimit = 2
    MaxRequests = 3
    MaxEvents = 1
CHECK_DEADLOCK FALSE
INVARIANTS OutcomeHolds HalvesAgree SessionInStep AtMostOnce CleanStop ReleasedOrRecorded
PROPERTIES DeadWorkerReleased
