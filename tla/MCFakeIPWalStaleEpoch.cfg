SPECIFICATION WalSpec
CONSTANTS
    Domains = {d1, d2, d3}
    Capacity = 3
    MaxMappings = 2
    MappingTTL = 2
    DnsTTL = 1
    MaxPersistDelay = 1
    Flows = {}
    MaxTime = 3
    MaxRemoved = 1
    MaxJournal = 2
    TornFrom = 9
    Mixed = TRUE
    MaxCrashes = 1
    MaxIOErrors = 1
    MaxEpoch = 4
    Long = {d2}
    PowerLoss = FALSE
    Legacy = FALSE
    MediumErrors = FALSE
    Nil = Nil
    Torn = Torn
    Corrupt = Corrupt
CHECK_DEADLOCK FALSE
INVARIANT DurableAnswers
