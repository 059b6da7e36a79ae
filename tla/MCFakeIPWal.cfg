SPECIFICATION WalSpec
CONSTANTS
    Domains = {d1, d2}
    Capacity = 3
    MaxMappings = 2
    MappingTTL = 2
    DnsTTL = 1
    MaxPersistDelay = 1
    Flows = {f1}
    MaxTime = 3
    MaxRemoved = 1
    MaxJournal = 2
    TornFrom = 2
    Mixed = FALSE
    MaxCrashes = 2
    MaxIOErrors = 1
    MaxEpoch = 4
    Long = {}
    PowerLoss = TRUE
    Legacy = TRUE
    MediumErrors = TRUE
    Nil = Nil
    Torn = Torn
    Corrupt = Corrupt
SYMMETRY Symmetry
CHECK_DEADLOCK FALSE
INVARIANTS DurableAnswers AnswersAgree CrashConsistent
