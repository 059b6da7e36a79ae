SPECIFICATION Spec
CONSTANTS
    Domains = {d1, d2, d3}
    Capacity = 3
    MaxMappings = 2
    MappingTTL = 2
    DnsTTL = 1
    MaxPersistDelay = 1
    Flows = {f1, f2}
    MaxTime = 4
    Nil = Nil
SYMMETRY Symmetry
CHECK_DEADLOCK FALSE
INVARIANTS IndexesInverse RefCount AnswerStable ScanFindsFree
PROPERTY OnlyRollbackDetaches
