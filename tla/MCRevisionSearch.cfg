SPECIFICATION MCSpec
CONSTANTS
    MaxPriority = 1
    MaxConfidence = 2
    NumRecords = 4
    Limits = {1, 2, 5}
INVARIANTS
    RankIsTupleOrder
    NothingLost
    OneParent
    BestFirstOrder
    FrontierBound
PROPERTIES
    ImplementsBestFirst
CHECK_DEADLOCK FALSE
