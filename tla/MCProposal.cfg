SPECIFICATION MCSpec
CONSTANTS
    MaxPriority = 1
    MaxConfidence = 1
    NumRecords = 3
    Limits = {1, 2, 3}
    CheckBudgets = {2, 3, 5, 12}
INVARIANTS
    AppliedStateVerified
    UniqueCheapest
    NoRepairMissed
    DeferralJustified
PROPERTIES
    Decides
CHECK_DEADLOCK FALSE
