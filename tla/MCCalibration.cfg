CONSTANTS
    Targets = {t1, t2}
    Others <- MCOthers
    Scale = 3
    Sizes = {1, 2, 3}
    MaxRows = 4
SPECIFICATION Spec
SYMMETRY TargetSymmetry
CHECK_DEADLOCK FALSE
INVARIANTS ReplayMatchesLive DeparturesBounded
