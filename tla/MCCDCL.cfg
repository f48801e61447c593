SPECIFICATION Spec
CONSTANT Instances <- Problems
INVARIANTS
    ReasonsStand
    LearnedFollow
    PropagationComplete
    SatIsModel
    CoreIsUnsat
PROPERTIES
    Answered
CHECK_DEADLOCK FALSE
