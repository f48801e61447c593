SPECIFICATION Spec
CONSTANT Instances <- Tight
INVARIANT RefutationIsFinal
CHECK_DEADLOCK FALSE
