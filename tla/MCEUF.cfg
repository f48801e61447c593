CONSTANTS
    Terms <- MCTerms
    FunctionOf <- MCFunctionOf
    ArgsOf <- MCArgsOf
    Equalities <- MCEqualities
    Sides <- MCSides
    MaxLevel = 2
SPECIFICATION EarlySpec
CHECK_DEADLOCK FALSE
INVARIANTS TypeOK ClosureIsExact CheckDecides ExplanationsEntail
PROPERTIES RollbackIsExact PropagationsComplete
