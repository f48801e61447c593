CONSTANTS
    Terms <- MCTerms
    FunctionOf <- MCFunctionOf
    ArgsOf <- MCArgsOf
    Equalities <- MCEqualities
    Sides <- MCSides
    MaxLevel = 2
SPECIFICATION LateSpec
CHECK_DEADLOCK FALSE
INVARIANT ClosureIsExact
