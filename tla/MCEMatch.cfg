CONSTANTS
    Exprs <- MCExprs
    Terms <- MCTerms
    Variables <- MCVariables
    Decl <- MCDecl
    ArgsOf <- MCArgsOf
    Size <- MCSize
    Registrable <- MCRegistrable
    Equations <- MCEquations
    Rules <- MCRules
    Budgets <- MCBudgets
    MaxDepth = 1
    MaxRules = 2
    MaxCalls = 2
SPECIFICATION MCSpec
CHECK_DEADLOCK FALSE
INVARIANT Saturated
PROPERTY OnlyMatches
