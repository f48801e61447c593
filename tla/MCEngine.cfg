CONSTANTS
    Atoms <- MCAtoms
    AppsOf <- MCAppsOf
    Sides <- MCSides
    Terms <- MCTerms
    Rules <- MCRules
    RuleAtom <- MCRuleAtom
    Patterns <- MCPatterns
    Instance <- MCInstance
    Formulas <- MCFormulas
    Assumable <- MCAssumable
    RoundLimits <- MCRoundLimits
    MatchLimits <- MCMatchLimits
    ScopeAtoms <- MCScopeAtoms
    MaxDepth = 1
    MaxFormulas = 4
    MaxChecks = 2
SPECIFICATION MCSpec
CHECK_DEADLOCK FALSE
INVARIANTS UnsatSound SatSaturated BudgetsKept
PROPERTY Answered
