CONSTANTS
    Atoms <- MCAtoms
    AppsOf <- MCAppsOf
    Sides <- MCSides
    Terms <- MCTerms
    Rules <- MCRules
    RuleAtom <- MCRuleAtom
    Patterns <- MCPatterns
    Instance <- MCInstance
    Formulas <- ChoiceFormulas
    Assumable <- NoAssumption
    RoundLimits <- NoLimit
    MatchLimits <- NoLimit
    ScopeAtoms <- NoScopes
    MaxDepth = 1
    MaxFormulas = 3
    MaxChecks = 1
SPECIFICATION FreeSpec
CHECK_DEADLOCK FALSE
INVARIANT UnsatSound
