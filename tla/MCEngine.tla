------------------------------- MODULE MCEngine -------------------------------
(* Small instances of Engine.                                                *)
EXTENDS EngineUse

VARIABLE use     \* what the solver is made for
mcvars == <<useVars, use>>

\* p(a), p(b), f(a) = a, f(b) = b, u(a), u(b), p(c), p(d), where b is g(a), c is g(b) and d is g(c).
MCAtoms == 1 .. 8
MCAppsOf == << {"pa"}, {"pb", "ga"}, {"fa"}, {"fb", "ga"}, {"ua"}, {"ub", "ga"},
               {"pc", "gb", "ga"}, {"pd", "gc", "gb", "ga"} >>
MCSides == << {}, {}, {"a", "fa"}, {"b", "fb"}, {}, {}, {}, {} >>
MCTerms == {"a", "b", "c"}
\* p(X) => f(X) = X, f(X) = X => u(X), and one that makes new terms, p(X) => p(g(X)).
MCRules == {"fix", "up", "next"}
MCRuleAtom == [fix |-> 11, up |-> 12, next |-> 13]
OnP == [pa |-> "a", pb |-> "b", pc |-> "c"]
OnF == [fa |-> "a", fb |-> "b"]
OnU == [ua |-> "a", ub |-> "b"]
MCPatterns == [fix |-> <<OnP, OnF>>, up |-> <<OnF, OnU>>, next |-> <<OnP>>]
\* The first two ask nothing of c, which only the third makes.
Nothing == {-7, 7}
MCInstance == [fix  |-> [a |-> {-1, 3}, b |-> {-2, 4}, c |-> Nothing],
               up   |-> [a |-> {-3, 5}, b |-> {-4, 6}, c |-> Nothing],
               next |-> [a |-> {-1, 2}, b |-> {-2, 7}, c |-> {-7, 8}]]
MCScopeAtoms == <<21, 22>>

Ground(lits) == [lits |-> lits, rules |-> {}]
Rule(r) == [lits |-> {}, rules |-> {r}]

\* A solver made for one check, as the governance layer makes them, with any budgets.
OnceFormulas == {Ground({1}), Ground({2, 3}), Ground({-5}), Ground({-4}), Rule("fix"), Rule("up")}
\* A solver with scopes, asked again without budgets as long as no check refuted the
\* formulas themselves; rules are added outside every scope.
ReuseFormulas == {Ground({1}), Ground({-5}), Ground({-3, -1}), Rule("fix"), Rule("up")}
\* A solver made for one check, with a rule that makes a new term for each it meets.
BreedingFormulas == {Ground({1}), Ground({-2}), Rule("next")}
FormulasOf == [once |-> OnceFormulas, reuse |-> ReuseFormulas, breeding |-> BreedingFormulas]
MCFormulas == UNION Range(FormulasOf)
MCAssumable == {{}, {-5, 2}}
MCRoundLimits == {Unlimited, 0, 1}
MCMatchLimits == {Unlimited, 0, 3, 5, 13}

\* What the caller does: UseNext within these uses of a solver.
Used ==
    /\ use = "reuse" => /\ call'.phase = "solve" => call'.maxRounds = Unlimited /\ call'.maxMatches = Unlimited
                        /\ Len(assertions') <= 3
    /\ use # "reuse" => scopes' = <<>> /\ (checks > 0 => ~Idle)
    /\ use = "once" /\ call'.phase = "solve" => call'.maxMatches # 3
    /\ use = "breeding" /\ call'.phase = "solve" => call'.assumed = {} /\ call'.maxMatches <= 3
    /\ assertions' # assertions => Last(assertions').formula \in FormulasOf[use]

\* The instance for c is farther than a budget lets a check go.  A check that comes to it
\* stops there, and stands for one that goes on for ever.
AtTheEnd == use = "breeding" /\ call.phase = "assert" /\ \E b \in Range(call.queue) : b[2] = "c"
Going == Continue /\ ~AtTheEnd

\* A rule beside a literal, which UseNext excludes.
FreeSpec == UseInit /\ use = "once" /\ [][Next /\ UNCHANGED <<use, spoiled>>]_mcvars
ChoiceFormulas == {Ground({-3}), Ground({1}), [lits |-> {2}, rules |-> {"fix"}]}
NoAssumption == {{}}
NoLimit == {Unlimited}
NoScopes == <<>>

MCInit == UseInit /\ use \in {"once", "reuse", "breeding"}
MCNext == UseNext /\ Used /\ ~AtTheEnd /\ UNCHANGED use
MCSpec == MCInit /\ [][MCNext]_mcvars /\ WF_vars(Going)
===============================================================================
