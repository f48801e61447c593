------------------------------- MODULE MCEMatch -------------------------------
(* Terms over two constants, a function and two predicates, for EMatch.      *)
(* An expression is a tuple: a name and arguments, or the name of a variable. *)
EXTENDS EMatch

X == <<"X">>
Y == <<"Y">>
a == <<"a", <<>>>>
b == <<"b", <<>>>>
f(t) == <<"f", <<t>>>>
p(t) == <<"p", <<t>>>>
g(t, u) == <<"g", <<t, u>>>>
Not(e) == <<"Not", <<e>>>>
Or(d, e) == <<"Or", <<d, e>>>>
Eq(t, u) == <<"Eq", <<t, u>>>>
Rule(bound, body, pats) == [vars |-> bound, body |-> body, patterns |-> pats]

\* f(b) and b may come from an instance, b is then too deep for another one.
MCOrder == << <<p(f(a)), 0>>, <<g(f(a), a), 0>>, <<b, 1>>, <<p(b), 0>>, <<g(a, b), 0>>, <<f(b), 1>> >>
MCRegistrable == Range(MCOrder)
MCEquations == {{}, {<<a, b>>}, {<<f(a), b>>}}
\* p(f(X)) => f(X) = X: a nested pattern, and what it is made of
Nested == Rule({X}, Or(Not(p(f(X))), Eq(f(X), X)), <<>>)
MCRules ==
    { Nested,
      \* g(X, X) => p(X): a repeated variable
      Rule({X}, Or(Not(g(X, X)), p(X)), << <<g(X, X)>> >>),
      \* g(f(X), Y) => p(Y), where p(Y) and f(X) bind one variable only
      Rule({X, Y}, Or(Not(g(f(X), Y)), p(Y)), <<>>),
      \* p(X) and g(Y, X) => p(Y): a pattern of two expressions
      Rule({X, Y}, Or(Not(p(X)), Or(Not(g(Y, X)), p(Y))), << <<p(X), g(Y, X)>> >>),
      \* g(X, a) => p(X): a constant in a pattern
      Rule({X}, Or(Not(g(X, a)), p(X)), << <<g(X, a)>> >>) }
MCBudgets == {Unlimited, 6, 18}

RECURSIVE Parts(_)
Parts(e) == {e} \cup (IF Len(e) = 1 THEN {} ELSE UNION {Parts(e[2][i]) : i \in DOMAIN e[2]})
RECURSIVE Nesting(_)
Nesting(e) == IF Cardinality(Parts(e)) = 1 THEN 0 ELSE 1 + Max({Nesting(d) : d \in Parts(e) \ {e}})

MCTerms == UNION {Parts(td[1]) : td \in MCRegistrable}
MCVariables == {X, Y}
MCExprs == MCTerms \cup UNION {Parts(rule.body) \cup UNION {Parts(e) : e \in UNION {Range(q) : q \in Range(rule.patterns)}}
                                 : rule \in MCRules}
MCDecl == [e \in MCExprs |-> e[1]]
MCArgsOf == [e \in MCExprs |-> IF Len(e) = 1 THEN <<>> ELSE e[2]]
MCSize == [e \in MCExprs |-> Nesting(e)]

\* Rules come first, any of them and perhaps the nested one after it, and then any terms,
\* in one order, before and after a call.
InOrder(t) == \A i, j \in DOMAIN MCOrder : MCOrder[i][1] = t /\ MCOrder[j][1] \in DOMAIN depth => j < i
MCNext == /\ Next
          /\ rules' = rules => rules # <<>>
          /\ rules' # rules => depth = <<>> /\ (rules = <<>> \/ rules'[2].body = Nested.body)
          /\ \A t \in DOMAIN depth' \ DOMAIN depth : InOrder(t)
MCSpec == Init /\ [][MCNext]_vars
===============================================================================
