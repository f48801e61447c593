------------------------------ MODULE MCEncoder ------------------------------
(* Propositional formulas over four atoms, one of them a scope, for EncoderSharing. *)
EXTENDS EncoderSharing

Atom(a) == <<"atom", a>>
p == Atom("p")
q == Atom("q")
r == Atom("r")
s == Atom("s")
Both(a, b) == MkAnd({a, b})
Either(a, b) == MkOr({a, b})
None(a, b) == Either(MkNot(a), MkNot(b))

MCFormulas ==
    {p, MkNot(q), Both(q, r), Either(Both(q, r), p), Both(MkNot(q), Either(Both(q, r), p)),
     Either(Both(q, MkNot(r)), Both(MkNot(q), r)), Both(Either(p, q), None(p, q)),
     Both(p, Either(q, Both(MkNot(p), r))), Both(p, MkNot(p)), MkOr({p, MkNot(p), q}),
     True, False, Either(MkNot(s), Both(q, r)), Either(MkNot(s), MkNot(p)),
     Either(MkNot(s), Either(p, Both(q, r)))}
MCAssumable == {s, MkNot(q), Both(q, r), None(p, r), Both(p, None(q, r)), Either(Both(q, r), MkNot(p)), True, False}

RECURSIVE Below(_)
Below(e) == {e} \cup UNION {Below(a) : a \in Args(e)}
MCExprs == UNION {Below(e) : e \in MCFormulas \cup MCAssumable}

RECURSIVE Holds(_, _)
Holds(e, true) ==
    CASE e = True -> TRUE
      [] e = False -> FALSE
      [] e[1] = "not" -> ~Holds(e[2], true)
      [] e[1] = "and" -> \A a \in e[2] : Holds(a, true)
      [] e[1] = "or" -> \E a \in e[2] : Holds(a, true)
      [] OTHER -> e \in true
MCValuations == {[e \in MCExprs |-> Holds(e, true)] : true \in SUBSET {p, q, r, s}}

MCSize == [e \in MCExprs |-> Cardinality(Below(e))]

\* Any formulas, whatever they share.
FreeNext == Next /\ Lose
FreeSpec == KeptInit /\ [][FreeNext]_keptVars
===============================================================================
