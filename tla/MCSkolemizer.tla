----------------------------- MODULE MCSkolemizer -----------------------------
(* Closed formulas over one binary predicate, for Skolemizer.                *)
EXTENDS Skolemizer

Atom(u, v) == <<"atom", u, v>>
Neg(e) == <<"not", e>>
Bin(o, d, e) == <<o, d, e>>
All(v, e) == <<"forall", v, e>>
Some(v, e) == <<"exists", v, e>>

\* Two quantifiers, with connectives at each of the three places.
Inner(u, v) == {All(v, Atom(u, v)), All(v, Neg(Atom(v, u))), Some(v, Atom(u, v)), Some(v, Neg(Atom(v, u)))}
Bodies(u, v) ==
    LET side == Inner(u, v) \cup {Atom(u, u)}
        left == {All(v, Atom(u, v)), Some(v, Neg(Atom(v, u)))}
        right == {All(v, Neg(Atom(v, u))), Some(v, Atom(u, v)), Atom(u, u)}
    IN  side \cup {Neg(e) : e \in side}
             \cup {Bin(o, d, e) : o \in Junctions, d \in left, e \in right}
Closed(u, v) == {All(u, e) : e \in Bodies(u, v)} \cup {Some(u, e) : e \in Bodies(u, v)}
Joined(u, v) ==
    {Bin(o, d, e) : o \in Junctions,
                    d \in {All(u, Some(v, Atom(u, v))), Some(u, Atom(u, u))},
                    e \in {Some(u, All(v, Atom(v, u))), Some(v, Neg(Atom(v, v)))}}
AllFormulas == Closed("u", "a") \cup {Neg(e) : e \in Closed("u", "a")} \cup Joined("u", "a")

\* Formulas with one existential variable, v, and perhaps the universal variable u.
Family(v) ==
    {Some(v, Atom(v, v)), Some(v, Neg(Atom(v, v))), Some(v, All("u", Atom(v, "u"))), All("u", Some(v, Neg(Atom(v, "u"))))}
Families == {Family("a"), Family("b")}

\* A formula that binds u twice, the second time inside the scope of the first.
Rebinding == All("u", Some("a", All("u", Atom("a", "u"))))
UsefulFormulas == AllFormulas \cup UNION Families \cup {Rebinding}

\* The nodes are numbered: a formula, its first operand with all below it, then the second.
OperandsOf(e) ==
    CASE e[1] = "atom" -> <<>>
      [] e[1] = "not" -> <<e[2]>>
      [] e[1] \in Quantifiers -> <<e[3]>>
      [] OTHER -> <<e[2], e[3]>>
RECURSIVE Count(_), Numbered(_, _, _), ListOf(_)
Count(e) == LET os == OperandsOf(e)
            IN  1 + (IF os = <<>> THEN 0 ELSE Count(os[1])) + (IF Len(os) = 2 THEN Count(os[2]) ELSE 0)
Distance(e, i) == IF i = 1 THEN 1 ELSE 1 + Count(OperandsOf(e)[1])
Numbered(e, up, position) ==
    LET os == OperandsOf(e)
        below(i) == IF i > Len(os) THEN <<>> ELSE Numbered(os[i], Distance(e, i), i)
    IN  <<[sub |-> e, up |-> up, position |-> position]>> \o below(1) \o below(2)

ListOf(formulas) ==
    IF formulas = {} THEN <<>>
    ELSE LET e == CHOOSE e \in formulas : TRUE IN Numbered(e, 0, 0) \o ListOf(formulas \ {e})
Listing == ListOf(UsefulFormulas)
Each(Of(_, _)) == LET nodes == Listing IN <<>> \o [n \in DOMAIN nodes |-> Of(n, nodes[n])]
RootsOf(formulas) ==
    LET nodes == Listing IN {n \in DOMAIN nodes : nodes[n].up = 0 /\ nodes[n].sub \in formulas}

TheNodes == DOMAIN Listing
TheRoots == RootsOf(UsefulFormulas)
TheConnective == Each(LAMBDA n, node : node.sub[1])
TheOperands == Each(LAMBDA n, node : [i \in DOMAIN OperandsOf(node.sub) |-> n + Distance(node.sub, i)])
TheBinds == Each(LAMBDA n, node : IF node.sub[1] \in Quantifiers THEN node.sub[2] ELSE "u")
ThePlace == Each(LAMBDA n, node : <<n - node.up, node.position>>)
TheHeight == Each(LAMBDA n, node : Count(node.sub))

\* A structure of two elements gives the predicate a relation.
Holding(relation, e) ==
    IF e[1] = "atom" THEN {env \in Env : <<env[e[2]], env[e[3]]>> \in relation} ELSE {}
TheStructures == {Each(LAMBDA n, node : Holding(relation, node.sub)) : relation \in SUBSET (Domain \X Domain)}

SingleRoots == RootsOf(AllFormulas)
FamilyRoots == {RootsOf(family) : family \in Families}
SharingRoots == RootsOf(Family("a"))
RebindingRoots == RootsOf({Rebinding})

\* One formula of any shape, or several with an existential variable each.
SeparateNext ==
    \/ Visit
    \/ assertions = {} /\ \E f \in SingleRoots : SkolemizeFormula(f)
    \/ \E family \in FamilyRoots :
         /\ assertions \subseteq UNION (FamilyRoots \ {family})
         /\ \E f \in family : SkolemizeFormula(f)
SeparateSpec == SkolemInit /\ [][SeparateNext]_skolemVars
===============================================================================
