------------------------------ MODULE Skolemizer ------------------------------
(***************************************************************************)
(* The skolemizer (solver/tactic/skolemize.py): every formula added to the *)
(* engine is turned into one without existential quantifiers and with its  *)
(* negations on the atoms, by a Skolemizer of its own.                     *)
(*                                                                         *)
(* The walk goes over the occurrences of subformulas, the nodes, from its   *)
(* stack.  A node's result is an operator over the results of its operands; *)
(* that the second visit of a node takes those off ret_stack is left out.   *)
(* A quantifier binds one variable.  One over several is a chain of such    *)
(* quantifiers, unless it is a universal one in a negative place.           *)
(* A substitution is kept as the map theta that it is and used at the       *)
(* atoms, which is what substitute does as long as no universal variable    *)
(* is bound again where it is in scope.                                    *)
(***************************************************************************)
EXTENDS Integers, Sequences, FiniteSets, Functions

CONSTANTS
    Nodes,        \* the occurrences of subformulas in the formulas
    Connective,   \* each node's operator
    Operands,     \* its operands; a quantifier has its body
    Binds,        \* the variable that a quantifier binds
    Place,        \* the node and position that an operand is found at
    Height,       \* each node's height
    Roots,        \* the formulas that may be added
    Variables,
    Domain,       \* the elements that variables stand for
    Structures,   \* what the atoms may mean: each the environments it holds in
    MaxRoots      \* bound: formulas added

Env == [Variables -> Domain]
Quantifiers == {"forall", "exists"}
Junctions == {"and", "or", "implies"}

ASSUME SkolemizerAssumption ==
    /\ Roots \subseteq Nodes /\ Height \in [Nodes -> Nat] /\ MaxRoots \in Nat
    /\ Connective \in [Nodes -> {"atom", "not"} \cup Junctions \cup Quantifiers]
    /\ Operands \in [Nodes -> Seq(Nodes)] /\ Binds \in [Nodes -> Variables]
    /\ \A n \in Nodes :
         /\ Connective[n] = "atom" => Operands[n] = <<>>
         /\ Connective[n] \in {"not"} \cup Quantifiers => Len(Operands[n]) = 1
         /\ Connective[n] = "implies" => Len(Operands[n]) = 2
         /\ \A i \in DOMAIN Operands[n] :
              LET m == Operands[n][i]
              IN  Height[m] < Height[n] /\ m \notin Roots /\ Place[m] = <<n, i>>
    /\ Domain # {}
    /\ Structures \subseteq [Nodes -> SUBSET Env]

VARIABLES
    assertions, \* the formulas added
    counter,    \* skolem_counter of the formula at hand
    stack,      \* the nodes to visit, the next one first
    entry,      \* what the stack holds, or held, with a node
    result      \* the operator of each visited node in its formula's result
skolemVars == <<assertions, counter, stack, entry, result>>

\* A slip: a Skolem function that forgets the universal variables.
SkolemConstant(n, v, univ) == [symbol |-> <<n, v, 0>>, args |-> <<>>]

\* sk_<counter>_<name>, applied to the universal variables.
SkolemTerm(n, v, univ) == [symbol |-> <<n, v, Len(univ)>>, args |-> univ]

\* run starts with the formula, positive, inside no quantifier; its counter is new.
Start(f) == [formula |-> f, positive |-> TRUE, univ |-> <<>>, theta |-> <<>>]
SkolemizeFormula(f) ==
    /\ stack = <<>> /\ f \notin assertions /\ Cardinality(assertions) < MaxRoots
    /\ assertions' = assertions \cup {f}
    /\ counter' = 0
    /\ stack' = <<f>>
    /\ entry' = [n \in DOMAIN entry \cup {f} |-> IF n = f THEN Start(f) ELSE entry[n]]
    /\ UNCHANGED result

\* The node on top becomes op; its operands are visited next, the last one first.
Becomes(op, operandEntry) ==
    LET n == Head(stack)
        args == Operands[n]
    IN  /\ result' = [m \in DOMAIN result \cup {n} |-> IF m = n THEN op ELSE result[m]]
        /\ stack' = [i \in DOMAIN args |-> args[Len(args) + 1 - i]] \o Tail(stack)
        /\ entry' = [m \in DOMAIN entry \cup Range(args) |->
                       IF m \in Range(args) THEN operandEntry[m] ELSE entry[m]]
        /\ UNCHANGED assertions

VisitAtom ==
    /\ stack # <<>> /\ Connective[Head(stack)] = "atom"
    /\ Becomes("literal", <<>>)
    /\ UNCHANGED counter

\* A negation leaves nothing but the polarity.
VisitNot ==
    /\ stack # <<>> /\ Connective[Head(stack)] = "not"
    /\ LET e == entry[Head(stack)]
       IN  Becomes("operand", [m \in Nodes |-> [e EXCEPT !.positive = ~e.positive]])
    /\ UNCHANGED counter

\* De Morgan; the premise of an implication changes polarity.
VisitJunction ==
    /\ stack # <<>> /\ Connective[Head(stack)] \in Junctions
    /\ LET n == Head(stack)
           e == entry[n]
           turned(m) == Connective[n] = "implies" /\ m = Operands[n][1]
       IN  Becomes(IF (Connective[n] = "and") = e.positive THEN "and" ELSE "or",
                   [m \in Nodes |-> IF turned(m) THEN [e EXCEPT !.positive = ~e.positive] ELSE e])
    /\ UNCHANGED counter

\* is_effective_forall
IsUniversal(n) == (Connective[n] = "forall") = entry[n].positive

\* What is bound here is not substituted inside.
VisitUniversal ==
    /\ stack # <<>> /\ Connective[Head(stack)] \in Quantifiers /\ IsUniversal(Head(stack))
    /\ LET e == entry[Head(stack)]
           v == Binds[Head(stack)]
       IN  Becomes("forall", [m \in Nodes |->
             [e EXCEPT !.univ = Append(e.univ, v), !.theta = [x \in DOMAIN e.theta \ {v} |-> e.theta[x]]]])
    /\ UNCHANGED counter

\* The body is walked in the place of the quantifier, always as positive.
VisitExistential ==
    /\ stack # <<>> /\ Connective[Head(stack)] \in Quantifiers /\ ~IsUniversal(Head(stack))
    /\ LET e == entry[Head(stack)]
           v == Binds[Head(stack)]
           term == SkolemTerm(counter + 1, v, e.univ)
       IN  Becomes("operand", [m \in Nodes |->
             [e EXCEPT !.positive = TRUE,
                       !.theta = [x \in DOMAIN e.theta \cup {v} |-> IF x = v THEN term ELSE e.theta[x]]]])
    /\ counter' = counter + 1

SkolemInit ==
    /\ assertions = {} /\ counter = 0 /\ stack = <<>> /\ entry = <<>> /\ result = <<>>

Visit == VisitAtom \/ VisitNot \/ VisitJunction \/ VisitUniversal \/ VisitExistential
SkolemNext == Visit \/ \E f \in Roots : SkolemizeFormula(f)
SkolemSpec == SkolemInit /\ [][SkolemNext]_skolemVars

(***************************************************************************)
(* Where a formula holds, before and after: op gives each node's operator,  *)
(* literal the environments in which an atom, or what became of it, holds.  *)
(***************************************************************************)
Common(sets) == {env \in Env : \A S \in sets : env \in S}

Meant(op, literal, holds, n) ==
    LET body == holds[Operands[n][1]]
        sides == {holds[Operands[n][i]] : i \in DOMAIN Operands[n]}
        at(env, d) == [env EXCEPT ![Binds[n]] = d]
    IN  CASE op[n] = "operand" -> body
          [] op[n] = "not" -> Env \ body
          [] op[n] = "and" -> Common(sides)
          [] op[n] = "or" -> UNION sides
          [] op[n] = "implies" -> (Env \ body) \cup holds[Operands[n][2]]
          [] op[n] = "forall" -> {env \in Env : \A d \in Domain : at(env, d) \in body}
          [] op[n] = "exists" -> {env \in Env : \E d \in Domain : at(env, d) \in body}
          [] OTHER -> literal[n]

Meaning(op, literal) ==
    LET holds[n \in DOMAIN op] == Meant(op, literal, holds, n)
    IN  holds

Truth(r) == Meaning(Connective, r)

\* The environment that an atom is read in once theta is substituted.
Substituted(theta, skolem, env) ==
    [v \in Variables |->
       IF v \in DOMAIN theta
       THEN skolem[theta[v].symbol][[i \in DOMAIN theta[v].args |-> env[theta[v].args[i]]]]
       ELSE env[v]]

Outcome(r, skolem) ==
    Meaning(result, [n \in DOMAIN result |->
      {env \in Env : (Substituted(entry[n].theta, skolem, env) \in r[n]) = entry[n].positive}])

\* The nodes that gave a Skolem symbol, the term of each, and what the symbols may stand for.
Existentials == {n \in DOMAIN result : Connective[n] \in Quantifiers /\ result[n] = "operand"}
TermOf(n) == entry[Operands[n][1]].theta[Binds[n]]
Symbols == {TermOf(n).symbol : n \in Existentials}
Mappings(y) == [[1 .. y[3] -> Domain] -> Domain]
Interpretations ==
    {skolem \in [Symbols -> UNION {Mappings(y) : y \in Symbols}] : \A y \in Symbols : skolem[y] \in Mappings(y)}

Models(holds) == Common({holds[f] : f \in assertions})

(***************************************************************************)
(* The formulas that skolemization is right for: no universal quantifier is *)
(* in a negative place, no two of the formulas have an existential variable *)
(* in common, and nothing binds a universal variable of its own scope.      *)
(***************************************************************************)
PositiveUniversals == \A n \in Existentials : Connective[n] = "exists"
VariablesApart ==
    \A m, n \in Existentials : Binds[m] = Binds[n] => entry[m].formula = entry[n].formula
NotRebound ==
    \A n \in DOMAIN result : Connective[n] \in Quantifiers => Binds[n] \notin Range(entry[n].univ)

(***************************************************************************)
(* Skolemization keeps what the formulas say: an environment of a structure *)
(* satisfies all the formulas added exactly when it satisfies all of what   *)
(* they became under some choice of the Skolem functions.  The verdicts on  *)
(* the skolemized theory (UNSAT above all) are verdicts on the formulas     *)
(* only then.                                                              *)
(***************************************************************************)
Preserved ==
    stack = <<>> =>
      \A r \in Structures :
        Models(Truth(r)) = UNION {Models(Outcome(r, skolem)) : skolem \in Interpretations}

MeaningPreserved == PositiveUniversals /\ VariablesApart /\ NotRebound => Preserved
===============================================================================
