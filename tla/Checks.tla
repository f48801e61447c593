-------------------------------- MODULE Checks --------------------------------
(***************************************************************************)
(* The checks over a complete set of adopted premises (governance/checks.py, *)
(* governance/_checking.py and the results of governance/results.py) as a    *)
(* host uses them: it adopts and withdraws assertions and rules and asks,     *)
(* of the premises of the moment, whether they are consistent, what they     *)
(* entail, and what supports an atom other than its own assertions.         *)
(*                                                                         *)
(* A formula is the set of the valuations that satisfy it, and a valuation   *)
(* the set of the atoms that are true.  What one check of a Solver answers   *)
(* is not known, except that SAT and UNSAT are sound; a limit or a rule out  *)
(* of its reach makes it UNKNOWN.                                          *)
(***************************************************************************)
EXTENDS Integers, Sequences, FiniteSets

CONSTANTS
    Atoms,       \* the ground atoms: records of a predicate and its arguments
    Records,     \* the assertions: records of an id, an atom and a truth value
    Rules,       \* the rules that may be adopted, as formulas
    Axioms,      \* hard_axioms, as formulas
    Functional,  \* functional_predicates
    Queries,     \* the conclusions asked about, as formulas
    MaxAnswers   \* bound: answers the host remembers

Valuations == SUBSET Atoms

ASSUME ChecksAssumption ==
    /\ \A r \in Records : r.atom \in Atoms /\ r.truth \in BOOLEAN
    /\ Rules \cup Axioms \cup Queries \subseteq SUBSET Valuations
    /\ MaxAnswers \in Nat

VARIABLES
    premises, \* the PremiseSet of the host
    asked,    \* the entailment or support question being checked
    pc,       \* "idle", or which of its two checks runs
    answers   \* the results the host remembers, each with its premises
vars == <<premises, asked, pc, answers>>

None == "None"
Status == {"SAT", "UNSAT", "UNKNOWN"}
NoQuestion == [api |-> "none", excluded |-> {}, goal |-> {}]
MinArity == 2   \* FUNCTIONAL_MIN_ARITY

Holds(atom) == {v \in Valuations : atom \in v}
Negation(f) == Valuations \ f
Signed(atom, truth) == IF truth THEN Holds(atom) ELSE Negation(Holds(atom))
Models(fs) == {v \in Valuations : \A f \in fs : v \in f}

(***************************************************************************)
(* PremiseSet: the scope retains what the host passes on, and the atoms of   *)
(* the assertions.                                                         *)
(***************************************************************************)
Premises(assertions, rules, scope) ==
    [assertions |-> assertions, rules |-> rules, scope |-> scope \cup {r.atom : r \in assertions}]

(***************************************************************************)
(* theory                                                                  *)
(***************************************************************************)
Arity(atom) == Len(atom.args)
Exclusive(a, b) ==
    /\ a.predicate \in Functional /\ a.predicate = b.predicate
    /\ Arity(a) >= MinArity /\ Arity(a) = Arity(b)
    /\ SubSeq(a.args, 1, Arity(a) - 1) = SubSeq(b.args, 1, Arity(b) - 1)
    /\ a.args[Arity(a)] # b.args[Arity(b)]
Exclusion(a, b) == Negation(Holds(a)) \cup Negation(Holds(b))

\* A slip: exclusions between the adopted atoms only.
TheoryOfAdopted(p) ==
    p.rules \cup Axioms
      \cup {Exclusion(ab[1], ab[2]) : ab \in {x \in {r.atom : r \in p.assertions} \X {r.atom : r \in p.assertions} :
                                                Exclusive(x[1], x[2])}}

Theory(p) ==
    p.rules \cup Axioms
      \cup {Exclusion(ab[1], ab[2]) : ab \in {x \in p.scope \X p.scope : Exclusive(x[1], x[2])}}

\* signed_assertions
SignedAssertions(p, excluded) ==
    {Signed(r.atom, r.truth) : r \in {x \in p.assertions : x.atom \notin excluded}}

(***************************************************************************)
(* One check of a fresh Solver.                                            *)
(***************************************************************************)
Possible(fs, status) ==
    /\ status \in Status
    /\ status = "SAT" => Models(fs) # {}
    /\ status = "UNSAT" => Models(fs) = {}

(***************************************************************************)
(* The host adopts other premises in the same scope.                        *)
(***************************************************************************)
Remembering == Cardinality(answers) < MaxAnswers

Adopt(assertions, rules) ==
    /\ pc = "idle" /\ Remembering
    /\ premises' = Premises(assertions, rules, premises.scope)
    /\ UNCHANGED <<asked, pc, answers>>

(***************************************************************************)
(* check_consistency: the assumptions are the signed atoms, each with all    *)
(* the assertions that supply it; a core is any refuted part of them.       *)
(***************************************************************************)
\* A slip: an assumption names one of its owners.
AssumptionsOfOne(p) == {[atom |-> r.atom, truth |-> r.truth, owners |-> {r}] : r \in p.assertions}

Owners(p, r) == {x \in p.assertions : x.atom = r.atom /\ x.truth = r.truth}
Assumptions(p) == {[atom |-> r.atom, truth |-> r.truth, owners |-> Owners(p, r)] : r \in p.assertions}
Assumed(assumptions) == {Signed(a.atom, a.truth) : a \in assumptions}

CheckConsistency(status, core) ==
    /\ pc = "idle" /\ Remembering
    /\ Possible(Theory(premises) \cup Assumed(Assumptions(premises)), status)
    /\ core \subseteq Assumptions(premises)
    /\ IF status = "UNSAT" THEN Models(Theory(premises) \cup Assumed(core)) = {} ELSE core = {}
    /\ answers' = answers \cup {[api |-> "consistency", premises |-> premises, status |-> status, core |-> core]}
    /\ UNCHANGED <<premises, asked, pc>>

(***************************************************************************)
(* check_entailment and check_support: the premises are certified first, and *)
(* only then the negated conclusion is added, to another Solver whose limits *)
(* are renewed.                                                            *)
(***************************************************************************)
Entailment == [api : {"entailment"}, excluded : {{}}, goal : Queries]
Support == {[api |-> "support", excluded |-> {r.atom}, goal |-> Signed(r.atom, truth)] :
              r \in Records, truth \in BOOLEAN}
Known(p, question) == Theory(p) \cup SignedAssertions(p, question.excluded)

Ask(question) ==
    /\ pc = "idle" /\ Remembering
    /\ asked' = question /\ pc' = "premises"
    /\ UNCHANGED <<premises, answers>>

Reply(premisesStatus, queryStatus) ==
    /\ answers' = answers \cup {[api |-> asked.api, premises |-> premises, question |-> asked,
                                 premisesStatus |-> premisesStatus, queryStatus |-> queryStatus]}
    /\ asked' = NoQuestion /\ pc' = "idle"

CheckPremises(status) ==
    /\ pc = "premises"
    /\ Possible(Known(premises, asked), status)
    /\ IF status # "SAT" THEN Reply(status, None)
       ELSE pc' = "query" /\ UNCHANGED <<asked, answers>>
    /\ UNCHANGED premises

CheckQuery(status) ==
    /\ pc = "query"
    /\ Possible(Known(premises, asked) \cup {Negation(asked.goal)}, status)
    /\ Reply("SAT", status)
    /\ UNCHANGED premises

\* A slip: the verdict is read off the query alone.
VerdictOfQuery(result) ==
    CASE result.queryStatus = "UNKNOWN" -> "UNKNOWN"
      [] result.queryStatus = "SAT" -> "NOT_ENTAILED"
      [] OTHER -> "ENTAILED"

\* EntailmentResult.verdict
Verdict(result) ==
    IF result.premisesStatus = "UNSAT" THEN "INCONSISTENT_PREMISES"
    ELSE IF "UNKNOWN" \in {result.premisesStatus, result.queryStatus} THEN "UNKNOWN"
    ELSE IF result.queryStatus = "UNSAT" THEN "ENTAILED" ELSE "NOT_ENTAILED"

Init ==
    /\ premises = Premises({}, {}, {})
    /\ asked = NoQuestion /\ pc = "idle" /\ answers = {}

Next ==
    \/ \E A \in SUBSET Records, R \in SUBSET Rules : Adopt(A, R)
    \/ \E s \in Status : \/ \E core \in SUBSET Assumptions(premises) : CheckConsistency(s, core)
                         \/ CheckPremises(s)
                         \/ CheckQuery(s)
    \/ \E q \in Entailment \cup Support : Ask(q)

Spec == Init /\ [][Next]_vars

(***************************************************************************)
(* Any two answers that the host remembers.                                *)
(***************************************************************************)
Consistencies == {x \in answers : x.api = "consistency"}
Conclusions == answers \ Consistencies
Within(p, q) == p.assertions \subseteq q.assertions /\ p.rules \subseteq q.rules /\ p.scope \subseteq q.scope

(***************************************************************************)
(* A core names everyone whose word it rests on.  In whatever way the host   *)
(* later becomes consistent without giving up a rule, some assumption of    *)
(* the core has lost all of its owners; and once the owners of an assumption *)
(* are withdrawn, no core rests on it again.                                *)
(***************************************************************************)
CoreMustGive ==
    \A x, y \in Consistencies : x.status = "UNSAT" =>
      /\ /\ y.status = "SAT"
         /\ x.premises.rules \subseteq y.premises.rules /\ x.premises.scope \subseteq y.premises.scope
         => \E a \in x.core : a.owners \cap y.premises.assertions = {}
      /\ y.premises.assertions \subseteq x.premises.assertions =>
           \A a \in x.core, b \in y.core :
             b.atom = a.atom /\ b.truth = a.truth => a.owners \cap y.premises.assertions # {}

(***************************************************************************)
(* The support of an atom does not depend on who asserts or denies it: with  *)
(* the other assertions, the rules and the scope as they were, a definite    *)
(* answer remains whatever owners of the atom come and go.                  *)
(***************************************************************************)
OtherAssertions(x) == {r \in x.premises.assertions : r.atom \notin x.question.excluded}
SupportIsIndependent ==
    \A x, y \in Conclusions :
      /\ x.api = "support" /\ y.question = x.question
      /\ OtherAssertions(x) = OtherAssertions(y)
      /\ x.premises.rules = y.premises.rules /\ x.premises.scope = y.premises.scope
      /\ "UNKNOWN" \notin {Verdict(x), Verdict(y)}
      => Verdict(x) = Verdict(y)

(***************************************************************************)
(* Answers of different checks cohere, in whatever order they were given and *)
(* whichever limits struck.  What is entailed (or supported) remains so when *)
(* premises are added, and its negation is not; premises found inconsistent  *)
(* entail nothing; premises found consistent are not called inconsistent.    *)
(***************************************************************************)
SameKind(x, y) == y.question.excluded \subseteq x.question.excluded
AnswersCohere ==
    /\ \A x, y \in Conclusions :
         Verdict(x) = "ENTAILED" /\ Within(x.premises, y.premises) /\ SameKind(x, y) =>
           /\ y.question.goal = x.question.goal => Verdict(y) # "NOT_ENTAILED"
           /\ y.question.goal = Negation(x.question.goal) => Verdict(y) # "ENTAILED"
    /\ \A x \in Consistencies, y \in Conclusions :
         /\ x.status = "UNSAT" /\ y.api = "entailment" /\ Within(x.premises, y.premises) =>
              Verdict(y) \notin {"ENTAILED", "NOT_ENTAILED"}
         /\ x.status = "SAT" /\ Within(y.premises, x.premises) => Verdict(y) # "INCONSISTENT_PREMISES"

\* Type invariant: the scope holds the adopted atoms, and answers have the fields of their kind.
PremiseSets == [assertions : SUBSET Records, rules : SUBSET Rules, scope : SUBSET Atoms]
TypeOK ==
    /\ premises \in PremiseSets
    /\ pc \in {"idle", "premises", "query"} /\ (pc = "idle" => asked = NoQuestion)
    /\ pc # "idle" => asked \in Entailment \cup Support
    /\ \A x \in Consistencies : x.premises \in PremiseSets /\ x.status \in Status
    /\ \A x \in Conclusions :
         /\ x.premises \in PremiseSets /\ x.question \in Entailment \cup Support /\ x.api = x.question.api
         /\ x.premisesStatus \in Status /\ (x.premisesStatus = "SAT") = (x.queryStatus # None)
===============================================================================
