----------------------------- MODULE ChecksProofs -----------------------------
(* Any two answers of the checks cohere, from the soundness of each check.    *)
EXTENDS Checks, TLAPS

(***************************************************************************)
(* Formulas and theories.                                                  *)
(***************************************************************************)
LEMMA ModelsAntitone ==
    ASSUME NEW fs, NEW gs, fs \subseteq gs
    PROVE  Models(gs) \subseteq Models(fs)
BY Zenon DEF Models

\* More rules and a larger scope only add to the theory.
LEMMA TheoryGrows ==
    ASSUME NEW p, NEW q, p.rules \subseteq q.rules, p.scope \subseteq q.scope
    PROVE  Theory(p) \subseteq Theory(q)
<1> DEFINE Excluded(s) == {Exclusion(ab[1], ab[2]) : ab \in {x \in s \X s : Exclusive(x[1], x[2])}}
<1>1. p.scope \X p.scope \subseteq q.scope \X q.scope
  OBVIOUS
<1>2. Excluded(p.scope) \subseteq Excluded(q.scope)
  BY <1>1
<1>3. Theory(p) = (p.rules \cup Axioms) \cup Excluded(p.scope)
  BY DEF Theory
<1>4. Theory(q) = (q.rules \cup Axioms) \cup Excluded(q.scope)
  BY DEF Theory
<1> HIDE DEF Excluded
<1> QED
  BY <1>2, <1>3, <1>4

LEMMA AssertionsGrow ==
    ASSUME NEW p, NEW q, p.assertions \subseteq q.assertions,
           NEW less, NEW more, less \subseteq more
    PROVE  SignedAssertions(p, more) \subseteq SignedAssertions(q, less)
<1>1. {x \in p.assertions : x.atom \notin more} \subseteq {x \in q.assertions : x.atom \notin less}
  OBVIOUS
<1> QED
  BY <1>1, Zenon DEF SignedAssertions

LEMMA KnownGrows ==
    ASSUME NEW p, NEW q, Within(p, q), NEW a, NEW b, b.excluded \subseteq a.excluded
    PROVE  Known(p, a) \subseteq Known(q, b)
<1>1. Theory(p) \subseteq Theory(q)
  BY TheoryGrows DEF Within
<1>2. SignedAssertions(p, a.excluded) \subseteq SignedAssertions(q, b.excluded)
  BY AssertionsGrow DEF Within
<1> QED
  BY <1>1, <1>2 DEF Known

\* The assumptions of a consistency check say what the assertions say.
LEMMA AssumedIsSigned ==
    ASSUME NEW p
    PROVE  Assumed(Assumptions(p)) = SignedAssertions(p, {})
<1>1. ASSUME NEW r \in p.assertions
      PROVE  Signed(r.atom, r.truth) \in Assumed(Assumptions(p))
  <2> DEFINE a == [atom |-> r.atom, truth |-> r.truth, owners |-> Owners(p, r)]
  <2>1. a \in Assumptions(p)
    BY DEF Assumptions
  <2>2. a.atom = r.atom /\ a.truth = r.truth
    OBVIOUS
  <2> HIDE DEF a
  <2> QED
    BY <2>1, <2>2 DEF Assumed
<1>2. ASSUME NEW a \in Assumptions(p)
      PROVE  \E r \in p.assertions : Signed(a.atom, a.truth) = Signed(r.atom, r.truth)
  BY DEF Assumptions
<1>3. SignedAssertions(p, {}) = {Signed(r.atom, r.truth) : r \in p.assertions}
  BY DEF SignedAssertions
<1>4. Assumed(Assumptions(p)) = {Signed(a.atom, a.truth) : a \in Assumptions(p)}
  BY DEF Assumed
<1> QED
  BY <1>1, <1>2, <1>3, <1>4

(***************************************************************************)
(* The inductive invariant: every answer was possible for its own premises.  *)
(***************************************************************************)
HonestConsistency(x) ==
    /\ x.premises \in PremiseSets /\ x.status \in Status
    /\ x.status = "SAT" => Models(Theory(x.premises) \cup Assumed(Assumptions(x.premises))) # {}
    /\ x.status = "UNSAT" => Models(Theory(x.premises) \cup Assumed(x.core)) = {}
    /\ x.core \subseteq Assumptions(x.premises)

HonestConclusion(x) ==
    /\ x.premises \in PremiseSets
    /\ x.question \in Entailment \cup Support /\ x.api = x.question.api
    /\ Possible(Known(x.premises, x.question), x.premisesStatus)
    /\ IF x.premisesStatus = "SAT"
       THEN Possible(Known(x.premises, x.question) \cup {Negation(x.question.goal)}, x.queryStatus)
       ELSE x.queryStatus = None

Asking ==
    /\ premises \in PremiseSets
    /\ pc \in {"idle", "premises", "query"} /\ (pc = "idle" => asked = NoQuestion)
    /\ pc # "idle" => asked \in Entailment \cup Support
    /\ pc = "query" => Possible(Known(premises, asked), "SAT")

Honest ==
    /\ \A x \in Consistencies : HonestConsistency(x)
    /\ \A x \in Conclusions : HonestConclusion(x)

Inv == Asking /\ Honest

\* Every answer of a check is of one of the two kinds.
LEMMA AddConsistency ==
    ASSUME Honest, NEW x, x.api = "consistency", HonestConsistency(x), answers' = answers \cup {x}
    PROVE  Honest'
<1>1. Consistencies' = Consistencies \cup {x} /\ Conclusions' \subseteq Conclusions
  BY DEF Consistencies, Conclusions
<1> QED
  BY <1>1 DEF Honest, HonestConsistency, HonestConclusion

LEMMA AddConclusion ==
    ASSUME Honest, NEW x, x.api # "consistency", HonestConclusion(x), answers' = answers \cup {x}
    PROVE  Honest'
<1>1. Consistencies' = Consistencies /\ Conclusions' = Conclusions \cup {x}
  BY DEF Consistencies, Conclusions
<1> QED
  BY <1>1 DEF Honest, HonestConsistency, HonestConclusion

LEMMA QuestionApi == \A q \in Entailment \cup Support : q.api \in {"entailment", "support"}
BY DEF Entailment, Support

LEMMA PremisesTyped ==
    ASSUME NEW A \in SUBSET Records, NEW R \in SUBSET Rules, NEW scope \in SUBSET Atoms
    PROVE  Premises(A, R, scope) \in PremiseSets
BY ChecksAssumption DEF Premises, PremiseSets

LEMMA InvInit == Init => Inv
BY PremisesTyped DEF Init, Inv, Asking, Honest, Consistencies, Conclusions

LEMMA CheckConsistencyInv ==
    ASSUME Inv, NEW status \in Status, NEW core \in SUBSET Assumptions(premises),
           CheckConsistency(status, core)
    PROVE  Inv'
<1> DEFINE x == [api |-> "consistency", premises |-> premises, status |-> status, core |-> core]
<1>1. HonestConsistency(x)
  BY DEF Inv, Asking, CheckConsistency, HonestConsistency, Possible
<1>2. answers' = answers \cup {x} /\ x.api = "consistency"
  BY DEF CheckConsistency
<1> HIDE DEF x
<1>3. Honest'
  BY <1>1, <1>2, AddConsistency DEF Inv
<1>4. Asking'
  BY DEF Inv, Asking, CheckConsistency
<1> QED
  BY <1>3, <1>4 DEF Inv

LEMMA ReplyInv ==
    ASSUME Inv, pc # "idle", UNCHANGED premises, NEW p, NEW q, Reply(p, q),
           Possible(Known(premises, asked), p),
           IF p = "SAT" THEN Possible(Known(premises, asked) \cup {Negation(asked.goal)}, q) ELSE q = None
    PROVE  Inv'
<1> DEFINE x == [api |-> asked.api, premises |-> premises, question |-> asked,
                 premisesStatus |-> p, queryStatus |-> q]
<1>1. asked \in Entailment \cup Support /\ premises \in PremiseSets
  BY DEF Inv, Asking
<1>2. HonestConclusion(x)
  BY <1>1 DEF HonestConclusion
<1>3. x.api # "consistency" /\ answers' = answers \cup {x}
  BY <1>1, QuestionApi DEF Reply
<1> HIDE DEF x
<1>4. Honest'
  BY <1>2, <1>3, AddConclusion DEF Inv
<1>5. Asking'
  BY <1>1 DEF Reply, Asking
<1> QED
  BY <1>4, <1>5 DEF Inv

LEMMA InvNext == Inv /\ [Next]_vars => Inv'
<1> SUFFICES ASSUME Inv, [Next]_vars PROVE Inv'
  OBVIOUS
<1>1. ASSUME NEW A \in SUBSET Records, NEW R \in SUBSET Rules, Adopt(A, R) PROVE Inv'
  <2>1. premises' \in PremiseSets
    BY <1>1, PremisesTyped DEF Adopt, Inv, Asking, PremiseSets
  <2>2. Asking'
    BY <1>1, <2>1 DEF Adopt, Inv, Asking
  <2>3. Honest'
    BY <1>1 DEF Adopt, Inv, Honest, Consistencies, Conclusions, HonestConsistency, HonestConclusion
  <2> QED
    BY <2>2, <2>3 DEF Inv
<1>2. ASSUME NEW s \in Status, NEW core \in SUBSET Assumptions(premises), CheckConsistency(s, core) PROVE Inv'
  BY <1>2, CheckConsistencyInv
<1>3. ASSUME NEW s \in Status, CheckPremises(s) PROVE Inv'
  <2>1. CASE s # "SAT"
    BY <1>3, <2>1, ReplyInv DEF CheckPremises
  <2>2. CASE s = "SAT"
    <3>1. Asking'
      BY <1>3, <2>2 DEF CheckPremises, Inv, Asking
    <3>2. Honest'
      BY <1>3, <2>2 DEF CheckPremises, Inv, Honest, Consistencies, Conclusions, HonestConsistency, HonestConclusion
    <3> QED
      BY <3>1, <3>2 DEF Inv
  <2> QED
    BY <2>1, <2>2
<1>4. ASSUME NEW s \in Status, CheckQuery(s) PROVE Inv'
  BY <1>4, ReplyInv DEF CheckQuery, Inv, Asking
<1>5. ASSUME NEW q \in Entailment \cup Support, Ask(q) PROVE Inv'
  <2>1. Asking'
    BY <1>5 DEF Ask, Inv, Asking
  <2>2. Honest'
    BY <1>5 DEF Ask, Inv, Honest, Consistencies, Conclusions, HonestConsistency, HonestConclusion
  <2> QED
    BY <2>1, <2>2 DEF Inv
<1>6. CASE UNCHANGED vars
  BY <1>6 DEF vars, Inv, Asking, Honest, Consistencies, Conclusions, HonestConsistency, HonestConclusion
<1> QED
  BY <1>1, <1>2, <1>3, <1>4, <1>5, <1>6 DEF Next

(***************************************************************************)
(* Two honest answers.                                                     *)
(***************************************************************************)
\* If the assumptions of a core all keep an owner, what they say is still assumed.
LEMMA CoreGives ==
    ASSUME Honest, NEW x \in Consistencies, NEW y \in Consistencies,
           x.status = "UNSAT", y.status = "SAT",
           x.premises.rules \subseteq y.premises.rules, x.premises.scope \subseteq y.premises.scope
    PROVE  \E a \in x.core : a.owners \cap y.premises.assertions = {}
<1> SUFFICES ASSUME \A a \in x.core : a.owners \cap y.premises.assertions # {}
             PROVE  FALSE
  OBVIOUS
<1>1. HonestConsistency(x) /\ HonestConsistency(y)
  BY DEF Honest
<1>2. Theory(x.premises) \subseteq Theory(y.premises)
  BY TheoryGrows
<1>3. ASSUME NEW a \in x.core
      PROVE  \E r \in y.premises.assertions : r.atom = a.atom /\ r.truth = a.truth
  <2>1. PICK r \in a.owners : r \in y.premises.assertions
    OBVIOUS
  <2>2. a \in Assumptions(x.premises)
    BY <1>1 DEF HonestConsistency
  <2>3. PICK r0 \in x.premises.assertions :
          a = [atom |-> r0.atom, truth |-> r0.truth, owners |-> Owners(x.premises, r0)]
    BY <2>2 DEF Assumptions
  <2>4. r.atom = r0.atom /\ r.truth = r0.truth
    BY <2>1, <2>3 DEF Owners
  <2> QED
    BY <2>1, <2>3, <2>4
<1>4. Assumed(x.core) \subseteq Assumed(Assumptions(y.premises))
  <2>1. SignedAssertions(y.premises, {}) = {Signed(r.atom, r.truth) : r \in y.premises.assertions}
    BY DEF SignedAssertions
  <2>2. Assumed(x.core) = {Signed(a.atom, a.truth) : a \in x.core}
    BY DEF Assumed
  <2> QED
    BY <1>3, <2>1, <2>2, AssumedIsSigned
<1>5. Models(Theory(y.premises) \cup Assumed(Assumptions(y.premises)))
        \subseteq Models(Theory(x.premises) \cup Assumed(x.core))
  BY <1>2, <1>4, ModelsAntitone
<1> QED
  BY <1>1, <1>5 DEF HonestConsistency

\* The owners of an assumption are all who assert it.
LEMMA OwnersAreAll ==
    ASSUME Honest, NEW x \in Consistencies, NEW y \in Consistencies,
           y.premises.assertions \subseteq x.premises.assertions,
           NEW a \in x.core, NEW b \in y.core, b.atom = a.atom, b.truth = a.truth
    PROVE  a.owners \cap y.premises.assertions # {}
<1>1. a \in Assumptions(x.premises) /\ b \in Assumptions(y.premises)
  BY DEF Honest, HonestConsistency
<1>2. PICK r \in x.premises.assertions :
        a = [atom |-> r.atom, truth |-> r.truth, owners |-> Owners(x.premises, r)]
  BY <1>1 DEF Assumptions
<1>3. PICK s \in y.premises.assertions :
        b = [atom |-> s.atom, truth |-> s.truth, owners |-> Owners(y.premises, s)]
  BY <1>1 DEF Assumptions
<1>4. s \in Owners(x.premises, r)
  BY <1>2, <1>3 DEF Owners
<1> QED
  BY <1>2, <1>3, <1>4

\* A definite verdict says whether the known formulas have models, and of which conclusion.
LEMMA VerdictMeans ==
    ASSUME Honest, NEW x \in Conclusions
    PROVE  /\ Verdict(x) = "INCONSISTENT_PREMISES" => Models(Known(x.premises, x.question)) = {}
           /\ Verdict(x) \in {"ENTAILED", "NOT_ENTAILED"} => Models(Known(x.premises, x.question)) # {}
           /\ Verdict(x) = "ENTAILED" =>
                Models(Known(x.premises, x.question) \cup {Negation(x.question.goal)}) = {}
           /\ Verdict(x) = "NOT_ENTAILED" =>
                Models(Known(x.premises, x.question) \cup {Negation(x.question.goal)}) # {}
           /\ Verdict(x) \in {"INCONSISTENT_PREMISES", "UNKNOWN", "ENTAILED", "NOT_ENTAILED"}
<1>1. HonestConclusion(x)
  BY DEF Honest
<1>2. x.premisesStatus \in Status
  BY <1>1 DEF HonestConclusion, Possible
<1>3. CASE x.premisesStatus = "UNSAT"
  <2>1. Verdict(x) = "INCONSISTENT_PREMISES"
    BY <1>3 DEF Verdict
  <2>2. Models(Known(x.premises, x.question)) = {}
    BY <1>1, <1>3 DEF HonestConclusion, Possible
  <2> QED
    BY <2>1, <2>2
<1>4. CASE x.premisesStatus = "UNKNOWN"
  <2>1. Verdict(x) = "UNKNOWN"
    BY <1>4 DEF Verdict
  <2> QED
    BY <2>1
<1>5. CASE x.premisesStatus = "SAT"
  <2>1. /\ Possible(Known(x.premises, x.question), "SAT")
        /\ Possible(Known(x.premises, x.question) \cup {Negation(x.question.goal)}, x.queryStatus)
    BY <1>1, <1>5 DEF HonestConclusion
  <2>2. x.queryStatus \in Status
    BY <2>1 DEF Possible
  <2>3. Verdict(x) = CASE x.queryStatus = "UNKNOWN" -> "UNKNOWN"
                       [] x.queryStatus = "UNSAT" -> "ENTAILED"
                       [] x.queryStatus = "SAT" -> "NOT_ENTAILED"
    BY <1>5, <2>2 DEF Verdict, Status
  <2> QED
    BY <2>1, <2>2, <2>3 DEF Possible, Status
<1> QED
  BY <1>2, <1>3, <1>4, <1>5 DEF Status

(***************************************************************************)
(* The properties.                                                         *)
(***************************************************************************)
\* Cores name all the owners of what they rest on (checks.py:70-91).
THEOREM CoresMustGive == Spec => []CoreMustGive
<1>1. Inv => CoreMustGive
  BY CoreGives, OwnersAreAll DEF Inv, CoreMustGive
<1> QED
  BY <1>1, InvInit, InvNext, PTL DEF Spec

\* What supports an atom does not depend on its own assertions (checks.py:109-129).
THEOREM SupportIndependence == Spec => []SupportIsIndependent
<1>1. Inv => SupportIsIndependent
  <2> SUFFICES ASSUME Inv, NEW x \in Conclusions, NEW y \in Conclusions,
                      y.question = x.question, OtherAssertions(x) = OtherAssertions(y),
                      x.premises.rules = y.premises.rules, x.premises.scope = y.premises.scope,
                      "UNKNOWN" \notin {Verdict(x), Verdict(y)}
               PROVE  Verdict(x) = Verdict(y)
    BY DEF SupportIsIndependent
  <2>1. Known(x.premises, x.question) = Known(y.premises, y.question)
    <3>1. Theory(x.premises) = Theory(y.premises)
      BY DEF Theory
    <3>2. SignedAssertions(x.premises, x.question.excluded) = {Signed(r.atom, r.truth) : r \in OtherAssertions(x)}
      BY DEF SignedAssertions, OtherAssertions
    <3>3. SignedAssertions(y.premises, y.question.excluded) = {Signed(r.atom, r.truth) : r \in OtherAssertions(y)}
      BY DEF SignedAssertions, OtherAssertions
    <3> QED
      BY <3>1, <3>2, <3>3 DEF Known
  <2> QED
    BY <2>1, VerdictMeans DEF Inv
<1> QED
  BY <1>1, InvInit, InvNext, PTL DEF Spec

LEMMA EntailedStays ==
    ASSUME Honest, NEW x \in Conclusions, NEW y \in Conclusions,
           Verdict(x) = "ENTAILED", Within(x.premises, y.premises), SameKind(x, y)
    PROVE  /\ y.question.goal = x.question.goal => Verdict(y) # "NOT_ENTAILED"
           /\ y.question.goal = Negation(x.question.goal) => Verdict(y) # "ENTAILED"
<1> DEFINE kx == Known(x.premises, x.question)
           ky == Known(y.premises, y.question)
           goal == x.question.goal
<1>1. kx \subseteq ky
  BY KnownGrows DEF SameKind
<1>2. Models(kx \cup {Negation(goal)}) = {}
  BY VerdictMeans
<1>3. ASSUME y.question.goal = goal, Verdict(y) = "NOT_ENTAILED" PROVE FALSE
  <2>1. Models(ky \cup {Negation(goal)}) # {}
    BY <1>3, VerdictMeans
  <2>2. Models(ky \cup {Negation(goal)}) \subseteq Models(kx \cup {Negation(goal)})
    BY <1>1, ModelsAntitone
  <2> QED
    BY <1>2, <2>1, <2>2
<1>4. ASSUME y.question.goal = Negation(goal), Verdict(y) = "ENTAILED" PROVE FALSE
  <2>1. PICK v \in Models(ky) : TRUE
    BY <1>4, VerdictMeans
  <2>2. v \in Valuations /\ v \notin Models(ky \cup {Negation(Negation(goal))})
    BY <1>4, VerdictMeans DEF Models
  <2>3. v \in Models(kx)
    BY <1>1, ModelsAntitone
  <2>4. v \notin Negation(Negation(goal))
    BY <2>1, <2>2 DEF Models
  <2>5. v \in Negation(goal)
    BY <2>2, <2>4 DEF Negation
  <2> QED
    BY <1>2, <2>3, <2>5 DEF Models
<1> QED
  BY <1>3, <1>4

LEMMA ConsistencyShared ==
    ASSUME Honest, NEW x \in Consistencies, NEW y \in Conclusions
    PROVE  /\ x.status = "UNSAT" /\ y.api = "entailment" /\ Within(x.premises, y.premises) =>
                Verdict(y) \notin {"ENTAILED", "NOT_ENTAILED"}
           /\ x.status = "SAT" /\ Within(y.premises, x.premises) => Verdict(y) # "INCONSISTENT_PREMISES"
<1> DEFINE kx == Theory(x.premises) \cup SignedAssertions(x.premises, {})
           ky == Known(y.premises, y.question)
<1>1. HonestConsistency(x) /\ HonestConclusion(y)
  BY DEF Honest
<1>2. Theory(x.premises) \cup Assumed(Assumptions(x.premises)) = kx
  BY AssumedIsSigned
<1>3. ASSUME x.status = "UNSAT", y.api = "entailment", Within(x.premises, y.premises)
      PROVE  Models(ky) = {}
  <2>1. y.question.excluded = {}
    <3>1. y.question \in Entailment \cup Support /\ y.question.api = "entailment"
      BY <1>1, <1>3 DEF HonestConclusion
    <3>2. \A q \in Support : q.api = "support"
      BY DEF Support
    <3> QED
      BY <3>1, <3>2 DEF Entailment
  <2>2. Theory(x.premises) \subseteq Theory(y.premises)
    BY <1>3, TheoryGrows DEF Within
  <2>3. SignedAssertions(x.premises, {}) \subseteq SignedAssertions(y.premises, {})
    BY <1>3, AssertionsGrow DEF Within
  <2>4. kx \subseteq ky
    BY <2>1, <2>2, <2>3 DEF Known
  <2>5. Assumed(x.core) \subseteq Assumed(Assumptions(x.premises))
    BY <1>1, Zenon DEF HonestConsistency, Assumed
  <2>6. Theory(x.premises) \cup Assumed(x.core) \subseteq ky
    BY <1>2, <2>4, <2>5
  <2>7. Models(ky) \subseteq Models(Theory(x.premises) \cup Assumed(x.core))
    BY <2>6, ModelsAntitone
  <2> QED
    BY <1>1, <1>3, <2>7 DEF HonestConsistency
<1>4. ASSUME x.status = "SAT", Within(y.premises, x.premises)
      PROVE  Models(ky) # {}
  <2>1. Theory(y.premises) \subseteq Theory(x.premises)
    BY <1>4, TheoryGrows DEF Within
  <2>2. SignedAssertions(y.premises, y.question.excluded) \subseteq SignedAssertions(x.premises, {})
    BY <1>4, AssertionsGrow DEF Within
  <2>3. ky \subseteq kx
    BY <2>1, <2>2 DEF Known
  <2>4. Models(kx) \subseteq Models(ky)
    BY <2>3, ModelsAntitone
  <2>5. Models(kx) # {}
    BY <1>1, <1>2, <1>4 DEF HonestConsistency
  <2> QED
    BY <2>4, <2>5
<1> QED
  BY <1>3, <1>4, VerdictMeans

\* Answers of different checks, in whatever order, do not contradict each other
\* (checks.py:70-129, _checking.py:11-42, results.py:46-53).
THEOREM Coherence == Spec => []AnswersCohere
<1>1. Inv => AnswersCohere
  BY EntailedStays, ConsistencyShared DEF Inv, AnswersCohere
<1> QED
  BY <1>1, InvInit, InvNext, PTL DEF Spec

\* Type correctness: the scope holds the adopted atoms, and a query status is there
\* exactly when the premises are SAT (results.py:34-43).
THEOREM TypeCorrect == Spec => []TypeOK
<1>1. Inv => TypeOK
  <2>1. None \notin Status
    BY DEF None, Status
  <2> QED
    BY <2>1 DEF Inv, Asking, Honest, HonestConsistency, HonestConclusion, Possible, TypeOK
<1> QED
  BY <1>1, InvInit, InvNext, PTL DEF Spec
===============================================================================
