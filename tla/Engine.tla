-------------------------------- MODULE Engine --------------------------------
(***************************************************************************)
(* The SMT engine (solver/engine.py) with its E-matcher                    *)
(* (solver/quantifiers/ematch.py): formulas and scopes, checks under        *)
(* assumptions, and rounds of quantifier instantiation cut by two budgets.  *)
(*                                                                         *)
(* A formula is a disjunction of literals and universal rules.  A rule has *)
(* its Boolean variable, patterns that bind one term when they meet an     *)
(* application, and an instance for each term.  The SAT solver is what the *)
(* engine sees of it: the clauses it kept, the literals at level 0 and the *)
(* verdict (module CDCL is its inside).                                    *)
(***************************************************************************)
EXTENDS Integers, Sequences, FiniteSets, SequencesExt

CONSTANTS
    Atoms,        \* the ground Boolean variables, positive numbers
    AppsOf,       \* [Atoms -> the applications registered with the atom]
    Sides,        \* [Atoms -> the terms whose depth is set with the atom]
    Terms,        \* the terms that a rule may be instantiated with
    Rules,        \* the universal rules
    RuleAtom,     \* [Rules -> positive number], the variable of the quantifier
    Patterns,     \* [Rules -> sequence of functions from applications to Terms]
    Instance,     \* [Rules -> [Terms -> set of literals]]
    Formulas,     \* the formulas: [lits |-> set of literals, rules |-> set of rules]
    Assumable,    \* the literals that may be assumed
    RoundLimits, MatchLimits,  \* the values of max_rounds and max_matches
    MaxDepth,     \* max_depth of the matcher
    ScopeAtoms,   \* the variables of the scopes, in the order they are made
    MaxFormulas, MaxChecks     \* bounds: formulas added, checks

Unlimited == -1
LitsOf(vs) == vs \cup {-v : v \in vs}

ASSUME EngineAssumption ==
    /\ Atoms \subseteq Nat \ {0} /\ RuleAtom \in [Rules -> Nat \ {0}] /\ ScopeAtoms \in Seq(Nat \ {0})
    /\ Range(RuleAtom) \cap Atoms = {} /\ Range(ScopeAtoms) \cap (Atoms \cup Range(RuleAtom)) = {}
    /\ RoundLimits \cup MatchLimits \subseteq Nat \cup {Unlimited}
    /\ {MaxDepth, MaxFormulas, MaxChecks} \subseteq Nat

\* Formulas, assumptions and instances are finite and speak of the atoms.
ASSUME VocabularyAssumption ==
    /\ \A f \in Formulas : /\ f.lits \subseteq LitsOf(Atoms) /\ IsFiniteSet(f.lits)
                           /\ f.rules \subseteq Rules /\ IsFiniteSet(f.rules)
    /\ \A lits \in Assumable : lits \subseteq LitsOf(Atoms) /\ IsFiniteSet(lits)
    /\ \A r \in Rules, t \in Terms :
         Instance[r][t] \subseteq LitsOf(Atoms) /\ IsFiniteSet(Instance[r][t])
    /\ \A r \in Rules : /\ Patterns[r] \in Seq(Range(Patterns[r]))
                        /\ \A i \in DOMAIN Patterns[r] : Range(Patterns[r][i]) \subseteq Terms
    /\ \A a \in Atoms : IsFiniteSet(AppsOf[a])

VARIABLES
    assertions,   \* the formulas added, each with the scope it was added in
    scopes,       \* the open scopes
    made,         \* scope_counter
    clauses,      \* the clauses that the SAT solver will visit
    level0,       \* the literals true at its level 0
    pending,      \* those of them that it has not propagated yet
    refuted,      \* it refuted its clauses at level 0 before
    apps,         \* term_to_app, in order
    depth,        \* term_depth
    rules,        \* the matcher's rules, in order
    instantiated, \* the instances already produced
    isUnsat,      \* is_unsat
    call,         \* the check that is running
    answer,       \* what the last call answered
    checks        \* how many checks began

sat == <<clauses, level0, pending, refuted>>
matcher == <<apps, depth, rules>>
vars == <<assertions, scopes, made, sat, matcher, instantiated, isUnsat, call, answer, checks>>

NoCall == [phase |-> "idle"]
NoAnswer == [verdict |-> "none"]
NoScope == 0
Idle == call.phase = "idle"

Abs(l) == IF l > 0 THEN l ELSE -l

Init ==
    /\ assertions = <<>> /\ scopes = <<>> /\ made = 0
    /\ clauses = {} /\ level0 = {} /\ pending = {} /\ refuted = FALSE
    /\ apps = <<>> /\ depth = <<>> /\ rules = <<>> /\ instantiated = {}
    /\ isUnsat = FALSE /\ call = NoCall /\ answer = NoAnswer /\ checks = 0

(***************************************************************************)
(* The SAT solver at level 0.                                              *)
(***************************************************************************)
Falsified(c) == \A l \in c : -l \in level0

\* add_clause refuses a clause that is false at level 0; a unit is then forgotten and
\* a longer clause only found again through a literal that is still to be propagated.
ClausesWith(c) ==
    IF ~Falsified(c) THEN {clauses \cup {c}}
    ELSE IF Cardinality(c) > 1 /\ \E l \in c : -l \in pending THEN {clauses, clauses \cup {c}}
    ELSE {clauses}

\* A clause with one literal left assigns it.
UnitsOf(c) ==
    LET open == {l \in c : -l \notin level0}
    IN  IF c \cap level0 = {} /\ Cardinality(open) = 1 THEN open ELSE {}

AddClause(c) ==
    /\ clauses' \in ClausesWith(c)
    /\ level0' = level0 \cup UnitsOf(c)
    /\ pending' = pending \cup UnitsOf(c)
    /\ UNCHANGED refuted

Propagated ==
    LET Forced(L) == {l \in UNION clauses : \E c \in clauses : l \in c /\ \A k \in c \ {l} : -k \in L}
        step[L \in SUBSET (level0 \cup (UNION clauses))] ==
          IF Forced(L) \subseteq L THEN L ELSE step[L \cup Forced(L)]
    IN  step[level0]

\* The assignments that satisfy what the solver visits, as sets of true atoms.
IsTrue(l, m) == IF l > 0 THEN l \in m ELSE -l \notin m
Vars(lits) == {Abs(l) : l \in (UNION clauses) \cup lits}
Models(lits) ==
    LET true == {l \in level0 : l > 0}
        open == Vars(lits) \ {Abs(l) : l \in level0}
    IN  {m \in {true \cup s : s \in SUBSET open} :
           /\ \A l \in lits : IsTrue(l, m)
           /\ \A c \in clauses : \E l \in c : IsTrue(l, m)}
Contradictory(lits) == Models(lits) = {}

\* Level 0 after a check: the unit propagation, and any literals learned.
Level0After(models, up) ==
    LET implied == {l \in LitsOf(Vars({})) : \A m \in models : IsTrue(l, m)}
    IN  IF models = {} THEN {level0} ELSE {up \cup s : s \in SUBSET (implied \ up)}

(***************************************************************************)
(* Registration.                                                           *)
(***************************************************************************)
NewApps(atoms) == (UNION {AppsOf[a] : a \in atoms}) \ Range(apps)

\* _register_to_theories: the applications in term_to_app and the depths, once.
Register(atoms, d) ==
    /\ apps' = apps \o SetToSeq(NewApps(atoms))
    /\ depth' = [t \in DOMAIN depth \cup (UNION {Sides[a] : a \in atoms}) |->
                   IF t \in DOMAIN depth THEN depth[t] ELSE d]

AtomsOf(lits) == {Abs(l) : l \in lits} \cap Atoms

(***************************************************************************)
(* add_formula, push and pop.                                              *)
(***************************************************************************)
CurrentScope == IF scopes = <<>> THEN NoScope ELSE Last(scopes)

\* A slip: the formula is added for good.
GuardedNever(lits) == lits

Guarded(lits) == IF scopes = <<>> THEN lits ELSE lits \cup {-CurrentScope}

\* A rule becomes a matching rule wherever it stands in the formula.
AddFormula(f) ==
    /\ Idle /\ Len(assertions) < MaxFormulas
    /\ assertions' = Append(assertions, [formula |-> f, scope |-> CurrentScope])
    /\ LET c == Guarded(f.lits \cup {RuleAtom[r] : r \in f.rules})
       IN  /\ AddClause(c)
           /\ isUnsat' = (isUnsat \/ Falsified(c))
    /\ Register(AtomsOf(f.lits), 0)
    /\ rules' = rules \o SetToSeq(f.rules \ Range(rules))
    /\ answer' = NoAnswer
    /\ UNCHANGED <<scopes, made, instantiated, call, checks>>

PushScope ==
    /\ Idle /\ made < Len(ScopeAtoms)
    /\ made' = made + 1
    /\ scopes' = Append(scopes, ScopeAtoms[made + 1])
    /\ answer' = NoAnswer
    /\ UNCHANGED <<assertions, sat, matcher, instantiated, isUnsat, call, checks>>

PopScopes(n) ==
    /\ Idle /\ n <= Len(scopes)
    /\ scopes' = SubSeq(scopes, 1, Len(scopes) - n)
    /\ answer' = NoAnswer
    /\ UNCHANGED <<assertions, made, sat, matcher, instantiated, isUnsat, call, checks>>

(***************************************************************************)
(* check: assumptions, then the SAT solver and the matcher in turn.        *)
(***************************************************************************)
\* c is the call that ends.
Answer(verdict, core, c) ==
    [verdict |-> verdict, core |-> core, assumed |-> c.assumed, rounds |-> c.rounds, used |-> c.used,
     maxRounds |-> c.maxRounds, maxMatches |-> c.maxMatches]

Finish(verdict, core, c) ==
    /\ call' = NoCall
    /\ answer' = Answer(verdict, core, c)

\* Only a scope in which a formula was added has a variable in the encoder.
ScopesUsed == {s \in Range(scopes) : \E i \in DOMAIN assertions : assertions[i].scope = s}

BeginCheck(assumed, maxRounds, maxMatches) ==
    /\ Idle /\ checks < MaxChecks
    /\ checks' = checks + 1
    /\ LET c == [phase |-> "solve", assumed |-> assumed, maxRounds |-> maxRounds, maxMatches |-> maxMatches,
                 rounds |-> 0, left |-> maxMatches, used |-> 0, truncated |-> FALSE, queue |-> <<>>]
       IN  IF isUnsat
           THEN /\ answer' = Answer("UNSAT", {}, c)
                /\ UNCHANGED <<call, apps, depth>>
           ELSE /\ Register(AtomsOf(assumed), 0)
                /\ call' = c
                /\ answer' = NoAnswer
    /\ UNCHANGED <<assertions, scopes, made, sat, rules, instantiated, isUnsat>>

Assumptions == ScopesUsed \cup call.assumed

\* The core is any set of assumptions that cannot hold; the engine keeps its own part.
Solve ==
    /\ call.phase = "solve"
    /\ \E models \in {Models({})}, up \in {Propagated} : level0' \in Level0After(models, up)
    /\ pending' = {}
    /\ \/ /\ refuted \/ ~Contradictory(Assumptions)
          /\ call' = [call EXCEPT !.phase = "match"]
          /\ UNCHANGED <<refuted, answer>>
       \/ /\ Contradictory(Assumptions)
          /\ \E core \in SUBSET Assumptions :
               /\ Contradictory(core)
               /\ Finish("UNSAT", core \cap call.assumed, call)
               /\ refuted' = (refuted \/ core = {})
    /\ UNCHANGED <<assertions, scopes, made, clauses, matcher, instantiated, isUnsat, checks>>

\* The work of one round: every rule, each of its patterns, each application.
Work ==
    LET patterns(r) == FlattenSeq([i \in DOMAIN Patterns[r] |->
                                     [j \in DOMAIN apps |-> <<r, i, apps[j]>>]])
    IN  FlattenSeq([k \in DOMAIN rules |-> patterns(rules[k])])

Considered(work) == SubSeq(work, 1, IF call.left = Unlimited \/ call.left > Len(work) THEN Len(work) ELSE call.left)

Depth(t) == IF t \in DOMAIN depth THEN depth[t] ELSE 0

\* _instantiate: what one candidate of the work yields, if anything: its rule, the term
\* bound and the depth of what the instance makes.
Binding(w) == LET t == Patterns[w[1]][w[2]][w[3]] IN <<w[1], t, Depth(t) + 1>>
Yields(w) == /\ w[3] \in DOMAIN Patterns[w[1]][w[2]]
             /\ Binding(w)[3] <= MaxDepth
             /\ <<w[1], Binding(w)[2]>> \notin instantiated

\* Each instance where it comes first.
Found(work) ==
    FoldLeft(LAMBDA found, w : IF Yields(w) /\ ~Contains(found, Binding(w))
                               THEN Append(found, Binding(w)) ELSE found,
             <<>>, Considered(work))

\* A slip: the match budget is renewed for each round.
SpentInRound(used, total) ==
    IF call.left = Unlimited THEN call
    ELSE [call EXCEPT !.used = @ + used, !.truncated = @ \/ used < total]

\* matches_left and ematch_truncated, which nobody keeps without a budget.
Spent(used, total) ==
    IF call.left = Unlimited THEN call
    ELSE [call EXCEPT !.used = @ + used, !.left = @ - used, !.truncated = @ \/ used < total]

\* Slips: instances are not remembered, and a truncated round passes for a complete one.
RecordedNever(found) == instantiated
VerdictUntruncated(found, truncated) == IF found # <<>> THEN "UNKNOWN" ELSE "SAT"

CapReached == call.maxRounds # Unlimited /\ call.rounds >= call.maxRounds
Recorded(found) == instantiated \cup {<<b[1], b[2]>> : b \in Range(found)}
Verdict(found, truncated) == IF found # <<>> \/ truncated THEN "UNKNOWN" ELSE "SAT"

\* One call of match, and what the engine makes of its instances.  Those it does not
\* assert, because the cap is reached, stay recorded.
Match ==
    /\ call.phase = "match"
    /\ \E work \in {Work} : \E found \in {Found(work)},
                             spent \in {Spent(Len(Considered(work)), Len(work))} :
          /\ instantiated' = Recorded(found)
          /\ IF found = <<>> \/ CapReached
              THEN Finish(Verdict(found, spent.truncated), {}, spent)
              ELSE /\ call' = [spent EXCEPT !.phase = "assert", !.queue = found]
                   /\ UNCHANGED answer
    /\ UNCHANGED <<assertions, scopes, made, sat, matcher, isUnsat, checks>>

\* The next instance is encoded, registered and asserted.
AssertInstance ==
    /\ call.phase = "assert"
    /\ LET b == Head(call.queue)
           c == Instance[b[1]][b[2]]
       IN  /\ AddClause(c)
           /\ Register(AtomsOf(c), b[3])
           /\ IF Falsified(c) THEN Finish("UNSAT", {}, call)
              ELSE /\ call' = IF Len(call.queue) > 1 THEN [call EXCEPT !.queue = Tail(@)]
                              ELSE [call EXCEPT !.queue = <<>>, !.phase = "solve",
                                          !.rounds = IF call.maxRounds = Unlimited THEN @ ELSE @ + 1]
                   /\ UNCHANGED answer
    /\ UNCHANGED <<assertions, scopes, made, rules, instantiated, isUnsat, checks>>

Continue == Solve \/ Match \/ AssertInstance

Next ==
    \/ \E f \in Formulas : AddFormula(f)
    \/ PushScope \/ \E n \in 1 .. Len(scopes) : PopScopes(n)
    \/ \E assumed \in Assumable, r \in RoundLimits, m \in MatchLimits : BeginCheck(assumed, r, m)
    \/ Continue

Spec == Init /\ [][Next]_vars

(***************************************************************************)
(* What the formulas mean: a rule holds when all its instances do.         *)
(***************************************************************************)
Live == {assertions[i].formula : i \in {i \in DOMAIN assertions :
                                         assertions[i].scope \in {NoScope} \cup Range(scopes)}}
RuleHolds(r, m) == \A t \in Terms : \E l \in Instance[r][t] : IsTrue(l, m)
Satisfies(m, f) == (\E l \in f.lits : IsTrue(l, m)) \/ (\E r \in f.rules : RuleHolds(r, m))

\* The instances that the matcher can reach for a rule from the applications registered.
Reached(r) ==
    {t \in Terms : /\ Depth(t) + 1 <= MaxDepth
                   /\ \E i \in DOMAIN Patterns[r], a \in Range(apps) :
                        a \in DOMAIN Patterns[r][i] /\ Patterns[r][i][a] = t}

\* Type invariant: bookkeeping of the solver and of the running check.
TypeOK ==
    /\ \A l \in level0 : -l \notin level0
    /\ pending \subseteq level0
    /\ Range(scopes) \subseteq Range(ScopeAtoms) /\ isUnsat \in BOOLEAN /\ refuted \in BOOLEAN
    /\ instantiated \subseteq Range(rules) \X Terms
    /\ Cardinality(Range(apps)) = Len(apps)
    /\ call.phase \in {"idle", "solve", "match", "assert"}
    /\ answer.verdict \in {"none", "SAT", "UNSAT", "UNKNOWN"}

(***************************************************************************)
(* UNSAT is a verdict on the live formulas: they have no model in which the *)
(* assumptions of the core hold, however instances, scopes, clauses of       *)
(* earlier checks and budgets played together.                             *)
(***************************************************************************)
UnsatSound ==
    answer.verdict = "UNSAT" =>
      ~ \E m \in SUBSET Atoms : /\ \A f \in Live : Satisfies(m, f)
                                /\ \A l \in answer.core : IsTrue(l, m)

(***************************************************************************)
(* SAT is only answered with a model, and every model that the solver could *)
(* answer with satisfies the live formulas and each instance of a live rule *)
(* within reach of the matcher: a truncated round, a spent budget or an      *)
(* instance produced and not asserted never passes for convergence.        *)
(***************************************************************************)
SatSaturated ==
    answer.verdict = "SAT" =>
      /\ Models(Range(scopes) \cup answer.assumed) # {}
      /\ \A m \in Models(Range(scopes) \cup answer.assumed), f \in Live :
           \/ \E l \in f.lits : IsTrue(l, m)
           \/ \E r \in f.rules : \A t \in Reached(r) : \E l \in Instance[r][t] : IsTrue(l, m)

\* The books are in order (TypeOK), and the budgets bound the check as a whole: the rounds, and the candidates considered in all
\* rounds together; and UNKNOWN is only answered when one of them is spent.
BudgetsKept ==
    /\ TypeOK
    /\ answer.verdict # "none" =>
         /\ answer.maxRounds # Unlimited => answer.rounds <= answer.maxRounds
         /\ answer.maxMatches # Unlimited => answer.used <= answer.maxMatches
         /\ answer.verdict = "UNKNOWN" => \/ answer.rounds = answer.maxRounds
                                          \/ answer.used = answer.maxMatches

\* An instance of r brings an application in which a pattern finds another term.
Breeds(r) ==
    \E t \in Terms, q \in Range(rules) :
      \E i \in DOMAIN Patterns[q], x \in UNION {AppsOf[a] : a \in AtomsOf(Instance[r][t])} :
        x \in DOMAIN Patterns[q][i] /\ Patterns[q][i][x] # t

UnderBudget == call.maxRounds # Unlimited \/ call.maxMatches # Unlimited

\* A check under a budget, of rounds or of matches, ends with an answer, whatever the rules
\* make; without one, a check ends if its rules make no new terms to match (a rule that makes
\* them, as p(X) => p(f(X)), goes on for ever).
Answered == (~Idle /\ (UnderBudget \/ \A r \in Range(rules) : ~Breeds(r))) ~> Idle
===============================================================================
