-------------------------------- MODULE CDCL --------------------------------
(***************************************************************************)
(* The incremental SAT solver (solver/sat/solver.py): two watched literals, *)
(* conflict analysis to the first unique implication point, backjumping,   *)
(* restarts, deletion of learned clauses, assumptions and unsat cores, and  *)
(* the places where it calls its theory.                                   *)
(*                                                                         *)
(* A literal is v or -v.  A clause keeps the set of its literals and the   *)
(* pair it is watched by, which are literals[0] and literals[1] in the     *)
(* code; a watch list is the set of clauses watched by a literal, visited  *)
(* in any order.  Activities, blockers and phases only choose among the    *)
(* moves this module leaves open (module DecisionHeap has the activities). *)
(***************************************************************************)
EXTENDS Integers, Sequences, FiniteSets, Functions, SequencesExt

\* A problem: [vars |-> the number of variables, clauses |-> what add_clause is given, in
\* order, lemmas |-> the clauses of the theory, stops |-> after how many clauses the caller
\* checks, assumed |-> the sets of literals a check may assume, checks |-> bound: calls of check],
\* and the solver's constants: [cooldown |-> restart_cooldown, threshold |-> reduce_threshold
\* at first, spacing |-> what it grows by].
CONSTANT Instances

LitsUpTo(n) == {v : v \in 1 .. n} \cup {-v : v \in 1 .. n}
\* The engine's encoder gives add_clause no literal twice: connectives keep no argument
\* twice, and the variable of a definition is new.
ASSUME CDCLAssumption ==
    \A x \in Instances :
        /\ {x.vars, x.checks, x.cooldown, x.threshold, x.spacing} \subseteq Nat
        /\ x.clauses \in Seq(Seq(LitsUpTo(x.vars)) \ {<<>>})
        /\ \A i \in DOMAIN x.clauses : IsInjective(x.clauses[i])
        /\ x.lemmas \subseteq (SUBSET LitsUpTo(x.vars)) \ {{}}
        /\ x.assumed \subseteq SUBSET LitsUpTo(x.vars)

VARIABLES
    inst,         \* the problem
    added,        \* how many of its clauses were given to add_clause
    refused,      \* add_clause returned False: the caller knows UNSAT
    db,           \* the clauses, indexed by identity
    trail,        \* Trail.stack
    limits,       \* Trail.limits
    reason,       \* Trail.reason: the index of a clause, or 0
    qhead,        \* how many literals of the trail were propagated
    pending,      \* the watchers of the current literal not yet visited
    pc,           \* where check is
    conflict,     \* the literals of the conflicting clause
    assumptions,  \* of the current check
    core,         \* unsat_core
    answers,      \* what the checks returned so far, see Outcomes
    sinceRestart, \* conflicts_since_restart, up to the cooldown
    untilReduce   \* reduce_threshold less conflicts

vars == <<inst, added, refused, db, trail, limits, reason, qhead, pending, pc,
          conflict, assumptions, core, answers, sinceRestart, untilReduce>>
problem == <<inst, added, refused>>
counters == <<answers, sinceRestart, untilReduce>>
schedule == <<sinceRestart, untilReduce>>

(***************************************************************************)
(* Literals and the trail.                                                 *)
(***************************************************************************)
Vars == 1 .. inst.vars
Lits == LitsUpTo(inst.vars)
Var(l) == IF l > 0 THEN l ELSE -l

TrueLits     == {trail[i] : i \in DOMAIN trail}
IsTrue(l)    == l \in TrueLits
IsFalse(l)   == -l \in TrueLits
IsFree(l)    == ~IsTrue(l) /\ ~IsFalse(l)
AllAssigned  == Len(trail) = inst.vars

DecisionLevel == Len(limits)
LevelAt(i)    == Cardinality({k \in DOMAIN limits : limits[k] < i})
PosOf(v)      == CHOOSE i \in DOMAIN trail : Var(trail[i]) = v
\* Trail.level of an assigned variable.
Level(l)      == LevelAt(PosOf(Var(l)))
MaxLevel(C)   == CHOOSE n \in 0 .. DecisionLevel :
                     /\ \E l \in C : Level(l) = n
                     /\ \A l \in C : Level(l) <= n

\* Trail.backtrack: what is left of the trail at a level.
Kept(n) == IF n < DecisionLevel THEN SubSeq(trail, 1, limits[n + 1]) ELSE trail
ReasonsOf(t) == [v \in Vars |-> IF \E i \in DOMAIN t : Var(t[i]) = v THEN reason[v] ELSE 0]

Clause(C, w, learned, keep) ==
    [lits |-> C, watch |-> w, learned |-> learned, keep |-> keep, deleted |-> FALSE]

\* add_clause watches the two literals that are best to watch, the earlier one
\* where two are as good: true before free before false.
Worth(l) == IF IsTrue(l) THEN 2 ELSE IF IsFree(l) THEN 1 ELSE 0
Best(C, S) == CHOOSE i \in S : \A j \in S \ {i} :
                  Worth(C[i]) > Worth(C[j]) \/ (Worth(C[i]) = Worth(C[j]) /\ i < j)
BestWatches(C) ==
    LET i == Best(C, DOMAIN C)
        j == Best(C, DOMAIN C \ {i})
    IN  <<C[i], C[j]>>

(***************************************************************************)
(* add_clause, called by the engine at decision level 0.                   *)
(***************************************************************************)
Init ==
    /\ inst \in Instances
    /\ added = 0 /\ refused = FALSE
    /\ db = <<>> /\ trail = <<>> /\ limits = <<>> /\ qhead = 0
    /\ reason = [v \in Vars |-> 0]
    /\ pending = {} /\ pc = "idle" /\ conflict = {}
    /\ assumptions = {} /\ core = {}
    /\ answers = <<>> /\ sinceRestart = 0 /\ untilReduce = inst.threshold

NextClause == inst.clauses[added + 1]
MayAdd == pc = "idle" /\ ~refused /\ added < Len(inst.clauses)

AddUnit ==
    /\ MayAdd /\ Len(NextClause) = 1
    /\ added' = added + 1
    /\ refused' = IsFalse(NextClause[1])
    /\ trail' = IF IsFree(NextClause[1]) THEN Append(trail, NextClause[1]) ELSE trail
    /\ UNCHANGED <<inst, db, limits, reason, qhead, pending, pc, conflict,
                   assumptions, core, counters>>

AddLonger ==
    /\ MayAdd /\ Len(NextClause) > 1
    /\ added' = added + 1
    /\ LET w == BestWatches(NextClause)
       IN  /\ db' = Append(db, Clause(Range(NextClause), w, FALSE, TRUE))
           /\ refused' = IsFalse(w[1])
           /\ IF IsFree(w[1]) /\ IsFalse(w[2])
              THEN /\ trail' = Append(trail, w[1])
                   /\ reason' = [reason EXCEPT ![Var(w[1])] = Len(db) + 1]
              ELSE UNCHANGED <<trail, reason>>
    /\ UNCHANGED <<inst, limits, qhead, pending, pc, conflict, assumptions, core, counters>>

\* The engine discards old decisions before it adds a clause or checks again.
Reset ==
    /\ pc \in {"SAT", "UNSAT"}
    /\ trail' = Kept(0) /\ reason' = ReasonsOf(Kept(0))
    /\ limits' = <<>>
    /\ qhead' = IF DecisionLevel > 0 THEN Len(Kept(0)) ELSE qhead
    /\ pending' = {} /\ pc' = "idle" /\ conflict' = {}
    /\ assumptions' = {} /\ core' = {}
    /\ UNCHANGED <<problem, db, counters>>

BeginCheck(A) ==
    /\ pc = "idle" /\ ~refused /\ Len(answers) < inst.checks /\ added \in inst.stops
    /\ assumptions' = A /\ core' = {}
    /\ pc' = "propagate"
    /\ UNCHANGED <<problem, db, trail, limits, reason, qhead, pending, conflict, counters>>

(***************************************************************************)
(* _propagate.                                                             *)
(***************************************************************************)
Current == trail[qhead]

\* The next literal of the queue is given to the theory.
Dequeue ==
    /\ pc = "propagate" /\ qhead < Len(trail)
    /\ qhead' = qhead + 1
    /\ pc' = "theory"
    /\ UNCHANGED <<problem, db, trail, limits, reason, pending, conflict,
                   assumptions, core, counters>>

Asserted == {trail[i] : i \in 1 .. qhead}

\* The theory refutes l: its other literals are false for the theory.
Propagates(L, l) == l \in L /\ \A k \in L \ {l} : -k \in Asserted

\* A propagated literal that the trail has false is a conflict, and so is an
\* inconsistent literal: the explanation is returned without being attached.
TheoryConflict(L) ==
    /\ pc = "theory"
    /\ \E l \in L : Propagates(L, l) /\ IsFalse(l)
    /\ conflict' = L /\ pc' = "conflict"
    /\ UNCHANGED <<problem, db, trail, limits, reason, qhead, pending,
                   assumptions, core, counters>>

\* The explanation is attached by its first two literals: the propagated one
\* and any other.
TheoryPropagate(L, l, k) ==
    /\ pc = "theory"
    /\ Propagates(L, l) /\ IsFree(l) /\ k \in L \ {l}
    /\ db' = Append(db, Clause(L, <<l, k>>, TRUE, TRUE))
    /\ trail' = Append(trail, l)
    /\ reason' = [reason EXCEPT ![Var(l)] = Len(db) + 1]
    /\ UNCHANGED <<problem, limits, qhead, pending, pc, conflict, assumptions, core, counters>>

WatchedBy(l) == {c \in DOMAIN db : ~db[c].deleted /\ l \in {db[c].watch[1], db[c].watch[2]}}

\* How much of what it knows the theory propagates is up to it.
StartVisits ==
    /\ pc = "theory"
    /\ pending' = WatchedBy(-Current)
    /\ pc' = "visit"
    /\ UNCHANGED <<problem, db, trail, limits, reason, qhead, conflict,
                   assumptions, core, counters>>

Other(c) == IF db[c].watch[1] = -Current THEN db[c].watch[2] ELSE db[c].watch[1]
IsBinary(c) == Cardinality(db[c].lits) = 2

\* The binary watchers come before the others.
Visits(c) == /\ pc = "visit" /\ c \in pending
             /\ IsBinary(c) \/ ~ \E d \in pending : IsBinary(d)

Replacements(c) == {l \in db[c].lits \ {-Current, Other(c)} : ~IsFalse(l)}

\* A true literal in the blocker or in the other watch; a blocker may be any.
VisitSatisfied(c) ==
    /\ Visits(c)
    /\ \E l \in db[c].lits : IsTrue(l) /\ (IsBinary(c) => l = Other(c))
    /\ pending' = pending \ {c}
    /\ UNCHANGED <<problem, db, trail, limits, reason, qhead, pc, conflict,
                   assumptions, core, counters>>

VisitRewatch(c, l) ==
    /\ Visits(c) /\ ~IsTrue(Other(c)) /\ l \in Replacements(c)
    /\ db' = [db EXCEPT ![c].watch = <<Other(c), l>>]
    /\ pending' = pending \ {c}
    /\ UNCHANGED <<problem, trail, limits, reason, qhead, pc, conflict,
                   assumptions, core, counters>>

\* No literal to watch instead: the other watch is normalised to literals[0].
VisitUnit(c) ==
    /\ Visits(c) /\ IsFree(Other(c)) /\ Replacements(c) = {}
    /\ trail' = Append(trail, Other(c))
    /\ reason' = [reason EXCEPT ![Var(Other(c))] = c]
    /\ db' = IF IsBinary(c) THEN db
             ELSE [db EXCEPT ![c].watch = <<Other(c), -Current>>]
    /\ pending' = pending \ {c}
    /\ UNCHANGED <<problem, limits, qhead, pc, conflict, assumptions, core, counters>>

VisitConflict(c) ==
    /\ Visits(c) /\ IsFalse(Other(c)) /\ Replacements(c) = {}
    /\ conflict' = db[c].lits
    /\ pc' = "conflict" /\ pending' = {}
    /\ UNCHANGED <<problem, db, trail, limits, reason, qhead, assumptions, core, counters>>

EndVisits ==
    /\ pc = "visit" /\ pending = {}
    /\ pc' = "propagate"
    /\ UNCHANGED <<problem, db, trail, limits, reason, qhead, pending, conflict,
                   assumptions, core, counters>>

(***************************************************************************)
(* The queue is empty: the theory's own check, then a decision.            *)
(***************************************************************************)
Falsified(L) == \A l \in L : -l \in Asserted

\* _add_theory_lemma on a lemma all of whose literals are false: any two are
\* as good to watch.
TheoryLemma(L, w) ==
    /\ pc = "propagate" /\ qhead = Len(trail)
    /\ Falsified(L)
    /\ IF Cardinality(L) = 1
       THEN w = <<>> /\ UNCHANGED db
       ELSE w \in L \X L /\ w[1] < w[2] /\ db' = Append(db, Clause(L, w, TRUE, TRUE))
    /\ conflict' = L /\ pc' = "conflict"
    /\ UNCHANGED <<problem, trail, limits, reason, qhead, pending, assumptions, core, counters>>

\* A slip: the theory's check is left out.
AtFixpointUnchecked == pc = "propagate" /\ qhead = Len(trail)
AtFixpoint == /\ pc = "propagate" /\ qhead = Len(trail)
              /\ ~ \E L \in inst.lemmas : Falsified(L)

\* analyze_final: back over the trail from the false assumption, through the
\* reasons, to the assumptions that were decided.
\* A slip, with the reasons of propagated literals not followed:
SeenBeforeNoReasons(l, seen) == seen
SeenBefore(l, seen) ==
    IF Var(l) \in seen /\ reason[Var(l)] # 0
    THEN seen \cup {Var(k) : k \in db[reason[Var(l)]].lits}
    ELSE seen
AnalyzeFinal(a) ==
    LET seen == FoldRight(SeenBefore, trail, {Var(a)})
    IN  {a} \cup {l \in TrueLits \cap assumptions : Var(l) \in seen /\ reason[Var(l)] = 0}

AnswerSat ==
    /\ AtFixpoint /\ AllAssigned
    /\ \A a \in assumptions : ~IsFalse(a)
    /\ pc' = "SAT" /\ answers' = Append(answers, "SAT")
    /\ UNCHANGED <<problem, db, trail, limits, reason, qhead, pending, conflict,
                   assumptions, core, schedule>>

\* A slip: a false assumption is noticed only once everything is assigned.
AnswerUnsatUnderLate(a) ==
    /\ AtFixpoint /\ AllAssigned /\ a \in assumptions /\ IsFalse(a)
    /\ core' = AnalyzeFinal(a)
    /\ pc' = "UNSAT" /\ answers' = Append(answers, "UNSAT under assumptions")
    /\ UNCHANGED <<problem, db, trail, limits, reason, qhead, pending, conflict,
                   assumptions, schedule>>

\* An assumption is false, whether or not all variables are assigned.
AnswerUnsatUnder(a) ==
    /\ AtFixpoint /\ a \in assumptions /\ IsFalse(a)
    /\ core' = AnalyzeFinal(a)
    /\ pc' = "UNSAT" /\ answers' = Append(answers, "UNSAT under assumptions")
    /\ UNCHANGED <<problem, db, trail, limits, reason, qhead, pending, conflict,
                   assumptions, schedule>>

\* Assumptions are decided before any other variable.
Decide(l) ==
    /\ AtFixpoint /\ ~AllAssigned /\ IsFree(l)
    /\ l \notin assumptions => \A a \in assumptions : IsTrue(a)
    /\ limits' = Append(limits, Len(trail))
    /\ trail' = Append(trail, l)
    /\ reason' = [reason EXCEPT ![Var(l)] = 0]
    /\ UNCHANGED <<problem, db, qhead, pending, pc, conflict, assumptions, core, counters>>

(***************************************************************************)
(* A conflict.                                                             *)
(***************************************************************************)
\* conflicts counts this one.
AnswerUnsat ==
    /\ pc = "conflict"
    /\ DecisionLevel = 0 \/ MaxLevel(conflict) = 0
    /\ core' = {} /\ pc' = "UNSAT" /\ answers' = Append(answers, "UNSAT")
    /\ untilReduce' = untilReduce - 1
    /\ UNCHANGED <<problem, db, trail, limits, reason, qhead, pending, conflict,
                   assumptions, sinceRestart>>

\* _analyze_conflict, at the highest level of the conflict: the conflicting
\* clause is resolved with the reasons of its literals, from the end of the
\* trail, until one literal of that level is left.
AtTop(C) == {l \in C : Level(l) = MaxLevel(conflict)}
\* A slip: the other literals of the reason are forgotten.
ResolveDropping(l, clauses) ==
    {IF -l \notin C \/ Cardinality(AtTop(C)) = 1 THEN C ELSE C \ {-l} : C \in clauses}
\* clauses holds the one clause there is so far, as a set so that TLC computes it once.
Resolve(l, clauses) ==
    {IF -l \notin C \/ Cardinality(AtTop(C)) = 1 THEN C
     ELSE (C \ {-l}) \cup (db[reason[Var(l)]].lits \ {l}) : C \in clauses}
Learned ==
    {l \in UNION FoldRight(Resolve, Kept(MaxLevel(conflict)), {conflict}) : Level(l) > 0}

BackjumpLevel(rest) == IF rest = {} THEN 0 ELSE MaxLevel(rest)

\* literals[1] of a learned clause is a literal of the highest level of the rest.
\* _compute_lbd runs after the backjump, so it counts the levels of the rest only.
LearnedClauses(l, rest) ==
    {Clause(rest \cup {l}, <<l, k>>, TRUE, Cardinality({Level(m) : m \in rest}) <= 2) :
        k \in {m \in rest : Level(m) = BackjumpLevel(rest)}}

\* _reduce_db deletes learned clauses that are neither of a low lbd nor the
\* reason r of their first literal; which of them is decided by their activity.
\* A slip: reasons are deleted too.
DeletableReasons(d, r) == {c \in DOMAIN d : d[c].learned /\ ~d[c].deleted /\ ~d[c].keep}
Deletable(d, r) ==
    {c \in DOMAIN d : d[c].learned /\ ~d[c].deleted /\ ~d[c].keep /\ r[Var(d[c].watch[1])] # c}
Delete(d, D) == [c \in DOMAIN d |-> IF c \in D THEN [d[c] EXCEPT !.deleted = TRUE] ELSE d[c]]

\* A slip: the asserted literal counts as propagated.
JumpPropagated(n, l, c) ==
    /\ trail' = Append(Kept(n), l)
    /\ limits' = SubSeq(limits, 1, n)
    /\ reason' = [ReasonsOf(Kept(n)) EXCEPT ![Var(l)] = c]
    /\ qhead' = Len(Kept(n)) + 1

\* Jump back to level n and assert l, which the clause of index c forces.
Jump(n, l, c) ==
    /\ trail' = Append(Kept(n), l)
    /\ limits' = SubSeq(limits, 1, n)
    /\ reason' = [ReasonsOf(Kept(n)) EXCEPT ![Var(l)] = c]
    /\ qhead' = Len(Kept(n))

\* How restarts follow recent lbds is left open: one may come after any conflict that
\* ends the cooldown.  It drops the literal asserted with the rest, unless that is of level 0.
Restart(n, l, c) ==
    /\ sinceRestart + 1 >= inst.cooldown /\ sinceRestart' = 0
    /\ IF n = 0 THEN Jump(n, l, c)
       ELSE /\ trail' = Kept(0) /\ limits' = <<>> /\ reason' = ReasonsOf(Kept(0))
            /\ qhead' = Len(Kept(0))

GoOn(n, l, c) ==
    /\ sinceRestart' = IF sinceRestart < inst.cooldown THEN sinceRestart + 1 ELSE sinceRestart
    /\ Jump(n, l, c)

\* conflicts counts a conflict twice, when it is met and when its clause is learned.
Reduce(d, r) ==
    LET left == untilReduce - 2
    IN  /\ \E D \in SUBSET Deletable(d, r) : (D # {} => left <= 0) /\ db' = Delete(d, D)
        /\ untilReduce' = IF left <= 0 THEN left + inst.spacing ELSE left

LearnAndJump(l, rest) ==
    LET c == IF rest = {} THEN 0 ELSE Len(db) + 1
        n == BackjumpLevel(rest)
        forced == [ReasonsOf(Kept(n)) EXCEPT ![Var(l)] = c]
    IN  /\ \E d \in IF rest = {} THEN {db} ELSE {Append(db, x) : x \in LearnedClauses(l, rest)} :
               Reduce(d, forced)
        /\ GoOn(n, l, c) \/ Restart(n, l, c)

\* The handler of a conflict above level 0: learn, jump back, assert; perhaps
\* delete learned clauses; perhaps restart.
Learn ==
    /\ pc = "conflict" /\ DecisionLevel > 0 /\ MaxLevel(conflict) > 0
    /\ \E learned \in {Learned} : \E l \in AtTop(learned) : LearnAndJump(l, learned \ {l})
    /\ pc' = "propagate" /\ conflict' = {} /\ pending' = {}
    /\ UNCHANGED <<problem, assumptions, core, answers>>

(***************************************************************************)
(* The solver's own steps and its caller's.                                *)
(***************************************************************************)
Search ==
    \/ Dequeue \/ StartVisits \/ EndVisits
    \/ \E L \in inst.lemmas :
          \/ TheoryConflict(L)
          \/ \E l, k \in L : TheoryPropagate(L, l, k)
          \/ \E w \in L \X L \cup {<<>>} : TheoryLemma(L, w)
    \/ \E c \in pending :
          \/ VisitSatisfied(c) \/ VisitUnit(c) \/ VisitConflict(c)
          \/ \E l \in db[c].lits : VisitRewatch(c, l)
    \/ AnswerSat \/ AnswerUnsat \/ Learn
    \/ \E a \in assumptions : AnswerUnsatUnder(a)
    \/ \E l \in Lits : Decide(l)

Caller ==
    \/ AddUnit \/ AddLonger \/ Reset
    \/ \E A \in inst.assumed : BeginCheck(A)

Next == Search \/ Caller

\* check is one loop that gives way to nobody; callers may stop whenever they like.
Spec == Init /\ [][Next]_vars /\ WF_vars(Search)

(***************************************************************************)
(* What holds of it.                                                       *)
(***************************************************************************)
Outcomes == {"SAT", "UNSAT", "UNSAT under assumptions"}

\* The state has its type: the trail assigns a variable once, clauses are
\* watched by two of their literals, limits grow with the trail.
TypeOK ==
    /\ inst \in Instances /\ added \in 0 .. Len(inst.clauses) /\ refused \in BOOLEAN
    /\ \A i, j \in DOMAIN trail : trail[i] \in Lits /\ (Var(trail[i]) = Var(trail[j]) => i = j)
    /\ \A i \in DOMAIN limits : limits[i] \in 0 .. Len(trail) - 1
    /\ \A i \in 2 .. Len(limits) : limits[i - 1] < limits[i]
    /\ \A c \in DOMAIN db : /\ db[c].lits \subseteq Lits
                            /\ {db[c].watch[1], db[c].watch[2]} \subseteq db[c].lits
                            /\ db[c].watch[1] # db[c].watch[2]
    /\ reason \in [Vars -> 0 .. Len(db)]
    /\ qhead \in 0 .. Len(trail)
    /\ pending \subseteq DOMAIN db
    /\ pc \in {"idle", "propagate", "theory", "visit", "conflict", "SAT", "UNSAT"}
    /\ conflict \subseteq Lits /\ assumptions \subseteq Lits /\ core \subseteq Lits
    /\ answers \in Seq(Outcomes) /\ Len(answers) <= inst.checks
    /\ sinceRestart \in 0 .. inst.cooldown /\ untilReduce \in Int

Given == {Range(inst.clauses[i]) : i \in 1 .. added} \cup inst.lemmas

\* The total assignments, as the sets of literals they make true, and those
\* that satisfy a set of clauses.
Valuations == {{v : v \in V} \cup {-v : v \in Vars \ V} : V \in SUBSET Vars}
Models(S)  == {m \in Valuations : \A C \in S : C \cap m # {}}

\* A check without assumptions has been answered UNSAT.
Refuted == \E i \in DOMAIN answers : answers[i] = "UNSAT"

\* The trail and the watches are in shape (TypeOK), and
\* a literal is forced by a clause that is still there and whose other literals
\* were false before it: what conflict analysis and final analysis walk back
\* over, and what _reduce_db must not delete.
ReasonsStand ==
    /\ TypeOK
    /\ \A i \in DOMAIN trail :
         LET c == reason[Var(trail[i])]
         IN  c # 0 => /\ ~db[c].deleted
                      /\ trail[i] \in db[c].lits
                      /\ \A l \in db[c].lits \ {trail[i]} :
                             -l \in {trail[j] : j \in 1 .. i - 1}

\* Every clause learned follows from what was added and the theory's lemmas; an
\* assumption or a decision never leaks into one.
LearnedFollow ==
    \A m \in Models(Given) : \A c \in DOMAIN db : db[c].lits \cap m # {}

\* When the queue is empty no clause that was added or learned by analysis is
\* false, or has one free literal left: two watches are enough, over backjumps,
\* restarts, deletions and earlier checks, until the clauses were refuted.
PropagationComplete ==
    AtFixpoint /\ ~Refuted =>
        \A c \in DOMAIN db :
            db[c].deleted \/ db[c].lits \in inst.lemmas
              \/ (\E l \in db[c].lits : IsTrue(l))
              \/ Cardinality({l \in db[c].lits : IsFree(l)}) > 1

\* SAT is answered with a model of the clauses, the lemmas and the assumptions.
SatIsModel ==
    pc = "SAT" /\ ~Refuted => TrueLits \in Models(Given) /\ assumptions \subseteq TrueLits

\* UNSAT is answered with assumptions that no model satisfies together.
CoreIsUnsat ==
    pc = "UNSAT" => /\ core \subseteq assumptions
                    /\ ~ \E m \in Models(Given) : core \subseteq m

\* Every check is answered, with restarts and deletions that recur for as long as the
\* search goes on: nothing is learned, dropped and learned again for ever.
Answered == pc = "propagate" ~> pc \in {"SAT", "UNSAT"}

\* What is documented of a solver that is checked again: a contradiction that
\* was derived stays UNSAT, as clauses are only ever added, and a reused solver
\* answers what a fresh one would.
RefutationIsFinal ==
    \A i, j \in DOMAIN answers : i < j /\ answers[i] = "UNSAT" => answers[j] # "SAT"

=============================================================================
