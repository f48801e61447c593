# A formal model of endoxa

endoxa answers two questions about a set of recorded premises: *are they
consistent?* and, if not, *which is the one cheapest set of records whose
withdrawal makes them so?* Behind both stands an SMT solver written for the
purpose: skolemization, CNF encoding, CDCL, congruence closure and E-matching.

This directory holds TLA+ modules translated from the source, TLC
configurations that check them on small instances, and proofs for every value
of the constants. Paths below are relative to the repository. `PROJECT.json`
maps every definition to the lines it stands for and lists the hazards, each
with the properties that would catch it going wrong.

    tlc -workers 2 -config MCProposal.cfg MCProposal     # one run
    tlapm RevisionProofs.tla                             # one proof module

## 1. Inventory

    caller ── propose_revision ──> ordered_omissions           (governance)
                   │  one call per trial
                   v
            check_consistency / check_entailment                (governance)
                   │  a new Solver for every check
                   v
            Solver ── SMTEngine ── Skolemizer, Preprocessor, TseitinEncoder
                          │              formulas -> clauses
                          │ check(assumptions)
                          v
                      SATSolver <──── EUFSolver      assert, propagate, conflict
                          │
                          └ level-0 result ──> EMatcher ── instances ──> SMTEngine

Nothing here runs in parallel. The difficulty is re-entrance and incremental
state: a consumer that may stop between two items of a generator, a SAT solver
that calls its theory in the middle of propagation, formulas added between two
checks of one solver, and budgets that cut a computation short.

| Part (source) | State | Operations | What makes it correct |
|---|---|---|---|
| Cost order (`governance/premises.py`, `_revision_search.py`) | none | rank of a set of omissions | a total preorder that agrees with the tuples compared by Python; omitting more costs strictly more |
| `ordered_omissions` (`governance/_revision_search.py`) | a heap, the items handed out | `next` | every admissible omission once, cheapest first, without holding the whole power set |
| `propose_revision` (`governance/proposal.py`) | budget used, verdicts, the repair found | original, initial and fixed checks, one trial per omission | what is proposed was verified, cheapest and the only one; what is deferred is deferred for the reason it gives |
| `checks.py`, `_checking.py`, `results.py` | the premises the host adopts and their functional scope; two solvers within a query | consistency, entailment, support | cores name what must go; support does not rest on the atom's own owners; answers about comparable premises do not contradict each other |
| `SMTEngine` (`solver/engine.py`) | assertions, scopes, made instances, `is_unsat` | add, push, pop, check | UNSAT only for what has no model; SAT only with every instance within reach; UNKNOWN only for a budget that was met |
| `EMatcher` (`solver/quantifiers/ematch.py`) | applications by function, term depths, rules, instances made, work left | register, add a rule, match | a call that was not cut has found every match modulo equality; a cut one says so; no instance twice |
| `SATSolver` (`solver/sat/solver.py`) | clauses, watch lists, trail, levels, reasons, queue head, learned clauses | add, check, propagate, analyze, backjump, restart, reduce | learned clauses follow, models satisfy, cores refute, nothing to propagate is missed |
| VSIDS heap (same file) | activities, increment, lazy heap and its marks | bump, rescale, decay, decide, re-insert on backtrack | never empty while a variable is free; the pick is the most active |
| `EUFSolver` (`solver/theories/euf.py`) | union-find, members, use lists, proof edges, disequalities, undo stack | register, assert, merge, explain, push, pop | classes are the congruence closure of what is asserted; explanations entail; pop is exact |
| `Skolemizer` (`solver/tactic/skolemize.py`) | a counter of names | walk, substitute | the result has a model exactly when the formula has |
| Tseitin encoder, preprocessor (`solver/tactic`) | definitions shared by formulas | encode, eliminate units and pure literals | the clauses have the models of all formulas added so far and of those added later |
| Facade, expressions, text (`solver/api.py`, `solver/ast`, `parsers`, `syntax`) | intern table | build and print terms | — |
| Calibration (`instruments/calibration`) | counters over a stream of events; a window during recomputation | observe, replay, recompute in windows | windowed and cumulative counts agree on what they count |
| Coverage (`instruments/coverage`) | none | build a graph of predicates | — |
| Trace (`trace`) | a protocol without implementation | — | — |

**Hard behaviours.** (1) A heap that generates its members lazily may lose,
repeat or misorder them. (2) A budget may run out between any two checks, and
the verdict then has to say so. (3) CDCL is a nest of invariants that hold only
at certain points: watches may be stale during a visit, reasons must survive
deletion and backjumping, clauses are added while level-0 literals stand.
(4) EUF merges call each other recursively while their loops run, and all of it
is undone by pop. (5) The lazy heap has duplicates and outdated entries.
(6) The engine is incremental: what one check leaves behind (instances recorded
but not asserted, conflicts met but not kept, definitions eliminated) is read by
the next. (7) Quantifier instantiation may not end by itself.

## 2. Modules

| Module | Models | Composes |
|---|---|---|
| `RevisionOrder` | rank of omissions: layers by priority, then confidences | |
| `RankTuples` | the same rank as the tuples that the code builds | extends `RevisionOrder` |
| `BestFirst` | abstract specification: emit every member of a scope once, never while a cheaper one waits | |
| `RevisionSearch` | `ordered_omissions` | extends `RankTuples`, refines `BestFirst` |
| `Proposal` | `propose_revision`, `_search` | extends `RevisionSearch` |
| `CDCL` | `SATSolver`, with a theory that acts at any point | |
| `DecisionHeap` | VSIDS activities and heap of `SATSolver` | |
| `EUF` | `EUFSolver` | |
| `EUFTraced` | the same, remembering what each push saw and which equalities held before a call | extends `EUF` |
| `Skolemizer` | `Skolemizer`, `substitute` | |
| `Encoder` | `TseitinEncoder`, `Preprocessor`, `mk_app`, and the engine's calls of them | |
| `EncoderSharing` | the same, for callers whose formulas share no eliminated definition | extends `Encoder` |
| `EMatch` | `EMatcher` over the registered applications | |
| `Engine` | `SMTEngine` with an abstract `EMatcher` | |
| `EngineUse` | the same, for callers that add rules as formulas of their own and drop a solver that answered UNKNOWN or was refuted | extends `Engine` |
| `Checks` | `PremiseSet.functional_scope`, `theory`, `signed_assertions`, the three checks, `EntailmentResult` | |
| `Calibration` | the calibration counters, `observations_from_rows`, the windowed functions, and the host that logs | |
| `MC*` | instances for TLC | each extends its component |
| `*Proofs` | theorems; `TacticProofs` those of `Encoder` and `Skolemizer` | each extends its component and `TLAPS` |

### RevisionOrder, RankTuples, RevisionSearch, BestFirst

A record is its key: priority and confidence, as levels, since the code only
compares them. `RankLess` compares two omissions directly; `RankIsTupleOrder`
compares it with the tuples of counts and of sorted confidences that the code
builds (`RankTuples`), for any two sets of records that may be given up. An entry of the heap is an increasing sequence of positions
in the sorted eligible records; the empty sequence is the rejection of the
candidate. `Yield` is one `next`: pop the cheapest entry, yield it, push its at
most two successors. The heap is a *set* of entries: the action property
`FreshSuccessors` shows that this loses nothing. Keys, protection, candidate and
limit are variables fixed by `Init`, so a run covers all of them.

### Proposal

`pc` follows `propose_revision` from the original check through the initial
check, the fixed check and the trials of `_search`; each action is a check with
everything the code does until the next one, early returns included.
`verdict` remembers what `check_consistency` answered for each set of
records. The answer is a free choice under `Plausible`: subsets of a
satisfiable set are not unsatisfiable, and UNKNOWN may come at any time.
So the properties of this module assume a *sound* solver, and section 5 lists
where the solver of this repository is not one.

### CDCL, DecisionHeap

One action is one iteration of an inner loop: one dequeued literal, one
watcher visited, one theory clause, one analysis with its backjump. `db` holds
each clause with the pair it is watched by, the analogue of `literals[0]` and
`literals[1]`, and the pending visits. `TheoryPropagate`, `TheoryConflict` and
`TheoryLemma` are the three ways a theory enters; its clauses come from
`inst.lemmas`. Which free literal is decided and which learned clauses are deleted
(among those `_reduce_db` may delete) are free choices. The cooldown of restarts and the threshold
of deletions are counted as in the code, where `conflicts` counts every conflict twice
(`solver/sat/solver.py:273`, `:315`): `sinceRestart` and `untilReduce`, with the constants
`cooldown`, `threshold` and `spacing` of the problem. How restarts follow the lbds is left open: one may
come after any conflict that ends the cooldown. `Learned` folds resolution over the trail from its end, down to the
first unique implication point, as `_analyze_conflict` does.

The order of decisions is in `DecisionHeap`: the trail is a set there, and the
state is the activities, the increment, the heap's entries and the
marks of `in_heap`. `_decide` is four actions (begin, drop an outdated entry,
skip an assigned variable, choose), and a bump may rescale everything and
rebuild the heap. Activities are naturals and rescaling is a division, which,
like rounding, may make different ones equal. The heap is again a set:
`Entries` implies that two equal entries of one variable never meet.

### EUF

One action is one `_merge`, one `pop`, another call up to the first merge it
causes, or the beginning or end of a loop. `_merge` calls itself while its two loops over use lists are running,
and the lists they run over are live: a merge inside makes them longer. `todo` is the sequence of the
loops not done, innermost first, with their places in the lists. `Congruence(c)` goes on to the next
congruent pair and merges it, a step of the real recursion, and
`CompareDone`, `NextMember`, `MembersDone`, `NextArgument` and `ArgumentsDone` end and begin the loops
of `_merge` and of `register_term`, which looks up the root of an argument at its turn.
`edge` is the proof forest with the pair of terms that made each merge, `history` the undo stack.
`reporting` is `eq_to_lit`: of two equalities with the same or with exchanged sides, it keeps the one
registered last (finding 8).

`EUFTraced` adds what the properties compare: `saved`, the lists at each push, and `before`, the
equalities that held when the running call began. It has two specifications: `LateSpec`, in
which formulas may come between checks, and `EarlySpec`, in which everything is registered before
anything is asserted. Closure is a property of the second only (finding 3).

### Skolemizer

The nodes are the occurrences of subformulas. One action is one first visit: the node on top of `stack`
is taken off with its `entry` (formula, polarity, universal variables, substitution), gets its
operator in `result`, and its operands go onto the stack. `SkolemizeFormula` is
`add_formula`, which makes a Skolemizer and so begins its `counter` at 0. `substitute` is not carried
out at once: the map `theta` goes along to the atoms, losing what a quantifier binds, and is
used there (`Substituted`), so that a Skolem term is read under the quantifiers around the atom and
may be captured by them, as in the code.

`Meaning` gives each node the environments in which it holds, `Truth` before and `Outcome` after, for every
`Structures` (what the atoms mean) and every choice of Skolem functions (`Interpretations`).
`Preserved` is that both have the same models. It fails in three ways (section 5), and
`MeaningPreserved` names what must not happen: `PositiveUniversals`, `VariablesApart`, `NotRebound`.

### Encoder

An expression is its own Boolean variable, as hash-consing makes it, and a
literal is an expression and a sign. `AddFormula` and `Assume` are
`_encode_and_simplify` up to the preprocessor: the definitions of the nodes that
have no variable yet, the unit clause of the root (of formulas, not of
assumptions) and the protected variables. `ApplyUnits` and `ApplyPure` alternate as `run` does,
until neither changes anything; `Assert` hands the clauses to the SAT solver.
The order and the multiplicity of literals and arguments are abstracted away.
What formulas mean is the constant `Valuations`: any set of functions that
respect the connectives, so the module also covers atoms that a theory relates.
`EncoderSharing` adds the history variable `lost`, the variables eliminated as pure, and
`KeptSpec`, in which no formula has a part among them.

### EMatch

Terms, patterns and bodies of rules are names with a declaration, arguments and a size, as
hash-consing makes them. `apps` is `term_to_app` in the order in which `register_term` enters
applications, outermost first (`entering` holds what it has still to enter), since the budget
cuts in that order; `class` is the congruence closure (that `EUF` computes it is the run `euf` and
`ClosureAlways`). `add_rule` orders the candidate patterns as a Python set happens to: any order.

`match` is one step for each application that a loop considers and each binding that is handed on.
The code is three nested recursions: `_match_multi_pattern` over the expressions of a pattern,
`_match_arg` over nested patterns, and in both a loop over all applications within which the
arguments are matched one after another. The calls and loops that are not done are the frames of
`stack`, innermost first; a frame is a loop over the expressions of a pattern (`outer`) or over the
arguments of an application, with the bindings that wait for the expression at hand, and those made
for the next. `Consider` spends a unit for one application and opens the loop over its
arguments; `LeaveLoop` ends the loop over applications, after the last one or because nothing is
left, which only the next `_spend` reports; `NextArgument` and `Return` hand the bindings on, and
`Continue` hands one on to the next expression of the pattern or makes an instance of it. The code
makes the instances when all bindings of a pattern are found; what is made has no influence on
what is found, so the model makes each at once. Actions outside a call are not enabled while one runs.

### Checks

Assertions, rules and axioms have as their meaning the set of valuations they
admit. A solver is any that is sound and may answer UNKNOWN (`Possible`): each check
makes a new one, so two verdicts on the same premises need not agree on what is
unknown. A query is two steps, the premises and then the negated conclusion,
and the host adopts other premises between queries in the same functional scope, as
the docstring of `PremiseSet` asks of it. `answers` remembers what was
answered, so the properties compare answers of different times.

### Calibration

The host classifies targets and records predictions and answers; `live` is
what the live instruments held after each row. A recomputation reads the rows that there
were when it began, while the host goes on logging. `observations_from_rows` and the
windowed functions make two passes over immutable sequences; `ReadRow` makes one,
row by row, and `ReportWindow` ends a window. `Classify` and `Record` stand for the
host, whose event store is not in the repository; that it logs as previous
status the one it had is the contract of `observe_transition`.

### Engine

A formula is a disjunction of literals and of universal rules, the shape that
clauses have once encoding is taken as given. A rule has a Boolean variable,
patterns that bind a term when they meet an application, and an instance for
each term. The SAT solver is what the engine sees of it: `clauses` it kept,
`level0` literals, `pending` propagation and `refuted`; `Solve` answers as an
exact solver would, except that it reproduces what `SATSolver` forgets (a
conflict met at level 0, finding 2). `Match` is one round of `EMatcher.match` with the work it
spends, `AssertInstance` the loop that asserts what it found, `PushScope`,
`PopScopes`, `AddFormula` and `BeginCheck` the calls of the facade.

`Answered` is claimed for a check under a budget, and for one without if no instance of its rules
brings a term for a rule to match (`Breeds`). For the rest the docstring of `check` names a potentially
non-terminating loop (`solver/engine.py:144`), and so it is: unbudgeted checks of the run's third solver
go on to the end of its terms.

`EngineUse` states the uses for which the verdicts are right. `ApartSpec`: a formula with a rule is
that rule alone, outside every scope (finding 6 is what happens otherwise). `UseSpec`: moreover the
solver is `spoiled`, and not called again, once a check answered UNKNOWN or UNSAT with an empty core
(finding 2 and the instances that a cut round drops, section 5). governance makes a solver for each check and
never meets the second restriction.

## 3. Runs

The bounds are those constants of the `.cfg` and the definitions of the `MC` module.

| Run | Question and bounds |
|---|---|
| `revision_search` | Is `RankLess` the comparison of the code's tuples? Does the heap lose, repeat or misorder anything, does it stay within two entries more than it yielded, and does the generator implement `BestFirst`, liveness included? 4 records already sorted (the search sees nothing else) with 2 priorities and 3 confidences, and 2 records in any order, protected or not; with and without a candidate; limits 1, 2 and more than there are records. Four records give ties, empty layers and layers of three. |
| `proposal` | Does a proposal decide what it may, whatever a sound solver answers? 3 records, limits 1 to 3, `max_checks` 2, 3, 5 and 12: the first three cut the search before, within and after the first rank, and the last never does. |
| `checks` | Do cores, support and entailment cohere over time? Three atoms, two of which exclude each other as values of a functional predicate, records of both signs with two owners of one atom, one rule, one query, and any two answers remembered: every property compares two. |
| `cdcl` | Are watches, reasons, learned clauses, models and cores right, and is every check answered? Six problems of 2 to 6 variables: all binary clauses over two variables; clauses that need two resolutions, added in stages between 2 checks under assumptions, with the code's 50, 2000 and 500 and with a restart after any conflict; three mutually transitive equalities with the theory acting at any point; clauses of four levels, learned and deleted, with 2 checks; and a search of many conflicts in which restarts and deletions recur (cooldown 2 conflicts, threshold and spacing 4, which is two conflicts). |
| `decision_heap` | Can the heap run dry, and is the pick the most active? 3 variables, rescaling above 1, activities to 4: rescaling, ties, outdated and duplicate entries all occur; deadlock is checked. |
| `euf` | Is the partition the congruence closure, is `pop` exact, and is what became true reported? 6 terms over a unary and a binary function, 4 equalities, two of them the same with exchanged sides, 2 levels; all is registered before anything is asserted. |
| `skolem` | Is meaning preserved? One formula of two nested quantifiers with connectives at each of the three places, negated or not, or two such formulas joined; then two small formulas of one existential variable each, which is the same or not; and one that binds a variable again. Each in every structure of two elements with a binary predicate, which tell all of them apart. `MeaningPreserved` excludes what section 5 refutes. |
| `encoder` | Have the clauses exactly the models of the formulas added and assumed? Two formulas added and two assumed, in any order, from junctions over four atoms nested twice, that share subformulas. `KeptSpec` leaves out only a formula with a part whose definition was eliminated as pure before, and an assumed constant. |
| `encoder_shared_definition` | The same without that restriction: expected violation, section 5. |
| `ematch` | Does a round that was not cut find every match, and does any round find anything else? Applications of two unary and a binary function over two constants, one of them too deep to instantiate, two equalities, five rules with a nested pattern, a repeated variable, two patterns, a multi-pattern and a constant; one rule, or any rule and then the nested one, and any of the terms in one order, before and after a call; budgets unlimited, 6 and 18 (cut in the outer loop and in a nested one), two rounds. |
| `engine` | Are verdicts right, and do they come? A solver made for one check, as governance makes them: 6 atoms, a rule that produces equalities and one that consumes them, up to 4 formulas in any order, assumptions, `max_rounds` unlimited, 0 or 1, `max_matches` unlimited, 0, 5 or 13 (cut in the first and in the second round). And a solver asked twice with two nested scopes, up to 3 formulas, rules outside scopes, until a check answers UNKNOWN or refutes the formulas themselves (section 5). And a solver with the rule `p(X) => p(g(X))`, which makes a new term for each it meets, `p(a)` and not `p(g(a))`, under `max_rounds` unlimited, 0 or 1 and `max_matches` unlimited, 0 or 3: no budget lets a check go as far as the third instance of a chain. A check that comes there stops, and stands for one that goes on for ever; only checks without a budget come there. |
| `calibration` | Do the windows add up to the live counters? Two interchangeable targets, up to 4 rows with unusable ones among them, windows of 1, 2 and 3: targets leave and return across window borders, and the last window is partial. |

Deadlock is not checked where the system really stops: an exhausted
generator, a finished proposal, a solver whose caller asks nothing more.

**Fairness.** `RevisionSearch` and `Proposal` take weak fairness on their whole
next-state relation: a proposal is one synchronous call that consumes the
generator until it returns, and the solver calls it makes are budgeted. (The
generator alone only goes on if its consumer does.) `CDCL` takes it on `Search`
only, not on `Caller`: `check` is one loop that runs until it returns, and nobody
has to call it. The run of `Engine` takes it on `Continue` for the same reason (but for a check that has come to where the instance ends).
The code restarts at a constant spacing (50 conflicts) and deletes at a constant spacing (500,
counted twice). The problems scale both down, so that they recur within one search; that the search
ends is shown for these problems, and not that it ends for any spacing. `EUF`, `DecisionHeap`, `Skolemizer`, `Encoder`, `EMatch`, `Checks` and `Calibration`
state no liveness: each call is a terminating function, and `NeverNull` is the
part of "`_decide` returns a literal" that is an invariant.

## 4. Proofs

The proofs hold for every value of the constants under the assumptions named
here, which TLC evaluates in the runs: `LevelsAssumption`, `SearchAssumption`
(natural numbers of records, priorities, confidences), `BudgetAssumption` (`max_checks` is at
least two, which the code validates), `HeapAssumption`
(variables, limit, scale), `ExprsAssumption`, `ValuationsAssumption`,
`BoundsAssumption` (expressions are closed under their arguments, valuations respect the
connectives), `SizeAssumption`, `SimplifiedAssumption`, `IndependentAssumption` (only for
`SatMeansModels`: expressions are finite, `mk_app` leaves no constant and no negation under a
negation and no constant in a junction, and no theory relates the atoms), `CDCLAssumption` (no clause is given empty or with a literal twice: `mk_app`
drops repeated arguments of `And` and `Or`, collapses double negations, and the variable of a
definition is new), `CalibrationAssumption`, `OthersAssumption` (sizes are positive, rows are rows)
`ChecksAssumption` (records speak of the atoms, formulas are sets of valuations)
`EMatchAssumption` (an application is larger than its arguments, those of a term are terms, a declaration has one
arity, rules bind finitely many variables, no expression of a pattern is a bare variable) and `EUFAssumption` (terms are hash-consed: no two have one function and the same arguments), `EngineAssumption` and `VocabularyAssumption` (the variables of atoms, rules and
scopes are different positive numbers; formulas, assumptions and instances are finite and speak of the
atoms, and an atom registers finitely many applications).

**Order** (`RevisionProofs`, its first part). Ranks are reflexive and transitive;
`ExchangeNoCheaper`: replacing a record by one that sorts later is not cheaper;
`SubsetCheaper`: a proper superset costs strictly more. The last is why
`_search` may stop at the first rank with a repair. `RanksAreTuples`: all this is about the
order in which Python compares the tuples of the code. A descending list is determined by how many
of its entries reach each value (`Descends`), so two lists of one length first differ where the
counts of single confidences do (`DescendingCompare`); that there is such a list of the
confidences in a layer is `SortedExists`.

**Search** (`RevisionProofs`). `BestFirstOrder` is not inductive: a
step can only break it if some entry still to come is cheaper than one popped.
The invariant `SearchInv` adds what rules this out. `NothingLost`: every
member of the scope not yet yielded is *reached* from an entry of the heap,
where an entry reaches what its successors lead to. `OneParent`: from exactly
one, so nothing is met twice. The lemma `ReachableNoCheaper` (by exchange and
by superset) says that what is reached from an entry costs no less than
it, and so the cheapest entry of the heap is the cheapest of all that is left. Then:
`SearchIsComplete`, `SearchMeetsOnce`, `SearchIsBestFirst`,
`SearchIsLazy` (a step removes one entry and adds at most two),
`SearchPushesFresh`, and `SearchRefinesBestFirst`, in which every
step maps to a step of `BestFirst` and its fairness is left to TLC.

**Proposal** (`RevisionProofs`, on top of the search's lemmas). The invariant
`ProposalInv` adds to `SearchInv` the books (each answer is about a set of
present records and was paid for), what is known at each `pc`, and in the search
that every omission yielded, except the chosen one, was refuted.
`ProposalIsUniqueCheapest` needs the order: the first omission of another rank is
strictly dearer than the chosen one (`RankAsymmetric`), and so is all that is left.
`ProposalMissesNoRepair` needs `NothingLost`, `ProposalIsVerified` that applying the changes gives
exactly the set checked. `ProposalDefersWithReason` needs `OmittedInjective`: no two
entries omit the same records, so the set that the budget left out was not checked
under another entry. It assumes an adopted record: with none the original state *is* the fixed
base, and a budget of two checks ends on a set already answered.

**Search of the SAT solver** (`CDCLProofs`). The five safety properties of `CDCL` follow from one
inductive invariant, `IInv` (`Invariance`), whose parts are about explicit trails, limits, reasons
and clauses, so that a step is a composition of a few changes with a lemma each (`ShapeCut`,
`ShapeForced`, `ShapeOpen`, `ShapeExtend`, `ShapeRewatch`, `ShapeDelete`, and the same for watches
and for clauses added). What it adds to the properties:

- `WatchesOK`: where one of the literals propagated makes a watch of a clause false, a literal of
  that clause is true *at no deeper a level*, so that backjumping drops the false one first. The
  exceptions are the watchers still to be visited, the theory's own clauses (which it repeats),
  and everything once a refutation at level 0 left literals behind the queue (finding 2).
- `ReasonsOK`: a learned clause that `_reduce_db` might delete has the literal it forces as its
  first watch, which is all that `_reduce_db` looks at; rewatching keeps it so, since a watch that
  is swapped away is false and the reason's literal is true.
- `DecisionsOK`: above level 0 a literal without a reason opens a level, and is an assumption
  unless all assumptions were true before it: without it a core could blame a plain decision.
- `QueueOK`: the levels below the last were propagated, so that after a backjump everything kept was.
- `GroundOK`, `GivenOK`: level 0 is true in every model, and holds the units that were added.

`Learned` is a fold, and what it returns is shown by an invariant of the resolution, `Midway`:
the clause is false, follows, and of the highest level has either one literal or only literals
of reasons still to be resolved. Likewise `SeenFacts` for the walk of `analyze_final`. That the
folds run step by step is proved from the well-foundedness of the numbers (`FoldExists`,
`ResolveRun`, `SeenRun`), as induction over data is out of reach.

**Heap** (`CDCLProofs`, its last part). That `_decide` never returns `NULL_LITERAL`
(`NeverNull`) needs `Entries`: the marks of `in_heap` are exactly the variables
with an up-to-date entry, and every unassigned variable is marked. The
invariant adds that activities of variables not yet added are untouched, and
that while `_decide` runs some variable is free, which `check` established
before it called it. `DecidesMostActive` is an action property from the same
invariant: an entry of a free variable is at the top of the heap only when no
free variable is more active, since each has an up-to-date entry and an outdated one is too small.

**Skolemizer** (`TacticProofs`, its last part). `SkolemizingPreserves` holds for every set of formulas, every
domain and every meaning of the atoms. `SkolemInv` is inductive and says

- of the walk, that a node is on the stack or visited, never twice, and that an operand is met when its node is
  visited (`WalkOrder`); a visited node and its operands go together as its connective asks (`Linked`);
- of the names, that within a formula they differ by their number (`Names`), and that a term in force takes
  universal variables of its scope and has a symbol that was made (`TermsBound`);
- `Witnessed`: for every structure and environment there are Skolem functions that *serve* each quantifier
  that went, in all environments that differ in its universal variables only: where the quantifier holds, so does its
  body with the term put in. A new symbol needs no other function to change: by `VariablesApart`
  and `Names` no quantifier has it yet, and older terms do not use it. The new function takes, for each tuple, an
  element that the one environment with this tuple asks for (`TupleDetermines`, `FunctionExists`). This is
  where `VariablesApart` is needed: two quantifiers with one symbol may ask for different elements.

When the stack is empty, a node at which the result holds is right whatever the functions are (`ResultSound`), and with
functions that serve the result holds where the node is right (`ResultComplete`); both by a lowest node for
which it fails. Both need `NotRebound`, so that a term reads outside a quantifier what it reads inside
(`SubstitutedUnder`), and `PositiveUniversals`, without which the body has the wrong polarity (finding 4). `Meaning` is a
recursive function, which is what its equation says (`MeaningUnfold`) because operands are lower than
their node (`Height`); a solution is put together from those up to each height. `Place` states that a formula is
a tree of occurrences.

**Encoder** (`TacticProofs`). `EncodingSound`: a valuation of the formulas
satisfies the clauses, those in the preprocessor included. It is inductive with
the types: a definition holds in every valuation (`ValuationsAssumption`), a
unit that holds in a valuation cannot lose the literal that makes another clause true, and
elimination only removes clauses. It needs nothing of the protected variables.
`SatMeansModels`, the converse (`NothingAdmitted` under `KeptSpec`), depends on them. It fails
without the restriction, so the invariant says what an eliminated variable costs.
`Repairable`: an assignment of the clauses becomes one of *all* definitions by changing
eliminated variables only. An elimination preserves it, since making the pure literals
true satisfies the clauses dropped and disturbs none of the clauses already handed over,
whose variables are protected (`Structure`); an encoding preserves it, since the new definitions
mention no eliminated variable. `Quiet`: while an assumption is encoded there is no unit and
nothing pure, so its own literal stays. Last, `DefinitionsDecide`: what satisfies the
definition of everything encoded is the valuation with the same atoms, by the least
expression for which it is not. That `Parts` is what its recursion says is proved by a
solution that is not recursive (`Closure`, the least set closed under arguments).

**Calibration** (`CalibrationProofs`). `WindowsAddUp` needs that `live` follows the
rows one by one (each entry is the previous one with its row observed), that a
counter of the windows' sum is the live one after the same rows, and that a window
has seen no more targets than the live side; then a window that begins afresh counts a
first time at least as often. `DeparturesAreBounded` needs a balance for each target
between its status, the sets of targets seen and the four counters.

**Checks** (`ChecksProofs`). The invariant says of each remembered answer what a sound
solver lets it mean: SAT that the formulas have a model, UNSAT that they have none,
a core that its assumptions refute the theory. The theory is monotone in the scope and the rules
(`Theory` generates exclusions from the scope, and the scope never shrinks), and the
properties follow by comparing two answers: a model of the larger premises is one of the smaller.

**Congruence closure** (`EUFProofs`). All six properties of the run. `Inv`, inductive under `LateSpec`, says
of the lists at hand and of those saved at each push (`Good`):

- The forest has times: a term was put under another later than all that is below it. With them the
  recursions `Find`, `Above` and `Explanation` can be reasoned about by a least time, where
  induction over data is out of reach.
- `Rests`, `Founded`: an edge rests on the two terms that were compared, joined to its ends by *earlier*
  edges, and either on the literal asserted or on arguments congruent by earlier edges. So
  explanations are well-founded, and each entails what it explains (`JoinedAccounts`), also after a roll back.
- `Rewinds`: undoing the history from its end passes, at each limit, through what that push saved. This is
  `RollbackExact`, and what makes `Good` hold again after a pop.
- `Looping`: the loops not done run over registered terms and roots.

`NoneMissed`, inductive under `EarlySpec`, adds what completeness needs:

- `Covers`: an application is in the use list of the root of each of its arguments. Late
  registration breaks this, so finding 3 is why `ClosureAlways` is about `EarlySpec`.
- `Compares`: congruent applications are in one class, or some loop will still compare them (`Waiting`).
  Since a list that grows under a running loop is still seen by it, no merge takes a pair out of `Waiting`
  except by comparing it (`WaitingGrows`). When no loop is left, the classes are closed under congruence
  (`ExactNow`), and with the explanations they are the least such relation.
- `ToReport`: what has become true since the call began is in `props`, of equalities with the same pair of sides the
  one in `reporting`, and nothing else. `Heard`: every equality registered has such a one.

**Engine** (`EngineProofs`). All three safety properties of the run, each under the weakest specification
for which it holds. `BudgetsAlways`, for every use: the inductive `Inv` says of the running check that what was
spent and what is left make up `max_matches`, that a truncated round left nothing, and that a round
is only asserted below the cap, so UNKNOWN can be traced to a budget.
`Inv` also holds the books that the others rest on: level 0 is consistent and speaks of the clauses,
no application is registered twice, an instance in line was recorded.

`UnsatSoundAlways`, under `ApartSpec`. A model m of the formulas of some scopes S is extended to the
variables of the solver (`Ext`): the scopes in S are true and the others false, and the variable of a rule is true when the
rule holds in m. `Followed`, for *all* m and S, not only the open scopes: if m satisfies the assertions of S, its
extension satisfies clauses and level 0. An assertion of another scope is satisfied by its guard, which is why popping
needs no undoing; an instance by `Standing`, that each rule of the matcher is
an assertion in force for good; and what a check learns because every model of the clauses agrees
(`SolvedFacts`). So neither a refutation at level 0 nor a core can exclude a model of the live formulas.

`SatSaturatedAlways`, under `UseSpec`. `Kept` says that nothing the solver was told is lost while it is used:
each assertion is a clause (`Stated`), each recorded instance is one or is in line (`Delivered`).
Both fail after a refutation or an UNKNOWN, which is exactly what `UseSpec` excludes. A complete round
that finds nothing then means that all instances within reach are clauses (`RoundSaturates`). The model that SAT
promises is that of the check, with the scopes in which nothing was asserted, and which have no variable in the solver
(`Spoken`), made true. The lists the matcher folds and flattens are shown as runs (`FoundChain`,
`Flattened`), and unit propagation by the number of literals left (`PropagatedFacts`).

**E-matcher** (`EMatchProofs`). Both properties of the run, and `MatchTypes`. `MatchInv` holds the books (what
was spent and what is left make up the budget; a cut search has nothing left) and `StackOK`: every frame was opened by
the one below it, at an application that may match, and each binding that waits binds exactly the variables met
so far, to registered terms, and everything met so far *fits* (`Met`). So what reaches `Continue` at
the last expression fits the pattern, which is `MatchesOnly`.

`SaturatedAlways` is the converse, that no fitting binding is lost on the way. For a binding `theta` that
fits the pattern at hand, `Progress` says, while the search is not cut, that it is `Matched` or `Alive`: some frame
holds a binding that agrees with `theta` as far as it goes, or has still to consider an application whose arguments
lead there. An application that fits is considered in every loop, and a step may only move `theta` from one frame
to the next (`AliveStep` and its lemmas, one per action). When the stack is empty nothing is alive, so `theta` is matched.
Patterns are recursive: `Denoted` is the function whose equation holds for all expressions at once, which exists since
arguments are smaller than what they are arguments of (`Size`); facts about nested patterns are proved for the
smallest expression for which they would fail, as induction over data is out of reach.

**Only model-checked.** Liveness and the fairness part of refinement. TLC cannot evaluate `SkolemInv`, whose types are infinite.

## 5. Findings

1. `encoder_shared_definition` (a run) — pure-literal elimination drops the clauses that define a junction if the formula at hand does not constrain it. The encoder keeps its variable, and a later formula or assumption that contains the junction gets the bare variable: after `~q /\ (p \/ (q /\ r))` the formula `q /\ r` is accepted and the answer is SAT (`solver/tactic/preprocess.py:85`).

TLC also refutes each of the following under a configuration of its own, with the
property named; the run of the same module excludes exactly this behaviour, or, for 8, claims only what
the code does.

2. `MCCDCLFinal.cfg`, `RefutationIsFinal` — `SATSolver.check` meets a conflict at level 0, returns UNSAT and keeps nothing. The literal is behind `qhead`, so the next check may answer SAT for the same clauses (`solver/sat/solver.py:276`).
3. `MCEUFLate.cfg`, `ClosureIsExact` — `register_term` enters an application in its argument's use list, not in the list of the argument's root. After a level-0 merge of the argument, a later congruence is missed (`solver/theories/euf.py:85`).
4. `MCSkolemizerNegated.cfg`, `Preserved` — the body of a quantifier acting as an existential is walked with positive polarity whatever its own is: `not all X p(X)` becomes `p(sk)` (`solver/tactic/skolemize.py:59`).
5. `MCSkolemizerSharing.cfg`, `Preserved` — each formula has its own Skolemizer whose names start from 0, so two formulas that use one variable name share a Skolem constant.
6. `MCEngineChoice.cfg`, `UnsatSound` — a universal on one side of a disjunction is instantiated unconditionally: UNSAT for satisfiable formulas (`solver/engine.py:110`).
7. `MCSkolemizerRebinding.cfg`, `Preserved` — `substitute` does not rename what a quantifier binds: in `all U some A all U p(A, U)` the Skolem term of `A` is put under the inner `U`, and the term means the wrong one (`solver/ast/utils.py:23`).
8. `MCEUFMirrored.cfg`, `AllReported` — `mk_app` does not order the arguments of `Eq`, so `Eq(a, b)` and `Eq(b, a)` have a variable each; `register_equality` overwrites both keys of `eq_to_lit`, and the variable registered first is never propagated (`solver/theories/euf.py:104`). A propagation is lost and no verdict: if the search decides that variable otherwise, `check` finds the conflict (`CheckDecides`).

1, 4, 5, 6 and 7 change verdicts of the governance layer; 3 can, when an instance
brings a term after a level-0 equality; 2 is met only by users of `Solver`,
since governance makes a new solver for each check. `Proposal` and `Checks`
assume a sound solver, so what they show holds as far as these do not intervene.

Limits that the modules are built around, read in the code and seen in the program:

- An instance that is false at level 0 refutes a check without setting `is_unsat` (the engine's side of 2), and the instances of the round that `max_rounds` cuts are recorded as made and then dropped, so a later check does without them. The run `engine` stops asking a solver that was refuted or answered UNKNOWN.
- A rule that no single pattern covers, such as a transitivity rule of three variables without patterns of its own, is never instantiated, and the verdict is SAT; `README.md:130` names UNKNOWN as the answer of incomplete matching. `Saturated` speaks of patterns that cover their rule.
- `max_depth` counts only the depth of the sides of equalities and of predicate applications, so it does not stop `p(X) => p(f(X))`. Only a budget does, as the docstring of `check` says; the run `engine` has a rule like it.
- A Boolean constant that is only assumed loses its defining clause as a pure literal: an assumed false is satisfiable. `MCEncoder` assumes no constant.
- The docstring of `overconfidence_rate` speaks of targets that later left `known`; the counter counts departures, so a target that leaves twice counts twice (`DeparturesBounded` is what holds), and a window counts departures of targets that were known before it began.
- A nested application whose argument is registered in the same call can meet a congruence test before its argument has a term (`solver/theories/euf.py:119`); `EUF` registers arguments first.

## 6. Abstractions and limits

- `Proposal` takes sorted and validated records; cores and evidence ids are left out.
- `Checks` abstracts formulas to sets of valuations and limits to the choice of UNKNOWN; identifiers are records.
- `CDCL`'s watch lists are sets visited in any order; blockers and saved phases only choose among its moves. A theory's clauses are given sets.
- `DecisionHeap` bounds activities by `MaxActivity` in the guard of a bump; the theorems hold for every bound.
- `EUF` registers the arguments of a term before it; statistics are left out.
- `Encoder` bounds the formulas added (`MaxAdded`) and the assumptions encoded (`MaxAssumed`) in the guards; `EMatch` the rules and calls (`MaxRules`, `MaxCalls`); the theorems hold for every bound.
- `EMatch` leaves out Boolean constants inside patterns, quantifiers inside rules, and free variables (no application) as arguments of patterns, which never match (`solver/quantifiers/ematch.py:226`) and which governance refuses; equalities are set as a whole between two rounds.
- `Engine` has literals as assumptions, and rules of one variable; what a pattern meets is given.
- `Skolemizer` binds one variable at a quantifier (several are a chain, but for a universal one in a negative place); formulas are trees of occurrences; `MaxRoots` bounds the formulas added, and the theorem holds for every bound. A universal variable bound again as an existential one is outside the model, and outside `NotRebound`.
- `Calibration` has probabilities as multiples of `1/Scale`, so errors are exact; `MaxRows` bounds the log. The rates are quotients of counters and are left out.

Not modelled: parsing, printing and validation (no state); expression
classes and intern tables (immutable); the trace (a protocol without an
implementation); coverage (one pass over the rules, without state); `get_model`.

## 7. Plan

1. Composition of `CDCL` with `EUF` as its theory on a shared trail, and of `Engine` with `EMatch`.
2. Nested registration in `EUF`.
