--------------------------------- MODULE EUF ---------------------------------
(***************************************************************************)
(* The theory solver of equality and uninterpreted functions               *)
(* (solver/theories/euf.py): a union-find without path compression, closed *)
(* under congruence, that can be rolled back, explains its merges and tells *)
(* the SAT solver which equalities became true.                            *)
(*                                                                         *)
(* Terms are names.  One step of this module is one _merge, one call of    *)
(* pop, one of the other calls up to the first merge it causes, or the end *)
(* of a loop.  _merge calls itself for the applications it makes congruent *)
(* while its loops run, over lists that these merges make longer: the loops *)
(* that are not done yet are the sequence todo, the innermost first.       *)
(***************************************************************************)
EXTENDS Integers, Sequences, FiniteSets, SequencesExt

CONSTANTS
    Terms,       \* the terms the engine may register
    FunctionOf,  \* [Terms -> function symbols]
    ArgsOf,      \* [Terms -> Seq(Terms)]
    Equalities,  \* the Boolean variables that stand for an equality
    Sides,       \* [Equalities -> Terms \X Terms]
    MaxLevel     \* bound: decision levels

ASSUME EUFAssumption ==
    /\ FunctionOf \in [Terms -> STRING] /\ ArgsOf \in [Terms -> Seq(Terms)]
    /\ \A s, t \in Terms :        \* terms are hash-consed
         s # t => FunctionOf[s] # FunctionOf[t] \/ ArgsOf[s] # ArgsOf[t]
    /\ Equalities \subseteq Nat \ {0}
    /\ Sides \in [Equalities -> Terms \X Terms]
    /\ MaxLevel \in Nat

VARIABLES
    registered,  \* the terms in expr_to_term
    known,       \* the equalities in var_to_eq
    reporting,   \* those whose literal is in eq_to_lit
    parent,      \* the forest: [registered -> registered]
    class,       \* class_list: the members of a root
    use,         \* use_list: the applications with an argument in the class
    edge,        \* parent_edge: why a term was merged into its parent
    history,     \* the merges and disequalities to undo
    limits,      \* history_limits
    diseqs,      \* disequalities: the negative literals asserted, in order
    props,       \* pending_prop: the equalities that became true
    todo,        \* the loops that still compare applications, the innermost first
    asserted     \* the literals the SAT solver asserted, by level (its own state)

lists == <<parent, class, use, edge>>
vars == <<registered, known, reporting, lists, history, limits, diseqs, props, todo, asserted>>

Here == [parent |-> parent, class |-> class, use |-> use, edge |-> edge, diseqs |-> diseqs]

NoLiteral == 0
Ready == todo = <<>>

Args(t) == {ArgsOf[t][i] : i \in DOMAIN ArgsOf[t]}

\* find follows the parents up.
Find[t \in registered] == IF parent[t] = t THEN t ELSE Find[parent[t]]
Same(s, t) == Find[s] = Find[t]

Congruent(s, t) ==
    /\ FunctionOf[s] = FunctionOf[t]
    /\ Len(ArgsOf[s]) = Len(ArgsOf[t])
    /\ \A i \in DOMAIN ArgsOf[s] : Same(ArgsOf[s][i], ArgsOf[t][i])

Init ==
    /\ registered = {} /\ known = {} /\ reporting = {}
    /\ parent = <<>> /\ class = <<>> /\ use = <<>> /\ edge = <<>>
    /\ history = <<>> /\ limits = <<>> /\ diseqs = <<>>
    /\ props = {} /\ todo = <<>> /\ asserted = <<{}>>

\* f with the value v at x, which is new.
With(f, x, v) == [y \in DOMAIN f \cup {x} |-> IF y = x THEN v ELSE f[y]]

(***************************************************************************)
(* register_equality and register_term, which the engine calls at level 0. *)
(***************************************************************************)
\* Eq(a, b) and Eq(b, a) are two expressions with a variable each.
SamePair(d, e) == Sides[d] = Sides[e] \/ Sides[d] = <<Sides[e][2], Sides[e][1]>>

\* eq_to_lit has one literal for a pair of terms, in both orders: the last one registered.
RegisterEquality(e) ==
    /\ Ready /\ limits = <<>> /\ e \notin known
    /\ \A i \in 1 .. 2 : Sides[e][i] \in registered
    /\ known' = known \cup {e}
    /\ reporting' = {d \in reporting : ~SamePair(d, e)} \cup {e}
    /\ UNCHANGED <<registered, lists, history, limits, diseqs, props, todo, asserted>>

\* The loops: _merge compares each of some terms with the uses of a root, from the
\* place at for the first of them; register_term compares the uses of the members of
\* each argument's class with the new term.
MergeLoop(terms, of) == [loop |-> "merge", terms |-> terms, of |-> of, at |-> 1]
UsesLoop(t, of) == [loop |-> "uses", terms |-> <<t>>, of |-> of, at |-> 1]
MembersLoop(t, root, seen) == [loop |-> "members", term |-> t, root |-> root, seen |-> seen]
ArgumentsLoop(t, args) == [loop |-> "arguments", term |-> t, args |-> args]

\* The arguments of a term are registered before it.  It enters the use list of
\* each argument itself, whatever the root of the argument is.
RegisterTerm(t) ==
    /\ Ready /\ limits = <<>> /\ t \notin registered
    /\ Args(t) \subseteq registered
    /\ registered' = registered \cup {t}
    /\ parent' = With(parent, t, t)
    /\ class' = With(class, t, {t})
    /\ LET times(s) == [i \in 1 .. Cardinality({i \in DOMAIN ArgsOf[t] : ArgsOf[t][i] = s}) |-> t]
           uses == [s \in registered |-> use[s] \o times(s)]
       IN  use' = With(uses, t, <<>>)
    /\ todo' = <<ArgumentsLoop(t, ArgsOf[t])>>
    /\ UNCHANGED <<known, reporting, edge, history, limits, diseqs, props, asserted>>

(***************************************************************************)
(* _merge.                                                                 *)
(***************************************************************************)
Size(t) == Cardinality(class[Find[t]])

\* A slip: the edge names the two roots.
EdgeOfRoots(s, t, literal) == [to |-> Find[s], literal |-> literal, above |-> Find[s], under |-> Find[t]]

\* What an edge rests on: the two terms that were found equal, t's side below.
Edge(s, t, literal) == [to |-> Find[s], literal |-> literal, above |-> s, under |-> t]

\* A slip: a nested merge clears the list.
ReportedLast(top, below, reported) ==
    {e \in reporting : Sides[e] \in class[top] \X class[below] \cup class[below] \X class[top]}

\* Of the equalities that the merge of two classes makes true, those in eq_to_lit.
Reported(top, below, reported) ==
    reported \cup {e \in reporting : \/ Sides[e] \in class[top] \X class[below]
                                    \/ Sides[e] \in class[below] \X class[top]}

\* A slip: the use list stays with the class that is put below.
UsesOfTop(top, below) == use

UsesOf(top, below) == [use EXCEPT ![top] = @ \o use[below]]

\* The class of t is put under the class of s: one call of _merge up to its loops.
\* reported are the equalities reported so far, rest the loops of its callers.
Join(s, t, literal, reported, rest) ==
    LET top == Find[s]
        below == Find[t]
    IN  /\ history' = Append(history, [undo |-> "merge", top |-> top, below |-> below,
                                       class |-> class[top], use |-> use[top]])
        /\ parent' = [parent EXCEPT ![below] = top]
        /\ edge' = With(edge, below, Edge(s, t, literal))
        /\ props' = Reported(top, below, reported)
        /\ class' = [class EXCEPT ![top] = @ \cup class[below]]
        /\ use' = UsesOf(top, below)
        /\ todo' = <<MergeLoop(use[below], top)>> \o rest

\* The smaller class goes under the larger one.
Merge(s, t, literal, reported, rest) ==
    IF Size(s) < Size(t) THEN Join(t, s, literal, reported, rest)
                         ELSE Join(s, t, literal, reported, rest)

Mergeable(p) == ~Same(p[1], p[2]) /\ Congruent(p[1], p[2])

\* What a loop still compares, in the order of the two places; the list may have
\* become longer since it began.
Left(l) == {c \in (1 .. Len(l.terms)) \X (1 .. Len(use[l.of])) : c[1] > 1 \/ c[2] >= l.at}
Earlier(c, d) == c[1] < d[1] \/ (c[1] = d[1] /\ c[2] < d[2])
Compared(l, c) == IF l.loop = "merge" THEN <<l.terms[c[1]], use[l.of][c[2]]>>
                                      ELSE <<use[l.of][c[2]], l.terms[c[1]]>>
Past(l, c) == [loop |-> l.loop, terms |-> SubSeq(l.terms, c[1], Len(l.terms)), of |-> l.of, at |-> c[2] + 1]

Comparing == ~Ready /\ Head(todo).loop \in {"merge", "uses"}

\* The comparisons go on to the next congruent pair of different classes.
Congruence(c) ==
    LET l == Head(todo)
        p == Compared(l, c)
    IN  /\ Comparing /\ c \in Left(l)
        /\ Mergeable(p) /\ \A d \in Left(l) : Earlier(d, c) => ~Mergeable(Compared(l, d))
        /\ Merge(p[1], p[2], NoLiteral, props, <<Past(l, c)>> \o Tail(todo))
        /\ UNCHANGED <<registered, known, reporting, limits, diseqs, asserted>>

Loops(loops) ==
    /\ todo' = loops
    /\ UNCHANGED <<registered, known, reporting, lists, history, limits, diseqs, props, asserted>>

CompareDone ==
    /\ Comparing /\ \A c \in Left(Head(todo)) : ~Mergeable(Compared(Head(todo), c))
    /\ Loops(Tail(todo))

\* The members of a class are met in any order, those that joined it meanwhile too.
NextMember(m) ==
    LET l == Head(todo)
    IN  /\ ~Ready /\ l.loop = "members" /\ m \in class[l.root] \ l.seen
        /\ Loops(<<UsesLoop(l.term, m), MembersLoop(l.term, l.root, l.seen \cup {m})>> \o Tail(todo))

MembersDone ==
    /\ ~Ready /\ Head(todo).loop = "members" /\ class[Head(todo).root] \subseteq Head(todo).seen
    /\ Loops(Tail(todo))

\* The root of an argument is looked up when its turn comes.
NextArgument ==
    LET l == Head(todo)
    IN  /\ ~Ready /\ l.loop = "arguments" /\ l.args # <<>>
        /\ Loops(<<MembersLoop(l.term, Find[Head(l.args)], {}), ArgumentsLoop(l.term, Tail(l.args))>> \o Tail(todo))

ArgumentsDone ==
    /\ ~Ready /\ Head(todo).loop = "arguments" /\ Head(todo).args = <<>>
    /\ Loops(Tail(todo))

(***************************************************************************)
(* assert_literal, push and pop, which the SAT solver calls.               *)
(***************************************************************************)
Level == Len(limits) + 1
Trail == UNION {asserted[i] : i \in DOMAIN asserted}

Asserts(l) == asserted' = [asserted EXCEPT ![Level] = @ \cup {l}]
Assertable(e) == Ready /\ e \in known /\ {e, -e} \cap Trail = {}

AssertEqual(e) ==
    /\ Assertable(e) /\ Asserts(e)
    /\ IF Same(Sides[e][1], Sides[e][2])
       THEN props' = {} /\ UNCHANGED <<lists, history, todo>>
       ELSE Merge(Sides[e][1], Sides[e][2], e, {}, <<>>)
    /\ UNCHANGED <<registered, known, reporting, limits, diseqs>>

AssertDistinct(e) ==
    /\ Assertable(e) /\ Asserts(-e)
    /\ diseqs' = Append(diseqs, e)
    /\ history' = Append(history, [undo |-> "diseq"])
    /\ props' = {}
    /\ UNCHANGED <<registered, known, reporting, lists, limits, todo>>

Push ==
    /\ Ready /\ Len(limits) < MaxLevel
    /\ limits' = Append(limits, Len(history))
    /\ asserted' = Append(asserted, {})
    /\ UNCHANGED <<registered, known, reporting, lists, history, diseqs, props, todo>>

\* Slips: the edge stays, or the use list of the root stays the longer one.
UndoKeepingEdge(entry, u) ==
    IF entry.undo = "diseq" THEN [u EXCEPT !.diseqs = Front(@)]
    ELSE [u EXCEPT !.parent[entry.below] = entry.below,
                   !.class[entry.top] = entry.class, !.use[entry.top] = entry.use]
UndoKeepingUses(entry, u) ==
    IF entry.undo = "diseq" THEN [u EXCEPT !.diseqs = Front(@)]
    ELSE [u EXCEPT !.parent[entry.below] = entry.below, !.class[entry.top] = entry.class,
                   !.edge = [t \in DOMAIN @ \ {entry.below} |-> @[t]]]

\* One entry of the history undone; below is a root again.
Undo(entry, u) ==
    IF entry.undo = "diseq" THEN [u EXCEPT !.diseqs = Front(@)]
    ELSE [u EXCEPT !.parent[entry.below] = entry.below,
                   !.class[entry.top] = entry.class,
                   !.use[entry.top] = entry.use,
                   !.edge = [t \in DOMAIN @ \ {entry.below} |-> @[t]]]

Pop(n) ==
    /\ n \in 1 .. Len(limits)
    /\ LET target == limits[Len(limits) - n + 1]
           back[k \in target .. Len(history)] ==
             IF k = Len(history) THEN Here ELSE Undo(history[k + 1], back[k + 1])
           undone == back[target]
       IN  /\ parent' = undone.parent /\ class' = undone.class /\ use' = undone.use
           /\ edge' = undone.edge /\ diseqs' = undone.diseqs
           /\ history' = SubSeq(history, 1, target)
    /\ limits' = SubSeq(limits, 1, Len(limits) - n)
    /\ asserted' = SubSeq(asserted, 1, Len(asserted) - n)
    /\ Ready /\ UNCHANGED <<registered, known, reporting, props, todo>>

Next ==
    \/ \E t \in Terms : RegisterTerm(t)
    \/ \E e \in Equalities : RegisterEquality(e) \/ AssertEqual(e) \/ AssertDistinct(e)
    \/ \E c \in (IF Comparing THEN Left(Head(todo)) ELSE {}) : Congruence(c)
    \/ \E m \in registered : NextMember(m)
    \/ CompareDone \/ MembersDone \/ NextArgument \/ ArgumentsDone
    \/ Push
    \/ \E n \in 1 .. MaxLevel : Pop(n)

Spec == Init /\ [][Next]_vars

(***************************************************************************)
(* _explain_equality: the literals on the two paths to the common ancestor, *)
(* and those that explain what each edge joins.                            *)
(***************************************************************************)
Above[t \in registered] == IF t \in DOMAIN edge THEN {t} \cup Above[edge[t].to] ELSE {t}
Between(s, t) == (Above[s] \ Above[t]) \cup (Above[t] \ Above[s])

Explanation[p \in registered \X registered] ==
    UNION {LET e == edge[t]
           IN  Explanation[<<t, e.under>>] \cup Explanation[<<e.above, e.to>>]
                 \cup IF e.literal # NoLiteral THEN {e.literal}
                      ELSE UNION {Explanation[<<ArgsOf[e.above][i], ArgsOf[e.under][i]>>] :
                                    i \in DOMAIN ArgsOf[e.above]}
             : t \in Between(p[1], p[2]) \cap DOMAIN edge}

Reasons(e) == Explanation[Sides[e]]

\* explain_propagation and check return clauses; these are their literals.
PropagationClause(e) == {e} \cup {-l : l \in Reasons(e)}
\* A slip: only the disequality asserted last is checked.
ViolatedLast == {i \in DOMAIN diseqs : i = Len(diseqs) /\ Same(Sides[diseqs[i]][1], Sides[diseqs[i]][2])}

Violated == {i \in DOMAIN diseqs : Same(Sides[diseqs[i]][1], Sides[diseqs[i]][2])}
ConflictClause(i) == {diseqs[i]} \cup {-l : l \in Reasons(diseqs[i])}

(***************************************************************************)
(* What equality means: the least congruence over the registered terms that *)
(* holds the given equalities.                                             *)
(***************************************************************************)
Related(R, s, t) ==
    \/ <<s, t>> \in R \/ <<t, s>> \in R
    \/ \E r \in registered : <<s, r>> \in R /\ <<r, t>> \in R
    \/ /\ FunctionOf[s] = FunctionOf[t]
       /\ Len(ArgsOf[s]) = Len(ArgsOf[t])
       /\ \A i \in DOMAIN ArgsOf[s] : <<ArgsOf[s][i], ArgsOf[t][i]>> \in R

\* A relation that stops growing is closed.
Closure(E) ==
    LET grow[R \in SUBSET (registered \X registered)] ==
          LET grown == {p \in registered \X registered : Related(R, p[1], p[2])}
          IN  IF grown = R THEN R ELSE grow[grown]
    IN  grow[{<<t, t>> : t \in registered} \cup {Sides[e] : e \in E}]

Equal == {e \in known : e \in Trail}
Holding == {e \in known : Same(Sides[e][1], Sides[e][2])}

(***************************************************************************)
(* Type invariant: the forest, the member lists, the use lists and the     *)
(* edges describe one partition of the registered terms, and a use list     *)
(* names every application over its class, once the term is no root or not. *)
(***************************************************************************)
TypeOK ==
    /\ DOMAIN parent = registered /\ DOMAIN class = registered /\ DOMAIN use = registered
    /\ DOMAIN edge = {t \in registered : parent[t] # t}
    /\ \A t \in DOMAIN edge : edge[t].to = parent[t] /\ edge[t].literal \in known \cup {NoLiteral}
    /\ \A t \in registered : parent[t] = t => class[t] = {s \in registered : Find[s] = t}
    /\ Equal \subseteq known /\ Len(asserted) = Level
    /\ \A i \in DOMAIN limits : limits[i] \in 0 .. Len(history)

\* The classes are exactly the least congruence of the equalities asserted: the
\* merges of the code (size order, use lists, recursion, roll back) are sound and miss
\* no congruence.
ClosureIsExact ==
    Ready => Closure(Equal) = {p \in registered \X registered : Same(p[1], p[2])}

\* check answers a conflict exactly when the literals asserted have no model.
CheckDecides ==
    Ready => (Violated # {} <=>
                \E e \in known : -e \in Trail /\ Sides[e] \in Closure(Equal))

\* Every equality of two terms is explained, at any moment and also after a roll
\* back, by equalities that were asserted and that entail it: the clauses that the SAT
\* solver learns from them follow from the theory, and all their literals but the one
\* propagated are false under its trail.
ExplanationsEntail ==
    /\ \A s, t \in registered :
         Same(s, t) => /\ Explanation[<<s, t>>] \subseteq Equal
                       /\ <<s, t>> \in Closure(Explanation[<<s, t>>])
    /\ \A i \in Violated : \A l \in ConflictClause(i) : -l \in Trail
    /\ \A e \in Holding \ Equal : \A l \in PropagationClause(e) \ {e} : -l \in Trail

=============================================================================
