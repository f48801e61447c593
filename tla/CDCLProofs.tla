------------------------------ MODULE CDCLProofs ------------------------------
(***************************************************************************)
(* What the SAT solver promises, for every problem: reasons stand, learned  *)
(* clauses follow, an empty queue leaves no clause unit or false, SAT comes *)
(* with a model and UNSAT with a core.  Last, its decision heap: it is never *)
(* empty too early, and the pick is the most active free variable.         *)
(***************************************************************************)
EXTENDS CDCL, DecisionHeap, FiniteSetTheorems, SequenceTheorems, WellFoundedInduction, TLAPS

LEMMA LeastOf ==
    ASSUME NEW S, S \subseteq Nat, S # {}
    PROVE  \E n \in S : \A m \in S : n <= m
<1> DEFINE Less == {ss \in Nat \X Nat : ss[1] < ss[2]}
<1>1. IsWellFoundedOn(Less, Nat)
  BY NatLessThanWellFounded DEF OpToRel
<1>2. PICK n \in S : \A m \in S : ~(<<m, n>> \in Less)
  <2> HIDE DEF Less
  <2> QED  BY <1>1, WFMin
<1>3. ASSUME NEW m \in S PROVE n <= m
  <2>1. ~(m < n)  BY <1>2
  <2> QED  BY <2>1
<1> QED  BY <1>3

IsFold(f, D, base, pick, step) ==
    \A s \in SUBSET D :
        f[s] = IF s = {} THEN base ELSE step[pick[s]][f[s \ {pick[s]}]]

\* A fold that picks the elements of a finite set one by one is defined: there
\* is a function that satisfies its equation.
LEMMA FoldExists ==
    ASSUME NEW D, IsFiniteSet(D), NEW V, NEW base \in V,
           NEW pick \in [(SUBSET D) \ {{}} -> D],
           \A s \in (SUBSET D) \ {{}} : pick[s] \in s,
           NEW step \in [D -> [V -> V]]
    PROVE  \E f \in [SUBSET D -> V] : IsFold(f, D, base, pick, step)
<1> DEFINE Body(f, s) == IF s = {} THEN base ELSE step[pick[s]][f[s \ {pick[s]}]]
           UpTo(k) == \E f \in [SUBSET D -> V] :
                         \A s \in SUBSET D : Cardinality(s) <= k => f[s] = Body(f, s)
           Bad == {k \in Nat : ~UpTo(k)}
<1>1. \A f \in [SUBSET D -> V], s \in SUBSET D : Body(f, s) \in V
  OBVIOUS
<1>2. \A s \in SUBSET D : IsFiniteSet(s) /\ Cardinality(s) \in Nat
  BY FS_Subset, FS_CardinalityType
<1>3. UpTo(0)
  <2>1. [s \in SUBSET D |-> base] \in [SUBSET D -> V]  OBVIOUS
  <2>2. ASSUME NEW s \in SUBSET D, Cardinality(s) <= 0 PROVE s = {}
    BY <1>2, <2>2, FS_EmptySet
  <2> QED  BY <2>1, <2>2
<1>4. ASSUME NEW k \in Nat, UpTo(k) PROVE UpTo(k + 1)
  <2>1. PICK f \in [SUBSET D -> V] : \A s \in SUBSET D : Cardinality(s) <= k => f[s] = Body(f, s)
    BY <1>4
  <2> DEFINE g == [s \in SUBSET D |-> Body(f, s)]
  <2>2. g \in [SUBSET D -> V]  BY <1>1
  <2>3. ASSUME NEW s \in SUBSET D, Cardinality(s) <= k + 1 PROVE g[s] = Body(g, s)
    <3>1. CASE s = {}  BY <3>1
    <3>2. CASE s # {}
      <4> DEFINE r == s \ {pick[s]}
      <4>1. pick[s] \in s /\ r \in SUBSET D  BY <3>2
      <4>2. Cardinality(r) = Cardinality(s) - 1  BY <1>2, <4>1, FS_RemoveElement
      <4>3. Cardinality(r) <= k  BY <1>2, <2>3, <4>2
      <4>4. f[r] = Body(f, r)  BY <2>1, <4>1, <4>3
      <4>5. g[r] = f[r]  BY <4>1, <4>4
      <4> QED  BY <3>2, <4>5
    <3> QED  BY <3>1, <3>2
  <2> HIDE DEF g, Body
  <2> QED  BY <2>2, <2>3
<1>5. Bad = {}
  <2>1. SUFFICES ASSUME Bad # {} PROVE FALSE  OBVIOUS
  <2>2. PICK n \in Bad : \A m \in Bad : n <= m
    <3> HIDE DEF UpTo
    <3> QED  BY <2>1, LeastOf
  <2> HIDE DEF UpTo
  <2>3. n # 0  BY <1>3, <2>2
  <2>4. n - 1 \in Nat /\ ~(n - 1 \in Bad)  BY <2>2, <2>3
  <2>5. UpTo(n - 1)  BY <2>4
  <2>6. UpTo((n - 1) + 1)  BY <1>4, <2>4, <2>5
  <2> QED  BY <2>2, <2>3, <2>4, <2>6
<1>6. UpTo(Cardinality(D))
  <2>1. Cardinality(D) \in Nat  BY FS_CardinalityType
  <2> HIDE DEF UpTo
  <2> QED  BY <1>5, <2>1
<1>7. PICK f \in [SUBSET D -> V] :
          \A s \in SUBSET D : Cardinality(s) <= Cardinality(D) => f[s] = Body(f, s)
  BY <1>6
<1>8. \A s \in SUBSET D : f[s] = Body(f, s)
  BY <1>2, <1>7, FS_Subset
<1> QED  BY <1>8 DEF IsFold

\* The smallest element of a set of positions.
LEMMA MinOf ==
    ASSUME NEW S, S \subseteq Nat, S # {}
    PROVE  Min(S) \in S /\ \A x \in S : Min(S) <= x
<1>1. \E x \in S : \A y \in S : x <= y
  BY LeastOf
<1> QED  BY <1>1 DEF Min
(***************************************************************************)
(* The inductive invariant.  Its parts are stated of explicit trails,       *)
(* limits, reasons and clauses, so that a step of the solver is a            *)
(* composition of a few changes of them: cut the trail, add a literal at     *)
(* its end, open a level, add a clause, watch another literal, delete.       *)
(***************************************************************************)

\* The trail assigns a variable once, and the levels begin inside of it.
TrailOK(N, t, lim) ==
    /\ t \in Seq(LitsUpTo(N))
    /\ \A i, j \in 1 .. Len(t) : Var(t[i]) = Var(t[j]) => i = j
    /\ lim \in Seq(Nat)
    /\ \A k \in 1 .. Len(lim) : lim[k] < Len(t)
    /\ \A j, k \in 1 .. Len(lim) : j < k => lim[j] < lim[k]

\* Position i is no deeper than position j, and at level 0.
NoDeeper(lim, i, j) == \A k \in 1 .. Len(lim) : j <= lim[k] => i <= lim[k]
Ground(lim, i) == \A k \in 1 .. Len(lim) : i <= lim[k]

ClauseType(N) == [lits : SUBSET LitsUpTo(N), watch : LitsUpTo(N) \X LitsUpTo(N),
                  learned : BOOLEAN, keep : BOOLEAN, deleted : BOOLEAN]

\* A clause is watched by two of its literals, only learned ones are deleted,
\* and a binary one is never a candidate.
ClauseOK(x) ==
    /\ x.watch[1] \in x.lits /\ x.watch[2] \in x.lits /\ x.watch[1] # x.watch[2]
    /\ x.deleted => x.learned
    /\ x.learned /\ ~x.keep => Cardinality(x.lits) # 2
DbOK(N, d) == d \in Seq(ClauseType(N)) /\ \A c \in 1 .. Len(d) : ClauseOK(d[c])

\* The clause x forces the literal at position i, and is known to _reduce_db as
\* its reason if it is one that _reduce_db could delete.
Forces(x, t, i) ==
    /\ ~x.deleted /\ t[i] \in x.lits
    /\ \A l \in x.lits \ {t[i]} : \E j \in 1 .. i - 1 : t[j] = -l
    /\ x.learned /\ ~x.keep => x.watch[1] = t[i]
ReasonsOK(N, t, r, d) ==
    /\ r \in [1 .. N -> 0 .. Len(d)]
    /\ \A i \in 1 .. Len(t) : r[Var(t[i])] # 0 => Forces(d[r[Var(t[i])]], t, i)
    /\ \A v \in 1 .. N : r[v] = 0 \/ \E i \in 1 .. Len(t) : Var(t[i]) = v

\* Above level 0 a literal without a reason begins a level, and it is an
\* assumption unless all assumptions were true before it.
DecisionsOK(t, lim, r, A) ==
    /\ \A i \in 1 .. Len(t) : r[Var(t[i])] = 0 =>
           Ground(lim, i) \/ \E k \in 1 .. Len(lim) : i = lim[k] + 1
    /\ \A k \in 1 .. Len(lim) :
           t[lim[k] + 1] \in A \/ \A a \in A : \E j \in 1 .. lim[k] : t[j] = a

\* What is true at level 0 is true in every model.
GroundOK(t, lim, M) ==
    \A m \in M : \A i \in 1 .. Len(t) : Ground(lim, i) => t[i] \in m

FollowOK(d, M) == \A m \in M : \A c \in 1 .. Len(d) : d[c].lits \cap m # {}

\* Where one of the first q literals of the trail makes a watch of x false, a
\* literal of x is true that backtracking will not drop before it.
Watched(t, lim, x, q) ==
    \A i \in 1 .. q : t[i] \in {-x.watch[1], -x.watch[2]} =>
        \E j \in 1 .. Len(t) : t[j] \in x.lits /\ NoDeeper(lim, j, i)
WatchesOK(t, lim, d, exempt, q, P) ==
    \A c \in 1 .. Len(d) : ~d[c].deleted /\ d[c].lits \notin exempt =>
        Watched(t, lim, d[c], IF c \in P THEN q - 1 ELSE q)

\* The clauses whose watches were not yet looked at for the last literal taken
\* from the queue.
Unvisited == IF pc = "visit" THEN pending
             ELSE IF pc \in {"theory", "conflict"} THEN 1 .. Len(db) ELSE {}

\* Every clause added is in the database, or is a literal of level 0.
GivenOK(t, lim, d, C) ==
    IF Len(C) = 1 THEN \E j \in 1 .. Len(t) : t[j] = C[1] /\ Ground(lim, j)
    ELSE \E c \in 1 .. Len(d) : d[c].lits = Range(C) /\ ~d[c].learned

Running == {"propagate", "theory", "visit", "conflict"}

ControlOK ==
    /\ inst \in Instances /\ added \in 0 .. Len(inst.clauses) /\ refused \in BOOLEAN
    /\ qhead \in 0 .. Len(trail) /\ pending \subseteq 1 .. Len(db)
    /\ pc \in Running \cup {"idle", "SAT", "UNSAT"}
    /\ conflict \subseteq Lits /\ assumptions \subseteq Lits /\ core \subseteq Lits
    /\ answers \in Seq(Outcomes) /\ Len(answers) <= inst.checks
    /\ sinceRestart \in 0 .. inst.cooldown /\ untilReduce \in Int
    /\ pc = "idle" => limits = <<>>
    /\ refused => pc = "idle"
    /\ pc \in Running => Len(answers) < inst.checks

\* The levels below the last were propagated, and so was the beginning of the
\* last one when a conflict is met.
QueueOK ==
    /\ pc \in {"theory", "visit"} => qhead > 0
    /\ \A k \in 1 .. Len(limits) : /\ limits[k] <= qhead
                                   /\ pc \in {"theory", "visit", "conflict"} => limits[k] < qhead
    /\ pc = "visit" => \A c \in pending : /\ ~db[c].deleted
                                          /\ -Current \in {db[c].watch[1], db[c].watch[2]}

\* A conflicting clause is false, and follows like any other.
ConflictOK ==
    pc = "conflict" =>
        /\ conflict # {}
        /\ \A l \in conflict : \E i \in 1 .. Len(trail) : trail[i] = -l
        /\ \A m \in Models(Given) : conflict \cap m # {}

IInv ==
    /\ ControlOK
    /\ TrailOK(inst.vars, trail, limits)
    /\ DbOK(inst.vars, db)
    /\ ReasonsOK(inst.vars, trail, reason, db)
    /\ DecisionsOK(trail, limits, reason, assumptions)
    /\ GroundOK(trail, limits, Models(Given))
    /\ FollowOK(db, Models(Given))
    /\ QueueOK
    /\ ConflictOK
    /\ ~Refuted /\ ~refused => WatchesOK(trail, limits, db, inst.lemmas, qhead, Unvisited)
    /\ ~refused => \A i \in 1 .. added : GivenOK(trail, limits, db, inst.clauses[i])
    /\ SatIsModel
    /\ CoreIsUnsat
(***************************************************************************)
(* Literals.                                                               *)
(***************************************************************************)
LEMMA LitFacts ==
    ASSUME NEW N \in Nat
    PROVE  /\ \A l \in LitsUpTo(N) : /\ l \in Int /\ l # 0 /\ -l \in LitsUpTo(N)
                                     /\ -(-l) = l /\ l # -l
                                     /\ Var(l) \in 1 .. N /\ Var(-l) = Var(l)
           /\ \A k, l \in LitsUpTo(N) : Var(k) = Var(l) => k = l \/ k = -l
  BY DEF LitsUpTo, Var

LEMMA LitsFinite ==
    ASSUME NEW N \in Nat
    PROVE  IsFiniteSet(LitsUpTo(N))
<1>1. LitsUpTo(N) \subseteq -N .. N
  BY DEF LitsUpTo
<1>2. IsFiniteSet(-N .. N)
  BY FS_Interval
<1> QED
  BY <1>1, <1>2, FS_Subset

(***************************************************************************)
(* The changes of the trail: it is cut, a literal is added, a level begins. *)
(***************************************************************************)

\* What is left of a trail and its limits at level n (Kept, for any trail).
Cut(t, lim, n) == IF n < Len(lim) THEN SubSeq(t, 1, lim[n + 1]) ELSE t
LimitsTo(lim, n) == SubSeq(lim, 1, n)

LEMMA CutFacts ==
    ASSUME NEW N \in Nat, NEW t, NEW lim, TrailOK(N, t, lim), NEW n \in 0 .. Len(lim)
    PROVE  /\ Cut(t, lim, n) \in Seq(LitsUpTo(N))
           /\ Len(Cut(t, lim, n)) = IF n < Len(lim) THEN lim[n + 1] ELSE Len(t)
           /\ Len(Cut(t, lim, n)) \in 0 .. Len(t)
           /\ \A i \in 1 .. Len(Cut(t, lim, n)) : Cut(t, lim, n)[i] = t[i]
           /\ LimitsTo(lim, n) \in Seq(Nat) /\ Len(LimitsTo(lim, n)) = n
           /\ \A k \in 1 .. n : LimitsTo(lim, n)[k] = lim[k] /\ lim[k] < Len(Cut(t, lim, n))
           /\ TrailOK(N, Cut(t, lim, n), LimitsTo(lim, n))
<1> DEFINE L == LitsUpTo(N)
           u == Cut(t, lim, n)
           m == LimitsTo(lim, n)
<1>1. t \in Seq(L) /\ Len(t) \in Nat /\ lim \in Seq(Nat) /\ Len(lim) \in Nat
  BY LenProperties DEF TrailOK
<1>2. \A i \in 1 .. Len(t) : t[i] \in L
  BY <1>1, ElementOfSeq
<1>3. \A k \in 1 .. Len(lim) : lim[k] \in Nat /\ lim[k] < Len(t)
  BY <1>1, ElementOfSeq DEF TrailOK
<1>4. u \in Seq(L) /\ Len(u) = (IF n < Len(lim) THEN lim[n + 1] ELSE Len(t))
      /\ \A i \in 1 .. Len(u) : u[i] = t[i]
  <2>1. CASE n < Len(lim)
    <3>1. lim[n + 1] \in Nat /\ lim[n + 1] < Len(t)
      BY <1>1, <1>3, <2>1
    <3>2. \A i \in 1 .. lim[n + 1] : t[i] \in L
      BY <1>1, <1>2, <3>1
    <3>3. u = SubSeq(t, 1, lim[n + 1])
      BY <2>1 DEF Cut
    <3> HIDE DEF u, L
    <3>4. /\ u \in Seq(L) /\ Len(u) = (IF 1 <= lim[n + 1] THEN lim[n + 1] - 1 + 1 ELSE 0)
          /\ \A i \in 1 .. lim[n + 1] - 1 + 1 : u[i] = t[1 + i - 1]
      BY <3>1, <3>2, <3>3, SubSeqProperties
    <3>5. Len(u) = lim[n + 1]
      BY <3>1, <3>4
    <3> QED
      BY <2>1, <3>1, <3>4, <3>5
  <2>2. CASE ~(n < Len(lim))
    BY <1>1, <2>2 DEF Cut
  <2> QED
    BY <2>1, <2>2
<1>5. m \in Seq(Nat) /\ Len(m) = n /\ \A k \in 1 .. n : m[k] = lim[k]
  <2>1. \A k \in 1 .. n : lim[k] \in Nat
    BY <1>1, <1>3
  <2> HIDE DEF m
  <2>2. /\ m \in Seq(Nat) /\ Len(m) = (IF 1 <= n THEN n - 1 + 1 ELSE 0)
        /\ \A i \in 1 .. n - 1 + 1 : m[i] = lim[1 + i - 1]
    BY <2>1, SubSeqProperties DEF m, LimitsTo
  <2> QED
    BY <1>1, <2>2
<1>6. Len(u) \in 0 .. Len(t)
  BY <1>1, <1>3, <1>4
<1>7. \A k \in 1 .. n : lim[k] < Len(u)
  <2> SUFFICES ASSUME NEW k \in 1 .. n PROVE lim[k] < Len(u)
    OBVIOUS
  <2>1. CASE n < Len(lim)
    <3>1. k \in 1 .. Len(lim) /\ n + 1 \in 1 .. Len(lim) /\ k < n + 1
      BY <1>1, <2>1
    <3>2. lim[k] < lim[n + 1]
      BY <3>1 DEF TrailOK
    <3> QED
      BY <1>4, <2>1, <3>2
  <2>2. CASE ~(n < Len(lim))
    BY <1>1, <1>3, <1>4, <2>2
  <2> QED
    BY <2>1, <2>2
<1>8. TrailOK(N, u, m)
  <2> HIDE DEF u, m
  <2>1. \A i, j \in 1 .. Len(u) : Var(u[i]) = Var(u[j]) => i = j
    BY <1>1, <1>4, <1>6 DEF TrailOK
  <2>2. \A j, k \in 1 .. Len(m) : j < k => m[j] < m[k]
    <3> SUFFICES ASSUME NEW j \in 1 .. n, NEW k \in 1 .. n, j < k PROVE m[j] < m[k]
      BY <1>5
    <3>1. j \in 1 .. Len(lim) /\ k \in 1 .. Len(lim)
      BY <1>1
    <3>2. lim[j] < lim[k]
      BY <3>1 DEF TrailOK
    <3> QED
      BY <1>5, <3>2
  <2> QED
    BY <1>4, <1>5, <1>7, <2>1, <2>2 DEF TrailOK
<1> QED
  BY <1>4, <1>5, <1>6, <1>7, <1>8

\* A literal none of whose variable's literals is on the trail.
Fresh(t, l) == \A i \in 1 .. Len(t) : t[i] # l /\ t[i] # -l

LEMMA GrowTrail ==
    ASSUME NEW N \in Nat, NEW t, NEW lim, TrailOK(N, t, lim),
           NEW l \in LitsUpTo(N), Fresh(t, l)
    PROVE  /\ Append(t, l) \in Seq(LitsUpTo(N)) /\ Len(Append(t, l)) = Len(t) + 1
           /\ \A i \in 1 .. Len(t) : Append(t, l)[i] = t[i]
           /\ Append(t, l)[Len(t) + 1] = l
           /\ \A i \in 1 .. Len(t) : Var(t[i]) # Var(l)
           /\ TrailOK(N, Append(t, l), lim)
           /\ TrailOK(N, Append(t, l), Append(lim, Len(t)))
<1> DEFINE u == Append(t, l)
           m == Append(lim, Len(t))
<1>1. t \in Seq(LitsUpTo(N)) /\ Len(t) \in Nat /\ lim \in Seq(Nat) /\ Len(lim) \in Nat
  BY LenProperties DEF TrailOK
<1>2. u \in Seq(LitsUpTo(N)) /\ Len(u) = Len(t) + 1
      /\ (\A i \in 1 .. Len(t) : u[i] = t[i]) /\ u[Len(t) + 1] = l
  BY <1>1, AppendProperties
<1>3. m \in Seq(Nat) /\ Len(m) = Len(lim) + 1
      /\ (\A k \in 1 .. Len(lim) : m[k] = lim[k]) /\ m[Len(lim) + 1] = Len(t)
  BY <1>1, AppendProperties
<1>4. \A i \in 1 .. Len(t) : t[i] \in LitsUpTo(N) /\ Var(t[i]) # Var(l)
  BY <1>1, ElementOfSeq, LitFacts DEF Fresh
<1> HIDE DEF u, m
<1>5. \A i, j \in 1 .. Len(u) : Var(u[i]) = Var(u[j]) => i = j
  <2> SUFFICES ASSUME NEW i \in 1 .. Len(u), NEW j \in 1 .. Len(u), Var(u[i]) = Var(u[j])
               PROVE  i = j
    OBVIOUS
  <2>1. CASE i = Len(t) + 1 /\ j = Len(t) + 1
    BY <2>1
  <2>2. CASE i \in 1 .. Len(t) /\ j \in 1 .. Len(t)
    BY <1>2, <2>2 DEF TrailOK
  <2>3. CASE i \in 1 .. Len(t) /\ j = Len(t) + 1
    BY <1>2, <1>4, <2>3
  <2>4. CASE i = Len(t) + 1 /\ j \in 1 .. Len(t)
    BY <1>2, <1>4, <2>4
  <2> QED
    BY <1>1, <1>2, <2>1, <2>2, <2>3, <2>4
<1>6. \A k \in 1 .. Len(lim) : lim[k] \in Nat /\ lim[k] < Len(t)
  BY <1>1, ElementOfSeq DEF TrailOK
<1>7. TrailOK(N, u, lim)
  <2>1. \A k \in 1 .. Len(lim) : lim[k] < Len(u)
    BY <1>1, <1>2, <1>6
  <2> QED
    BY <1>1, <1>2, <1>5, <2>1 DEF TrailOK
<1>8. TrailOK(N, u, m)
  <2>1. \A k \in 1 .. Len(m) : m[k] < Len(u) /\ (k \in 1 .. Len(lim) => m[k] < Len(t))
    <3> SUFFICES ASSUME NEW k \in 1 .. Len(m)
                 PROVE  m[k] < Len(u) /\ (k \in 1 .. Len(lim) => m[k] < Len(t))
      OBVIOUS
    <3>1. CASE k = Len(lim) + 1
      BY <1>1, <1>2, <1>3, <3>1
    <3>2. CASE k \in 1 .. Len(lim)
      BY <1>1, <1>2, <1>3, <1>6, <3>2
    <3> QED
      BY <1>1, <1>3, <3>1, <3>2
  <2>2. \A j, k \in 1 .. Len(m) : j < k => m[j] < m[k]
    <3> SUFFICES ASSUME NEW j \in 1 .. Len(m), NEW k \in 1 .. Len(m), j < k
                 PROVE  m[j] < m[k]
      OBVIOUS
    <3>1. j \in 1 .. Len(lim) /\ m[j] = lim[j]
      BY <1>1, <1>3
    <3>2. CASE k = Len(lim) + 1
      BY <1>3, <2>1, <3>1, <3>2
    <3>3. CASE k \in 1 .. Len(lim)
      BY <1>3, <3>1, <3>3 DEF TrailOK
    <3> QED
      BY <1>1, <1>3, <3>2, <3>3
  <2> QED
    BY <1>2, <1>3, <1>5, <2>1, <2>2 DEF TrailOK
<1> QED
  BY <1>2, <1>4, <1>7, <1>8 DEF u, m

(***************************************************************************)
(* The changes of the database.                                            *)
(***************************************************************************)
Rewatched(d, c, w) == [d EXCEPT ![c].watch = w]

LEMMA RewatchedFacts ==
    ASSUME NEW N \in Nat, NEW d, DbOK(N, d), NEW c \in 1 .. Len(d),
           NEW k \in d[c].lits, NEW l \in d[c].lits, k # l
    PROVE  /\ DbOK(N, Rewatched(d, c, <<k, l>>)) /\ Len(Rewatched(d, c, <<k, l>>)) = Len(d)
           /\ \A e \in 1 .. Len(d) : e # c => Rewatched(d, c, <<k, l>>)[e] = d[e]
           /\ LET x == Rewatched(d, c, <<k, l>>)[c]
              IN  /\ x.lits = d[c].lits /\ x.watch[1] = k /\ x.watch[2] = l
                  /\ x.learned = d[c].learned /\ x.keep = d[c].keep /\ x.deleted = d[c].deleted
<1> DEFINE x == [d[c] EXCEPT !.watch = <<k, l>>]
           e == [d EXCEPT ![c] = x]
<1>1. d \in Seq(ClauseType(N)) /\ d[c] \in ClauseType(N)
  BY ElementOfSeq DEF DbOK
<1>2. Rewatched(d, c, <<k, l>>) = e
  BY DEF Rewatched
<1>3. <<k, l>> \in LitsUpTo(N) \X LitsUpTo(N) /\ <<k, l>>[1] = k /\ <<k, l>>[2] = l
  BY <1>1 DEF ClauseType
<1>4. /\ x \in ClauseType(N) /\ x.lits = d[c].lits /\ x.watch = <<k, l>>
      /\ x.learned = d[c].learned /\ x.keep = d[c].keep /\ x.deleted = d[c].deleted
  BY <1>1, <1>3 DEF ClauseType
<1> HIDE DEF x
<1>5. e \in Seq(ClauseType(N)) /\ Len(e) = Len(d)
      /\ \A i \in 1 .. Len(d) : e[i] = IF i = c THEN x ELSE d[i]
  BY <1>1, <1>4, ExceptSeq
<1>6. ClauseOK(x)
  BY <1>3, <1>4 DEF ClauseOK, DbOK
<1>7. DbOK(N, e)
  BY <1>5, <1>6 DEF DbOK
<1> QED
  BY <1>2, <1>3, <1>4, <1>5, <1>7

LEMMA ExtendedFacts ==
    ASSUME NEW N \in Nat, NEW d, DbOK(N, d), NEW x \in ClauseType(N), ClauseOK(x)
    PROVE  /\ DbOK(N, Append(d, x)) /\ Len(Append(d, x)) = Len(d) + 1
           /\ \A c \in 1 .. Len(d) : Append(d, x)[c] = d[c]
           /\ Append(d, x)[Len(d) + 1] = x
<1>1. d \in Seq(ClauseType(N)) /\ Len(d) \in Nat
  BY LenProperties DEF DbOK
<1>2. /\ Append(d, x) \in Seq(ClauseType(N)) /\ Len(Append(d, x)) = Len(d) + 1
      /\ \A c \in 1 .. Len(d) : Append(d, x)[c] = d[c]
      /\ Append(d, x)[Len(d) + 1] = x
  BY <1>1, AppendProperties
<1>3. \A c \in 1 .. Len(d) + 1 : c = Len(d) + 1 \/ c \in 1 .. Len(d)
  BY <1>1
<1>4. \A c \in 1 .. Len(Append(d, x)) : ClauseOK(Append(d, x)[c])
  BY <1>2, <1>3 DEF DbOK
<1> QED
  BY <1>2, <1>4 DEF DbOK

LEMMA DeleteFacts ==
    ASSUME NEW N \in Nat, NEW d, DbOK(N, d), NEW D, \A c \in D : d[c].learned
    PROVE  /\ DbOK(N, Delete(d, D)) /\ Len(Delete(d, D)) = Len(d)
           /\ \A c \in 1 .. Len(d) :
                 LET x == Delete(d, D)[c]
                 IN  /\ x.lits = d[c].lits /\ x.watch = d[c].watch
                     /\ x.learned = d[c].learned /\ x.keep = d[c].keep
                     /\ x.deleted <=> d[c].deleted \/ c \in D
<1> DEFINE e == Delete(d, D)
<1>1. d \in Seq(ClauseType(N)) /\ Len(d) \in Nat /\ DOMAIN d = 1 .. Len(d)
  BY LenProperties DEF DbOK
<1>2. ASSUME NEW c \in 1 .. Len(d)
      PROVE  /\ e[c] \in ClauseType(N) /\ e[c].lits = d[c].lits /\ e[c].watch = d[c].watch
             /\ e[c].learned = d[c].learned /\ e[c].keep = d[c].keep
             /\ e[c].deleted <=> d[c].deleted \/ c \in D
  <2>1. d[c] \in ClauseType(N)
    BY <1>1, ElementOfSeq
  <2>2. e[c] = IF c \in D THEN [d[c] EXCEPT !.deleted = TRUE] ELSE d[c]
    BY <1>1 DEF Delete
  <2> HIDE DEF e
  <2>3. CASE c \in D
    BY <2>1, <2>2, <2>3 DEF ClauseType
  <2>4. CASE c \notin D
    BY <2>1, <2>2, <2>4
  <2> QED
    BY <2>3, <2>4
<1>3. DOMAIN e = 1 .. Len(d) /\ e = [c \in 1 .. Len(d) |-> e[c]]
  BY <1>1 DEF Delete
<1> HIDE DEF e
<1>4. e \in [1 .. Len(d) -> ClauseType(N)]
  BY <1>2, <1>3
<1>5. e \in Seq(ClauseType(N)) /\ Len(e) = Len(d)
  <2>1. e \in Seq(ClauseType(N))
    BY <1>1, <1>4, SeqDef
  <2>2. DOMAIN e = 1 .. Len(e) /\ Len(e) \in Nat
    BY <2>1, LenProperties
  <2> QED
    BY <1>1, <1>3, <2>1, <2>2
<1>6. ASSUME NEW c \in 1 .. Len(d) PROVE ClauseOK(e[c])
  <2>1. ClauseOK(d[c])
    BY DEF DbOK
  <2>2. c \in D => d[c].learned
    OBVIOUS
  <2> QED
    BY <1>2, <2>1, <2>2 DEF ClauseOK
<1>7. DbOK(N, e)
  BY <1>5, <1>6 DEF DbOK
<1> QED
  BY <1>2, <1>5, <1>7 DEF e

(***************************************************************************)
(* Reasons under these changes.                                            *)
(***************************************************************************)

\* ReasonsOf, for any trail and reasons.
Retained(N, u, r) == [v \in 1 .. N |-> IF \E i \in DOMAIN u : Var(u[i]) = v THEN r[v] ELSE 0]

LEMMA ReasonsCut ==
    ASSUME NEW N \in Nat, NEW t, NEW lim, NEW r, NEW d, TrailOK(N, t, lim), Len(d) \in Nat,
           ReasonsOK(N, t, r, d), NEW n \in 0 .. Len(lim)
    PROVE  ReasonsOK(N, Cut(t, lim, n), Retained(N, Cut(t, lim, n), r), d)
<1> DEFINE u == Cut(t, lim, n)
           s == Retained(N, u, r)
<1>1. /\ u \in Seq(LitsUpTo(N)) /\ Len(u) \in 0 .. Len(t)
      /\ \A i \in 1 .. Len(u) : u[i] = t[i]
  BY CutFacts
<1>2. DOMAIN u = 1 .. Len(u) /\ Len(u) \in Nat /\ Len(t) \in Nat
  BY <1>1, LenProperties DEF TrailOK
<1> HIDE DEF u
<1>3. s \in [1 .. N -> 0 .. Len(d)] /\ \A v \in 1 .. N : s[v] = 0 \/ \E i \in 1 .. Len(u) : Var(u[i]) = v
  BY <1>2 DEF Retained, ReasonsOK
<1>4. ASSUME NEW i \in 1 .. Len(u), s[Var(u[i])] # 0
      PROVE  Forces(d[s[Var(u[i])]], u, i)
  <2>1. i \in 1 .. Len(t) /\ u[i] = t[i] /\ \A j \in 1 .. i - 1 : u[j] = t[j]
    BY <1>1, <1>2
  <2>2. Var(u[i]) \in 1 .. N
    BY <1>1, ElementOfSeq, LitFacts
  <2>3. s[Var(u[i])] = r[Var(t[i])]
    BY <1>2, <2>1, <2>2 DEF Retained
  <2>4. Forces(d[r[Var(t[i])]], t, i)
    BY <1>4, <2>1, <2>3 DEF ReasonsOK
  <2> QED
    BY <2>1, <2>3, <2>4 DEF Forces
<1> HIDE DEF s
<1>5. ReasonsOK(N, u, s, d)
  BY <1>3, <1>4 DEF ReasonsOK
<1> QED
  BY <1>5 DEF u, s

LEMMA ReasonsGrow ==
    ASSUME NEW N \in Nat, NEW t, NEW lim, NEW r, NEW d, TrailOK(N, t, lim), Len(d) \in Nat,
           ReasonsOK(N, t, r, d), NEW l \in LitsUpTo(N), Fresh(t, l), NEW c \in 0 .. Len(d),
           c # 0 => Forces(d[c], Append(t, l), Len(t) + 1)
    PROVE  ReasonsOK(N, Append(t, l), [r EXCEPT ![Var(l)] = c], d)
<1> DEFINE u == Append(t, l)
           s == [r EXCEPT ![Var(l)] = c]
<1>1. /\ Len(u) = Len(t) + 1 /\ u[Len(t) + 1] = l
      /\ \A i \in 1 .. Len(t) : u[i] = t[i] /\ Var(t[i]) # Var(l)
  BY GrowTrail
<1>2. Len(t) \in Nat /\ \A i \in 1 .. Len(t) : Var(t[i]) \in 1 .. N
  BY LenProperties, ElementOfSeq, LitFacts DEF TrailOK
<1>3. Var(l) \in 1 .. N /\ r \in [1 .. N -> 0 .. Len(d)]
  BY LitFacts DEF ReasonsOK
<1>4. s \in [1 .. N -> 0 .. Len(d)] /\ s[Var(l)] = c /\ \A v \in 1 .. N : v # Var(l) => s[v] = r[v]
  BY <1>3
<1> HIDE DEF u, s
<1>5. ASSUME NEW i \in 1 .. Len(u), s[Var(u[i])] # 0
      PROVE  Forces(d[s[Var(u[i])]], u, i)
  <2>1. CASE i = Len(t) + 1
    <3>1. u[i] = l /\ s[Var(u[i])] = c
      BY <1>1, <1>4, <2>1
    <3> QED
      BY <1>5, <2>1, <3>1 DEF u
  <2>2. CASE i \in 1 .. Len(t)
    <3>1. u[i] = t[i] /\ s[Var(u[i])] = r[Var(t[i])]
      BY <1>1, <1>2, <1>4, <2>2
    <3>2. Forces(d[r[Var(t[i])]], t, i)
      BY <1>5, <2>2, <3>1 DEF ReasonsOK
    <3>3. \A j \in 1 .. i - 1 : u[j] = t[j]
      BY <1>1, <1>2, <2>2
    <3> QED
      BY <3>1, <3>2, <3>3 DEF Forces
  <2> QED
    BY <1>1, <1>2, <2>1, <2>2
<1>6. \A v \in 1 .. N : s[v] = 0 \/ \E i \in 1 .. Len(u) : Var(u[i]) = v
  <2> SUFFICES ASSUME NEW v \in 1 .. N, s[v] # 0 PROVE \E i \in 1 .. Len(u) : Var(u[i]) = v
    OBVIOUS
  <2>1. CASE v = Var(l)
    <3>1. Len(t) + 1 \in 1 .. Len(u) /\ Var(u[Len(t) + 1]) = v
      BY <1>1, <1>2, <2>1
    <3> QED
      BY <3>1
  <2>2. CASE v # Var(l)
    <3>1. PICK i \in 1 .. Len(t) : Var(t[i]) = v
      BY <1>4, <2>2 DEF ReasonsOK
    <3>2. i \in 1 .. Len(u) /\ u[i] = t[i]
      BY <1>1, <1>2
    <3> QED
      BY <3>1, <3>2
  <2> QED
    BY <2>1, <2>2
<1>7. ReasonsOK(N, u, s, d)
  BY <1>4, <1>5, <1>6 DEF ReasonsOK
<1> QED
  BY <1>7 DEF u, s

\* Nothing that another database keeps of the clauses that are reasons matters.
LEMMA ReasonsOther ==
    ASSUME NEW N \in Nat, NEW t, NEW r, NEW d, NEW e, ReasonsOK(N, t, r, d),
           Len(d) \in Nat, Len(e) \in Nat, Len(d) <= Len(e),
           \A i \in 1 .. Len(t) :
               LET c == r[Var(t[i])]
               IN  c \in 1 .. Len(d) => /\ e[c].lits = d[c].lits /\ e[c].deleted = d[c].deleted
                                        /\ e[c].learned = d[c].learned /\ e[c].keep = d[c].keep
                                        /\ (d[c].learned /\ ~d[c].keep => e[c].watch[1] = d[c].watch[1]),
           \A i \in 1 .. Len(t) : Var(t[i]) \in 1 .. N
    PROVE  ReasonsOK(N, t, r, e)
<1>1. r \in [1 .. N -> 0 .. Len(e)]
  BY DEF ReasonsOK
<1>2. ASSUME NEW i \in 1 .. Len(t), r[Var(t[i])] # 0 PROVE Forces(e[r[Var(t[i])]], t, i)
  <2>1. r[Var(t[i])] \in 1 .. Len(d)
    BY <1>2 DEF ReasonsOK
  <2>2. Forces(d[r[Var(t[i])]], t, i)
    BY <1>2 DEF ReasonsOK
  <2> QED
    BY <2>1, <2>2 DEF Forces
<1> QED
  BY <1>1, <1>2 DEF ReasonsOK

\* _reduce_db leaves the reasons alone.
LEMMA ReasonsDelete ==
    ASSUME NEW N \in Nat, NEW t, NEW lim, NEW r, NEW d, TrailOK(N, t, lim), DbOK(N, d),
           ReasonsOK(N, t, r, d), NEW D, D \subseteq Deletable(d, r)
    PROVE  ReasonsOK(N, t, r, Delete(d, D))
<1>1. Len(d) \in Nat /\ DOMAIN d = 1 .. Len(d)
  BY LenProperties DEF DbOK
<1>2. \A i \in 1 .. Len(t) : Var(t[i]) \in 1 .. N
  BY ElementOfSeq, LitFacts DEF TrailOK
<1>3. \A c \in D : d[c].learned
  BY DEF Deletable
<1> DEFINE e == Delete(d, D)
<1>4. /\ Len(e) = Len(d)
      /\ \A c \in 1 .. Len(d) :
            /\ e[c].lits = d[c].lits /\ e[c].watch = d[c].watch
            /\ e[c].learned = d[c].learned /\ e[c].keep = d[c].keep
            /\ e[c].deleted <=> d[c].deleted \/ c \in D
  BY <1>3, DeleteFacts
<1> HIDE DEF e
<1>5. ASSUME NEW i \in 1 .. Len(t), r[Var(t[i])] # 0
      PROVE  Forces(e[r[Var(t[i])]], t, i)
  <2> DEFINE c == r[Var(t[i])]
  <2>1. c \in 1 .. Len(d) /\ Forces(d[c], t, i)
    BY <1>2, <1>5 DEF ReasonsOK
  <2>2. c \notin D
    <3> SUFFICES ASSUME c \in D PROVE FALSE
      OBVIOUS
    <3>1. d[c].learned /\ ~d[c].keep /\ r[Var(d[c].watch[1])] # c
      BY DEF Deletable
    <3> QED
      BY <2>1, <3>1 DEF Forces
  <2> HIDE DEF c
  <2>3. Forces(e[c], t, i)
    BY <1>4, <2>1, <2>2 DEF Forces
  <2> QED
    BY <2>3 DEF c
<1>6. ReasonsOK(N, t, r, e)
  BY <1>4, <1>5 DEF ReasonsOK
<1> QED
  BY <1>6 DEF e

(***************************************************************************)
(* Decisions, level 0 and watches under these changes.                     *)
(***************************************************************************)
LEMMA DecisionsCut ==
    ASSUME NEW N \in Nat, NEW t, NEW lim, NEW r, NEW A, TrailOK(N, t, lim),
           DecisionsOK(t, lim, r, A), NEW n \in 0 .. Len(lim)
    PROVE  DecisionsOK(Cut(t, lim, n), LimitsTo(lim, n), Retained(N, Cut(t, lim, n), r), A)
<1> DEFINE u == Cut(t, lim, n)
           m == LimitsTo(lim, n)
           s == Retained(N, u, r)
<1>1. /\ u \in Seq(LitsUpTo(N)) /\ Len(u) \in 0 .. Len(t)
      /\ \A i \in 1 .. Len(u) : u[i] = t[i]
      /\ Len(u) = IF n < Len(lim) THEN lim[n + 1] ELSE Len(t)
      /\ Len(m) = n /\ \A k \in 1 .. n : m[k] = lim[k] /\ lim[k] < Len(u)
  BY CutFacts
<1>2. /\ DOMAIN u = 1 .. Len(u) /\ Len(u) \in Nat /\ Len(t) \in Nat /\ Len(lim) \in Nat
      /\ \A k \in 1 .. Len(lim) : lim[k] \in Nat
  BY <1>1, LenProperties, ElementOfSeq DEF TrailOK
<1> HIDE DEF u, m
<1>3. \A i \in 1 .. Len(u) : s[Var(u[i])] = r[Var(t[i])]
  BY <1>1, <1>2, ElementOfSeq, LitFacts DEF Retained
<1> HIDE DEF s
<1>4. ASSUME NEW i \in 1 .. Len(u), s[Var(u[i])] = 0
      PROVE  Ground(m, i) \/ \E k \in 1 .. Len(m) : i = m[k] + 1
  <2>1. i \in 1 .. Len(t) /\ r[Var(t[i])] = 0
    BY <1>1, <1>2, <1>3, <1>4
  <2>2. CASE Ground(lim, i)
    <3>1. Ground(m, i)
      BY <1>1, <1>2, <2>2 DEF Ground
    <3> QED
      BY <3>1
  <2>3. CASE ~Ground(lim, i)
    <3>1. PICK k \in 1 .. Len(lim) : i = lim[k] + 1
      BY <2>1, <2>3 DEF DecisionsOK
    <3>2. k <= n
      <4> SUFFICES ASSUME k > n PROVE FALSE
        BY <1>2
      <4>1. n < Len(lim) /\ n + 1 \in 1 .. Len(lim)
        BY <1>2
      <4>2. lim[n + 1] <= lim[k]
        BY <1>2, <4>1 DEF TrailOK
      <4> QED
        BY <1>1, <1>2, <3>1, <4>1, <4>2
    <3>3. k \in 1 .. Len(m) /\ i = m[k] + 1
      BY <1>1, <1>2, <3>1, <3>2
    <3> QED
      BY <3>3
  <2> QED
    BY <2>2, <2>3
<1>5. ASSUME NEW k \in 1 .. Len(m)
      PROVE  u[m[k] + 1] \in A \/ \A a \in A : \E j \in 1 .. m[k] : u[j] = a
  <2>1. k \in 1 .. Len(lim) /\ m[k] = lim[k] /\ m[k] + 1 \in 1 .. Len(u)
        /\ u[m[k] + 1] = t[lim[k] + 1] /\ \A j \in 1 .. m[k] : u[j] = t[j]
    BY <1>1, <1>2
  <2> QED
    BY <2>1 DEF DecisionsOK
<1>6. DecisionsOK(u, m, s, A)
  BY <1>4, <1>5 DEF DecisionsOK
<1> QED
  BY <1>6 DEF u, m, s

\* The literal added has a reason, or is of level 0.
LEMMA DecisionsGrow ==
    ASSUME NEW N \in Nat, NEW t, NEW lim, NEW r, NEW A, TrailOK(N, t, lim),
           r \in [1 .. N -> Nat], DecisionsOK(t, lim, r, A), NEW l \in LitsUpTo(N), Fresh(t, l),
           NEW c \in Nat, c # 0 \/ Len(lim) = 0
    PROVE  DecisionsOK(Append(t, l), lim, [r EXCEPT ![Var(l)] = c], A)
<1> DEFINE u == Append(t, l)
           s == [r EXCEPT ![Var(l)] = c]
<1>1. /\ Len(u) = Len(t) + 1 /\ u[Len(t) + 1] = l
      /\ \A i \in 1 .. Len(t) : u[i] = t[i] /\ Var(t[i]) # Var(l)
  BY GrowTrail
<1>2. /\ Len(t) \in Nat /\ \A i \in 1 .. Len(t) : Var(t[i]) \in 1 .. N
      /\ \A k \in 1 .. Len(lim) : lim[k] \in Nat /\ lim[k] < Len(t)
  BY LenProperties, ElementOfSeq, LitFacts DEF TrailOK
<1>3. Var(l) \in 1 .. N
  BY LitFacts
<1>4. s[Var(l)] = c /\ \A v \in 1 .. N : v # Var(l) => s[v] = r[v]
  BY <1>3
<1> HIDE DEF u, s
<1>5. ASSUME NEW i \in 1 .. Len(u), s[Var(u[i])] = 0
      PROVE  Ground(lim, i) \/ \E k \in 1 .. Len(lim) : i = lim[k] + 1
  <2>1. CASE i = Len(t) + 1
    <3>1. Len(lim) = 0
      BY <1>1, <1>4, <1>5, <2>1
    <3> QED
      BY <3>1 DEF Ground
  <2>2. CASE i \in 1 .. Len(t)
    BY <1>1, <1>2, <1>4, <1>5, <2>2 DEF DecisionsOK
  <2> QED
    BY <1>1, <1>2, <2>1, <2>2
<1>6. ASSUME NEW k \in 1 .. Len(lim)
      PROVE  u[lim[k] + 1] \in A \/ \A a \in A : \E j \in 1 .. lim[k] : u[j] = a
  <2>1. lim[k] + 1 \in 1 .. Len(t) /\ \A j \in 1 .. lim[k] : j \in 1 .. Len(t)
    BY <1>2
  <2>2. u[lim[k] + 1] = t[lim[k] + 1] /\ \A j \in 1 .. lim[k] : u[j] = t[j]
    BY <1>1, <2>1
  <2> QED
    BY <2>2 DEF DecisionsOK
<1>7. DecisionsOK(u, lim, s, A)
  BY <1>5, <1>6 DEF DecisionsOK
<1> QED
  BY <1>7 DEF u, s

\* An assumption is decided, or another literal when all assumptions are true.
LEMMA DecisionsOpen ==
    ASSUME NEW N \in Nat, NEW t, NEW lim, NEW r, NEW A, TrailOK(N, t, lim),
           r \in [1 .. N -> Nat], DecisionsOK(t, lim, r, A), NEW l \in LitsUpTo(N), Fresh(t, l),
           l \in A \/ \A a \in A : \E j \in 1 .. Len(t) : t[j] = a
    PROVE  DecisionsOK(Append(t, l), Append(lim, Len(t)), [r EXCEPT ![Var(l)] = 0], A)
<1> DEFINE u == Append(t, l)
           m == Append(lim, Len(t))
           s == [r EXCEPT ![Var(l)] = 0]
<1>1. /\ Len(u) = Len(t) + 1 /\ u[Len(t) + 1] = l
      /\ \A i \in 1 .. Len(t) : u[i] = t[i] /\ Var(t[i]) # Var(l)
  BY GrowTrail
<1>2. /\ Len(t) \in Nat /\ \A i \in 1 .. Len(t) : Var(t[i]) \in 1 .. N
      /\ lim \in Seq(Nat) /\ Len(lim) \in Nat
      /\ \A k \in 1 .. Len(lim) : lim[k] \in Nat /\ lim[k] < Len(t)
  BY LenProperties, ElementOfSeq, LitFacts DEF TrailOK
<1>3. Len(m) = Len(lim) + 1 /\ (\A k \in 1 .. Len(lim) : m[k] = lim[k]) /\ m[Len(lim) + 1] = Len(t)
  BY <1>2, AppendProperties
<1>4. Var(l) \in 1 .. N
  BY LitFacts
<1>5. s[Var(l)] = 0 /\ \A v \in 1 .. N : v # Var(l) => s[v] = r[v]
  BY <1>4
<1> HIDE DEF u, m, s
<1>6. ASSUME NEW i \in 1 .. Len(u), s[Var(u[i])] = 0
      PROVE  Ground(m, i) \/ \E k \in 1 .. Len(m) : i = m[k] + 1
  <2>1. CASE i = Len(t) + 1
    <3>1. Len(lim) + 1 \in 1 .. Len(m) /\ i = m[Len(lim) + 1] + 1
      BY <1>2, <1>3, <2>1
    <3> QED
      BY <3>1
  <2>2. CASE i \in 1 .. Len(t)
    <3>1. r[Var(t[i])] = 0
      BY <1>1, <1>2, <1>5, <1>6, <2>2
    <3>2. CASE Ground(lim, i)
      <4>1. ASSUME NEW k \in 1 .. Len(m) PROVE i <= m[k]
        <5>1. CASE k = Len(lim) + 1
          BY <1>3, <2>2, <5>1
        <5>2. CASE k \in 1 .. Len(lim)
          BY <1>3, <3>2, <5>2 DEF Ground
        <5> QED
          BY <1>2, <1>3, <5>1, <5>2
      <4> QED
        BY <4>1 DEF Ground
    <3>3. CASE ~Ground(lim, i)
      <4>1. PICK k \in 1 .. Len(lim) : i = lim[k] + 1
        BY <2>2, <3>1, <3>3 DEF DecisionsOK
      <4>2. k \in 1 .. Len(m) /\ i = m[k] + 1
        BY <1>2, <1>3, <4>1
      <4> QED
        BY <4>2
    <3> QED
      BY <3>2, <3>3
  <2> QED
    BY <1>1, <1>2, <2>1, <2>2
<1>7. ASSUME NEW k \in 1 .. Len(m)
      PROVE  u[m[k] + 1] \in A \/ \A a \in A : \E j \in 1 .. m[k] : u[j] = a
  <2>1. CASE k = Len(lim) + 1
    <3>1. m[k] = Len(t) /\ u[m[k] + 1] = l /\ \A j \in 1 .. m[k] : u[j] = t[j]
      BY <1>1, <1>3, <2>1
    <3> QED
      BY <3>1
  <2>2. CASE k \in 1 .. Len(lim)
    <3>1. lim[k] + 1 \in 1 .. Len(t) /\ \A j \in 1 .. lim[k] : j \in 1 .. Len(t)
      BY <1>2, <2>2
    <3>2. m[k] = lim[k] /\ u[lim[k] + 1] = t[lim[k] + 1] /\ \A j \in 1 .. lim[k] : u[j] = t[j]
      BY <1>1, <1>3, <2>2, <3>1
    <3> QED
      BY <2>2, <3>2 DEF DecisionsOK
  <2> QED
    BY <1>2, <1>3, <2>1, <2>2
<1>8. DecisionsOK(u, m, s, A)
  BY <1>6, <1>7 DEF DecisionsOK
<1> QED
  BY <1>8 DEF u, m, s

LEMMA GroundCut ==
    ASSUME NEW N \in Nat, NEW t, NEW lim, NEW M, TrailOK(N, t, lim),
           GroundOK(t, lim, M), NEW n \in 0 .. Len(lim)
    PROVE  GroundOK(Cut(t, lim, n), LimitsTo(lim, n), M)
<1> DEFINE u == Cut(t, lim, n)
           m == LimitsTo(lim, n)
<1>1. /\ Len(u) \in 0 .. Len(t)
      /\ \A i \in 1 .. Len(u) : u[i] = t[i]
      /\ Len(u) = IF n < Len(lim) THEN lim[n + 1] ELSE Len(t)
      /\ Len(m) = n /\ \A k \in 1 .. n : m[k] = lim[k]
  BY CutFacts
<1>2. /\ Len(t) \in Nat /\ Len(lim) \in Nat
      /\ \A k \in 1 .. Len(lim) : lim[k] \in Nat
      /\ \A j, k \in 1 .. Len(lim) : j < k => lim[j] < lim[k]
  BY LenProperties, ElementOfSeq DEF TrailOK
<1> HIDE DEF u, m
<1>3. ASSUME NEW i \in 1 .. Len(u), Ground(m, i) PROVE i \in 1 .. Len(t) /\ Ground(lim, i)
  <2>1. i \in 1 .. Len(t)
    BY <1>1, <1>2
  <2>2. ASSUME NEW k \in 1 .. Len(lim) PROVE i <= lim[k]
    <3>1. CASE k <= n
      BY <1>1, <1>2, <1>3, <3>1 DEF Ground
    <3>2. CASE k > n
      <4>1. n < Len(lim) /\ n + 1 \in 1 .. Len(lim)
        BY <1>2, <3>2
      <4>2. lim[n + 1] <= lim[k]
        BY <1>2, <3>2, <4>1
      <4> QED
        BY <1>1, <1>2, <4>1, <4>2
    <3> QED
      BY <1>2, <3>1, <3>2
  <2> QED
    BY <2>1, <2>2 DEF Ground
<1>4. GroundOK(u, m, M)
  BY <1>1, <1>3 DEF GroundOK
<1> QED
  BY <1>4 DEF u, m

LEMMA GroundGrow ==
    ASSUME NEW N \in Nat, NEW t, NEW lim, NEW M, TrailOK(N, t, lim),
           GroundOK(t, lim, M), NEW l \in LitsUpTo(N), Fresh(t, l),
           Len(lim) = 0 => \A m \in M : l \in m
    PROVE  GroundOK(Append(t, l), lim, M)
<1> DEFINE u == Append(t, l)
<1>1. Len(u) = Len(t) + 1 /\ u[Len(t) + 1] = l /\ \A i \in 1 .. Len(t) : u[i] = t[i]
  BY GrowTrail
<1>2. /\ Len(t) \in Nat /\ Len(lim) \in Nat
      /\ \A k \in 1 .. Len(lim) : lim[k] \in Nat /\ lim[k] < Len(t)
  BY LenProperties, ElementOfSeq DEF TrailOK
<1> HIDE DEF u
<1>3. ASSUME NEW m \in M, NEW i \in 1 .. Len(u), Ground(lim, i) PROVE u[i] \in m
  <2>1. CASE i = Len(t) + 1
    <3>1. Len(lim) = 0
      <4> SUFFICES ASSUME Len(lim) # 0 PROVE FALSE
        OBVIOUS
      <4>1. 1 \in 1 .. Len(lim)
        BY <1>2
      <4> QED
        BY <1>2, <1>3, <2>1, <4>1 DEF Ground
    <3> QED
      BY <1>1, <2>1, <3>1
  <2>2. CASE i \in 1 .. Len(t)
    BY <1>1, <1>3, <2>2 DEF GroundOK
  <2> QED
    BY <1>1, <1>2, <2>1, <2>2
<1>4. GroundOK(u, lim, M)
  BY <1>3 DEF GroundOK
<1> QED
  BY <1>4 DEF u

LEMMA GroundOpen ==
    ASSUME NEW N \in Nat, NEW t, NEW lim, NEW M, TrailOK(N, t, lim),
           GroundOK(t, lim, M), NEW l \in LitsUpTo(N), Fresh(t, l)
    PROVE  GroundOK(Append(t, l), Append(lim, Len(t)), M)
<1> DEFINE u == Append(t, l)
           m == Append(lim, Len(t))
<1>1. Len(u) = Len(t) + 1 /\ u[Len(t) + 1] = l /\ \A i \in 1 .. Len(t) : u[i] = t[i]
  BY GrowTrail
<1>2. Len(t) \in Nat /\ Len(lim) \in Nat /\ lim \in Seq(Nat)
  BY LenProperties DEF TrailOK
<1>3. Len(m) = Len(lim) + 1 /\ (\A k \in 1 .. Len(lim) : m[k] = lim[k]) /\ m[Len(lim) + 1] = Len(t)
  BY <1>2, AppendProperties
<1> HIDE DEF u, m
<1>4. ASSUME NEW i \in 1 .. Len(u), Ground(m, i)
      PROVE  i \in 1 .. Len(t) /\ Ground(lim, i)
  <2>1. Len(lim) + 1 \in 1 .. Len(m)
    BY <1>2, <1>3
  <2>2. i <= Len(t)
    BY <1>3, <1>4, <2>1 DEF Ground
  <2>3. \A k \in 1 .. Len(lim) : i <= lim[k]
    BY <1>2, <1>3, <1>4 DEF Ground
  <2> QED
    BY <1>1, <1>2, <2>2, <2>3 DEF Ground
<1>5. GroundOK(u, m, M)
  BY <1>1, <1>4 DEF GroundOK
<1> QED
  BY <1>5 DEF u, m

LEMMA WatchedGrow ==
    ASSUME NEW N \in Nat, NEW t, NEW lim, TrailOK(N, t, lim), NEW x,
           NEW q \in Int, q <= Len(t), Watched(t, lim, x, q),
           NEW l \in LitsUpTo(N), Fresh(t, l)
    PROVE  /\ Watched(Append(t, l), lim, x, q)
           /\ Watched(Append(t, l), Append(lim, Len(t)), x, q)
<1> DEFINE u == Append(t, l)
           m == Append(lim, Len(t))
<1>1. Len(u) = Len(t) + 1 /\ \A i \in 1 .. Len(t) : u[i] = t[i]
  BY GrowTrail
<1>2. Len(t) \in Nat /\ Len(lim) \in Nat /\ lim \in Seq(Nat)
  BY LenProperties DEF TrailOK
<1>3. Len(m) = Len(lim) + 1 /\ (\A k \in 1 .. Len(lim) : m[k] = lim[k]) /\ m[Len(lim) + 1] = Len(t)
  BY <1>2, AppendProperties
<1> HIDE DEF u, m
<1>4. ASSUME NEW i \in 1 .. q, u[i] \in {-x.watch[1], -x.watch[2]}
      PROVE  \E j \in 1 .. Len(u) : u[j] \in x.lits /\ NoDeeper(lim, j, i) /\ NoDeeper(m, j, i)
  <2>1. i \in 1 .. Len(t) /\ u[i] = t[i]
    BY <1>1, <1>2
  <2>2. PICK j \in 1 .. Len(t) : t[j] \in x.lits /\ NoDeeper(lim, j, i)
    BY <1>4, <2>1 DEF Watched
  <2>3. j \in 1 .. Len(u) /\ u[j] = t[j]
    BY <1>1, <1>2
  <2>4. ASSUME NEW k \in 1 .. Len(m), i <= m[k] PROVE j <= m[k]
    <3>1. CASE k = Len(lim) + 1
      BY <1>3, <3>1
    <3>2. CASE k \in 1 .. Len(lim)
      BY <1>3, <2>2, <2>4, <3>2 DEF NoDeeper
    <3> QED
      BY <1>2, <1>3, <3>1, <3>2
  <2> QED
    BY <2>2, <2>3, <2>4 DEF NoDeeper
<1>5. Watched(u, lim, x, q) /\ Watched(u, m, x, q)
  BY <1>4 DEF Watched
<1> QED
  BY <1>5 DEF u, m

LEMMA WatchedCut ==
    ASSUME NEW N \in Nat, NEW t, NEW lim, TrailOK(N, t, lim), NEW x,
           NEW q \in Int, Watched(t, lim, x, q),
           NEW n \in 0 .. Len(lim), NEW p \in Int, p <= q, p <= Len(Cut(t, lim, n))
    PROVE  Watched(Cut(t, lim, n), LimitsTo(lim, n), x, p)
<1> DEFINE u == Cut(t, lim, n)
           m == LimitsTo(lim, n)
<1>1. /\ Len(u) \in 0 .. Len(t)
      /\ \A i \in 1 .. Len(u) : u[i] = t[i]
      /\ Len(u) = IF n < Len(lim) THEN lim[n + 1] ELSE Len(t)
      /\ Len(m) = n /\ \A k \in 1 .. n : m[k] = lim[k]
  BY CutFacts
<1>2. Len(t) \in Nat /\ Len(lim) \in Nat
  BY LenProperties DEF TrailOK
<1> HIDE DEF u, m
<1>3. ASSUME NEW i \in 1 .. p, u[i] \in {-x.watch[1], -x.watch[2]}
      PROVE  \E j \in 1 .. Len(u) : u[j] \in x.lits /\ NoDeeper(m, j, i)
  <2>1. i \in 1 .. q /\ i \in 1 .. Len(u) /\ u[i] = t[i]
    BY <1>1, <1>2 DEF u
  <2>2. PICK j \in 1 .. Len(t) : t[j] \in x.lits /\ NoDeeper(lim, j, i)
    BY <1>3, <2>1 DEF Watched
  <2>3. j <= Len(u)
    <3>1. CASE n < Len(lim)
      <4>1. n + 1 \in 1 .. Len(lim) /\ i <= lim[n + 1]
        BY <1>1, <1>2, <2>1, <3>1
      <4> QED
        BY <1>1, <2>2, <3>1, <4>1 DEF NoDeeper
    <3>2. CASE ~(n < Len(lim))
      BY <1>1, <1>2, <3>2
    <3> QED
      BY <3>1, <3>2
  <2>4. NoDeeper(m, j, i)
    BY <1>1, <1>2, <2>2 DEF NoDeeper
  <2> QED
    BY <1>1, <1>2, <2>2, <2>3, <2>4
<1>4. Watched(u, m, x, p)
  BY <1>3 DEF Watched
<1> QED
  BY <1>4 DEF u, m

(***************************************************************************)
(* Levels.                                                                 *)
(***************************************************************************)
LEMMA InitialSegment ==
    ASSUME NEW n \in Nat, NEW S, S \subseteq 1 .. n,
           \A k \in S : \A j \in 1 .. k : j \in S
    PROVE  Cardinality(S) \in 0 .. n /\ S = 1 .. Cardinality(S)
<1>1. CASE S = 1 .. n
  <2>1. Cardinality(1 .. n) = n
    BY FS_Interval
  <2> QED
    BY <1>1, <2>1
<1>2. CASE S # 1 .. n
  <2> DEFINE T == {k \in 1 .. n : k \notin S}
  <2>1. T # {} /\ T \subseteq Nat
    <3>1. \E k \in 1 .. n : k \notin S
      BY <1>2
    <3> QED
      BY <3>1
  <2>2. PICK k \in T : \A j \in T : k <= j
    <3> HIDE DEF T
    <3> QED
      BY <2>1, LeastOf
  <2>3. S = 1 .. (k - 1)
    <3>1. ASSUME NEW j \in S PROVE j < k
      BY <2>2, <3>1
    <3>2. ASSUME NEW j \in 1 .. (k - 1) PROVE j \in S
      BY <2>2
    <3>3. S \subseteq 1 .. (k - 1)
      BY <2>2, <3>1
    <3>4. 1 .. (k - 1) \subseteq S
      BY <3>2
    <3> QED
      BY <3>3, <3>4
  <2>4. Cardinality(S) = k - 1
    BY <2>2, <2>3, FS_Interval
  <2> QED
    BY <2>2, <2>3, <2>4
<1> QED
  BY <1>1, <1>2

\* The level of a position: the levels below it are those that begin before it.
LEMMA LevelFacts ==
    ASSUME TrailOK(inst.vars, trail, limits), NEW i \in Int
    PROVE  /\ LevelAt(i) \in 0 .. Len(limits)
           /\ \A k \in 1 .. Len(limits) : k <= LevelAt(i) <=> limits[k] < i
<1> DEFINE S == {k \in DOMAIN limits : limits[k] < i}
<1>1. Len(limits) \in Nat /\ DOMAIN limits = 1 .. Len(limits)
  BY LenProperties DEF TrailOK
<1>2. \A k \in 1 .. Len(limits) : limits[k] \in Nat
  BY ElementOfSeq DEF TrailOK
<1>3. \A k \in S : \A j \in 1 .. k : j \in S
  <2> SUFFICES ASSUME NEW k \in S, NEW j \in 1 .. k PROVE j \in S
    OBVIOUS
  <2>1. k \in 1 .. Len(limits) /\ j \in 1 .. Len(limits)
    BY <1>1
  <2>2. limits[j] <= limits[k]
    BY <1>2, <2>1 DEF TrailOK
  <2> QED
    BY <1>1, <1>2, <2>1, <2>2
<1>4. Cardinality(S) \in 0 .. Len(limits) /\ S = 1 .. Cardinality(S)
  <2>1. S \subseteq 1 .. Len(limits)
    BY <1>1
  <2> HIDE DEF S
  <2> QED
    BY <1>1, <1>3, <2>1, InitialSegment
<1>5. LevelAt(i) = Cardinality(S)
  BY DEF LevelAt
<1>6. \A k \in 1 .. Len(limits) : k \in S <=> limits[k] < i
  BY <1>1
<1>7. \A k \in 1 .. Len(limits) : k \in S <=> k <= LevelAt(i)
  <2> HIDE DEF S
  <2> QED
    BY <1>1, <1>4, <1>5
<1> QED
  BY <1>4, <1>5, <1>6, <1>7

\* The level of a literal that is false is the level of its negation's position.
LEMMA LevelOf ==
    ASSUME inst.vars \in Nat, TrailOK(inst.vars, trail, limits), NEW l \in Lits,
           NEW i \in 1 .. Len(trail), trail[i] = l \/ trail[i] = -l
    PROVE  Level(l) = LevelAt(i)
<1>1. DOMAIN trail = 1 .. Len(trail)
  BY LenProperties DEF TrailOK
<1>2. Var(trail[i]) = Var(l)
  BY LitFacts DEF Lits
<1>3. \A j \in 1 .. Len(trail) : Var(trail[j]) = Var(l) => j = i
  BY <1>2 DEF TrailOK
<1>4. PosOf(Var(l)) = i
  BY <1>1, <1>2, <1>3 DEF PosOf
<1> QED
  BY <1>4 DEF Level

\* The highest level in a clause all of whose literals are false.
FalseIn(C) == C \subseteq Lits /\ \A l \in C : \E i \in 1 .. Len(trail) : trail[i] = -l

LEMMA LargestOf ==
    ASSUME NEW n \in Nat, NEW S, S \subseteq 0 .. n, S # {}
    PROVE  \E k \in S : \A j \in S : j <= k
<1> DEFINE T == {k \in 0 .. n : n - k \in S}
<1>1. T \subseteq Nat /\ T # {}
  <2>1. PICK k \in S : TRUE
    OBVIOUS
  <2>2. n - k \in 0 .. n /\ n - (n - k) = k
    BY <2>1
  <2>3. n - k \in T
    BY <2>2
  <2>4. T \subseteq Nat
    OBVIOUS
  <2> HIDE DEF T
  <2> QED
    BY <2>3, <2>4
<1>2. PICK k \in T : \A j \in T : k <= j
  <2> HIDE DEF T
  <2> QED
    BY <1>1, LeastOf
<1>3. ASSUME NEW j \in S PROVE j <= n - k
  <2>1. n - j \in T
    BY <1>3
  <2> QED
    BY <1>2, <2>1
<1> QED
  BY <1>2, <1>3

LEMMA MaxLevelFacts ==
    ASSUME inst.vars \in Nat, TrailOK(inst.vars, trail, limits), NEW C, FalseIn(C), C # {}
    PROVE  /\ MaxLevel(C) \in 0 .. Len(limits)
           /\ \E l \in C : Level(l) = MaxLevel(C)
           /\ \A l \in C : Level(l) \in 0 .. MaxLevel(C)
<1> DEFINE S == {Level(l) : l \in C}
<1>1. \A l \in C : Level(l) \in 0 .. Len(limits)
  <2> SUFFICES ASSUME NEW l \in C PROVE Level(l) \in 0 .. Len(limits)
    OBVIOUS
  <2>1. PICK i \in 1 .. Len(trail) : trail[i] = -l
    BY DEF FalseIn
  <2> QED
    BY <2>1, LevelOf, LevelFacts DEF FalseIn
<1>2. Len(limits) \in Nat
  BY LenProperties DEF TrailOK
<1>3. S \subseteq 0 .. Len(limits) /\ S # {}
  BY <1>1
<1>4. PICK n \in S : \A j \in S : j <= n
  <2> HIDE DEF S
  <2> QED
    BY <1>2, <1>3, LargestOf
<1>5. n \in 0 .. DecisionLevel /\ (\E l \in C : Level(l) = n) /\ (\A l \in C : Level(l) <= n)
  BY <1>3, <1>4 DEF DecisionLevel
<1>6. /\ MaxLevel(C) \in 0 .. DecisionLevel /\ (\E l \in C : Level(l) = MaxLevel(C))
      /\ \A l \in C : Level(l) <= MaxLevel(C)
  BY <1>5 DEF MaxLevel
<1> QED
  BY <1>1, <1>6 DEF DecisionLevel

(***************************************************************************)
(* The two analyses walk back over the trail: a fold from its end, whose    *)
(* value before each literal is run[i].                                    *)
(***************************************************************************)
LEMMA FromMin ==
    ASSUME NEW n \in Nat, NEW i \in 1 .. n
    PROVE  Min(i .. n) = i /\ (i .. n) \ {Min(i .. n)} = (i + 1) .. n
<1>1. Min(i .. n) \in i .. n /\ \A x \in i .. n : Min(i .. n) <= x
  <2>1. i .. n \subseteq Nat /\ i .. n # {}
    OBVIOUS
  <2> QED
    BY <2>1, MinOf
<1>2. Min(i .. n) = i
  BY <1>1
<1> QED
  BY <1>2

IsRun(f, n, base, step) ==
    \A s \in SUBSET (1 .. n) :
        f[s] = IF s = {} THEN base ELSE step[Min(s)][f[s \ {Min(s)}]]

LEMMA RunExists ==
    ASSUME NEW n \in Nat, NEW V, NEW base \in V, NEW step \in [1 .. n -> [V -> V]]
    PROVE  \E f \in [SUBSET (1 .. n) -> V] : IsRun(f, n, base, step)
<1> DEFINE D == 1 .. n
           pick == [s \in (SUBSET D) \ {{}} |-> Min(s)]
<1>1. \A s \in (SUBSET D) \ {{}} : Min(s) \in s
  <2> SUFFICES ASSUME NEW s \in (SUBSET D) \ {{}} PROVE Min(s) \in s
    OBVIOUS
  <2>1. s \subseteq Nat /\ s # {}
    OBVIOUS
  <2> QED
    BY <2>1, MinOf
<1>2. pick \in [(SUBSET D) \ {{}} -> D] /\ \A s \in (SUBSET D) \ {{}} : pick[s] \in s /\ pick[s] = Min(s)
  BY <1>1
<1>3. IsFiniteSet(D)
  BY FS_Interval
<1> HIDE DEF pick, D
<1>4. PICK f \in [SUBSET D -> V] : IsFold(f, D, base, pick, step)
  <2>1. step \in [D -> [V -> V]]
    BY DEF D
  <2>2. pick \in [(SUBSET D) \ {{}} -> D]
    BY <1>2
  <2>3. \A s \in (SUBSET D) \ {{}} : pick[s] \in s
    BY <1>2
  <2> QED
    BY ONLY <1>3, <2>1, <2>2, <2>3, base \in V, FoldExists
<1>5. ASSUME NEW s \in SUBSET D
      PROVE  f[s] = IF s = {} THEN base ELSE step[Min(s)][f[s \ {Min(s)}]]
  <2>1. f[s] = IF s = {} THEN base ELSE step[pick[s]][f[s \ {pick[s]}]]
    BY <1>4 DEF IsFold
  <2> QED
    BY <1>2, <2>1
<1> QED
  BY <1>5 DEF D, IsRun

\* The clauses of conflict analysis, from the conflict back to the one learned.
LEMMA ResolveRun ==
    ASSUME inst.vars \in Nat, NEW t \in Seq(Lits), NEW C, C \subseteq Lits
    PROVE  \E run : /\ run[Len(t) + 1] = {C}
                    /\ \A i \in 1 .. Len(t) : run[i] = Resolve(t[i], run[i + 1])
                    /\ run[1] = FoldRight(Resolve, t, {C})
<1> DEFINE n == Len(t)
           U == Lits \cup UNION {db[reason[Var(l)]].lits : l \in Lits}
           V == SUBSET (SUBSET U)
           step == [i \in 1 .. n |-> [v \in V |-> Resolve(t[i], v)]]
           Body(f, s) == IF s = {} THEN {C} ELSE Resolve(t[Min(s)], f[s \ {Min(s)}])
           it == CHOOSE f : f = [s \in SUBSET DOMAIN t |-> Body(f, s)]
<1>1. n \in Nat /\ DOMAIN t = 1 .. n /\ \A i \in 1 .. n : t[i] \in Lits
  BY LenProperties, ElementOfSeq
<1>2. \A i \in 1 .. n : \A v \in V : Resolve(t[i], v) \in V
  <2> SUFFICES ASSUME NEW i \in 1 .. n, NEW v \in V, NEW c \in v
               PROVE  (c \ {-t[i]}) \cup (db[reason[Var(t[i])]].lits \ {t[i]}) \in SUBSET U
    BY DEF Resolve
  <2>1. db[reason[Var(t[i])]].lits \subseteq U
    BY <1>1
  <2> QED
    BY <2>1
<1> HIDE DEF U
<1>3. step \in [1 .. n -> [V -> V]] /\ {C} \in V
  <2>1. {C} \in V
    BY DEF U
  <2> QED
    BY <1>2, <2>1
<1>4. \A i \in 1 .. n : \A v \in V : step[i][v] = Resolve(t[i], v)
  OBVIOUS
<1> HIDE DEF step, V
<1>5. PICK f \in [SUBSET (1 .. n) -> V] : IsRun(f, n, {C}, step)
  <2> HIDE DEF n
  <2>1. n \in Nat
    BY <1>1
  <2> QED
    BY ONLY <1>3, <2>1, RunExists
<1>6. f = [s \in SUBSET DOMAIN t |-> Body(f, s)]
  <2>1. ASSUME NEW s \in SUBSET (1 .. n) PROVE f[s] = Body(f, s)
    <3>1. CASE s = {}
      BY <1>5, <3>1 DEF IsRun
    <3>2. CASE s # {}
      <4>1. s \subseteq Nat
        BY <1>1
      <4>2. Min(s) \in 1 .. n
        BY <3>2, <4>1, MinOf
      <4>3. f[s \ {Min(s)}] \in V
        BY <1>5
      <4> QED
        BY <1>4, <1>5, <3>2, <4>2, <4>3 DEF IsRun
    <3> QED
      BY <3>1, <3>2
  <2> HIDE DEF Body
  <2> QED
    BY <1>1, <1>5, <2>1
<1>7. it = [s \in SUBSET DOMAIN t |-> Body(it, s)]
  <2> HIDE DEF Body
  <2> QED
    BY <1>6
<1>8. FoldRight(Resolve, t, {C}) = it[DOMAIN t]
  BY DEF FoldRight, MapThenFoldSet
<1> HIDE DEF it
<1>9. \A s \in SUBSET (1 .. n) : it[s] = Body(it, s)
  <2> HIDE DEF Body
  <2> QED
    BY <1>1, <1>7
<1> DEFINE run == [i \in 1 .. n + 1 |-> it[i .. n]]
<1>10. run[n + 1] = {C}
  <2>1. (n + 1) .. n = {} /\ {} \in SUBSET (1 .. n) /\ n + 1 \in 1 .. n + 1
    BY <1>1
  <2>2. it[{}] = Body(it, {})
    BY <1>9
  <2> QED
    BY <2>1, <2>2
<1>11. ASSUME NEW i \in 1 .. n PROVE run[i] = Resolve(t[i], run[i + 1])
  <2>1. i .. n # {} /\ i .. n \in SUBSET (1 .. n) /\ i + 1 \in 1 .. n + 1
    BY <1>1
  <2>2. it[i .. n] = Resolve(t[i], it[(i + 1) .. n])
    BY <1>1, <1>9, <2>1, FromMin
  <2> QED
    BY <1>1, <2>1, <2>2
<1>12. run[1] = it[DOMAIN t]
  BY <1>1
<1> QED
  BY <1>8, <1>10, <1>11, <1>12

\* The variables that final analysis has seen, from the assumption back.
LEMMA SeenRun ==
    ASSUME inst.vars \in Nat, NEW t \in Seq(Lits), NEW S, S \subseteq Vars
    PROVE  \E run : /\ run[Len(t) + 1] = S
                    /\ \A i \in 1 .. Len(t) : run[i] = SeenBefore(t[i], run[i + 1])
                    /\ run[1] = FoldRight(SeenBefore, t, S)
<1> DEFINE n == Len(t)
           U == Vars \cup UNION {{Var(k) : k \in db[reason[Var(l)]].lits} : l \in Lits}
           V == SUBSET U
           step == [i \in 1 .. n |-> [v \in V |-> SeenBefore(t[i], v)]]
           Body(f, s) == IF s = {} THEN S ELSE SeenBefore(t[Min(s)], f[s \ {Min(s)}])
           it == CHOOSE f : f = [s \in SUBSET DOMAIN t |-> Body(f, s)]
<1>1. n \in Nat /\ DOMAIN t = 1 .. n /\ \A i \in 1 .. n : t[i] \in Lits
  BY LenProperties, ElementOfSeq
<1>2. \A i \in 1 .. n : \A v \in V : SeenBefore(t[i], v) \in V
  <2> SUFFICES ASSUME NEW i \in 1 .. n, NEW v \in V
               PROVE  v \cup {Var(k) : k \in db[reason[Var(t[i])]].lits} \in SUBSET U
    BY DEF SeenBefore
  <2>1. {Var(k) : k \in db[reason[Var(t[i])]].lits} \subseteq U
    BY <1>1
  <2> QED
    BY <2>1
<1> HIDE DEF U
<1>3. step \in [1 .. n -> [V -> V]] /\ S \in V
  <2>1. S \in V
    BY DEF U
  <2> QED
    BY <1>2, <2>1
<1>4. \A i \in 1 .. n : \A v \in V : step[i][v] = SeenBefore(t[i], v)
  OBVIOUS
<1> HIDE DEF step, V
<1>5. PICK f \in [SUBSET (1 .. n) -> V] : IsRun(f, n, S, step)
  <2> HIDE DEF n
  <2>1. n \in Nat
    BY <1>1
  <2> QED
    BY ONLY <1>3, <2>1, RunExists
<1>6. f = [s \in SUBSET DOMAIN t |-> Body(f, s)]
  <2>1. ASSUME NEW s \in SUBSET (1 .. n) PROVE f[s] = Body(f, s)
    <3>1. CASE s = {}
      BY <1>5, <3>1 DEF IsRun
    <3>2. CASE s # {}
      <4>1. s \subseteq Nat
        BY <1>1
      <4>2. Min(s) \in 1 .. n
        BY <3>2, <4>1, MinOf
      <4>3. f[s \ {Min(s)}] \in V
        BY <1>5
      <4> QED
        BY <1>4, <1>5, <3>2, <4>2, <4>3 DEF IsRun
    <3> QED
      BY <3>1, <3>2
  <2> HIDE DEF Body
  <2> QED
    BY <1>1, <1>5, <2>1
<1>7. it = [s \in SUBSET DOMAIN t |-> Body(it, s)]
  <2> HIDE DEF Body
  <2> QED
    BY <1>6
<1>8. FoldRight(SeenBefore, t, S) = it[DOMAIN t]
  BY DEF FoldRight, MapThenFoldSet
<1> HIDE DEF it
<1>9. \A s \in SUBSET (1 .. n) : it[s] = Body(it, s)
  <2> HIDE DEF Body
  <2> QED
    BY <1>1, <1>7
<1> DEFINE run == [i \in 1 .. n + 1 |-> it[i .. n]]
<1>10. run[n + 1] = S
  <2>1. (n + 1) .. n = {} /\ {} \in SUBSET (1 .. n) /\ n + 1 \in 1 .. n + 1
    BY <1>1
  <2>2. it[{}] = Body(it, {})
    BY <1>9
  <2> QED
    BY <2>1, <2>2
<1>11. ASSUME NEW i \in 1 .. n PROVE run[i] = SeenBefore(t[i], run[i + 1])
  <2>1. i .. n # {} /\ i .. n \in SUBSET (1 .. n) /\ i + 1 \in 1 .. n + 1
    BY <1>1
  <2>2. it[i .. n] = SeenBefore(t[i], it[(i + 1) .. n])
    BY <1>1, <1>9, <2>1, FromMin
  <2> QED
    BY <1>1, <2>1, <2>2
<1>12. run[1] = it[DOMAIN t]
  BY <1>1
<1> QED
  BY <1>8, <1>10, <1>11, <1>12

(***************************************************************************)
(* Conflict analysis.                                                      *)
(***************************************************************************)
LEMMA Basics ==
    ASSUME IInv
    PROVE  /\ inst.vars \in Nat /\ Lits = LitsUpTo(inst.vars) /\ Vars = 1 .. inst.vars
           /\ inst.lemmas \subseteq (SUBSET Lits) \ {{}}
           /\ trail \in Seq(Lits) /\ Len(trail) \in Nat /\ DOMAIN trail = 1 .. Len(trail)
           /\ \A i \in 1 .. Len(trail) : trail[i] \in Lits
           /\ limits \in Seq(Nat) /\ Len(limits) \in Nat /\ DOMAIN limits = 1 .. Len(limits)
           /\ \A k \in 1 .. Len(limits) : limits[k] \in Nat /\ limits[k] < Len(trail)
           /\ db \in Seq(ClauseType(inst.vars)) /\ Len(db) \in Nat /\ DOMAIN db = 1 .. Len(db)
           /\ \A c \in 1 .. Len(db) : db[c] \in ClauseType(inst.vars) /\ db[c].lits \subseteq Lits
           /\ reason \in [Vars -> 0 .. Len(db)]
<1>1. inst \in Instances
  BY DEF IInv, ControlOK
<1>2. inst.vars \in Nat /\ inst.lemmas \subseteq (SUBSET LitsUpTo(inst.vars)) \ {{}}
  BY <1>1, CDCLAssumption
<1>3. /\ trail \in Seq(LitsUpTo(inst.vars)) /\ limits \in Seq(Nat) /\ db \in Seq(ClauseType(inst.vars))
      /\ \A k \in 1 .. Len(limits) : limits[k] < Len(trail)
      /\ reason \in [1 .. inst.vars -> 0 .. Len(db)]
  BY DEF IInv, TrailOK, DbOK, ReasonsOK
<1>4. /\ Len(trail) \in Nat /\ DOMAIN trail = 1 .. Len(trail)
      /\ \A i \in 1 .. Len(trail) : trail[i] \in LitsUpTo(inst.vars)
  BY <1>3, LenProperties, ElementOfSeq
<1>5. /\ Len(limits) \in Nat /\ DOMAIN limits = 1 .. Len(limits)
      /\ \A k \in 1 .. Len(limits) : limits[k] \in Nat
  BY <1>3, LenProperties, ElementOfSeq
<1>6. /\ Len(db) \in Nat /\ DOMAIN db = 1 .. Len(db)
      /\ \A c \in 1 .. Len(db) : db[c] \in ClauseType(inst.vars)
  BY <1>3, LenProperties, ElementOfSeq
<1>7. \A c \in 1 .. Len(db) : db[c].lits \subseteq LitsUpTo(inst.vars)
  BY <1>6 DEF ClauseType
<1> QED
  BY <1>2, <1>3, <1>4, <1>5, <1>6, <1>7 DEF Lits, Vars

LEMMA Levels ==
    ASSUME IInv
    PROVE  /\ TrailOK(inst.vars, trail, limits)
           /\ \A i \in Int : /\ LevelAt(i) \in 0 .. Len(limits)
                            /\ \A k \in 1 .. Len(limits) : k <= LevelAt(i) <=> limits[k] < i
           /\ \A j, k \in 1 .. Len(limits) : j <= k => limits[j] <= limits[k]
<1>1. TrailOK(inst.vars, trail, limits)
  BY DEF IInv
<1>2. \A j, k \in 1 .. Len(limits) : j <= k => limits[j] <= limits[k]
  BY <1>1, Basics DEF TrailOK
<1> QED
  BY <1>1, <1>2, LevelFacts

\* A literal is true in a total assignment, or its negation is.
LEMMA Total ==
    ASSUME inst.vars \in Nat, NEW m \in Valuations, NEW l \in Lits
    PROVE  l \in m <=> -l \notin m
<1>1. PICK V \in SUBSET Vars : m = {v : v \in V} \cup {-v : v \in Vars \ V}
  BY DEF Valuations
<1>2. \A k \in Int : k \in m <=> k \in V \/ -k \in Vars \ V
  BY <1>1 DEF Vars
<1>3. l \in Int /\ -l \in Int /\ (l \in Vars <=> -l \notin Vars) /\ -(-l) = l
  BY DEF Lits, LitsUpTo, Vars
<1> QED
  BY <1>2, <1>3

LEMMA KeptIsCut == \A n : Kept(n) = Cut(trail, limits, n)
  BY DEF Kept, Cut, DecisionLevel

\* What is left of a false clause is what has at most that level.
LEMMA KeptLevels ==
    ASSUME IInv, NEW n \in 0 .. Len(limits), NEW i \in 1 .. Len(trail)
    PROVE  i \in 1 .. Len(Kept(n)) <=> LevelAt(i) <= n
<1>1. Len(Kept(n)) = IF n < Len(limits) THEN limits[n + 1] ELSE Len(trail)
  BY Basics, KeptIsCut, CutFacts DEF IInv
<1>2. /\ LevelAt(i) \in 0 .. Len(limits)
      /\ \A k \in 1 .. Len(limits) : k <= LevelAt(i) <=> limits[k] < i
  BY Levels
<1>3. CASE n < Len(limits)
  <2>1. n + 1 \in 1 .. Len(limits) /\ limits[n + 1] \in Nat
    BY <1>3, Basics
  <2>2. n + 1 <= LevelAt(i) <=> limits[n + 1] < i
    BY <1>2, <2>1
  <2> QED
    BY <1>1, <1>2, <1>3, <2>1, <2>2
<1>4. CASE n = Len(limits)
  BY <1>1, <1>2, <1>4, Basics
<1>5. n < Len(limits) \/ n = Len(limits)
  <2>1. Len(limits) \in Nat
    BY Basics
  <2> QED
    BY <2>1
<1> QED
  BY <1>3, <1>4, <1>5

\* A clause on the way from the conflict to the clause learned, before the
\* literal at position i of the trail: the literals of the conflict's level that
\* are left are false before i, unless there is one only.
Midway(C, i) ==
    /\ C \subseteq Lits
    /\ \A l \in C : \E j \in 1 .. Len(Kept(MaxLevel(conflict))) : trail[j] = -l
    /\ \A m \in Models(Given) : C \cap m # {}
    /\ \E l \in C : Level(l) = MaxLevel(conflict)
    /\ \/ Cardinality(AtTop(C)) = 1
       \/ \A l \in AtTop(C) : \E j \in 1 .. i - 1 : trail[j] = -l

Analyzing == pc = "conflict" /\ DecisionLevel > 0 /\ MaxLevel(conflict) > 0

LEMMA ConflictFalse ==
    ASSUME IInv, pc = "conflict"
    PROVE  FalseIn(conflict) /\ conflict # {}
  BY DEF IInv, ConflictOK, ControlOK, FalseIn

LEMMA TopFacts ==
    ASSUME IInv, Analyzing
    PROVE  /\ MaxLevel(conflict) \in 1 .. Len(limits)
           /\ \E l \in conflict : Level(l) = MaxLevel(conflict)
           /\ \A l \in conflict : Level(l) <= MaxLevel(conflict)
           /\ Len(Kept(MaxLevel(conflict))) \in 0 .. Len(trail)
           /\ \A i \in 1 .. Len(Kept(MaxLevel(conflict))) : Kept(MaxLevel(conflict))[i] = trail[i]
           /\ Kept(MaxLevel(conflict)) \in Seq(Lits)
<1>1. /\ MaxLevel(conflict) \in 0 .. Len(limits)
      /\ \E l \in conflict : Level(l) = MaxLevel(conflict)
      /\ \A l \in conflict : Level(l) \in 0 .. MaxLevel(conflict)
  BY Basics, ConflictFalse, MaxLevelFacts DEF IInv, Analyzing
<1>2. MaxLevel(conflict) \in 1 .. Len(limits)
  BY <1>1, Basics DEF Analyzing
<1>3. /\ Cut(trail, limits, MaxLevel(conflict)) \in Seq(LitsUpTo(inst.vars))
      /\ Len(Cut(trail, limits, MaxLevel(conflict))) \in 0 .. Len(trail)
      /\ \A i \in 1 .. Len(Cut(trail, limits, MaxLevel(conflict))) :
            Cut(trail, limits, MaxLevel(conflict))[i] = trail[i]
  BY <1>1, Basics, CutFacts DEF IInv
<1>4. Kept(MaxLevel(conflict)) = Cut(trail, limits, MaxLevel(conflict))
  BY KeptIsCut
<1>5. LitsUpTo(inst.vars) = Lits
  BY Basics
<1>6. ASSUME NEW l \in conflict PROVE Level(l) <= MaxLevel(conflict)
  <2>1. Level(l) \in 0 .. MaxLevel(conflict)
    BY <1>1
  <2> QED
    BY <1>1, <2>1
<1>7. /\ Len(Kept(MaxLevel(conflict))) \in 0 .. Len(trail)
      /\ \A i \in 1 .. Len(Kept(MaxLevel(conflict))) : Kept(MaxLevel(conflict))[i] = trail[i]
      /\ Kept(MaxLevel(conflict)) \in Seq(Lits)
  BY <1>3, <1>4, <1>5
<1>8. \E l \in conflict : Level(l) = MaxLevel(conflict)
  BY <1>1
<1> QED
  BY <1>2, <1>6, <1>7, <1>8

LEMMA MidwayStart ==
    ASSUME IInv, Analyzing
    PROVE  Midway(conflict, Len(Kept(MaxLevel(conflict))) + 1)
<1> DEFINE n == Len(Kept(MaxLevel(conflict)))
<1>1. FalseIn(conflict)
  BY ConflictFalse DEF Analyzing
<1>2. ASSUME NEW l \in conflict PROVE \E j \in 1 .. n : trail[j] = -l
  <2>1. PICK j \in 1 .. Len(trail) : trail[j] = -l
    BY <1>1 DEF FalseIn
  <2>2. Level(l) = LevelAt(j)
    BY <1>1, <2>1, Basics, LevelOf DEF FalseIn, IInv
  <2>3. LevelAt(j) <= MaxLevel(conflict)
    BY <2>2, TopFacts
  <2>4. MaxLevel(conflict) \in 0 .. Len(limits)
    BY TopFacts, Basics
  <2>5. j \in 1 .. n
    BY <2>3, <2>4, KeptLevels
  <2> QED
    BY <2>1, <2>5
<1>3. n \in Nat /\ (n + 1) - 1 = n
  BY TopFacts, Basics
<1>4. \A l \in AtTop(conflict) : \E j \in 1 .. (n + 1) - 1 : trail[j] = -l
  BY <1>2, <1>3 DEF AtTop
<1>5. \A m \in Models(Given) : conflict \cap m # {}
  BY DEF IInv, ConflictOK, Analyzing
<1> QED
  BY <1>1, <1>2, <1>4, <1>5, TopFacts DEF Midway, FalseIn

LEMMA AtTopFinite ==
    ASSUME IInv, NEW C, C \subseteq Lits
    PROVE  IsFiniteSet(AtTop(C)) /\ Cardinality(AtTop(C)) \in Nat
<1>1. IsFiniteSet(Lits)
  BY Basics, LitsFinite
<1>2. AtTop(C) \subseteq Lits
  BY DEF AtTop
<1>3. IsFiniteSet(AtTop(C))
  BY <1>1, <1>2, FS_Subset
<1> QED
  BY <1>3, FS_CardinalityType

\* A resolution: the literal at position i has a reason, as another literal of
\* its level is false before it.
LEMMA MidwayResolved ==
    ASSUME IInv, Analyzing, NEW i \in 1 .. Len(Kept(MaxLevel(conflict))), NEW C, Midway(C, i + 1),
           -trail[i] \in C, Cardinality(AtTop(C)) # 1
    PROVE  Midway((C \ {-trail[i]}) \cup (db[reason[Var(trail[i])]].lits \ {trail[i]}), i)
<1> DEFINE top == MaxLevel(conflict)
           n == Len(Kept(top))
           p == trail[i]
           R == db[reason[Var(p)]].lits
           D == (C \ {-p}) \cup (R \ {p})
<1>1. n \in 0 .. Len(trail) /\ i \in 1 .. Len(trail) /\ top \in 1 .. Len(limits) /\ p \in Lits
  BY TopFacts, Basics
<1>2. \A l \in AtTop(C) : \E j \in 1 .. i : trail[j] = -l
  <2>1. (i + 1) - 1 = i
    BY <1>1
  <2> QED
    BY <2>1 DEF Midway
<1>3. PICK other \in AtTop(C) : other # -p
  <2>1. PICK l \in C : Level(l) = top
    BY DEF Midway
  <2>2. l \in AtTop(C)
    BY <2>1 DEF AtTop
  <2>3. AtTop(C) # {-p}
    BY FS_Singleton
  <2> QED
    BY <2>2, <2>3
<1>4. other \in Lits /\ other \in C /\ Level(other) = top
  BY <1>3 DEF AtTop, Midway
<1>5. PICK j \in 1 .. i : trail[j] = -other
  BY <1>2, <1>3
<1>6. j \in 1 .. i - 1
  <2>1. CASE j = i
    <3>1. p = -other
      BY <1>5, <2>1
    <3>2. -p = other
      BY <1>4, <3>1, Basics, LitFacts
    <3> QED
      BY <1>3, <3>2
  <2> QED
    BY <1>1, <2>1
<1>7. limits[top] \in Nat /\ limits[top] < j
  <2>1. Level(other) = LevelAt(j)
    BY <1>1, <1>4, <1>5, Basics, LevelOf DEF IInv
  <2>2. top <= LevelAt(j)
    BY <1>1, <1>4, <2>1, Basics
  <2> QED
    BY <1>1, <2>2, Basics, Levels
<1>8. LevelAt(i) = top
  <2>1. top \in 0 .. Len(limits)
    BY <1>1, Basics
  <2>2. LevelAt(i) <= top
    BY <1>1, <2>1, KeptLevels
  <2>3. top <= LevelAt(i)
    <3>1. limits[top] < i
      BY <1>1, <1>6, <1>7
    <3>2. \A k \in 1 .. Len(limits) : k <= LevelAt(i) <=> limits[k] < i
      BY <1>1, Levels
    <3> HIDE DEF top
    <3> QED
      BY <1>1, <3>1, <3>2
  <2>4. LevelAt(i) \in Int
    BY <1>1, Levels
  <2> QED
    BY <1>1, <2>2, <2>3, <2>4
<1>9. reason[Var(p)] # 0
  <2> SUFFICES ASSUME reason[Var(p)] = 0 PROVE FALSE
    OBVIOUS
  <2>1. CASE Ground(limits, i)
    <3>1. i <= limits[top]
      BY <1>1, <2>1 DEF Ground
    <3> QED
      BY <1>1, <1>6, <1>7, <3>1
  <2>2. CASE ~Ground(limits, i)
    <3>1. PICK k \in 1 .. Len(limits) : i = limits[k] + 1
      BY <1>1, <2>2 DEF IInv, DecisionsOK
    <3>2. limits[k] \in Nat /\ limits[k] < i
      BY <3>1, Basics
    <3>3. k <= top
      <4>1. k <= LevelAt(i) <=> limits[k] < i
        BY <1>1, Levels
      <4> QED
        BY <1>8, <3>2, <4>1
    <3>4. limits[k] <= limits[top]
      BY <1>1, <3>1, <3>3, Levels
    <3> QED
      BY <1>1, <1>6, <1>7, <3>1, <3>2, <3>4
  <2> QED
    BY <2>1, <2>2
<1>10. /\ reason[Var(p)] \in 1 .. Len(db) /\ p \in R /\ R \subseteq Lits
       /\ \A l \in R \ {p} : \E k \in 1 .. i - 1 : trail[k] = -l
  <2>1. Var(p) \in Vars
    BY <1>1, Basics, LitFacts
  <2>2. reason[Var(p)] \in 1 .. Len(db)
    BY <1>9, <2>1, Basics
  <2>3. Forces(db[reason[Var(p)]], trail, i)
    BY <1>1, <1>9 DEF IInv, ReasonsOK
  <2> QED
    BY <2>2, <2>3, Basics DEF Forces
<1> HIDE DEF R
<1>11. D \subseteq Lits
  BY <1>10 DEF Midway
<1>12. \A l \in D : \E k \in 1 .. n : trail[k] = -l
  <2> SUFFICES ASSUME NEW l \in D PROVE \E k \in 1 .. n : trail[k] = -l
    OBVIOUS
  <2>1. CASE l \in C
    BY <2>1 DEF Midway
  <2>2. CASE l \in R \ {p}
    <3>1. PICK k \in 1 .. i - 1 : trail[k] = -l
      BY <1>10, <2>2
    <3>2. k \in 1 .. n
      BY <1>1
    <3> QED
      BY <3>1, <3>2
  <2> QED
    BY <2>1, <2>2
<1>13. ASSUME NEW m \in Models(Given) PROVE D \cap m # {}
  <2>1. PICK k \in C : k \in m
    BY <1>13 DEF Midway
  <2>2. CASE k # -p
    BY <2>1, <2>2
  <2>3. CASE k = -p
    <3>1. p \notin m
      <4>1. m \in Valuations
        BY <1>13 DEF Models
      <4> QED
        BY <1>1, <2>1, <2>3, <4>1, Basics, Total
    <3>2. R \cap m # {}
      BY <1>10, <1>13 DEF R, IInv, FollowOK
    <3> QED
      BY <3>1, <3>2
  <2> QED
    BY <2>2, <2>3
<1>14. \E l \in D : Level(l) = top
  BY <1>3, <1>4
<1>15. ASSUME NEW l \in AtTop(D) PROVE \E k \in 1 .. i - 1 : trail[k] = -l
  <2>1. l \in D /\ Level(l) = top
    BY <1>15 DEF AtTop
  <2>2. CASE l \in R \ {p}
    BY <1>10, <2>2
  <2>3. CASE l \in C /\ l # -p
    <3>1. l \in AtTop(C) /\ l \in Lits
      BY <2>1, <2>3 DEF AtTop, Midway
    <3>2. PICK k \in 1 .. i : trail[k] = -l
      BY <1>2, <3>1
    <3>3. k # i
      <4> SUFFICES ASSUME k = i PROVE FALSE
        OBVIOUS
      <4>1. p = -l
        BY <3>2
      <4>2. -p = l
        BY <3>1, <4>1, Basics, LitFacts
      <4> QED
        BY <2>3, <4>2
    <3>4. k \in 1 .. i - 1
      BY <1>1, <3>3
    <3> QED
      BY <3>2, <3>4
  <2> QED
    BY <2>1, <2>2, <2>3
<1>16. Midway(D, i)
  <2> HIDE DEF D
  <2> QED
    BY <1>11, <1>12, <1>13, <1>14, <1>15 DEF Midway
<1> QED
  BY <1>16 DEF R

LEMMA MidwayStep ==
    ASSUME IInv, Analyzing, NEW i \in 1 .. Len(Kept(MaxLevel(conflict))), NEW C, Midway(C, i + 1)
    PROVE  \E D : Resolve(trail[i], {C}) = {D} /\ Midway(D, i)
<1> DEFINE p == trail[i]
           E == (C \ {-p}) \cup (db[reason[Var(p)]].lits \ {p})
<1>1. i \in 1 .. Len(trail)
  BY TopFacts, Basics
<1>2. Resolve(p, {C}) = {IF -p \notin C \/ Cardinality(AtTop(C)) = 1 THEN C ELSE E}
  BY DEF Resolve
<1>3. CASE -p \in C /\ Cardinality(AtTop(C)) # 1
  <2>1. Resolve(p, {C}) = {E}
    BY <1>2, <1>3
  <2>2. Midway(E, i)
    BY <1>3, MidwayResolved
  <2> QED
    BY <2>1, <2>2
<1>4. CASE -p \notin C \/ Cardinality(AtTop(C)) = 1
  <2>1. Resolve(p, {C}) = {C}
    BY <1>2, <1>4
  <2>2. Midway(C, i)
    <3>1. CASE Cardinality(AtTop(C)) = 1
      BY <3>1 DEF Midway
    <3>2. CASE Cardinality(AtTop(C)) # 1
      <4>1. ASSUME NEW l \in AtTop(C) PROVE \E j \in 1 .. i - 1 : trail[j] = -l
        <5>1. l \in C /\ l \in Lits
          BY DEF AtTop, Midway
        <5>2. (i + 1) - 1 = i
          BY <1>1
        <5>3. PICK j \in 1 .. i : trail[j] = -l
          BY <3>2, <5>2 DEF Midway
        <5>4. j # i
          <6> SUFFICES ASSUME j = i PROVE FALSE
            OBVIOUS
          <6>1. -p = l
            BY <5>1, <5>3, Basics, LitFacts
          <6> QED
            BY <1>4, <3>2, <5>1, <6>1
        <5>5. j \in 1 .. i - 1
          BY <1>1, <5>4
        <5> QED
          BY <5>3, <5>5
      <4> QED
        BY <4>1 DEF Midway
    <3> QED
      BY <3>1, <3>2
  <2> QED
    BY <2>1, <2>2
<1> QED
  BY <1>3, <1>4

LEMMA MidwayEnd ==
    ASSUME IInv, Analyzing
    PROVE  \E C : /\ FoldRight(Resolve, Kept(MaxLevel(conflict)), {conflict}) = {C}
                  /\ Midway(C, 1)
<1> DEFINE t == Kept(MaxLevel(conflict))
           n == Len(t)
<1>1. t \in Seq(Lits) /\ n \in Nat /\ \A i \in 1 .. n : t[i] = trail[i]
  BY TopFacts, Basics
<1>2. conflict \subseteq Lits
  BY ConflictFalse DEF FalseIn, Analyzing
<1>3. PICK run : /\ run[n + 1] = {conflict}
                 /\ \A i \in 1 .. n : run[i] = Resolve(t[i], run[i + 1])
                 /\ run[1] = FoldRight(Resolve, t, {conflict})
  BY <1>1, <1>2, Basics, ResolveRun
<1> DEFINE Good(i) == \E C : run[i] = {C} /\ Midway(C, i)
           Bad == {k \in 0 .. n : ~Good(n + 1 - k)}
<1>4. Good(n + 1)
  BY <1>3, MidwayStart
<1>5. ASSUME NEW i \in 1 .. n, Good(i + 1) PROVE Good(i)
  <2>1. PICK C : run[i + 1] = {C} /\ Midway(C, i + 1)
    BY <1>5
  <2>2. PICK D : Resolve(trail[i], {C}) = {D} /\ Midway(D, i)
    BY <2>1, MidwayStep
  <2>3. run[i] = {D}
    BY <1>1, <1>3, <2>1, <2>2
  <2> QED
    BY <2>2, <2>3
<1> HIDE DEF Good, n
<1>6. Bad = {}
  <2> SUFFICES ASSUME Bad # {} PROVE FALSE
    OBVIOUS
  <2>1. Bad \subseteq Nat
    BY <1>1
  <2>2. PICK k \in Bad : \A j \in Bad : k <= j
    <3> HIDE DEF Bad
    <3> QED
      BY <2>1, LeastOf
  <2>3. k \in 0 .. n /\ ~Good(n + 1 - k)
    OBVIOUS
  <2>4. k # 0
    <3> SUFFICES ASSUME k = 0 PROVE FALSE
      OBVIOUS
    <3>1. n + 1 - k = n + 1
      BY <1>1
    <3> QED
      BY <1>4, <2>3, <3>1
  <2>5. k - 1 \in 0 .. n /\ k - 1 < k
    BY <1>1, <2>3, <2>4
  <2>6. Good(n + 1 - (k - 1))
    BY <2>2, <2>5
  <2>7. n + 1 - k \in 1 .. n /\ n + 1 - (k - 1) = (n + 1 - k) + 1
    BY <1>1, <2>3, <2>4
  <2>8. Good((n + 1 - k) + 1)
    BY <2>6, <2>7
  <2> QED
    BY <1>5, <2>3, <2>7, <2>8
<1>7. Good(1)
  <2>1. n \in 0 .. n /\ n + 1 - n = 1
    BY <1>1
  <2> QED
    BY <1>6, <2>1
<1> QED
  BY <1>3, <1>7 DEF Good

\* The clause learned: it is false, follows, has one literal of the conflict's
\* level, and the levels of the others are lower but not 0.
LEMMA LearnedFacts ==
    ASSUME IInv, Analyzing
    PROVE  /\ Learned \subseteq Lits
           /\ \A k \in Learned : /\ \E j \in 1 .. Len(trail) : trail[j] = -k
                                 /\ Level(k) \in 1 .. MaxLevel(conflict)
           /\ \A m \in Models(Given) : Learned \cap m # {}
           /\ \E l \in Learned : AtTop(Learned) = {l}
<1> DEFINE top == MaxLevel(conflict)
           n == Len(Kept(top))
<1>1. PICK C : FoldRight(Resolve, Kept(top), {conflict}) = {C} /\ Midway(C, 1)
  BY MidwayEnd
<1>2. Learned = {l \in C : Level(l) > 0}
  <2>1. UNION {C} = C
    OBVIOUS
  <2> QED
    BY <1>1, <2>1 DEF Learned
<1>3. C \subseteq Lits /\ Learned \subseteq C
  BY <1>1, <1>2 DEF Midway
<1>4. ASSUME NEW k \in C
      PROVE  \E j \in 1 .. Len(trail) : trail[j] = -k /\ Level(k) = LevelAt(j) /\ LevelAt(j) \in 0 .. top
  <2>1. PICK j \in 1 .. n : trail[j] = -k
    BY <1>1 DEF Midway
  <2>2. j \in 1 .. Len(trail) /\ top \in 0 .. Len(limits)
    BY TopFacts, Basics
  <2>3. Level(k) = LevelAt(j)
    BY <1>3, <2>1, <2>2, Basics, LevelOf, Levels
  <2>4. LevelAt(j) <= top /\ LevelAt(j) \in 0 .. Len(limits)
    BY <2>2, KeptLevels, Levels
  <2> QED
    BY <2>1, <2>2, <2>3, <2>4
<1>5. \A k \in Learned : /\ \E j \in 1 .. Len(trail) : trail[j] = -k
                         /\ Level(k) \in 1 .. top
  BY <1>2, <1>3, <1>4
<1>6. ASSUME NEW m \in Models(Given) PROVE Learned \cap m # {}
  <2>1. PICK k \in C : k \in m
    BY <1>1 DEF Midway
  <2>2. PICK j \in 1 .. Len(trail) : trail[j] = -k /\ Level(k) = LevelAt(j) /\ LevelAt(j) \in 0 .. top
    BY <1>4
  <2>3. Level(k) # 0
    <3> SUFFICES ASSUME Level(k) = 0 PROVE FALSE
      OBVIOUS
    <3>1. \A q \in 1 .. Len(limits) : j <= limits[q]
      <4>1. \A q \in 1 .. Len(limits) : q <= LevelAt(j) <=> limits[q] < j
        <5>1. j \in Int
          OBVIOUS
        <5>2. \A h \in Int : \A q \in 1 .. Len(limits) : q <= LevelAt(h) <=> limits[q] < h
          BY Levels
        <5> QED
          BY ONLY <5>1, <5>2
      <4>2. \A q \in 1 .. Len(limits) : limits[q] \in Nat
        BY Basics
      <4> QED
        BY <2>2, <4>1, <4>2
    <3>2. trail[j] \in m
      BY <1>6, <3>1 DEF IInv, GroundOK, Ground
    <3>3. m \in Valuations
      BY <1>6 DEF Models
    <3> QED
      BY <1>3, <2>1, <2>2, <3>2, <3>3, Basics, Total
  <2>4. k \in Learned
    BY <1>2, <2>2, <2>3
  <2> QED
    BY <2>1, <2>4
<1>7. AtTop(Learned) = AtTop(C)
  <2>1. top > 0
    BY DEF Analyzing
  <2> QED
    BY <1>2, <2>1 DEF AtTop
<1>8. Cardinality(AtTop(C)) = 1
  <2> SUFFICES ASSUME Cardinality(AtTop(C)) # 1 PROVE FALSE
    OBVIOUS
  <2>1. PICK l \in C : Level(l) = top
    BY <1>1 DEF Midway
  <2>2. l \in AtTop(C)
    BY <2>1 DEF AtTop
  <2>3. \E j \in 1 .. 1 - 1 : trail[j] = -l
    BY <1>1, <2>2 DEF Midway
  <2> QED
    BY <2>3
<1>9. \E l : AtTop(C) = {l}
  <2>1. IsFiniteSet(AtTop(C))
    BY <1>3, AtTopFinite
  <2> QED
    BY <1>8, <2>1, FS_Singleton
<1>10. \E l \in Learned : AtTop(Learned) = {l}
  <2>1. AtTop(Learned) \subseteq Learned
    BY DEF AtTop
  <2> QED
    BY <1>7, <1>9, <2>1
<1> QED
  BY <1>3, <1>5, <1>6, <1>10


(***************************************************************************)
(* The invariant's parts together, under the changes that steps make.      *)
(***************************************************************************)
Shape(N, t, lim, r, d, A, M) ==
    /\ TrailOK(N, t, lim) /\ DbOK(N, d) /\ ReasonsOK(N, t, r, d)
    /\ DecisionsOK(t, lim, r, A) /\ GroundOK(t, lim, M) /\ FollowOK(d, M)

LEMMA ShapeCut ==
    ASSUME NEW N \in Nat, NEW t, NEW lim, NEW r, NEW d, NEW A, NEW M, Shape(N, t, lim, r, d, A, M),
           NEW n \in 0 .. Len(lim)
    PROVE  Shape(N, Cut(t, lim, n), LimitsTo(lim, n), Retained(N, Cut(t, lim, n), r), d, A, M)
<1>1. Len(d) \in Nat
  BY LenProperties DEF Shape, DbOK
<1>2. TrailOK(N, Cut(t, lim, n), LimitsTo(lim, n))
  BY CutFacts DEF Shape
<1>3. ReasonsOK(N, Cut(t, lim, n), Retained(N, Cut(t, lim, n), r), d)
  BY <1>1, ReasonsCut DEF Shape
<1>4. DecisionsOK(Cut(t, lim, n), LimitsTo(lim, n), Retained(N, Cut(t, lim, n), r), A)
  BY DecisionsCut DEF Shape
<1>5. GroundOK(Cut(t, lim, n), LimitsTo(lim, n), M)
  BY GroundCut DEF Shape
<1> QED
  BY <1>2, <1>3, <1>4, <1>5 DEF Shape

\* A literal of level 0 is added that holds in every model.
LEMMA ShapeUnit ==
    ASSUME NEW N \in Nat, NEW t, NEW lim, NEW r, NEW d, NEW A, NEW M, Shape(N, t, lim, r, d, A, M),
           NEW l \in LitsUpTo(N), Fresh(t, l), Len(lim) = 0, \A m \in M : l \in m
    PROVE  Shape(N, Append(t, l), lim, [r EXCEPT ![Var(l)] = 0], d, A, M)
<1>1. Len(d) \in Nat /\ r \in [1 .. N -> Nat] /\ 0 \in 0 .. Len(d)
  BY LenProperties DEF Shape, DbOK, ReasonsOK
<1>2. TrailOK(N, Append(t, l), lim)
  BY GrowTrail DEF Shape
<1>3. ReasonsOK(N, Append(t, l), [r EXCEPT ![Var(l)] = 0], d)
  BY <1>1, ReasonsGrow DEF Shape
<1>4. DecisionsOK(Append(t, l), lim, [r EXCEPT ![Var(l)] = 0], A)
  BY <1>1, DecisionsGrow DEF Shape
<1>5. GroundOK(Append(t, l), lim, M)
  BY GroundGrow DEF Shape
<1> QED
  BY <1>2, <1>3, <1>4, <1>5 DEF Shape

\* A literal is added that a clause forces.
LEMMA ShapeForced ==
    ASSUME inst.vars \in Nat, NEW t, NEW lim, NEW r, NEW d, NEW A,
           NEW M \in SUBSET Valuations, Shape(inst.vars, t, lim, r, d, A, M),
           NEW l \in Lits, Fresh(t, l), NEW c \in 1 .. Len(d), Forces(d[c], Append(t, l), Len(t) + 1)
    PROVE  Shape(inst.vars, Append(t, l), lim, [r EXCEPT ![Var(l)] = c], d, A, M)
<1>1. Len(d) \in Nat /\ r \in [1 .. inst.vars -> Nat] /\ c \in 0 .. Len(d) /\ c \in Nat /\ c # 0
  BY LenProperties DEF Shape, DbOK, ReasonsOK
<1>2. l \in LitsUpTo(inst.vars)
  BY DEF Lits
<1>3. TrailOK(inst.vars, Append(t, l), lim)
  BY <1>2, GrowTrail DEF Shape
<1>4. ReasonsOK(inst.vars, Append(t, l), [r EXCEPT ![Var(l)] = c], d)
  BY <1>1, <1>2, ReasonsGrow DEF Shape
<1>5. DecisionsOK(Append(t, l), lim, [r EXCEPT ![Var(l)] = c], A)
  BY <1>1, <1>2, DecisionsGrow DEF Shape
<1>6. ASSUME Len(lim) = 0, NEW m \in M PROVE l \in m
  <2>1. PICK k \in d[c].lits : k \in m
    BY DEF Shape, FollowOK
  <2>2. CASE k # l
    <3>1. t \in Seq(Lits) /\ Len(t) \in Nat
      BY LenProperties DEF Shape, TrailOK, Lits
    <3>2. /\ Append(t, l)[Len(t) + 1] = l
          /\ \A i \in 1 .. Len(t) : Append(t, l)[i] = t[i]
      BY <1>2, GrowTrail DEF Shape
    <3>3. PICK j \in 1 .. (Len(t) + 1) - 1 : Append(t, l)[j] = -k
      BY <2>1, <2>2, <3>2 DEF Forces
    <3>4. j \in 1 .. Len(t) /\ t[j] = -k
      BY <3>1, <3>2, <3>3
    <3>5. Ground(lim, j)
      BY <1>6 DEF Ground
    <3>6. -k \in m
      BY <1>6, <3>4, <3>5 DEF Shape, GroundOK
    <3>7. k \in Lits
      <4>1. d[c] \in ClauseType(inst.vars)
        BY ElementOfSeq DEF Shape, DbOK
      <4> QED
        BY <2>1, <4>1 DEF ClauseType, Lits
    <3> QED
      BY <2>1, <3>6, <3>7, Total
  <2>3. CASE k = l
    BY <2>1, <2>3
  <2> QED
    BY <2>2, <2>3
<1>7. GroundOK(Append(t, l), lim, M)
  BY <1>2, <1>6, GroundGrow DEF Shape
<1> QED
  BY <1>3, <1>4, <1>5, <1>7 DEF Shape

\* A decision.
LEMMA ShapeOpen ==
    ASSUME NEW N \in Nat, NEW t, NEW lim, NEW r, NEW d, NEW A, NEW M, Shape(N, t, lim, r, d, A, M),
           NEW l \in LitsUpTo(N), Fresh(t, l), l \in A \/ \A a \in A : \E j \in 1 .. Len(t) : t[j] = a
    PROVE  Shape(N, Append(t, l), Append(lim, Len(t)), [r EXCEPT ![Var(l)] = 0], d, A, M)
<1>1. Len(d) \in Nat /\ r \in [1 .. N -> Nat] /\ 0 \in 0 .. Len(d)
  BY LenProperties DEF Shape, DbOK, ReasonsOK
<1>2. TrailOK(N, Append(t, l), Append(lim, Len(t)))
  BY GrowTrail DEF Shape
<1>3. ReasonsOK(N, Append(t, l), [r EXCEPT ![Var(l)] = 0], d)
  BY <1>1, ReasonsGrow DEF Shape
<1>4. DecisionsOK(Append(t, l), Append(lim, Len(t)), [r EXCEPT ![Var(l)] = 0], A)
  BY <1>1, DecisionsOpen DEF Shape
<1>5. GroundOK(Append(t, l), Append(lim, Len(t)), M)
  BY GroundOpen DEF Shape
<1> QED
  BY <1>2, <1>3, <1>4, <1>5 DEF Shape

LEMMA ShapeExtend ==
    ASSUME NEW N \in Nat, NEW t, NEW lim, NEW r, NEW d, NEW A, NEW M, Shape(N, t, lim, r, d, A, M),
           NEW x \in ClauseType(N), ClauseOK(x), \A m \in M : x.lits \cap m # {}
    PROVE  Shape(N, t, lim, r, Append(d, x), A, M)
<1> DEFINE e == Append(d, x)
<1>1. /\ DbOK(N, e) /\ Len(e) = Len(d) + 1 /\ Len(d) \in Nat
      /\ \A c \in 1 .. Len(d) : e[c] = d[c]
      /\ e[Len(d) + 1] = x
  BY ExtendedFacts, LenProperties DEF Shape, DbOK
<1>2. \A i \in 1 .. Len(t) : Var(t[i]) \in 1 .. N
  BY ElementOfSeq, LitFacts DEF Shape, TrailOK
<1> HIDE DEF e
<1>3. ReasonsOK(N, t, r, e)
  <2>1. ReasonsOK(N, t, r, d) /\ Len(e) \in Nat /\ Len(d) <= Len(e)
    BY <1>1 DEF Shape
  <2> QED
    BY ONLY <1>1, <1>2, <2>1, ReasonsOther
<1>4. FollowOK(e, M)
  <2>1. \A c \in 1 .. Len(e) : c = Len(d) + 1 \/ c \in 1 .. Len(d)
    BY <1>1
  <2> QED
    BY <1>1, <2>1 DEF Shape, FollowOK
<1>5. Shape(N, t, lim, r, e, A, M)
  BY <1>1, <1>3, <1>4 DEF Shape
<1> QED
  BY <1>5 DEF e

\* A clause that _reduce_db could delete keeps its first watch while it is a reason.
LEMMA ShapeRewatch ==
    ASSUME NEW N \in Nat, NEW t, NEW lim, NEW r, NEW d, NEW A, NEW M, Shape(N, t, lim, r, d, A, M),
           NEW c \in 1 .. Len(d), NEW k \in d[c].lits, NEW l \in d[c].lits, k # l,
           k = d[c].watch[1] \/ ~d[c].learned \/ d[c].keep \/ \A i \in 1 .. Len(t) : r[Var(t[i])] # c
    PROVE  Shape(N, t, lim, r, Rewatched(d, c, <<k, l>>), A, M)
<1> DEFINE e == Rewatched(d, c, <<k, l>>)
<1>1. /\ DbOK(N, e) /\ Len(e) = Len(d) /\ Len(d) \in Nat
      /\ \A b \in 1 .. Len(d) : b # c => e[b] = d[b]
      /\ e[c].lits = d[c].lits /\ e[c].watch[1] = k
      /\ e[c].learned = d[c].learned /\ e[c].keep = d[c].keep /\ e[c].deleted = d[c].deleted
  BY RewatchedFacts, LenProperties DEF Shape, DbOK
<1>2. \A i \in 1 .. Len(t) : Var(t[i]) \in 1 .. N
  BY ElementOfSeq, LitFacts DEF Shape, TrailOK
<1> HIDE DEF e
<1>3. ReasonsOK(N, t, r, e)
  <2>1. ReasonsOK(N, t, r, d) /\ Len(e) \in Nat /\ Len(d) <= Len(e)
    BY <1>1 DEF Shape
  <2>2. ASSUME NEW i \in 1 .. Len(t), r[Var(t[i])] \in 1 .. Len(d)
        PROVE  LET b == r[Var(t[i])]
               IN  /\ e[b].lits = d[b].lits /\ e[b].deleted = d[b].deleted
                   /\ e[b].learned = d[b].learned /\ e[b].keep = d[b].keep
                   /\ (d[b].learned /\ ~d[b].keep => e[b].watch[1] = d[b].watch[1])
    <3>1. CASE r[Var(t[i])] = c
      BY <1>1, <2>2, <3>1
    <3>2. CASE r[Var(t[i])] # c
      BY <1>1, <2>2, <3>2
    <3> QED
      BY <3>1, <3>2
  <2> QED
    BY ONLY <1>1, <1>2, <2>1, <2>2, ReasonsOther
<1>4. FollowOK(e, M)
  BY <1>1 DEF Shape, FollowOK
<1>5. Shape(N, t, lim, r, e, A, M)
  BY <1>1, <1>3, <1>4 DEF Shape
<1> QED
  BY <1>5 DEF e

LEMMA ShapeDelete ==
    ASSUME NEW N \in Nat, NEW t, NEW lim, NEW r, NEW d, NEW A, NEW M, Shape(N, t, lim, r, d, A, M),
           NEW D, D \subseteq Deletable(d, r)
    PROVE  Shape(N, t, lim, r, Delete(d, D), A, M)
<1>1. \A c \in D : d[c].learned
  BY DEF Deletable
<1>2. /\ DbOK(N, Delete(d, D)) /\ Len(Delete(d, D)) = Len(d)
      /\ \A c \in 1 .. Len(d) : Delete(d, D)[c].lits = d[c].lits
  BY <1>1, DeleteFacts DEF Shape
<1>3. ReasonsOK(N, t, r, Delete(d, D))
  BY ReasonsDelete DEF Shape
<1> QED
  BY <1>2, <1>3 DEF Shape, FollowOK

\* The watches, under the same changes.
LEMMA WatchesCut ==
    ASSUME NEW N \in Nat, NEW t, NEW lim, TrailOK(N, t, lim), NEW d, NEW E, NEW P, NEW Q,
           NEW q \in Int, WatchesOK(t, lim, d, E, q, P), NEW n \in 0 .. Len(lim),
           NEW p \in Int, p <= Len(Cut(t, lim, n)), p <= q, P # {} => p <= q - 1
    PROVE  WatchesOK(Cut(t, lim, n), LimitsTo(lim, n), d, E, p, Q)
<1> SUFFICES ASSUME NEW c \in 1 .. Len(d), ~d[c].deleted, d[c].lits \notin E
             PROVE  Watched(Cut(t, lim, n), LimitsTo(lim, n), d[c], IF c \in Q THEN p - 1 ELSE p)
  BY DEF WatchesOK
<1>1. Watched(t, lim, d[c], IF c \in P THEN q - 1 ELSE q)
  BY DEF WatchesOK
<1> DEFINE q1 == IF c \in P THEN q - 1 ELSE q
           p1 == IF c \in Q THEN p - 1 ELSE p
<1>2. q1 \in Int /\ p1 \in Int /\ p1 <= q1 /\ Len(Cut(t, lim, n)) \in Int /\ p1 <= Len(Cut(t, lim, n))
  BY CutFacts, LenProperties DEF TrailOK
<1> HIDE DEF q1, p1
<1>3. Watched(t, lim, d[c], q1)
  BY <1>1 DEF q1
<1>4. Watched(Cut(t, lim, n), LimitsTo(lim, n), d[c], p1)
  BY <1>2, <1>3, WatchedCut
<1> QED
  BY <1>4 DEF p1

LEMMA WatchesGrow ==
    ASSUME NEW N \in Nat, NEW t, NEW lim, TrailOK(N, t, lim), NEW d, NEW E, NEW P,
           NEW q \in Int, q <= Len(t), WatchesOK(t, lim, d, E, q, P),
           NEW l \in LitsUpTo(N), Fresh(t, l)
    PROVE  /\ WatchesOK(Append(t, l), lim, d, E, q, P)
           /\ WatchesOK(Append(t, l), Append(lim, Len(t)), d, E, q, P)
<1>1. Len(t) \in Nat
  BY LenProperties DEF TrailOK
<1>2. ASSUME NEW c \in 1 .. Len(d), ~d[c].deleted, d[c].lits \notin E
      PROVE  /\ Watched(Append(t, l), lim, d[c], IF c \in P THEN q - 1 ELSE q)
             /\ Watched(Append(t, l), Append(lim, Len(t)), d[c], IF c \in P THEN q - 1 ELSE q)
  <2> DEFINE q1 == IF c \in P THEN q - 1 ELSE q
  <2>1. q1 \in Int /\ q1 <= Len(t)
    BY <1>1
  <2>2. Watched(t, lim, d[c], q1)
    BY <1>2 DEF WatchesOK
  <2> HIDE DEF q1
  <2>3. /\ Watched(Append(t, l), lim, d[c], q1)
        /\ Watched(Append(t, l), Append(lim, Len(t)), d[c], q1)
    BY <2>1, <2>2, WatchedGrow
  <2> QED
    BY <2>3 DEF q1
<1> QED
  BY <1>2 DEF WatchesOK

\* A database that has no other clauses to watch, and the same watches of those.
LEMMA WatchesOther ==
    ASSUME NEW t, NEW lim, NEW d, NEW e, NEW E, NEW P, NEW Q, NEW q,
           WatchesOK(t, lim, d, E, q, P),
           \A c \in 1 .. Len(e) : ~e[c].deleted /\ e[c].lits \notin E =>
               \/ Watched(t, lim, e[c], IF c \in Q THEN q - 1 ELSE q)
               \/ /\ c \in 1 .. Len(d) /\ ~d[c].deleted /\ e[c].lits = d[c].lits
                  /\ e[c].watch = d[c].watch /\ (c \in P <=> c \in Q)
    PROVE  WatchesOK(t, lim, e, E, q, Q)
<1> SUFFICES ASSUME NEW c \in 1 .. Len(e), ~e[c].deleted, e[c].lits \notin E
             PROVE  Watched(t, lim, e[c], IF c \in Q THEN q - 1 ELSE q)
  BY DEF WatchesOK
<1>1. CASE Watched(t, lim, e[c], IF c \in Q THEN q - 1 ELSE q)
  BY <1>1
<1>2. CASE /\ c \in 1 .. Len(d) /\ ~d[c].deleted /\ e[c].lits = d[c].lits
           /\ e[c].watch = d[c].watch /\ (c \in P <=> c \in Q)
  <2>1. Watched(t, lim, d[c], IF c \in P THEN q - 1 ELSE q)
    BY <1>2 DEF WatchesOK
  <2> QED
    BY <1>2, <2>1 DEF Watched
<1> QED
  BY <1>1, <1>2

\* The clauses given, under the same changes.
LEMMA GivenCut ==
    ASSUME NEW N \in Nat, NEW t, NEW lim, TrailOK(N, t, lim), NEW d, NEW C, GivenOK(t, lim, d, C),
           NEW n \in 0 .. Len(lim)
    PROVE  GivenOK(Cut(t, lim, n), LimitsTo(lim, n), d, C)
<1>1. CASE Len(C) = 1
  <2>1. PICK j \in 1 .. Len(t) : t[j] = C[1] /\ Ground(lim, j)
    BY <1>1 DEF GivenOK
  <2>2. Len(Cut(t, lim, n)) = IF n < Len(lim) THEN lim[n + 1] ELSE Len(t)
    BY CutFacts
  <2>3. Len(lim) \in Nat
    BY LenProperties DEF TrailOK
  <2>4. j \in 1 .. Len(Cut(t, lim, n))
    <3>1. CASE n < Len(lim)
      <4>1. n + 1 \in 1 .. Len(lim)
        BY <2>3, <3>1
      <4>2. lim[n + 1] \in Nat
        BY <4>1, ElementOfSeq DEF TrailOK
      <4>3. j <= lim[n + 1]
        BY <2>1, <4>1 DEF Ground
      <4> QED
        BY <2>2, <3>1, <4>2, <4>3
    <3>2. CASE ~(n < Len(lim))
      BY <2>2, <3>2
    <3> QED
      BY <3>1, <3>2
  <2>5. Cut(t, lim, n)[j] = C[1]
    BY <2>1, <2>4, CutFacts
  <2>6. Ground(LimitsTo(lim, n), j)
    BY <2>1, <2>3, CutFacts DEF Ground
  <2> QED
    BY <1>1, <2>4, <2>5, <2>6 DEF GivenOK
<1>2. CASE Len(C) # 1
  BY <1>2 DEF GivenOK
<1> QED
  BY <1>1, <1>2

LEMMA GivenGrow ==
    ASSUME NEW N \in Nat, NEW t, NEW lim, TrailOK(N, t, lim), NEW d, NEW C, GivenOK(t, lim, d, C),
           NEW l \in LitsUpTo(N), Fresh(t, l)
    PROVE  /\ GivenOK(Append(t, l), lim, d, C)
           /\ GivenOK(Append(t, l), Append(lim, Len(t)), d, C)
<1>1. CASE Len(C) = 1
  <2>1. PICK j \in 1 .. Len(t) : t[j] = C[1] /\ Ground(lim, j)
    BY <1>1 DEF GivenOK
  <2>2. Len(lim) \in Nat /\ Len(t) \in Nat /\ lim \in Seq(Nat)
    BY LenProperties DEF TrailOK
  <2>3. j \in 1 .. Len(Append(t, l)) /\ Append(t, l)[j] = C[1]
    BY <2>1, <2>2, GrowTrail
  <2>4. /\ Len(Append(lim, Len(t))) = Len(lim) + 1
        /\ \A k \in 1 .. Len(lim) : Append(lim, Len(t))[k] = lim[k]
        /\ Append(lim, Len(t))[Len(lim) + 1] = Len(t)
    BY <2>2, AppendProperties
  <2>5. \A k \in 1 .. Len(lim) + 1 : k \in 1 .. Len(lim) \/ k = Len(lim) + 1
    BY <2>2
  <2>6. Ground(Append(lim, Len(t)), j)
    BY <2>1, <2>4, <2>5 DEF Ground
  <2> QED
    BY <1>1, <2>1, <2>3, <2>6 DEF GivenOK
<1>2. CASE Len(C) # 1
  BY <1>2 DEF GivenOK
<1> QED
  BY <1>1, <1>2

LEMMA GivenOther ==
    ASSUME NEW t, NEW lim, NEW d, NEW e, NEW C, GivenOK(t, lim, d, C), Len(d) \in Nat, Len(e) \in Nat,
           Len(d) <= Len(e), \A c \in 1 .. Len(d) : e[c].lits = d[c].lits /\ e[c].learned = d[c].learned
    PROVE  GivenOK(t, lim, e, C)
<1>1. CASE Len(C) = 1
  BY <1>1 DEF GivenOK
<1>2. CASE Len(C) # 1
  <2>1. PICK c \in 1 .. Len(d) : d[c].lits = Range(C) /\ ~d[c].learned
    BY <1>2 DEF GivenOK
  <2>2. c \in 1 .. Len(e)
    OBVIOUS
  <2> QED
    BY <1>2, <2>1, <2>2 DEF GivenOK
<1> QED
  BY <1>1, <1>2

(***************************************************************************)
(* The steps of propagation.                                               *)
(***************************************************************************)
LEMMA ShapeNow ==
    ASSUME IInv
    PROVE  /\ Shape(inst.vars, trail, limits, reason, db, assumptions, Models(Given))
           /\ Models(Given) \in SUBSET Valuations
  BY DEF IInv, Shape, Models

\* A step of the solver that does not answer.
Inner ==
    /\ UNCHANGED <<inst, added, refused, assumptions, core, answers>>
    /\ pc \in Running /\ pc' \in Running
    /\ sinceRestart' \in 0 .. inst.cooldown /\ untilReduce' \in Int

LEMMA WhileRunning ==
    ASSUME IInv, pc \in Running
    PROVE  /\ ~refused
           /\ ~Refuted => WatchesOK(trail, limits, db, inst.lemmas, qhead, Unvisited)
           /\ \A i \in 1 .. added : GivenOK(trail, limits, db, inst.clauses[i])
  BY DEF IInv, ControlOK, Running

LEMMA InnerStep ==
    ASSUME IInv, Inner, qhead' \in 0 .. Len(trail'), pending' \subseteq 1 .. Len(db'),
           conflict' \subseteq Lits,
           Shape(inst.vars, trail', limits', reason', db', assumptions, Models(Given)),
           QueueOK', ConflictOK',
           ~Refuted => WatchesOK(trail', limits', db', inst.lemmas, qhead', Unvisited'),
           \A i \in 1 .. added : GivenOK(trail', limits', db', inst.clauses[i])
    PROVE  IInv'
<1>1. /\ inst' = inst /\ added' = added /\ refused' = refused
      /\ assumptions' = assumptions /\ answers' = answers /\ core' = core
  BY DEF Inner
<1>2. ControlOK'
  <2>1. /\ inst \in Instances /\ added \in 0 .. Len(inst.clauses) /\ refused \in BOOLEAN
        /\ assumptions \subseteq Lits /\ core \subseteq Lits
        /\ answers \in Seq(Outcomes) /\ Len(answers) < inst.checks /\ Len(answers) <= inst.checks
        /\ ~refused
    BY DEF IInv, ControlOK, Inner, Running
  <2>2. Lits' = Lits
    BY <1>1 DEF Lits
  <2>3. pc' \in Running \cup {"idle", "SAT", "UNSAT"} /\ pc' # "idle"
    BY DEF Inner, Running
  <2>4. sinceRestart' \in 0 .. inst.cooldown /\ untilReduce' \in Int
    BY DEF Inner
  <2> QED
    BY <1>1, <2>1, <2>2, <2>3, <2>4 DEF ControlOK, Outcomes
<1>3. Models(Given)' = Models(Given)
  BY <1>1 DEF Models, Given, Valuations, Vars
<1>4. Shape(inst.vars, trail, limits, reason, db, assumptions, Models(Given))'
  BY <1>1, <1>3
<1>5. (~Refuted /\ ~refused => WatchesOK(trail, limits, db, inst.lemmas, qhead, Unvisited))'
  BY <1>1 DEF Refuted
<1>6. (~refused => \A i \in 1 .. added : GivenOK(trail, limits, db, inst.clauses[i]))'
  BY <1>1
<1>7. SatIsModel' /\ CoreIsUnsat'
  BY DEF Inner, Running, SatIsModel, CoreIsUnsat
<1> QED
  BY <1>2, <1>4, <1>5, <1>6, <1>7 DEF IInv, Shape

LEMMA DequeueStep ==
    ASSUME IInv, Dequeue
    PROVE  IInv'
<1>1. /\ UNCHANGED <<inst, added, refused, db, trail, limits, reason, pending, conflict, assumptions,
                     core, answers, sinceRestart, untilReduce>>
      /\ pc = "propagate" /\ pc' = "theory" /\ qhead' = qhead + 1 /\ qhead < Len(trail)
  BY DEF Dequeue, problem, counters
<1>2. Inner
  BY <1>1 DEF Inner, Running, IInv, ControlOK
<1>3. qhead \in 0 .. Len(trail) /\ Len(trail) \in Nat /\ Len(db) \in Nat
      /\ pending \subseteq 1 .. Len(db) /\ conflict \subseteq Lits
  BY Basics DEF IInv, ControlOK
<1>4. \A k \in 1 .. Len(limits) : limits[k] \in Nat /\ limits[k] <= qhead
  BY Basics DEF IInv, QueueOK
<1>5. QueueOK'
  BY <1>1, <1>3, <1>4 DEF QueueOK
<1>6. ASSUME ~Refuted PROVE WatchesOK(trail', limits', db', inst.lemmas, qhead', Unvisited')
  <2>1. WatchesOK(trail, limits, db, inst.lemmas, qhead, Unvisited)
    BY <1>1, <1>6, WhileRunning DEF Running
  <2>2. Unvisited = {} /\ Unvisited' = 1 .. Len(db)
    BY <1>1 DEF Unvisited
  <2>3. (qhead + 1) - 1 = qhead
    BY <1>3
  <2> QED
    BY <1>1, <2>1, <2>2, <2>3 DEF WatchesOK
<1>7. \A i \in 1 .. added : GivenOK(trail', limits', db', inst.clauses[i])
  BY <1>1, WhileRunning DEF Running
<1>8. Shape(inst.vars, trail', limits', reason', db', assumptions, Models(Given))
  BY <1>1, ShapeNow
<1>9. ConflictOK'
  BY <1>1 DEF ConflictOK
<1> QED
  BY <1>1, <1>2, <1>3, <1>5, <1>6, <1>7, <1>8, <1>9, InnerStep

LEMMA EndVisitsStep ==
    ASSUME IInv, EndVisits
    PROVE  IInv'
<1>1. /\ UNCHANGED <<inst, added, refused, db, trail, limits, reason, pending, conflict, assumptions,
                     core, answers, sinceRestart, untilReduce, qhead>>
      /\ pc = "visit" /\ pc' = "propagate" /\ pending = {}
  BY DEF EndVisits, problem, counters
<1>2. Inner
  BY <1>1 DEF Inner, Running, IInv, ControlOK
<1>3. qhead \in 0 .. Len(trail) /\ pending \subseteq 1 .. Len(db) /\ conflict \subseteq Lits
  BY DEF IInv, ControlOK
<1>4. QueueOK'
  BY <1>1 DEF IInv, QueueOK
<1>5. ASSUME ~Refuted PROVE WatchesOK(trail', limits', db', inst.lemmas, qhead', Unvisited')
  <2>1. WatchesOK(trail, limits, db, inst.lemmas, qhead, Unvisited)
    BY <1>1, <1>5, WhileRunning DEF Running
  <2>2. Unvisited = {} /\ Unvisited' = {}
    BY <1>1 DEF Unvisited
  <2> QED
    BY <1>1, <2>1, <2>2
<1>6. \A i \in 1 .. added : GivenOK(trail', limits', db', inst.clauses[i])
  BY <1>1, WhileRunning DEF Running
<1>7. Shape(inst.vars, trail', limits', reason', db', assumptions, Models(Given))
  BY <1>1, ShapeNow
<1>8. ConflictOK'
  BY <1>1 DEF ConflictOK
<1> QED
  BY <1>1, <1>2, <1>3, <1>4, <1>5, <1>6, <1>7, <1>8, InnerStep

LEMMA StartVisitsStep ==
    ASSUME IInv, StartVisits
    PROVE  IInv'
<1>1. /\ UNCHANGED <<inst, added, refused, db, trail, limits, reason, conflict, assumptions,
                     core, answers, sinceRestart, untilReduce, qhead>>
      /\ pc = "theory" /\ pc' = "visit" /\ pending' = WatchedBy(-Current)
  BY DEF StartVisits, problem, counters
<1>2. Inner
  BY <1>1 DEF Inner, Running, IInv, ControlOK
<1>3. qhead \in 0 .. Len(trail) /\ conflict \subseteq Lits /\ DOMAIN db = 1 .. Len(db)
  BY Basics DEF IInv, ControlOK
<1>4. pending' \subseteq 1 .. Len(db)
  BY <1>1, <1>3 DEF WatchedBy
<1>5. QueueOK'
  <2>1. Current' = Current
    BY <1>1 DEF Current
  <2>2. \A c \in pending' : ~db[c].deleted /\ -Current \in {db[c].watch[1], db[c].watch[2]}
    BY <1>1 DEF WatchedBy
  <2> QED
    BY <1>1, <2>1, <2>2 DEF IInv, QueueOK
<1>6. ASSUME ~Refuted PROVE WatchesOK(trail', limits', db', inst.lemmas, qhead', Unvisited')
  <2>1. WatchesOK(trail, limits, db, inst.lemmas, qhead, Unvisited)
    BY <1>1, <1>6, WhileRunning DEF Running
  <2>2. Unvisited = 1 .. Len(db) /\ Unvisited' = pending'
    BY <1>1 DEF Unvisited
  <2>3. ASSUME NEW c \in 1 .. Len(db), ~db[c].deleted, db[c].lits \notin inst.lemmas
        PROVE  Watched(trail, limits, db[c], IF c \in pending' THEN qhead - 1 ELSE qhead)
    <3>1. Watched(trail, limits, db[c], qhead - 1)
      BY <2>1, <2>2, <2>3 DEF WatchesOK
    <3>2. CASE c \in pending'
      BY <3>1, <3>2
    <3>3. CASE c \notin pending'
      <4>1. trail[qhead] \notin {-db[c].watch[1], -db[c].watch[2]}
        <5> SUFFICES ASSUME trail[qhead] \in {-db[c].watch[1], -db[c].watch[2]}
                     PROVE  FALSE
          OBVIOUS
        <5>1. db[c] \in ClauseType(inst.vars)
          BY Basics
        <5>2. \A w \in LitsUpTo(inst.vars) : -(-w) = w
          BY Basics, LitFacts
        <5>3. -Current \in {db[c].watch[1], db[c].watch[2]}
          BY <5>1, <5>2 DEF ClauseType, Current
        <5> QED
          BY <1>1, <1>3, <2>3, <3>3, <5>3 DEF WatchedBy
      <4>2. \A i \in 1 .. qhead : i = qhead \/ i \in 1 .. qhead - 1
        BY <1>3
      <4>3. Watched(trail, limits, db[c], qhead)
        BY <3>1, <4>1, <4>2 DEF Watched
      <4> QED
        BY <3>3, <4>3
    <3> QED
      BY <3>2, <3>3
  <2> QED
    BY <1>1, <2>2, <2>3 DEF WatchesOK
<1>7. \A i \in 1 .. added : GivenOK(trail', limits', db', inst.clauses[i])
  BY <1>1, WhileRunning DEF Running
<1>8. Shape(inst.vars, trail', limits', reason', db', assumptions, Models(Given))
  BY <1>1, ShapeNow
<1>9. ConflictOK'
  BY <1>1 DEF ConflictOK
<1> QED
  BY <1>1, <1>2, <1>3, <1>4, <1>5, <1>6, <1>7, <1>8, <1>9, InnerStep

LEMMA TruthFacts ==
    ASSUME IInv, NEW l \in Lits
    PROVE  /\ IsTrue(l) <=> \E i \in 1 .. Len(trail) : trail[i] = l
           /\ IsFalse(l) <=> \E i \in 1 .. Len(trail) : trail[i] = -l
           /\ IsFree(l) => Fresh(trail, l)
           /\ ~(IsTrue(l) /\ IsFalse(l))
<1>1. DOMAIN trail = 1 .. Len(trail)
  BY Basics
<1>2. /\ IsTrue(l) <=> \E i \in 1 .. Len(trail) : trail[i] = l
      /\ IsFalse(l) <=> \E i \in 1 .. Len(trail) : trail[i] = -l
  BY <1>1 DEF IsTrue, IsFalse, TrueLits
<1>3. IsFree(l) => Fresh(trail, l)
  BY <1>2 DEF IsFree, Fresh
<1>4. ASSUME NEW i \in 1 .. Len(trail), NEW j \in 1 .. Len(trail), trail[i] = l, trail[j] = -l
      PROVE  FALSE
  <2>1. Var(-l) = Var(l) /\ l # -l
    BY Basics, LitFacts
  <2>2. i = j
    BY <1>4, <2>1 DEF IInv, TrailOK
  <2> QED
    BY <1>4, <2>1, <2>2
<1> QED
  BY <1>2, <1>3, <1>4

\* What the theory refutes is one of the clauses that follow.
LEMMA LemmaFacts ==
    ASSUME IInv, NEW L \in inst.lemmas
    PROVE  /\ L \subseteq Lits /\ L # {}
           /\ \A m \in Models(Given) : L \cap m # {}
           /\ \A k \in L : -k \in Asserted => \E i \in 1 .. Len(trail) : trail[i] = -k
<1>1. \A m \in Models(Given) : L \cap m # {}
  BY DEF Models, Given
<1>2. \A k \in L : -k \in Asserted => \E i \in 1 .. Len(trail) : trail[i] = -k
  BY Basics DEF Asserted, IInv, ControlOK
<1> QED
  BY <1>1, <1>2, Basics

LEMMA TheoryConflictStep ==
    ASSUME IInv, NEW L \in inst.lemmas, TheoryConflict(L)
    PROVE  IInv'
<1>1. /\ UNCHANGED <<inst, added, refused, db, trail, limits, reason, qhead, pending, assumptions,
                     core, answers, sinceRestart, untilReduce>>
      /\ pc = "theory" /\ pc' = "conflict" /\ conflict' = L
  BY DEF TheoryConflict, problem, counters
<1>2. Inner
  BY <1>1 DEF Inner, Running, IInv, ControlOK
<1>3. qhead \in 0 .. Len(trail) /\ pending \subseteq 1 .. Len(db)
  BY DEF IInv, ControlOK
<1>4. QueueOK'
  BY <1>1 DEF IInv, QueueOK
<1>5. ASSUME ~Refuted PROVE WatchesOK(trail', limits', db', inst.lemmas, qhead', Unvisited')
  <2>1. WatchesOK(trail, limits, db, inst.lemmas, qhead, Unvisited)
    BY <1>1, <1>5, WhileRunning DEF Running
  <2>2. Unvisited' = Unvisited
    BY <1>1 DEF Unvisited
  <2> QED
    BY <1>1, <2>1, <2>2
<1>6. \A i \in 1 .. added : GivenOK(trail', limits', db', inst.clauses[i])
  BY <1>1, WhileRunning DEF Running
<1>7. Shape(inst.vars, trail', limits', reason', db', assumptions, Models(Given))
  BY <1>1, ShapeNow
<1>8. ConflictOK'
  <2>1. \A k \in L : \E i \in 1 .. Len(trail) : trail[i] = -k
    <3>1. PICK l \in L : Propagates(L, l) /\ IsFalse(l)
      BY DEF TheoryConflict
    <3>2. ASSUME NEW k \in L PROVE \E i \in 1 .. Len(trail) : trail[i] = -k
      <4>1. CASE k = l
        BY <3>1, <4>1, LemmaFacts, TruthFacts
      <4>2. CASE k # l
        BY <3>1, <4>2, LemmaFacts DEF Propagates
      <4> QED
        BY <4>1, <4>2
    <3> QED
      BY <3>2
  <2>2. Models(Given)' = Models(Given)
    BY <1>1 DEF Models, Given, Valuations, Vars
  <2> QED
    BY <1>1, <2>1, <2>2, LemmaFacts DEF ConflictOK
<1> QED
  BY <1>1, <1>2, <1>3, <1>4, <1>5, <1>6, <1>7, <1>8, LemmaFacts, InnerStep

\* A clause of the theory in the database.
LEMMA TheoryClause ==
    ASSUME IInv, NEW L \in inst.lemmas, NEW k \in L, NEW l \in L, k # l
    PROVE  /\ Clause(L, <<k, l>>, TRUE, TRUE) \in ClauseType(inst.vars)
           /\ ClauseOK(Clause(L, <<k, l>>, TRUE, TRUE))
           /\ Clause(L, <<k, l>>, TRUE, TRUE).lits = L
           /\ ~Clause(L, <<k, l>>, TRUE, TRUE).deleted
           /\ Clause(L, <<k, l>>, TRUE, TRUE).keep
<1> DEFINE x == Clause(L, <<k, l>>, TRUE, TRUE)
<1>1. L \subseteq LitsUpTo(inst.vars)
  BY LemmaFacts, Basics
<1>2. /\ x \in ClauseType(inst.vars) /\ x.lits = L /\ ~x.deleted /\ x.keep
      /\ x.watch[1] = k /\ x.watch[2] = l
  BY <1>1 DEF Clause, ClauseType
<1> HIDE DEF x
<1>3. ClauseOK(x)
  BY <1>2 DEF ClauseOK
<1> QED
  BY <1>2, <1>3 DEF x

LEMMA TheoryExtends ==
    ASSUME IInv, NEW x \in ClauseType(inst.vars), ClauseOK(x), x.lits \in inst.lemmas
    PROVE  /\ Shape(inst.vars, trail, limits, reason, Append(db, x), assumptions, Models(Given))
           /\ Len(Append(db, x)) = Len(db) + 1 /\ Append(db, x)[Len(db) + 1] = x
           /\ \A c \in 1 .. Len(db) : Append(db, x)[c] = db[c]
<1>1. inst.vars \in Nat /\ DbOK(inst.vars, db)
  BY Basics DEF IInv
<1>2. Shape(inst.vars, trail, limits, reason, db, assumptions, Models(Given))
  BY ShapeNow
<1>3. \A m \in Models(Given) : x.lits \cap m # {}
  BY LemmaFacts
<1> QED
  BY <1>1, <1>2, <1>3, ShapeExtend, ExtendedFacts

LEMMA TheoryGiven ==
    ASSUME IInv, NEW x \in ClauseType(inst.vars), ClauseOK(x), x.lits \in inst.lemmas,
           NEW C, GivenOK(trail, limits, db, C)
    PROVE  GivenOK(trail, limits, Append(db, x), C)
<1> DEFINE e == Append(db, x)
<1>1. Len(e) = Len(db) + 1 /\ Len(db) \in Nat /\ \A c \in 1 .. Len(db) : e[c] = db[c]
  BY TheoryExtends, Basics
<1> HIDE DEF e
<1>2. GivenOK(trail, limits, e, C)
  BY <1>1, GivenOther
<1> QED
  BY <1>2 DEF e

LEMMA TheoryWatches ==
    ASSUME IInv, NEW x \in ClauseType(inst.vars), ClauseOK(x), x.lits \in inst.lemmas,
           WatchesOK(trail, limits, db, inst.lemmas, qhead, 1 .. Len(db))
    PROVE  WatchesOK(trail, limits, Append(db, x), inst.lemmas, qhead, 1 .. Len(db) + 1)
<1> DEFINE e == Append(db, x)
<1>1. /\ Len(e) = Len(db) + 1 /\ Len(db) \in Nat /\ e[Len(db) + 1] = x
      /\ \A c \in 1 .. Len(db) : e[c] = db[c]
  BY TheoryExtends, Basics
<1> HIDE DEF e
<1>2. \A c \in 1 .. Len(e) : c = Len(db) + 1 \/ c \in 1 .. Len(db)
  BY <1>1
<1>3. \A c \in 1 .. Len(e) : ~e[c].deleted /\ e[c].lits \notin inst.lemmas =>
          /\ c \in 1 .. Len(db) /\ ~db[c].deleted /\ e[c].lits = db[c].lits
          /\ e[c].watch = db[c].watch /\ (c \in 1 .. Len(db) <=> c \in 1 .. Len(db) + 1)
  BY <1>1, <1>2
<1>4. WatchesOK(trail, limits, e, inst.lemmas, qhead, 1 .. Len(db) + 1)
  BY <1>3, WatchesOther
<1> QED
  BY <1>4 DEF e

LEMMA TheoryPropagateStep ==
    ASSUME IInv, NEW L \in inst.lemmas, NEW l \in L, NEW k \in L, TheoryPropagate(L, l, k)
    PROVE  IInv'
<1> DEFINE x == Clause(L, <<l, k>>, TRUE, TRUE)
           e == Append(db, x)
           n == Len(db) + 1
<1>1. /\ UNCHANGED <<inst, added, refused, limits, qhead, pending, pc, conflict, assumptions,
                     core, answers, sinceRestart, untilReduce>>
      /\ pc = "theory" /\ Propagates(L, l) /\ IsFree(l) /\ l # k
      /\ db' = e /\ trail' = Append(trail, l) /\ reason' = [reason EXCEPT ![Var(l)] = n]
  BY DEF TheoryPropagate, problem, counters
<1>2. Inner
  BY <1>1 DEF Inner, Running, IInv, ControlOK
<1>3. x \in ClauseType(inst.vars) /\ ClauseOK(x) /\ x.lits = L /\ ~x.deleted /\ x.keep
  BY <1>1, TheoryClause
<1> HIDE DEF x
<1>4. /\ Shape(inst.vars, trail, limits, reason, e, assumptions, Models(Given))
       /\ Len(e) = n /\ e[n] = x /\ (\A c \in 1 .. Len(db) : e[c] = db[c])
  BY <1>3, TheoryExtends
<1>5. \A i \in 1 .. added : GivenOK(trail, limits, db, inst.clauses[i]) =>
           GivenOK(trail, limits, e, inst.clauses[i])
  BY <1>3, TheoryGiven
<1>6. WatchesOK(trail, limits, db, inst.lemmas, qhead, 1 .. Len(db)) =>
           WatchesOK(trail, limits, e, inst.lemmas, qhead, 1 .. n)
  BY <1>3, TheoryWatches
<1> HIDE DEF e
<1>7. l \in Lits /\ Fresh(trail, l) /\ inst.vars \in Nat /\ l \in LitsUpTo(inst.vars)
  BY <1>1, LemmaFacts, TruthFacts, Basics
<1>8. /\ Len(trail') = Len(trail) + 1 /\ Len(trail) \in Nat /\ trail'[Len(trail) + 1] = l
      /\ \A i \in 1 .. Len(trail) : trail'[i] = trail[i]
      /\ TrailOK(inst.vars, trail, limits)
  BY <1>1, <1>7, GrowTrail, Basics DEF IInv
<1>9. Forces(e[n], Append(trail, l), Len(trail) + 1)
  <2>1. ASSUME NEW j \in L \ {l} PROVE \E i \in 1 .. (Len(trail) + 1) - 1 : trail'[i] = -j
    <3>1. PICK i \in 1 .. Len(trail) : trail[i] = -j
      BY <1>1, LemmaFacts DEF Propagates
    <3> QED
      BY <1>8, <3>1
  <2> QED
    BY <1>1, <1>3, <1>4, <1>8, <2>1 DEF Forces
<1>10. n \in 1 .. Len(e)
  BY <1>4, Basics
<1>11. Shape(inst.vars, trail', limits', reason', db', assumptions, Models(Given))
  BY <1>1, <1>4, <1>7, <1>9, <1>10, ShapeNow, ShapeForced
<1>12. qhead' \in 0 .. Len(trail') /\ pending' \subseteq 1 .. Len(db') /\ conflict' \subseteq Lits
  BY <1>1, <1>4, <1>8, Basics DEF IInv, ControlOK
<1>13. QueueOK'
  BY <1>1 DEF IInv, QueueOK
<1>14. ASSUME ~Refuted PROVE WatchesOK(trail', limits', db', inst.lemmas, qhead', Unvisited')
  <2>1. WatchesOK(trail, limits, db, inst.lemmas, qhead, Unvisited)
    BY <1>1, <1>14, WhileRunning DEF Running
  <2>2. Unvisited = 1 .. Len(db) /\ Unvisited' = 1 .. n
    BY <1>1, <1>4 DEF Unvisited
  <2>3. WatchesOK(trail, limits, e, inst.lemmas, qhead, 1 .. n)
    BY <1>6, <2>1, <2>2
  <2>4. qhead \in Int /\ qhead <= Len(trail)
    BY <1>8 DEF IInv, ControlOK
  <2> QED
    BY <1>1, <1>7, <1>8, <2>2, <2>3, <2>4, WatchesGrow
<1>15. \A i \in 1 .. added : GivenOK(trail', limits', db', inst.clauses[i])
  <2> SUFFICES ASSUME NEW i \in 1 .. added PROVE GivenOK(trail', limits', db', inst.clauses[i])
    OBVIOUS
  <2>1. GivenOK(trail, limits, e, inst.clauses[i])
    BY <1>1, <1>5, WhileRunning DEF Running
  <2> QED
    BY <1>1, <1>7, <1>8, <2>1, GivenGrow
<1>16. ConflictOK'
  BY <1>1 DEF ConflictOK
<1> QED
  BY <1>2, <1>11, <1>12, <1>13, <1>14, <1>15, <1>16, InnerStep

LEMMA TheoryLemmaStep ==
    ASSUME IInv, NEW L \in inst.lemmas, NEW w, TheoryLemma(L, w)
    PROVE  IInv'
<1>1. /\ UNCHANGED <<inst, added, refused, trail, limits, reason, qhead, pending, assumptions,
                     core, answers, sinceRestart, untilReduce>>
      /\ pc = "propagate" /\ pc' = "conflict" /\ conflict' = L /\ qhead = Len(trail) /\ Falsified(L)
  BY DEF TheoryLemma, problem, counters
<1>2. Inner
  BY <1>1 DEF Inner, Running, IInv, ControlOK
<1>3. qhead \in 0 .. Len(trail) /\ pending \subseteq 1 .. Len(db) /\ Len(trail) \in Nat /\ Len(db) \in Nat
  BY Basics DEF IInv, ControlOK
<1>4. QueueOK'
  <2>1. /\ Len(limits) \in Nat
        /\ \A k \in 1 .. Len(limits) : limits[k] \in 0 .. (Len(trail) - 1)
    BY Basics
  <2> QED
    BY <1>1, <1>3, <2>1 DEF QueueOK
<1>5. ConflictOK'
  <2>1. \A k \in L : \E i \in 1 .. Len(trail) : trail[i] = -k
    BY <1>1, LemmaFacts DEF Falsified
  <2>2. Models(Given)' = Models(Given)
    BY <1>1 DEF Models, Given, Valuations, Vars
  <2> QED
    BY <1>1, <2>1, <2>2, LemmaFacts DEF ConflictOK
<1>6. ASSUME ~Refuted PROVE WatchesOK(trail, limits, db, inst.lemmas, qhead, 1 .. Len(db))
  <2>1. WatchesOK(trail, limits, db, inst.lemmas, qhead, Unvisited)
    BY <1>1, <1>6, WhileRunning DEF Running
  <2>2. Unvisited = {}
    BY <1>1 DEF Unvisited
  <2>3. \A i \in 1 .. qhead - 1 : i \in 1 .. qhead
    BY <1>3
  <2>4. ASSUME NEW c \in 1 .. Len(db), ~db[c].deleted, db[c].lits \notin inst.lemmas
        PROVE  Watched(trail, limits, db[c], qhead - 1)
    <3>1. Watched(trail, limits, db[c], qhead)
      BY <2>1, <2>2, <2>4 DEF WatchesOK
    <3> QED
      BY <2>3, <3>1 DEF Watched
  <2> QED
    BY <2>4 DEF WatchesOK
<1>7. \A i \in 1 .. added : GivenOK(trail, limits, db, inst.clauses[i])
  BY <1>1, WhileRunning DEF Running
<1>8. Unvisited' = 1 .. Len(db')
  BY <1>1 DEF Unvisited
<1>9. CASE db' = db
  <2>1. Shape(inst.vars, trail', limits', reason', db', assumptions, Models(Given))
    BY <1>1, <1>9, ShapeNow
  <2>2. ~Refuted => WatchesOK(trail', limits', db', inst.lemmas, qhead', Unvisited')
    BY <1>1, <1>6, <1>8, <1>9
  <2>3. \A i \in 1 .. added : GivenOK(trail', limits', db', inst.clauses[i])
    BY <1>1, <1>7, <1>9
  <2> QED
    BY <1>1, <1>2, <1>3, <1>4, <1>5, <1>9, <2>1, <2>2, <2>3, LemmaFacts, InnerStep
<1>10. CASE w \in L \X L /\ w[1] < w[2] /\ db' = Append(db, Clause(L, w, TRUE, TRUE))
  <2>1. PICK k \in L, l \in L : w = <<k, l>>
    BY <1>10
  <2>2. k # l
    <3>1. k \in Int /\ w[1] = k /\ w[2] = l
      BY <2>1, LemmaFacts DEF Lits, LitsUpTo
    <3> QED
      BY <1>10, <3>1
  <2> DEFINE x == Clause(L, <<k, l>>, TRUE, TRUE)
             e == Append(db, x)
  <2>3. x \in ClauseType(inst.vars) /\ ClauseOK(x) /\ x.lits = L
    BY <2>2, TheoryClause
  <2>4. db' = Append(db, x)
    BY <1>10, <2>1
  <2> HIDE DEF x
  <2>5. /\ Shape(inst.vars, trail, limits, reason, e, assumptions, Models(Given))
        /\ Len(e) = Len(db) + 1
    BY <2>3, TheoryExtends
  <2>6. \A i \in 1 .. added : GivenOK(trail, limits, db, inst.clauses[i]) =>
             GivenOK(trail, limits, e, inst.clauses[i])
    BY <2>3, TheoryGiven
  <2>7. WatchesOK(trail, limits, db, inst.lemmas, qhead, 1 .. Len(db)) =>
             WatchesOK(trail, limits, e, inst.lemmas, qhead, 1 .. Len(db) + 1)
    BY <2>3, TheoryWatches
  <2>8. db' = e
    BY <2>4
  <2> HIDE DEF e
  <2>9. ~Refuted => WatchesOK(trail', limits', db', inst.lemmas, qhead', Unvisited')
    BY <1>1, <1>6, <1>8, <2>5, <2>8, <2>7
  <2>10. \A i \in 1 .. added : GivenOK(trail', limits', db', inst.clauses[i])
    BY <1>1, <1>7, <2>8, <2>6
  <2>11. Shape(inst.vars, trail', limits', reason', db', assumptions, Models(Given))
    BY <1>1, <2>5, <2>8
  <2>12. pending' \subseteq 1 .. Len(db')
    BY <1>1, <1>3, <2>5, <2>8
  <2> QED
    BY <1>1, <1>2, <1>3, <1>4, <1>5, <2>9, <2>10, <2>11, <2>12, LemmaFacts, InnerStep
<1> QED
  BY <1>9, <1>10 DEF TheoryLemma

LEMMA DecideStep ==
    ASSUME IInv, NEW l \in Lits, Decide(l)
    PROVE  IInv'
<1>1. /\ UNCHANGED <<inst, added, refused, db, qhead, pending, pc, conflict, assumptions,
                     core, answers, sinceRestart, untilReduce>>
      /\ pc = "propagate" /\ qhead = Len(trail) /\ IsFree(l)
      /\ l \notin assumptions => \A a \in assumptions : IsTrue(a)
      /\ trail' = Append(trail, l) /\ limits' = Append(limits, Len(trail))
      /\ reason' = [reason EXCEPT ![Var(l)] = 0]
  BY DEF Decide, AtFixpoint, problem, counters
<1>2. Inner
  BY <1>1 DEF Inner, Running, IInv, ControlOK
<1>3. /\ pending \subseteq 1 .. Len(db) /\ conflict \subseteq Lits /\ assumptions \subseteq Lits
      /\ qhead \in Int
  BY DEF IInv, ControlOK
<1>4. Fresh(trail, l) /\ inst.vars \in Nat /\ l \in LitsUpTo(inst.vars)
  BY <1>1, TruthFacts, Basics
<1>5. /\ Len(trail') = Len(trail) + 1 /\ Len(trail) \in Nat
      /\ TrailOK(inst.vars, trail, limits) /\ Len(limits) \in Nat
      /\ Len(limits') = Len(limits) + 1 /\ limits'[Len(limits) + 1] = Len(trail)
      /\ \A k \in 1 .. Len(limits) : limits'[k] = limits[k]
  BY <1>1, <1>4, GrowTrail, Basics, AppendProperties DEF IInv
<1>6. l \in assumptions \/ \A a \in assumptions : \E j \in 1 .. Len(trail) : trail[j] = a
  BY <1>1, <1>3, TruthFacts
<1>7. Shape(inst.vars, trail', limits', reason', db', assumptions, Models(Given))
  BY <1>1, <1>4, <1>6, ShapeNow, ShapeOpen
<1>8. QueueOK'
  <2>1. \A k \in 1 .. Len(limits) : limits[k] <= qhead
    BY DEF IInv, QueueOK
  <2>2. \A k \in 1 .. Len(limits) + 1 : k \in 1 .. Len(limits) \/ k = Len(limits) + 1
    BY <1>5
  <2> QED
    BY <1>1, <1>3, <1>5, <2>1, <2>2 DEF QueueOK
<1>9. ASSUME ~Refuted PROVE WatchesOK(trail', limits', db', inst.lemmas, qhead', Unvisited')
  <2>1. WatchesOK(trail, limits, db, inst.lemmas, qhead, Unvisited)
    BY <1>1, <1>9, WhileRunning DEF Running
  <2>2. Unvisited' = Unvisited
    BY <1>1 DEF Unvisited
  <2> QED
    BY <1>1, <1>3, <1>4, <1>5, <2>1, <2>2, WatchesGrow
<1>10. \A i \in 1 .. added : GivenOK(trail', limits', db', inst.clauses[i])
  <2> SUFFICES ASSUME NEW i \in 1 .. added PROVE GivenOK(trail', limits', db', inst.clauses[i])
    OBVIOUS
  <2>1. GivenOK(trail, limits, db, inst.clauses[i])
    BY <1>1, WhileRunning DEF Running
  <2> QED
    BY <1>1, <1>4, <1>5, <2>1, GivenGrow
<1>11. ConflictOK'
  BY <1>1 DEF ConflictOK
<1>12. qhead' \in 0 .. Len(trail') /\ pending' \subseteq 1 .. Len(db') /\ conflict' \subseteq Lits
  BY <1>1, <1>3, <1>5
<1> QED
  BY <1>2, <1>7, <1>8, <1>9, <1>10, <1>11, <1>12, InnerStep

LEMMA VisitFacts ==
    ASSUME IInv, NEW c \in pending, Visits(c)
    PROVE  /\ pc = "visit" /\ c \in 1 .. Len(db) /\ ~db[c].deleted
           /\ qhead \in 1 .. Len(trail) /\ Current = trail[qhead] /\ Current \in Lits
           /\ \A k \in 1 .. Len(limits) : limits[k] \in Nat /\ limits[k] < qhead
           /\ Other(c) \in db[c].lits /\ -Current \in db[c].lits /\ Other(c) # -Current
           /\ {db[c].watch[1], db[c].watch[2]} = {Other(c), -Current}
           /\ Other(c) \in Lits /\ -Current \in Lits /\ -(-Current) = Current
           /\ IsFalse(-Current) /\ ~IsTrue(-Current)
           /\ IsTrue(db[c].watch[1]) => Other(c) = db[c].watch[1]
<1>1. pc = "visit"
  BY DEF Visits
<1>2. c \in 1 .. Len(db) /\ qhead \in 1 .. Len(trail)
  BY <1>1, Basics DEF IInv, ControlOK, QueueOK
<1>3. ~db[c].deleted /\ -Current \in {db[c].watch[1], db[c].watch[2]}
  BY <1>1 DEF IInv, QueueOK
<1>4. Current = trail[qhead] /\ Current \in Lits
  BY <1>2, Basics DEF Current
<1>5. -Current \in Lits /\ -(-Current) = Current
  BY <1>4, Basics, LitFacts
<1>6. \A k \in 1 .. Len(limits) : limits[k] \in Nat /\ limits[k] < qhead
  BY <1>1, Basics DEF IInv, QueueOK
<1>7. ClauseOK(db[c]) /\ db[c].lits \subseteq Lits
  BY <1>2, Basics DEF IInv, DbOK
<1>8. /\ Other(c) \in db[c].lits /\ -Current \in db[c].lits /\ Other(c) # -Current
      /\ {db[c].watch[1], db[c].watch[2]} = {Other(c), -Current}
  BY <1>3, <1>7 DEF Other, ClauseOK
<1>9. IsFalse(-Current)
  BY <1>2, <1>4, <1>5, TruthFacts
<1>10. ~IsTrue(-Current)
  BY <1>5, <1>9, TruthFacts
<1>11. IsTrue(db[c].watch[1]) => Other(c) = db[c].watch[1]
  BY <1>10 DEF Other
<1> QED
  BY <1>1, <1>2, <1>3, <1>4, <1>5, <1>6, <1>7, <1>8, <1>9, <1>10, <1>11

\* A clause that is visited and whose other watch is not true may be watched
\* otherwise, by that other watch first, without losing it as a reason.
LEMMA VisitReason ==
    ASSUME IInv, NEW c \in pending, Visits(c), ~IsTrue(Other(c)),
           NEW l \in db[c].lits, l # Other(c)
    PROVE  Shape(inst.vars, trail, limits, reason, Rewatched(db, c, <<Other(c), l>>), assumptions,
                 Models(Given))
<1>1. c \in 1 .. Len(db) /\ Other(c) \in db[c].lits /\ inst.vars \in Nat
  BY VisitFacts, Basics
<1>2. Shape(inst.vars, trail, limits, reason, db, assumptions, Models(Given))
  BY ShapeNow
<1>3. ASSUME db[c].learned, ~db[c].keep, NEW i \in 1 .. Len(trail), reason[Var(trail[i])] = c
      PROVE  FALSE
  <2>1. Forces(db[c], trail, i)
    BY <1>1, <1>3 DEF IInv, ReasonsOK
  <2>2. db[c].watch[1] = trail[i]
    BY <1>3, <2>1 DEF Forces
  <2>3. trail[i] \in Lits
    BY Basics
  <2>4. IsTrue(db[c].watch[1])
    BY <2>2, <2>3, TruthFacts
  <2> QED
    BY <2>4, VisitFacts
<1> QED
  BY <1>1, <1>2, <1>3, ShapeRewatch

\* What the end of a visit leaves to visit.
LEMMA VisitDone ==
    ASSUME IInv, pc = "visit", NEW c \in pending, NEW e, Len(e) = Len(db),
           \A b \in 1 .. Len(db) : b # c => e[b] = db[b],
           ~Refuted, ~e[c].deleted /\ e[c].lits \notin inst.lemmas => Watched(trail, limits, e[c], qhead)
    PROVE  WatchesOK(trail, limits, e, inst.lemmas, qhead, pending \ {c})
<1>1. WatchesOK(trail, limits, db, inst.lemmas, qhead, pending)
  <2>1. Unvisited = pending
    BY DEF Unvisited
  <2> QED
    BY <2>1, WhileRunning DEF Running
<1>2. \A b \in 1 .. Len(e) : ~e[b].deleted /\ e[b].lits \notin inst.lemmas =>
          \/ Watched(trail, limits, e[b], IF b \in pending \ {c} THEN qhead - 1 ELSE qhead)
          \/ /\ b \in 1 .. Len(db) /\ ~db[b].deleted /\ e[b].lits = db[b].lits
             /\ e[b].watch = db[b].watch /\ (b \in pending <=> b \in pending \ {c})
  <2> SUFFICES ASSUME NEW b \in 1 .. Len(e), ~e[b].deleted /\ e[b].lits \notin inst.lemmas
               PROVE  \/ Watched(trail, limits, e[b], IF b \in pending \ {c} THEN qhead - 1 ELSE qhead)
                      \/ /\ b \in 1 .. Len(db) /\ ~db[b].deleted /\ e[b].lits = db[b].lits
                         /\ e[b].watch = db[b].watch /\ (b \in pending <=> b \in pending \ {c})
    OBVIOUS
  <2>1. CASE b = c
    <3>1. b \notin pending \ {c}
      BY <2>1
    <3> QED
      BY <2>1, <3>1
  <2>2. CASE b # c
    BY <2>2
  <2> QED
    BY <2>1, <2>2
<1> QED
  BY <1>1, <1>2, WatchesOther

LEMMA VisitSatisfiedStep ==
    ASSUME IInv, NEW c \in pending, VisitSatisfied(c)
    PROVE  IInv'
<1>1. /\ UNCHANGED <<inst, added, refused, db, trail, limits, reason, qhead, pc, conflict, assumptions,
                     core, answers, sinceRestart, untilReduce>>
      /\ Visits(c) /\ pending' = pending \ {c}
  BY DEF VisitSatisfied, problem, counters
<1>2. pc = "visit"
  BY <1>1 DEF Visits
<1>3. Inner
  BY <1>1, <1>2 DEF Inner, Running, IInv, ControlOK
<1>4. qhead \in 0 .. Len(trail) /\ pending \subseteq 1 .. Len(db) /\ conflict \subseteq Lits
  BY DEF IInv, ControlOK
<1>5. QueueOK'
  <2>1. Current' = Current
    BY <1>1 DEF Current
  <2> QED
    BY <1>1, <2>1 DEF IInv, QueueOK
<1>6. Watched(trail, limits, db[c], qhead) \/ Refuted \/ db[c].lits \in inst.lemmas
  <2> SUFFICES ASSUME ~Refuted, db[c].lits \notin inst.lemmas PROVE Watched(trail, limits, db[c], qhead)
    OBVIOUS
  <2>1. Watched(trail, limits, db[c], qhead - 1)
    <3>1. WatchesOK(trail, limits, db, inst.lemmas, qhead, pending)
      <4>1. Unvisited = pending
        BY <1>2 DEF Unvisited
      <4> QED
        BY <1>2, <4>1, WhileRunning DEF Running
    <3> QED
      BY <1>1, <3>1, VisitFacts DEF WatchesOK
  <2>2. PICK j \in 1 .. Len(trail) : trail[j] \in db[c].lits
    <3>1. PICK l \in db[c].lits : IsTrue(l)
      BY DEF VisitSatisfied
    <3>2. l \in Lits
      BY <1>1, VisitFacts, Basics
    <3> QED
      BY <3>1, <3>2, TruthFacts
  <2>3. NoDeeper(limits, j, qhead)
    BY <1>1, <1>4, VisitFacts DEF NoDeeper
  <2>4. \A i \in 1 .. qhead : i = qhead \/ i \in 1 .. qhead - 1
    BY <1>4
  <2> QED
    BY <2>1, <2>2, <2>3, <2>4 DEF Watched
<1>7. ASSUME ~Refuted PROVE WatchesOK(trail', limits', db', inst.lemmas, qhead', Unvisited')
  <2>1. WatchesOK(trail, limits, db, inst.lemmas, qhead, pending \ {c})
    BY <1>2, <1>6, <1>7, VisitDone
  <2>2. Unvisited' = pending \ {c}
    BY <1>1, <1>2 DEF Unvisited
  <2> QED
    BY <1>1, <2>1, <2>2
<1>8. \A i \in 1 .. added : GivenOK(trail', limits', db', inst.clauses[i])
  BY <1>1, <1>2, WhileRunning DEF Running
<1>9. Shape(inst.vars, trail', limits', reason', db', assumptions, Models(Given))
  BY <1>1, ShapeNow
<1>10. ConflictOK'
  BY <1>1, <1>2 DEF ConflictOK
<1>11. qhead' \in 0 .. Len(trail') /\ pending' \subseteq 1 .. Len(db') /\ conflict' \subseteq Lits
  BY <1>1, <1>4
<1> QED
  BY <1>3, <1>5, <1>7, <1>8, <1>9, <1>10, <1>11, InnerStep

LEMMA VisitConflictStep ==
    ASSUME IInv, NEW c \in pending, VisitConflict(c)
    PROVE  IInv'
<1>1. /\ UNCHANGED <<inst, added, refused, db, trail, limits, reason, qhead, assumptions,
                     core, answers, sinceRestart, untilReduce>>
      /\ Visits(c) /\ IsFalse(Other(c)) /\ Replacements(c) = {}
      /\ pending' = {} /\ pc' = "conflict" /\ conflict' = db[c].lits
  BY DEF VisitConflict, problem, counters
<1>2. pc = "visit" /\ c \in 1 .. Len(db)
  BY <1>1, VisitFacts
<1>3. Inner
  BY <1>1, <1>2 DEF Inner, Running, IInv, ControlOK
<1>4. qhead \in 0 .. Len(trail) /\ conflict' \subseteq Lits
  BY <1>1, <1>2, Basics DEF IInv, ControlOK
<1>5. QueueOK'
  BY <1>1, <1>2 DEF IInv, QueueOK
<1>6. ASSUME ~Refuted PROVE WatchesOK(trail', limits', db', inst.lemmas, qhead', Unvisited')
  <2>1. WatchesOK(trail, limits, db, inst.lemmas, qhead, pending)
    <3>1. Unvisited = pending
      BY <1>2 DEF Unvisited
    <3> QED
      BY <1>2, <1>6, <3>1, WhileRunning DEF Running
  <2>2. Unvisited' = 1 .. Len(db)
    BY <1>1 DEF Unvisited
  <2>3. \A i \in 1 .. qhead - 1 : i \in 1 .. qhead
    BY <1>4
  <2>4. ASSUME NEW b \in 1 .. Len(db), ~db[b].deleted, db[b].lits \notin inst.lemmas
        PROVE  Watched(trail, limits, db[b], qhead - 1)
    <3>1. Watched(trail, limits, db[b], IF b \in pending THEN qhead - 1 ELSE qhead)
      BY <2>1, <2>4 DEF WatchesOK
    <3>2. CASE b \in pending
      BY <3>1, <3>2
    <3>3. CASE b \notin pending
      <4>1. Watched(trail, limits, db[b], qhead)
        BY <3>1, <3>3
      <4> QED
        BY <2>3, <4>1 DEF Watched
    <3> QED
      BY <3>2, <3>3
  <2> QED
    BY <1>1, <2>2, <2>4 DEF WatchesOK
<1>7. \A i \in 1 .. added : GivenOK(trail', limits', db', inst.clauses[i])
  BY <1>1, <1>2, WhileRunning DEF Running
<1>8. Shape(inst.vars, trail', limits', reason', db', assumptions, Models(Given))
  BY <1>1, ShapeNow
<1>9. ConflictOK'
  <2>1. ASSUME NEW l \in db[c].lits PROVE \E i \in 1 .. Len(trail) : trail[i] = -l
    <3>1. IsFalse(l)
      BY <1>1, VisitFacts DEF Replacements
    <3>2. l \in Lits
      BY <1>2, Basics
    <3> QED
      BY <3>1, <3>2, TruthFacts
  <2>2. db[c].lits # {}
    BY <1>1, VisitFacts
  <2>3. Models(Given)' = Models(Given)
    BY <1>1 DEF Models, Given, Valuations, Vars
  <2>4. \A m \in Models(Given) : db[c].lits \cap m # {}
    BY <1>2 DEF IInv, FollowOK
  <2> QED
    BY <1>1, <2>1, <2>2, <2>3, <2>4 DEF ConflictOK
<1>10. qhead' \in 0 .. Len(trail') /\ pending' \subseteq 1 .. Len(db')
  BY <1>1, <1>4
<1> QED
  BY <1>3, <1>4, <1>5, <1>6, <1>7, <1>8, <1>9, <1>10, InnerStep

LEMMA VisitRewatchStep ==
    ASSUME IInv, NEW c \in pending, NEW l \in db[c].lits, VisitRewatch(c, l)
    PROVE  IInv'
<1> DEFINE e == Rewatched(db, c, <<Other(c), l>>)
<1>1. /\ UNCHANGED <<inst, added, refused, trail, limits, reason, qhead, pc, conflict, assumptions,
                     core, answers, sinceRestart, untilReduce>>
      /\ Visits(c) /\ ~IsTrue(Other(c)) /\ l \in Replacements(c)
      /\ pending' = pending \ {c} /\ db' = e
  BY DEF VisitRewatch, problem, counters, Rewatched
<1>2. pc = "visit" /\ c \in 1 .. Len(db) /\ l # Other(c) /\ l # -Current /\ ~IsFalse(l)
      /\ inst.vars \in Nat /\ l \in Lits /\ Len(db) \in Nat
  BY <1>1, VisitFacts, Basics DEF Replacements
<1>3. Inner
  BY <1>1, <1>2 DEF Inner, Running, IInv, ControlOK
<1>4. qhead \in 0 .. Len(trail) /\ pending \subseteq 1 .. Len(db) /\ conflict \subseteq Lits
  BY DEF IInv, ControlOK
<1>5. /\ Len(e) = Len(db) /\ (\A b \in 1 .. Len(db) : b # c => e[b] = db[b])
      /\ e[c].lits = db[c].lits /\ e[c].watch[1] = Other(c) /\ e[c].watch[2] = l
      /\ e[c].learned = db[c].learned /\ e[c].deleted = db[c].deleted
  BY <1>1, <1>2, VisitFacts, RewatchedFacts DEF IInv
<1>6. Shape(inst.vars, trail, limits, reason, e, assumptions, Models(Given))
  BY <1>1, <1>2, VisitReason
<1> HIDE DEF e
<1>7. QueueOK'
  <2>1. Current' = Current
    BY <1>1 DEF Current
  <2>2. \A b \in pending' : db'[b] = db[b]
    BY <1>1, <1>4, <1>5
  <2> QED
    BY <1>1, <1>2, <2>1, <2>2 DEF IInv, QueueOK
<1>8. Refuted \/ db[c].lits \in inst.lemmas \/ Watched(trail, limits, e[c], qhead)
  <2> SUFFICES ASSUME ~Refuted, db[c].lits \notin inst.lemmas,
                      NEW i \in 1 .. qhead, trail[i] \in {-Other(c), -l}
               PROVE  \E j \in 1 .. Len(trail) : trail[j] \in db[c].lits /\ NoDeeper(limits, j, i)
    BY <1>5 DEF Watched
  <2>1. i \in 1 .. Len(trail)
    BY <1>4
  <2>2. trail[i] = -Other(c)
    BY <1>2, <2>1, TruthFacts
  <2>3. i # qhead
    <3> SUFFICES ASSUME i = qhead PROVE FALSE
      OBVIOUS
    <3>1. -Other(c) = Current /\ Other(c) \in Lits /\ Other(c) # -Current
      BY <1>1, <2>2, VisitFacts
    <3>2. Other(c) = -Current
      BY <1>2, <3>1, LitFacts DEF Lits
    <3> QED
      BY <3>1, <3>2
  <2>4. i \in 1 .. qhead - 1
    BY <1>4, <2>3
  <2>5. Watched(trail, limits, db[c], qhead - 1)
    <3>1. WatchesOK(trail, limits, db, inst.lemmas, qhead, pending)
      <4>1. Unvisited = pending
        BY <1>2 DEF Unvisited
      <4> QED
        BY <1>2, <4>1, WhileRunning DEF Running
    <3> QED
      BY <1>1, <3>1, VisitFacts DEF WatchesOK
  <2>6. Other(c) \in {db[c].watch[1], db[c].watch[2]}
    BY <1>1, VisitFacts
  <2> QED
    BY <2>2, <2>4, <2>5, <2>6 DEF Watched
<1>9. ASSUME ~Refuted PROVE WatchesOK(trail', limits', db', inst.lemmas, qhead', Unvisited')
  <2>1. WatchesOK(trail, limits, e, inst.lemmas, qhead, pending \ {c})
    BY <1>2, <1>5, <1>8, <1>9, VisitDone
  <2>2. Unvisited' = pending \ {c}
    BY <1>1, <1>2 DEF Unvisited
  <2> QED
    BY <1>1, <2>1, <2>2
<1>10. \A i \in 1 .. added : GivenOK(trail', limits', db', inst.clauses[i])
  <2>1. \A b \in 1 .. Len(db) : e[b].lits = db[b].lits /\ e[b].learned = db[b].learned
    BY <1>5
  <2>2. \A i \in 1 .. added : GivenOK(trail, limits, db, inst.clauses[i])
    BY <1>2, WhileRunning DEF Running
  <2>3. \A i \in 1 .. added : GivenOK(trail, limits, e, inst.clauses[i])
    BY <1>2, <1>5, <2>1, <2>2, GivenOther
  <2> QED
    BY <1>1, <2>3
<1>11. ConflictOK'
  BY <1>1, <1>2 DEF ConflictOK
<1>12. qhead' \in 0 .. Len(trail') /\ pending' \subseteq 1 .. Len(db') /\ conflict' \subseteq Lits
  BY <1>1, <1>4, <1>5
<1>13. Shape(inst.vars, trail', limits', reason', db', assumptions, Models(Given))
  BY <1>1, <1>6
<1> QED
  BY <1>3, <1>7, <1>9, <1>10, <1>11, <1>12, <1>13, InnerStep

LEMMA VisitUnitStep ==
    ASSUME IInv, NEW c \in pending, VisitUnit(c)
    PROVE  IInv'
<1> DEFINE o == Other(c)
           w == Rewatched(db, c, <<o, -Current>>)
           e == IF IsBinary(c) THEN db ELSE w
<1>1. /\ UNCHANGED <<inst, added, refused, limits, qhead, pc, conflict, assumptions,
                     core, answers, sinceRestart, untilReduce>>
      /\ Visits(c) /\ IsFree(o) /\ Replacements(c) = {} /\ pending' = pending \ {c}
      /\ trail' = Append(trail, o) /\ reason' = [reason EXCEPT ![Var(o)] = c] /\ db' = e
  BY DEF VisitUnit, problem, counters, Rewatched
<1>2. pc = "visit" /\ c \in 1 .. Len(db) /\ o \in Lits /\ Fresh(trail, o) /\ ~IsTrue(o)
      /\ inst.vars \in Nat /\ Len(db) \in Nat /\ o \in LitsUpTo(inst.vars)
  BY <1>1, VisitFacts, TruthFacts, Basics DEF IsFree
<1>3. Inner
  BY <1>1, <1>2 DEF Inner, Running, IInv, ControlOK
<1>4. qhead \in 0 .. Len(trail) /\ pending \subseteq 1 .. Len(db) /\ conflict \subseteq Lits
  BY DEF IInv, ControlOK
<1>5. /\ Len(w) = Len(db) /\ (\A b \in 1 .. Len(db) : b # c => w[b] = db[b])
      /\ w[c].lits = db[c].lits /\ w[c].watch[1] = o /\ w[c].watch[2] = -Current
      /\ w[c].learned = db[c].learned /\ w[c].keep = db[c].keep /\ w[c].deleted = db[c].deleted
  BY <1>1, <1>2, VisitFacts, RewatchedFacts DEF IInv
<1>6. Shape(inst.vars, trail, limits, reason, w, assumptions, Models(Given))
  BY <1>1, <1>2, VisitFacts, VisitReason
<1>7. Shape(inst.vars, trail, limits, reason, e, assumptions, Models(Given))
  <2> HIDE DEF w
  <2> QED
    BY <1>6, ShapeNow
<1>8. /\ Len(e) = Len(db) /\ (\A b \in 1 .. Len(db) : b # c => e[b] = db[b])
      /\ e[c].lits = db[c].lits /\ {e[c].watch[1], e[c].watch[2]} = {o, -Current}
      /\ e[c].learned = db[c].learned /\ e[c].deleted = db[c].deleted
      /\ (e[c].learned /\ ~e[c].keep => e[c].watch[1] = o)
  <2>1. CASE IsBinary(c)
    <3>1. ClauseOK(db[c])
      BY <1>2 DEF IInv, DbOK
    <3>2. ~(db[c].learned /\ ~db[c].keep)
      BY <2>1, <3>1 DEF ClauseOK, IsBinary
    <3>3. e = db
      BY <2>1
    <3> HIDE DEF e, w
    <3> QED
      BY <1>1, <3>2, <3>3, VisitFacts
  <2>2. CASE ~IsBinary(c)
    <3>1. e = w
      BY <2>2
    <3> HIDE DEF e, w
    <3> QED
      BY <1>5, <3>1
  <2> QED
    BY <2>1, <2>2
<1> HIDE DEF e, w
<1>9. /\ Len(trail') = Len(trail) + 1 /\ Len(trail) \in Nat /\ trail'[Len(trail) + 1] = o
      /\ \A i \in 1 .. Len(trail) : trail'[i] = trail[i]
      /\ TrailOK(inst.vars, trail, limits)
  BY <1>1, <1>2, GrowTrail, Basics DEF IInv
<1>10. Forces(e[c], Append(trail, o), Len(trail) + 1)
  <2>1. ASSUME NEW k \in db[c].lits \ {o} PROVE \E i \in 1 .. (Len(trail) + 1) - 1 : trail'[i] = -k
    <3>1. k \in Lits
      BY <1>2, Basics
    <3>2. IsFalse(k)
      BY <1>1, VisitFacts DEF Replacements
    <3>3. PICK i \in 1 .. Len(trail) : trail[i] = -k
      BY <3>1, <3>2, TruthFacts
    <3> QED
      BY <1>9, <3>3
  <2>2. o \in db[c].lits /\ ~db[c].deleted
    BY <1>1, VisitFacts
  <2> QED
    BY <1>1, <1>8, <1>9, <2>1, <2>2 DEF Forces
<1>11. Shape(inst.vars, trail', limits', reason', db', assumptions, Models(Given))
  <2>1. c \in 1 .. Len(e)
    BY <1>2, <1>8
  <2> QED
    BY <1>1, <1>2, <1>7, <1>10, <2>1, ShapeNow, ShapeForced
<1>12. QueueOK'
  <2>1. Current' = Current
    BY <1>1, <1>9, VisitFacts DEF Current
  <2>2. \A b \in pending' : db'[b] = db[b]
    BY <1>1, <1>4, <1>8
  <2> QED
    BY <1>1, <1>2, <2>1, <2>2 DEF IInv, QueueOK
<1>13. \A b \in 1 .. Len(e) : b \in 1 .. Len(db)
  BY <1>8
<1>14. ASSUME ~Refuted PROVE WatchesOK(trail', limits', db', inst.lemmas, qhead', Unvisited')
  <2>1. WatchesOK(trail, limits, db, inst.lemmas, qhead, pending)
    <3>1. Unvisited = pending
      BY <1>2 DEF Unvisited
    <3> QED
      BY <1>2, <1>14, <3>1, WhileRunning DEF Running
  <2>2. qhead \in Int /\ qhead <= Len(trail)
    BY <1>4, <1>9
  <2>3. WatchesOK(trail', limits, db, inst.lemmas, qhead, pending)
    BY <1>1, <1>2, <1>9, <2>1, <2>2, WatchesGrow
  <2>4. Watched(trail', limits, e[c], qhead)
    <3> SUFFICES ASSUME NEW i \in 1 .. qhead, trail'[i] \in {-e[c].watch[1], -e[c].watch[2]}
                 PROVE  \E j \in 1 .. Len(trail') : trail'[j] \in e[c].lits /\ NoDeeper(limits, j, i)
      BY DEF Watched
    <3>1. i \in 1 .. Len(trail) /\ trail'[i] = trail[i]
      BY <1>4, <1>9
    <3>2. trail[i] # -o
      BY <1>2, <3>1 DEF Fresh
    <3>3. trail[i] = Current
      <4>1. e[c].watch[1] \in {o, -Current} /\ e[c].watch[2] \in {o, -Current}
        BY <1>8
      <4> QED
        BY <1>1, <3>1, <3>2, <4>1, VisitFacts
    <3>4. i = qhead
      BY <1>1, <3>1, <3>3, <1>9, VisitFacts DEF TrailOK
    <3>5. NoDeeper(limits, Len(trail) + 1, i)
      BY <1>1, <3>4, VisitFacts DEF NoDeeper
    <3>6. o \in e[c].lits /\ Len(trail) + 1 \in 1 .. Len(trail')
      BY <1>1, <1>8, <1>9, VisitFacts
    <3> QED
      BY <1>9, <3>5, <3>6
  <2>5. \A b \in 1 .. Len(e) : ~e[b].deleted /\ e[b].lits \notin inst.lemmas =>
            \/ Watched(trail', limits, e[b], IF b \in pending \ {c} THEN qhead - 1 ELSE qhead)
            \/ /\ b \in 1 .. Len(db) /\ ~db[b].deleted /\ e[b].lits = db[b].lits
               /\ e[b].watch = db[b].watch /\ (b \in pending <=> b \in pending \ {c})
    <3> SUFFICES ASSUME NEW b \in 1 .. Len(e), ~e[b].deleted
                 PROVE  \/ Watched(trail', limits, e[b], IF b \in pending \ {c} THEN qhead - 1 ELSE qhead)
                        \/ /\ b \in 1 .. Len(db) /\ ~db[b].deleted /\ e[b].lits = db[b].lits
                           /\ e[b].watch = db[b].watch /\ (b \in pending <=> b \in pending \ {c})
      OBVIOUS
    <3>1. CASE b = c
      <4>1. b \notin pending \ {c}
        BY <3>1
      <4> QED
        BY <2>4, <3>1, <4>1
    <3>2. CASE b # c
      BY <1>8, <1>13, <3>2
    <3> QED
      BY <3>1, <3>2
  <2>6. WatchesOK(trail', limits, e, inst.lemmas, qhead, pending \ {c})
    BY <2>3, <2>5, WatchesOther
  <2>7. Unvisited' = pending \ {c}
    BY <1>1, <1>2 DEF Unvisited
  <2> QED
    BY <1>1, <2>6, <2>7
<1>15. \A i \in 1 .. added : GivenOK(trail', limits', db', inst.clauses[i])
  <2>1. \A b \in 1 .. Len(db) : e[b].lits = db[b].lits /\ e[b].learned = db[b].learned
    BY <1>8
  <2>2. \A i \in 1 .. added : GivenOK(trail, limits, db, inst.clauses[i])
    BY <1>2, WhileRunning DEF Running
  <2>3. \A i \in 1 .. added : GivenOK(trail, limits, e, inst.clauses[i])
    BY <1>2, <1>8, <2>1, <2>2, GivenOther
  <2>4. \A i \in 1 .. added : GivenOK(trail', limits, e, inst.clauses[i])
    BY <1>1, <1>2, <1>9, <2>3, GivenGrow
  <2> QED
    BY <1>1, <2>4
<1>16. ConflictOK'
  BY <1>1, <1>2 DEF ConflictOK
<1>17. qhead' \in 0 .. Len(trail') /\ pending' \subseteq 1 .. Len(db') /\ conflict' \subseteq Lits
  BY <1>1, <1>4, <1>8, <1>9
<1> QED
  BY <1>3, <1>11, <1>12, <1>14, <1>15, <1>16, <1>17, InnerStep

(***************************************************************************)
(* The step of learning.                                                   *)
(***************************************************************************)

LEMMA KeptFacts ==
    ASSUME IInv, NEW n \in 0 .. Len(limits)
    PROVE  /\ TrailOK(inst.vars, Kept(n), LimitsTo(limits, n))
           /\ Len(Kept(n)) \in 0 .. Len(trail) /\ Len(Kept(n)) \in Nat
           /\ \A i \in 1 .. Len(Kept(n)) : Kept(n)[i] = trail[i] /\ i \in 1 .. Len(trail)
           /\ n < Len(limits) => Len(Kept(n)) = limits[n + 1]
           /\ n = Len(limits) => Len(Kept(n)) = Len(trail)
           /\ Len(LimitsTo(limits, n)) = n
           /\ \A k \in 1 .. n : LimitsTo(limits, n)[k] = limits[k]
<1>1. inst.vars \in Nat /\ TrailOK(inst.vars, trail, limits) /\ Kept(n) = Cut(trail, limits, n)
  BY Basics, Levels, KeptIsCut
<1>2. Len(trail) \in Nat
  BY Basics
<1>3. /\ TrailOK(inst.vars, Cut(trail, limits, n), LimitsTo(limits, n))
      /\ Len(Cut(trail, limits, n)) \in 0 .. Len(trail)
      /\ \A i \in 1 .. Len(Cut(trail, limits, n)) : Cut(trail, limits, n)[i] = trail[i]
      /\ Len(Cut(trail, limits, n)) = IF n < Len(limits) THEN limits[n + 1] ELSE Len(trail)
      /\ Len(LimitsTo(limits, n)) = n
      /\ \A k \in 1 .. n : LimitsTo(limits, n)[k] = limits[k]
  BY <1>1, CutFacts
<1> QED
  BY <1>1, <1>2, <1>3

\* The level jumped back to: the literal that is asserted is free there, and
\* the others of the clause are still false.
LEMMA BackjumpFacts ==
    ASSUME IInv, Analyzing, NEW l, AtTop(Learned) = {l},
           NEW rest, rest = Learned \ {l}, NEW n, n = BackjumpLevel(rest)
    PROVE  /\ l \in Lits /\ l \in Learned /\ rest \subseteq Lits
           /\ n \in 0 .. Len(limits) /\ n < Len(limits)
           /\ (rest = {} => n = 0) /\ (rest # {} => n > 0)
           /\ Fresh(Kept(n), l)
           /\ \A k \in rest : Level(k) \in 1 .. n
           /\ \A k \in rest : \E j \in 1 .. Len(Kept(n)) : Kept(n)[j] = -k /\ LevelAt(j) = Level(k)
           /\ rest # {} => \E k \in rest : Level(k) = n
<1> DEFINE top == MaxLevel(conflict)
<1>1. top \in 1 .. Len(limits) /\ Len(limits) \in Nat
  BY TopFacts, Basics
<1>2. l \in Learned /\ Level(l) = top /\ Learned \subseteq Lits
  <2>1. l \in AtTop(Learned)
    OBVIOUS
  <2> QED
    BY <2>1, LearnedFacts DEF AtTop
<1>3. \A k \in Learned : \E j \in 1 .. Len(trail) : trail[j] = -k /\ LevelAt(j) = Level(k)
  <2> SUFFICES ASSUME NEW k \in Learned
               PROVE  \E j \in 1 .. Len(trail) : trail[j] = -k /\ LevelAt(j) = Level(k)
    OBVIOUS
  <2>1. PICK j \in 1 .. Len(trail) : trail[j] = -k
    BY LearnedFacts
  <2>2. Level(k) = LevelAt(j)
    BY <1>2, <2>1, Basics, Levels, LevelOf
  <2> QED
    BY <2>1, <2>2
<1>4. \A k \in rest : k \in Learned /\ Level(k) \in 1 .. top /\ Level(k) # top
  <2> SUFFICES ASSUME NEW k \in rest PROVE k \in Learned /\ Level(k) \in 1 .. top /\ Level(k) # top
    OBVIOUS
  <2>1. k \notin AtTop(Learned) /\ k \in Learned
    OBVIOUS
  <2> QED
    BY <2>1, LearnedFacts DEF AtTop
<1>5. /\ n \in 0 .. Len(limits) /\ n < Len(limits) /\ n < top
      /\ (rest = {} => n = 0) /\ (rest # {} => n > 0)
      /\ \A k \in rest : Level(k) \in 1 .. n
      /\ rest # {} => \E k \in rest : Level(k) = n
  <2>1. CASE rest = {}
    <3>1. n = 0
      BY <2>1 DEF BackjumpLevel
    <3> QED
      BY <1>1, <2>1, <3>1
  <2>2. CASE rest # {}
    <3>1. FalseIn(rest)
      <4>1. \A k \in rest : \E j \in 1 .. Len(trail) : trail[j] = -k
        BY <1>3, <1>4
      <4> QED
        BY <1>2, <4>1 DEF FalseIn
    <3>2. n = MaxLevel(rest)
      BY <2>2 DEF BackjumpLevel
    <3>3. /\ n \in 0 .. Len(limits)
          /\ \E k \in rest : Level(k) = n
          /\ \A k \in rest : Level(k) \in 0 .. n
      BY <2>2, <3>1, <3>2, Basics, Levels, MaxLevelFacts
    <3>4. PICK k \in rest : Level(k) = n
      BY <3>3
    <3>5. n < top /\ n > 0
      BY <1>1, <1>4, <3>4
    <3>6. ASSUME NEW j \in rest PROVE Level(j) \in 1 .. n
      <4>1. Level(j) \in 1 .. top
        BY <1>4
      <4>2. Level(j) \in 0 .. n
        BY <3>3
      <4> HIDE DEF top
      <4> QED
        BY <4>1, <4>2
    <3>7. n < Len(limits)
      BY <1>1, <3>3, <3>5
    <3> HIDE DEF top
    <3> QED
      BY ONLY <2>2, <3>3, <3>5, <3>6, <3>7
  <2> QED
    BY <2>1, <2>2
<1>6. /\ Len(Kept(n)) \in 0 .. Len(trail) /\ Len(trail) \in Nat
      /\ \A i \in 1 .. Len(Kept(n)) : Kept(n)[i] = trail[i] /\ i \in 1 .. Len(trail)
  BY <1>5, KeptFacts, Basics
<1>7. Fresh(Kept(n), l)
  <2>1. PICK j \in 1 .. Len(trail) : trail[j] = -l /\ LevelAt(j) = Level(l)
    BY <1>2, <1>3
  <2>2. j \notin 1 .. Len(Kept(n))
    <3>1. j \in 1 .. Len(Kept(n)) <=> LevelAt(j) <= n
      BY <1>5, KeptLevels
    <3> QED
      BY <1>1, <1>2, <1>5, <2>1, <3>1
  <2>3. Var(-l) = Var(l)
    BY <1>2, Basics, LitFacts
  <2>4. ASSUME NEW i \in 1 .. Len(Kept(n)), Kept(n)[i] = l \/ Kept(n)[i] = -l PROVE FALSE
    <3>1. i \in 1 .. Len(trail) /\ Var(trail[i]) = Var(trail[j])
      BY <1>6, <2>1, <2>3, <2>4
    <3>2. i = j
      BY <3>1, Levels DEF TrailOK
    <3> QED
      BY <2>2, <3>2
  <2> QED
    BY <2>4 DEF Fresh
<1>8. ASSUME NEW k \in rest
       PROVE  \E j \in 1 .. Len(Kept(n)) : Kept(n)[j] = -k /\ LevelAt(j) = Level(k)
  <2>1. PICK j \in 1 .. Len(trail) : trail[j] = -k /\ LevelAt(j) = Level(k)
    BY <1>3, <1>4
  <2>2. j \in 1 .. Len(Kept(n)) <=> LevelAt(j) <= n
    BY <1>5, KeptLevels
  <2>3. Level(k) \in 1 .. n /\ n \in Int
    <3>1. n \in Int
      BY <1>5
    <3>2. Level(k) \in 1 .. n
      BY <1>5
    <3> QED
      BY <3>1, <3>2
  <2>4. LevelAt(j) <= n
    BY <2>1, <2>3
  <2> QED
    BY <1>6, <2>1, <2>2, <2>4
<1> QED
  BY <1>2, <1>5, <1>7, <1>8

\* The clause learned, as one of the database.
LEMMA LearnedClause ==
    ASSUME IInv, Analyzing, NEW l, AtTop(Learned) = {l},
           NEW rest, rest = Learned \ {l}, NEW x \in LearnedClauses(l, rest)
    PROVE  /\ x \in ClauseType(inst.vars) /\ ClauseOK(x) /\ x.lits = Learned
           /\ x.learned /\ ~x.deleted /\ x.watch[1] = l
           /\ x.watch[2] \in rest /\ Level(x.watch[2]) = BackjumpLevel(rest)
<1>1. l \in Lits /\ l \in Learned /\ rest \subseteq Lits /\ l \notin rest /\ rest \cup {l} = Learned
  BY BackjumpFacts
<1> DEFINE S == {Level(m) : m \in rest}
<1>2. PICK k \in rest : x = Clause(rest \cup {l}, <<l, k>>, TRUE, Cardinality(S) <= 2)
                        /\ Level(k) = BackjumpLevel(rest)
  BY DEF LearnedClauses
<1>3. /\ x.lits = Learned /\ x.watch = <<l, k>> /\ x.learned /\ ~x.deleted
      /\ x.keep = (Cardinality(S) <= 2)
  BY <1>1, <1>2 DEF Clause
<1>4. x \in ClauseType(inst.vars)
  <2>1. Learned \subseteq LitsUpTo(inst.vars) /\ <<l, k>> \in LitsUpTo(inst.vars) \X LitsUpTo(inst.vars)
    BY <1>1, Basics
  <2>2. (Cardinality(S) <= 2) \in BOOLEAN
    OBVIOUS
  <2> HIDE DEF S
  <2> QED
    BY <1>1, <1>2, <2>1, <2>2 DEF Clause, ClauseType
<1>5. ASSUME Cardinality(Learned) = 2 PROVE Cardinality(S) <= 2
  <2>1. IsFiniteSet(Learned)
    <3>1. IsFiniteSet(Lits)
      BY Basics, LitsFinite
    <3> QED
      BY <1>1, <3>1, FS_Subset
  <2>2. Cardinality(rest) = 1 /\ IsFiniteSet(rest)
    BY <1>1, <1>5, <2>1, FS_RemoveElement, FS_Subset
  <2>3. PICK m : rest = {m}
    BY <2>2, FS_Singleton
  <2>4. S = {Level(m)}
    BY <2>3
  <2>5. Cardinality(S) = 1
    BY <2>4, FS_Singleton
  <2> QED
    BY <2>5
<1>6. x.keep \/ Cardinality(x.lits) # 2
  <2> HIDE DEF S
  <2> QED
    BY <1>3, <1>5
<1>7. x.watch[1] = l /\ x.watch[2] = k
  BY <1>3
<1>8. ClauseOK(x)
  BY <1>1, <1>3, <1>6, <1>7 DEF ClauseOK
<1> QED
  BY <1>2, <1>3, <1>4, <1>7, <1>8

\* The database with the clause, and the reasons once its literal is asserted.
LearnedDbs(l, rest) == IF rest = {} THEN {db} ELSE {Append(db, x) : x \in LearnedClauses(l, rest)}
Forced(l, rest) ==
    [ReasonsOf(Kept(BackjumpLevel(rest))) EXCEPT
        ![Var(l)] = IF rest = {} THEN 0 ELSE Len(db) + 1]

LEMMA ReasonsAre ==
    ASSUME IInv
    PROVE  \A t : ReasonsOf(t) = Retained(inst.vars, t, reason)
  BY DEF ReasonsOf, Retained, Vars

LEMMA LearnedShape ==
    ASSUME IInv, Analyzing, NEW l, AtTop(Learned) = {l}, NEW rest, rest = Learned \ {l},
           NEW n, n = BackjumpLevel(rest), NEW d \in LearnedDbs(l, rest)
    PROVE  Shape(inst.vars, Append(Kept(n), l), LimitsTo(limits, n), Forced(l, rest), d,
                 assumptions, Models(Given))
<1> DEFINE t == Kept(n)
           m == LimitsTo(limits, n)
           r == Retained(inst.vars, t, reason)
<1>1. /\ l \in Lits /\ l \in Learned /\ rest \subseteq Lits
      /\ n \in 0 .. Len(limits) /\ n < Len(limits)
      /\ rest = {} => n = 0
      /\ Fresh(t, l)
  BY BackjumpFacts
<1>2. \A k \in rest : \E j \in 1 .. Len(t) : t[j] = -k
  BY BackjumpFacts
<1>3. inst.vars \in Nat /\ Lits = LitsUpTo(inst.vars) /\ Len(db) \in Nat
  BY Basics
<1>4. Shape(inst.vars, t, m, r, db, assumptions, Models(Given))
  <2>1. t = Cut(trail, limits, n)
    BY KeptIsCut
  <2> QED
    BY <1>1, <1>3, <2>1, ShapeNow, ShapeCut
<1>5. Len(m) = n
  BY <1>1, <1>3, Levels, CutFacts
<1>6. \A v \in Models(Given) : Learned \cap v # {}
  BY LearnedFacts
<1> HIDE DEF m, t
<1>7. CASE rest = {}
  <2>1. d = db /\ Forced(l, rest) = [r EXCEPT ![Var(l)] = 0]
    BY <1>7, ReasonsAre DEF LearnedDbs, Forced, t
  <2>2. Len(m) = 0
    BY <1>1, <1>5, <1>7
  <2>3. Learned = {l}
    BY <1>1, <1>7
  <2>4. \A v \in Models(Given) : l \in v
    BY <1>6, <2>3
  <2> HIDE DEF r
  <2>5. Shape(inst.vars, Append(t, l), m, [r EXCEPT ![Var(l)] = 0], db, assumptions, Models(Given))
    BY <1>1, <1>3, <1>4, <2>2, <2>4, ShapeUnit
  <2> QED
    BY <2>1, <2>5 DEF t, m
<1>8. CASE rest # {}
  <2>1. PICK x \in LearnedClauses(l, rest) : d = Append(db, x)
    BY <1>8 DEF LearnedDbs
  <2>2. Forced(l, rest) = [r EXCEPT ![Var(l)] = Len(db) + 1]
    BY <1>8, ReasonsAre DEF Forced, t
  <2>3. /\ x \in ClauseType(inst.vars) /\ ClauseOK(x) /\ x.lits = Learned
        /\ x.learned /\ ~x.deleted /\ x.watch[1] = l
    BY LearnedClause
  <2> HIDE DEF r
  <2>4. Shape(inst.vars, t, m, r, d, assumptions, Models(Given))
    BY <1>3, <1>4, <1>6, <2>1, <2>3, ShapeExtend
  <2>5. Len(d) = Len(db) + 1 /\ d[Len(db) + 1] = x
    BY <1>3, <2>1, <2>3, ExtendedFacts DEF IInv
  <2>6. /\ Append(t, l)[Len(t) + 1] = l /\ Len(t) \in Nat
        /\ \A i \in 1 .. Len(t) : Append(t, l)[i] = t[i]
    BY <1>1, <1>3, <1>4, GrowTrail, LenProperties DEF Shape, TrailOK
  <2>7. Forces(d[Len(db) + 1], Append(t, l), Len(t) + 1)
    <3>1. ASSUME NEW k \in Learned \ {l}
          PROVE  \E j \in 1 .. (Len(t) + 1) - 1 : Append(t, l)[j] = -k
      <4>1. PICK j \in 1 .. Len(t) : t[j] = -k
        BY <1>2
      <4> QED
        BY <2>6, <4>1
    <3> QED
      BY <1>1, <2>3, <2>5, <2>6, <3>1 DEF Forces
  <2>8. Len(db) + 1 \in 1 .. Len(d)
    BY <1>3, <2>5
  <2>9. Shape(inst.vars, Append(t, l), m, [r EXCEPT ![Var(l)] = Len(db) + 1], d, assumptions,
              Models(Given))
    BY <1>1, <1>3, <2>4, <2>7, <2>8, ShapeNow, ShapeForced
  <2> QED
    BY <2>2, <2>9 DEF t, m
<1> QED
  BY <1>7, <1>8

LEMMA LearnedWatches ==
    ASSUME IInv, Analyzing, NEW l, AtTop(Learned) = {l}, NEW rest, rest = Learned \ {l},
           NEW n, n = BackjumpLevel(rest), NEW d \in LearnedDbs(l, rest), ~Refuted
    PROVE  WatchesOK(Append(Kept(n), l), LimitsTo(limits, n), d, inst.lemmas, Len(Kept(n)), {})
<1> DEFINE t == Kept(n)
           m == LimitsTo(limits, n)
           u == Append(t, l)
<1>1. /\ l \in Lits /\ n \in 0 .. Len(limits) /\ n < Len(limits) /\ Fresh(t, l)
  BY BackjumpFacts
<1>2. inst.vars \in Nat /\ Lits = LitsUpTo(inst.vars) /\ Len(db) \in Nat /\ pc = "conflict"
  BY Basics DEF Analyzing
<1>3. /\ TrailOK(inst.vars, t, m) /\ Len(t) = limits[n + 1] /\ Len(m) = n /\ Len(t) \in Nat
      /\ \A i \in 1 .. Len(t) : t[i] = trail[i] /\ i \in 1 .. Len(trail)
      /\ \A k \in 1 .. n : m[k] = limits[k]
  BY <1>1, <1>2, KeptFacts
<1>4. limits[n + 1] < qhead /\ qhead \in Int
  BY <1>1, <1>2 DEF IInv, QueueOK, ControlOK
<1>5. WatchesOK(t, m, db, inst.lemmas, Len(t), {})
  <2>1. WatchesOK(trail, limits, db, inst.lemmas, qhead, 1 .. Len(db))
    <3>1. Unvisited = 1 .. Len(db)
      BY <1>2 DEF Unvisited
    <3> QED
      BY <1>2, <3>1, WhileRunning DEF Running
  <2>2. Len(t) \in Int /\ Len(t) <= qhead - 1 /\ Len(t) <= qhead
    BY <1>3, <1>4
  <2>3. t = Cut(trail, limits, n)
    BY KeptIsCut
  <2> HIDE DEF t, m
  <2>4. WatchesOK(Cut(trail, limits, n), LimitsTo(limits, n), db, inst.lemmas, Len(t), {})
    <3>1. TrailOK(inst.vars, trail, limits) /\ qhead \in Int /\ n \in 0 .. Len(limits)
      BY <1>1, <1>4, Levels
    <3>2. 1 .. Len(db) # {} => Len(t) <= qhead - 1
      BY <2>2
    <3>3. Len(t) <= Len(Cut(trail, limits, n))
      BY <2>2, <2>3
    <3> QED
      BY ONLY <1>2, <2>1, <2>2, <3>1, <3>2, <3>3, WatchesCut
  <2> QED
    BY <2>3, <2>4 DEF m
<1> HIDE DEF t, m
<1>6. WatchesOK(u, m, db, inst.lemmas, Len(t), {})
  BY <1>1, <1>2, <1>3, <1>5, WatchesGrow
<1>7. TrailOK(inst.vars, t, m) /\ l \in LitsUpTo(inst.vars) /\ inst.vars \in Nat /\ Fresh(t, l)
  BY <1>1, <1>2, <1>3
<1>8. /\ u[Len(t) + 1] = l /\ Len(u) = Len(t) + 1
      /\ \A i \in 1 .. Len(t) : u[i] = t[i]
  BY ONLY <1>7, GrowTrail
<1> HIDE DEF u
<1>9. CASE rest = {}
  <2>1. d = db
    BY <1>9 DEF LearnedDbs
  <2> QED
    BY <1>6, <2>1 DEF u, t, m
<1>10. CASE rest # {}
  <2>1. PICK x \in LearnedClauses(l, rest) : d = Append(db, x)
    BY <1>10 DEF LearnedDbs
  <2>2. /\ x \in ClauseType(inst.vars) /\ ClauseOK(x) /\ x.lits = Learned
        /\ ~x.deleted /\ x.watch[1] = l
        /\ x.watch[2] \in rest /\ Level(x.watch[2]) = n
    BY LearnedClause
  <2>3. Len(d) = Len(db) + 1 /\ d[Len(db) + 1] = x /\ \A c \in 1 .. Len(db) : d[c] = db[c]
    BY <1>2, <2>1, <2>2, ExtendedFacts DEF IInv
  <2>4. Watched(u, m, x, Len(t))
    <3> SUFFICES ASSUME NEW i \in 1 .. Len(t), u[i] \in {-x.watch[1], -x.watch[2]}
                 PROVE  u[Len(t) + 1] \in x.lits /\ NoDeeper(m, Len(t) + 1, i)
      <4>1. Len(t) + 1 \in 1 .. Len(u)
        BY <1>3, <1>8
      <4> QED
        BY <4>1 DEF Watched
    <3> DEFINE k == x.watch[2]
    <3>1. t[i] = -k
      BY <1>1, <1>8, <2>2 DEF Fresh
    <3>2. PICK j \in 1 .. Len(t) : t[j] = -k /\ LevelAt(j) = n
      <4>1. \A b \in rest : \E j \in 1 .. Len(Kept(n)) : Kept(n)[j] = -b /\ LevelAt(j) = Level(b)
        BY BackjumpFacts
      <4> QED
        BY <2>2, <4>1 DEF t
    <3>3. i = j
      BY <1>3, <3>1, <3>2 DEF TrailOK
    <3>4. \A b \in 1 .. n : limits[b] < i
      <4>1. \A b \in 1 .. Len(limits) : b <= LevelAt(j) <=> limits[b] < j
        <5>1. j \in Int
          OBVIOUS
        <5>2. \A h \in Int : \A b \in 1 .. Len(limits) : b <= LevelAt(h) <=> limits[b] < h
          BY Levels
        <5> QED
          BY ONLY <5>1, <5>2
      <4>2. \A b \in 1 .. n : b \in 1 .. Len(limits) /\ b <= n
        BY <1>1
      <4> QED
        BY <3>2, <3>3, <4>1, <4>2
    <3>5. NoDeeper(m, Len(t) + 1, i)
      <4>1. \A b \in 1 .. Len(m) : m[b] < i /\ m[b] \in Nat
        <5>1. \A b \in 1 .. n : b \in 1 .. Len(limits)
          BY <1>1
        <5>2. \A b \in 1 .. Len(limits) : limits[b] \in Nat
          BY Basics
        <5> QED
          BY <1>3, <3>4, <5>1, <5>2
      <4> QED
        BY <4>1 DEF NoDeeper
    <3>6. l \in Learned
      BY BackjumpFacts
    <3> QED
      BY <1>8, <2>2, <3>5, <3>6
  <2>5. \A c \in 1 .. Len(d) : c = Len(db) + 1 \/ c \in 1 .. Len(db)
    BY <1>2, <2>3
  <2>6. \A c \in 1 .. Len(d) : ~d[c].deleted /\ d[c].lits \notin inst.lemmas =>
            \/ Watched(u, m, d[c], IF c \in {} THEN Len(t) - 1 ELSE Len(t))
            \/ /\ c \in 1 .. Len(db) /\ ~db[c].deleted /\ d[c].lits = db[c].lits
               /\ d[c].watch = db[c].watch /\ (c \in {} <=> c \in {})
    <3> SUFFICES ASSUME NEW c \in 1 .. Len(d), ~d[c].deleted
                 PROVE  \/ Watched(u, m, d[c], Len(t))
                        \/ /\ c \in 1 .. Len(db) /\ ~db[c].deleted /\ d[c].lits = db[c].lits
                           /\ d[c].watch = db[c].watch
      OBVIOUS
    <3>1. CASE c = Len(db) + 1
      BY <2>3, <2>4, <3>1
    <3>2. CASE c \in 1 .. Len(db)
      BY <2>3, <3>2
    <3> QED
      BY <2>5, <3>1, <3>2
  <2>7. WatchesOK(u, m, d, inst.lemmas, Len(t), {})
    BY <1>6, <2>6, WatchesOther
  <2> QED
    BY <2>7 DEF u, t, m
<1> QED
  BY <1>9, <1>10

LEMMA LearnedGiven ==
    ASSUME IInv, Analyzing, NEW l, AtTop(Learned) = {l}, NEW rest, rest = Learned \ {l},
           NEW n, n = BackjumpLevel(rest), NEW d \in LearnedDbs(l, rest), NEW i \in 1 .. added
    PROVE  GivenOK(Append(Kept(n), l), LimitsTo(limits, n), d, inst.clauses[i])
<1> DEFINE t == Kept(n)
           m == LimitsTo(limits, n)
           C == inst.clauses[i]
<1>1. /\ l \in Lits /\ n \in 0 .. Len(limits) /\ Fresh(t, l)
  BY BackjumpFacts
<1>2. inst.vars \in Nat /\ Lits = LitsUpTo(inst.vars) /\ Len(db) \in Nat /\ pc = "conflict"
  BY Basics DEF Analyzing
<1>3. GivenOK(trail, limits, db, C)
  BY <1>2, WhileRunning DEF Running
<1>4. TrailOK(inst.vars, t, m) /\ GivenOK(t, m, db, C)
  <2> HIDE DEF C
  <2> QED
    BY <1>1, <1>2, <1>3, Levels, KeptIsCut, CutFacts, GivenCut
<1> HIDE DEF t, m, C
<1>5. GivenOK(Append(t, l), m, db, C)
  BY <1>1, <1>2, <1>4, GivenGrow
<1>6. CASE rest = {}
  <2>1. d = db
    BY <1>6 DEF LearnedDbs
  <2> QED
    BY <1>5, <2>1 DEF t, m, C
<1>7. CASE rest # {}
  <2>1. PICK x \in LearnedClauses(l, rest) : d = Append(db, x)
    BY <1>7 DEF LearnedDbs
  <2>2. x \in ClauseType(inst.vars) /\ ClauseOK(x)
    BY LearnedClause
  <2>3. Len(d) = Len(db) + 1 /\ \A c \in 1 .. Len(db) : d[c] = db[c]
    BY <1>2, <2>1, <2>2, ExtendedFacts DEF IInv
  <2>4. GivenOK(Append(t, l), m, d, C)
    BY <1>2, <1>5, <2>3, GivenOther
  <2> QED
    BY <2>4 DEF t, m, C
<1> QED
  BY <1>6, <1>7

LEMMA BoundFacts ==
    ASSUME IInv
    PROVE  /\ sinceRestart \in 0 .. inst.cooldown /\ untilReduce \in Int
           /\ inst.cooldown \in Nat /\ inst.spacing \in Nat /\ inst.checks \in Nat
<1>1. {inst.vars, inst.checks, inst.cooldown, inst.threshold, inst.spacing} \subseteq Nat
  BY CDCLAssumption DEF IInv, ControlOK
<1> QED
  BY <1>1 DEF IInv, ControlOK

\* After the deletion too.
LEMMA ReducedFacts ==
    ASSUME IInv, Analyzing, NEW l, AtTop(Learned) = {l}, NEW rest, rest = Learned \ {l},
           NEW n, n = BackjumpLevel(rest), NEW d \in LearnedDbs(l, rest),
           NEW D, D \subseteq Deletable(d, Forced(l, rest)), NEW e, e = Delete(d, D)
    PROVE  /\ Shape(inst.vars, Append(Kept(n), l), LimitsTo(limits, n), Forced(l, rest), e,
                    assumptions, Models(Given))
           /\ ~Refuted => WatchesOK(Append(Kept(n), l), LimitsTo(limits, n), e, inst.lemmas,
                                    Len(Kept(n)), {})
           /\ \A i \in 1 .. added :
                  GivenOK(Append(Kept(n), l), LimitsTo(limits, n), e, inst.clauses[i])
<1> DEFINE t == Append(Kept(n), l)
           m == LimitsTo(limits, n)
           q == Len(Kept(n))
<1>1. inst.vars \in Nat
  BY Basics
<1>2. Shape(inst.vars, t, m, Forced(l, rest), d, assumptions, Models(Given))
  BY LearnedShape
<1>3. \A i \in 1 .. added : GivenOK(t, m, d, inst.clauses[i])
  BY LearnedGiven
<1>4. ~Refuted => WatchesOK(t, m, d, inst.lemmas, q, {})
  BY LearnedWatches
<1> HIDE DEF t, m, q
<1>5. Shape(inst.vars, t, m, Forced(l, rest), e, assumptions, Models(Given))
  BY <1>1, <1>2, ShapeDelete
<1>6. /\ Len(e) = Len(d) /\ Len(d) \in Nat
      /\ \A c \in 1 .. Len(d) : /\ e[c].lits = d[c].lits /\ e[c].watch = d[c].watch
                                /\ e[c].learned = d[c].learned /\ (~e[c].deleted => ~d[c].deleted)
  <2>1. \A c \in D : d[c].learned
    BY DEF Deletable
  <2>2. DbOK(inst.vars, d)
    BY <1>2 DEF Shape
  <2> QED
    BY <1>1, <2>1, <2>2, DeleteFacts, LenProperties DEF DbOK
<1>7. ASSUME ~Refuted PROVE WatchesOK(t, m, e, inst.lemmas, q, {})
  <2>1. \A c \in 1 .. Len(e) : ~e[c].deleted /\ e[c].lits \notin inst.lemmas =>
            /\ c \in 1 .. Len(d) /\ ~d[c].deleted /\ e[c].lits = d[c].lits
            /\ e[c].watch = d[c].watch /\ (c \in {} <=> c \in {})
    BY <1>6
  <2> QED
    BY <1>4, <1>7, <2>1, WatchesOther
<1>8. ASSUME NEW i \in 1 .. added PROVE GivenOK(t, m, e, inst.clauses[i])
  BY <1>3, <1>6, GivenOther
<1> QED
  BY <1>5, <1>7, <1>8 DEF t, m, q

LEMMA LearnStep ==
    ASSUME IInv, Learn
    PROVE  IInv'
<1>1. /\ UNCHANGED <<inst, added, refused, assumptions, core, answers>>
      /\ pc = "conflict" /\ pc' = "propagate" /\ conflict' = {} /\ pending' = {} /\ Analyzing
  BY DEF Learn, problem, Analyzing
<1>2. PICK l \in AtTop(Learned) : LearnAndJump(l, Learned \ {l})
  BY DEF Learn
<1> DEFINE rest == Learned \ {l}
           n == BackjumpLevel(rest)
           c == IF rest = {} THEN 0 ELSE Len(db) + 1
           t == Append(Kept(n), l)
           m == LimitsTo(limits, n)
           r == Forced(l, rest)
<1>3. AtTop(Learned) = {l}
  <2>1. PICK k \in Learned : AtTop(Learned) = {k}
    BY <1>1, LearnedFacts
  <2> QED
    BY <1>2, <2>1
<1>4. /\ \E d \in LearnedDbs(l, rest) : Reduce(d, r)
      /\ GoOn(n, l, c) \/ Restart(n, l, c)
  BY <1>2 DEF LearnAndJump, LearnedDbs, Forced
<1>5. PICK d \in LearnedDbs(l, rest) : Reduce(d, r)
  BY <1>4
<1>6. PICK D \in SUBSET Deletable(d, r) :
          /\ db' = Delete(d, D)
          /\ untilReduce' = IF untilReduce - 2 <= 0 THEN untilReduce - 2 + inst.spacing ELSE untilReduce - 2
  BY <1>5 DEF Reduce
<1>7. /\ Shape(inst.vars, t, m, r, db', assumptions, Models(Given))
      /\ ~Refuted => WatchesOK(t, m, db', inst.lemmas, Len(Kept(n)), {})
      /\ \A i \in 1 .. added : GivenOK(t, m, db', inst.clauses[i])
  <2>1. rest = Learned \ {l} /\ n = BackjumpLevel(rest)
    OBVIOUS
  <2> HIDE DEF rest, n
  <2> QED
    BY <1>1, <1>3, <1>6, <2>1, ReducedFacts
<1>8. /\ l \in Lits /\ n \in 0 .. Len(limits) /\ n < Len(limits) /\ Fresh(Kept(n), l)
  <2>1. rest = Learned \ {l} /\ n = BackjumpLevel(rest)
    OBVIOUS
  <2> HIDE DEF rest, n
  <2> QED
    BY <1>1, <1>3, <2>1, BackjumpFacts
<1> HIDE DEF rest
<1>9. r = [Retained(inst.vars, Kept(n), reason) EXCEPT ![Var(l)] = c]
  BY ReasonsAre DEF Forced
<1> HIDE DEF n, c, r
<1>10. /\ TrailOK(inst.vars, Kept(n), m) /\ Len(Kept(n)) \in Nat /\ Len(m) = n
       /\ \A i \in 1 .. Len(Kept(n)) : Kept(n)[i] = trail[i] /\ i \in 1 .. Len(trail)
       /\ \A k \in 1 .. n : m[k] = limits[k]
       /\ inst.vars \in Nat /\ Lits = LitsUpTo(inst.vars)
  BY <1>8, KeptFacts, Basics
<1> HIDE DEF m
<1>11. /\ TrailOK(inst.vars, t, m) /\ Len(t) = Len(Kept(n)) + 1
       /\ \A i \in 1 .. Len(Kept(n)) : t[i] = Kept(n)[i]
       /\ \A i \in 1 .. Len(Kept(n)) : Var(Kept(n)[i]) # Var(l)
  BY <1>8, <1>10, GrowTrail
<1> HIDE DEF t
<1>12. sinceRestart' \in 0 .. inst.cooldown /\ untilReduce' \in Int
  BY <1>4, <1>6, BoundFacts DEF GoOn, Restart
<1>13. \A k \in 1 .. n : m[k] \in Nat /\ m[k] < Len(Kept(n))
  BY <1>10, ElementOfSeq DEF TrailOK
<1>14. ConflictOK' /\ Unvisited' = {}
  BY <1>1 DEF ConflictOK, Unvisited
<1>15. CASE Jump(n, l, c)
  <2>1. trail' = t /\ limits' = m /\ reason' = r /\ qhead' = Len(Kept(n))
    BY <1>9, <1>15, ReasonsAre DEF Jump, t, m, LimitsTo
  <2>2. Inner
    BY <1>1, <1>12, <2>1 DEF Inner, Running
  <2>3. QueueOK'
    BY <1>1, <1>10, <1>13, <2>1 DEF QueueOK
  <2>4. ~Refuted => WatchesOK(trail', limits', db', inst.lemmas, qhead', Unvisited')
    BY <1>7, <1>14, <2>1
  <2>5. \A i \in 1 .. added : GivenOK(trail', limits', db', inst.clauses[i])
    BY <1>7, <2>1
  <2>6. Shape(inst.vars, trail', limits', reason', db', assumptions, Models(Given))
    BY <1>7, <2>1
  <2>7. qhead' \in 0 .. Len(trail') /\ pending' \subseteq 1 .. Len(db') /\ conflict' \subseteq Lits
    BY <1>1, <1>10, <1>11, <2>1
  <2> QED
    BY <1>14, <2>2, <2>3, <2>4, <2>5, <2>6, <2>7, InnerStep
<1>16. CASE n > 0 /\ Restart(n, l, c)
  <2> DEFINE u == Kept(0)
  <2>1. trail' = u /\ limits' = <<>> /\ reason' = ReasonsOf(u) /\ qhead' = Len(u)
    BY <1>8, <1>16 DEF Restart
  <2>2. /\ Len(u) = limits[1] /\ Len(u) \in Nat /\ TrailOK(inst.vars, u, LimitsTo(limits, 0))
        /\ \A i \in 1 .. Len(u) : u[i] = trail[i] /\ i \in 1 .. Len(trail)
    <3>1. 0 \in 0 .. Len(limits) /\ 0 < Len(limits)
      BY <1>8, <1>16
    <3> QED
      BY <3>1, KeptFacts
  <2>3. m[1] = limits[1] /\ m[1] < Len(Kept(n)) /\ 0 < Len(m) /\ 0 \in 0 .. Len(m)
    BY <1>8, <1>10, <1>13, <1>16
  <2> HIDE DEF u
  <2>4. Cut(t, m, 0) = u
    <3>1. /\ Cut(t, m, 0) \in Seq(Lits) /\ Len(Cut(t, m, 0)) = m[1]
          /\ \A i \in 1 .. Len(Cut(t, m, 0)) : Cut(t, m, 0)[i] = t[i]
      BY <1>10, <1>11, <2>3, CutFacts
    <3>2. u \in Seq(Lits)
      BY <1>10, <2>2 DEF TrailOK
    <3>3. \A i \in 1 .. Len(u) : Cut(t, m, 0)[i] = u[i]
      BY <1>10, <1>11, <2>2, <2>3, <3>1
    <3> QED
      BY <2>2, <2>3, <3>1, <3>2, <3>3, SeqEqual
  <2>5. LimitsTo(m, 0) = <<>>
    <3>1. LimitsTo(m, 0) \in Seq(Nat) /\ Len(LimitsTo(m, 0)) = 0
      BY <1>10, <1>11, <2>3, CutFacts
    <3> QED
      BY <3>1, EmptySeq
  <2>6. Retained(inst.vars, u, r) = reason'
    <3>1. ASSUME NEW v \in 1 .. inst.vars, NEW i \in DOMAIN u, Var(u[i]) = v PROVE r[v] = reason[v]
      <4>1. DOMAIN u = 1 .. Len(u)
        BY <2>2, LenProperties DEF TrailOK
      <4>2. i \in 1 .. Len(Kept(n)) /\ Kept(n)[i] = u[i]
        BY <1>10, <2>2, <2>3, <4>1
      <4>3. v # Var(l)
        BY <1>11, <3>1, <4>2
      <4>4. \E j \in DOMAIN Kept(n) : Var(Kept(n)[j]) = v
        <5>1. DOMAIN Kept(n) = 1 .. Len(Kept(n))
          BY <1>10, LenProperties DEF TrailOK
        <5> QED
          BY <3>1, <4>2, <5>1
      <4> QED
        BY <1>9, <4>3, <4>4 DEF Retained
    <3>2. Retained(inst.vars, u, r) = Retained(inst.vars, u, reason)
      BY <3>1 DEF Retained
    <3> QED
      BY <2>1, <3>2, ReasonsAre
  <2>7. Shape(inst.vars, trail', limits', reason', db', assumptions, Models(Given))
    BY <1>7, <1>10, <2>1, <2>3, <2>4, <2>5, <2>6, ShapeCut
  <2>8. Inner
    BY <1>1, <1>12 DEF Inner, Running
  <2>9. QueueOK'
    BY <1>1, <2>1 DEF QueueOK
  <2>10. ASSUME ~Refuted PROVE WatchesOK(trail', limits', db', inst.lemmas, qhead', Unvisited')
    <3>1. WatchesOK(t, m, db', inst.lemmas, Len(Kept(n)), {})
      BY <1>7, <2>10
    <3>2. Len(u) \in Int /\ Len(u) <= Len(Cut(t, m, 0)) /\ Len(u) <= Len(Kept(n)) /\ Len(Kept(n)) \in Int
      BY <1>10, <2>2, <2>3, <2>4
    <3>3. WatchesOK(Cut(t, m, 0), LimitsTo(m, 0), db', inst.lemmas, Len(u), {})
      BY <1>10, <1>11, <2>3, <3>1, <3>2, WatchesCut
    <3> QED
      BY <1>14, <2>1, <2>4, <2>5, <3>3
  <2>11. \A i \in 1 .. added : GivenOK(trail', limits', db', inst.clauses[i])
    <3> SUFFICES ASSUME NEW i \in 1 .. added PROVE GivenOK(trail', limits', db', inst.clauses[i])
      OBVIOUS
    <3>1. GivenOK(t, m, db', inst.clauses[i])
      BY <1>7
    <3>2. GivenOK(Cut(t, m, 0), LimitsTo(m, 0), db', inst.clauses[i])
      BY <1>10, <1>11, <2>3, <3>1, GivenCut
    <3> QED
      BY <2>1, <2>4, <2>5, <3>2
  <2>12. qhead' \in 0 .. Len(trail') /\ pending' \subseteq 1 .. Len(db') /\ conflict' \subseteq Lits
    BY <1>1, <2>1, <2>2
  <2> QED
    BY <1>14, <2>7, <2>8, <2>9, <2>10, <2>11, <2>12, InnerStep
<1>17. Jump(n, l, c) \/ (n > 0 /\ Restart(n, l, c))
  BY <1>4, <1>8 DEF GoOn, Restart
<1> QED
  BY <1>15, <1>16, <1>17

(***************************************************************************)
(* The caller's steps.                                                     *)
(***************************************************************************)

\* At level 0 the assumptions may change, and there may be fewer models.
LEMMA ShapeOther ==
    ASSUME NEW N, NEW t, NEW lim, NEW r, NEW d, NEW A, NEW B, NEW M, NEW K \in SUBSET M,
           Shape(N, t, lim, r, d, A, M), A = B \/ Len(lim) = 0
    PROVE  Shape(N, t, lim, r, d, B, K)
<1>1. DecisionsOK(t, lim, r, B)
  <2>1. CASE A = B
    BY <2>1 DEF Shape
  <2>2. CASE Len(lim) = 0
    BY <2>2 DEF DecisionsOK, Ground
  <2> QED
    BY <2>1, <2>2
<1> QED
  BY <1>1 DEF Shape, GroundOK, FollowOK

LEMMA Assembled ==
    ASSUME ControlOK', Shape(inst.vars, trail, limits, reason, db, assumptions, Models(Given))',
           QueueOK', ConflictOK',
           (~Refuted /\ ~refused => WatchesOK(trail, limits, db, inst.lemmas, qhead, Unvisited))',
           (~refused => \A i \in 1 .. added : GivenOK(trail, limits, db, inst.clauses[i]))',
           SatIsModel', CoreIsUnsat'
    PROVE  IInv'
  BY DEF IInv, Shape

LEMMA SameModels ==
    ASSUME inst' = inst, added' = added
    PROVE  Models(Given)' = Models(Given)
  BY DEF Models, Given, Valuations, Vars

LEMMA BeginCheckStep ==
    ASSUME IInv, NEW A \in inst.assumed, BeginCheck(A)
    PROVE  IInv'
<1>1. /\ UNCHANGED <<inst, added, refused, db, trail, limits, reason, qhead, pending, conflict,
                     answers, sinceRestart, untilReduce>>
      /\ pc = "idle" /\ ~refused /\ Len(answers) < inst.checks
      /\ assumptions' = A /\ core' = {} /\ pc' = "propagate"
  BY DEF BeginCheck, problem, counters
<1>2. inst \in Instances /\ inst.assumed \subseteq SUBSET Lits
  BY CDCLAssumption DEF IInv, ControlOK, Lits
<1>3. Lits' = Lits
  BY <1>1 DEF Lits
<1>4. ControlOK'
  <2>1. /\ refused \in BOOLEAN
        /\ added \in 0 .. Len(inst.clauses) /\ qhead \in 0 .. Len(trail) /\ pending \subseteq 1 .. Len(db)
        /\ conflict \subseteq Lits
        /\ answers \in Seq(Outcomes) /\ Len(answers) <= inst.checks
        /\ sinceRestart \in 0 .. inst.cooldown /\ untilReduce \in Int
    BY DEF IInv, ControlOK
  <2> QED
    BY <1>1, <1>2, <1>3, <2>1 DEF ControlOK, Running, Outcomes
<1>5. limits = <<>> /\ Len(limits) = 0
  BY <1>1, EmptySeq DEF IInv, ControlOK
<1>6. Shape(inst.vars, trail, limits, reason, db, assumptions, Models(Given))'
  <2>1. Shape(inst.vars, trail, limits, reason, db, A, Models(Given))
    BY <1>5, ShapeNow, ShapeOther
  <2> QED
    BY <1>1, <2>1, SameModels
<1>7. QueueOK' /\ ConflictOK' /\ SatIsModel' /\ CoreIsUnsat'
  BY <1>1, <1>5 DEF QueueOK, ConflictOK, SatIsModel, CoreIsUnsat
<1>8. (~Refuted /\ ~refused => WatchesOK(trail, limits, db, inst.lemmas, qhead, Unvisited))'
  <2>1. Unvisited' = Unvisited /\ Refuted' = Refuted
    BY <1>1 DEF Unvisited, Refuted
  <2> QED
    BY <1>1, <2>1 DEF IInv
<1>9. (~refused => \A i \in 1 .. added : GivenOK(trail, limits, db, inst.clauses[i]))'
  BY <1>1 DEF IInv
<1> QED
  BY <1>4, <1>6, <1>7, <1>8, <1>9, Assembled

LEMMA ResetStep ==
    ASSUME IInv, Reset
    PROVE  IInv'
<1>1. /\ UNCHANGED <<inst, added, refused, db, answers, sinceRestart, untilReduce>>
      /\ pc \in {"SAT", "UNSAT"}
      /\ trail' = Kept(0) /\ reason' = ReasonsOf(Kept(0)) /\ limits' = <<>>
      /\ qhead' = IF DecisionLevel > 0 THEN Len(Kept(0)) ELSE qhead
      /\ pending' = {} /\ pc' = "idle" /\ conflict' = {} /\ assumptions' = {} /\ core' = {}
  BY DEF Reset, problem, counters
<1>2. 0 \in 0 .. Len(limits) /\ inst.vars \in Nat /\ Len(limits) \in Nat /\ ~refused
  BY <1>1, Basics DEF IInv, ControlOK
<1>3. /\ Kept(0) = Cut(trail, limits, 0) /\ TrailOK(inst.vars, trail, limits)
      /\ TrailOK(inst.vars, Kept(0), LimitsTo(limits, 0))
      /\ Len(Kept(0)) \in Nat /\ Len(LimitsTo(limits, 0)) = 0
      /\ 0 < Len(limits) => Len(Kept(0)) = limits[1]
      /\ 0 = Len(limits) => Len(Kept(0)) = Len(trail)
  BY <1>2, KeptFacts, KeptIsCut, Levels
<1>4. LimitsTo(limits, 0) = <<>>
  <2>1. LimitsTo(limits, 0) \in Seq(Nat)
    BY <1>3 DEF TrailOK
  <2> QED
    BY <1>3, <2>1, EmptySeq
<1>5. qhead' \in 0 .. Len(Kept(0)) /\ qhead' \in Int /\ qhead' <= qhead /\ qhead \in Int
  <2>1. qhead \in 0 .. Len(trail)
    BY DEF IInv, ControlOK
  <2>2. \A k \in 1 .. Len(limits) : limits[k] <= qhead
    BY DEF IInv, QueueOK
  <2>3. CASE DecisionLevel > 0
    <3>1. 1 \in 1 .. Len(limits) /\ 0 < Len(limits)
      BY <1>2, <2>3 DEF DecisionLevel
    <3> QED
      BY <1>1, <1>3, <2>1, <2>2, <2>3, <3>1
  <2>4. CASE ~(DecisionLevel > 0)
    <3>1. 0 = Len(limits)
      BY <1>2, <2>4 DEF DecisionLevel
    <3> QED
      BY <1>1, <1>3, <2>1, <2>4, <3>1
  <2> QED
    BY <2>3, <2>4
<1>6. ControlOK'
  <2>1. /\ inst \in Instances /\ added \in 0 .. Len(inst.clauses) /\ refused \in BOOLEAN
        /\ answers \in Seq(Outcomes) /\ Len(answers) <= inst.checks
        /\ sinceRestart \in 0 .. inst.cooldown /\ untilReduce \in Int
    BY DEF IInv, ControlOK
  <2> QED
    BY <1>1, <1>2, <1>5, <2>1 DEF ControlOK, Running, Outcomes
<1>7. Shape(inst.vars, trail, limits, reason, db, assumptions, Models(Given))'
  <2>1. Shape(inst.vars, Cut(trail, limits, 0), LimitsTo(limits, 0),
              Retained(inst.vars, Cut(trail, limits, 0), reason), db, assumptions, Models(Given))
    BY <1>2, ShapeNow, ShapeCut
  <2>2. Shape(inst.vars, Cut(trail, limits, 0), LimitsTo(limits, 0),
              Retained(inst.vars, Cut(trail, limits, 0), reason), db, {}, Models(Given))
    BY <1>3, <2>1, ShapeOther
  <2>3. reason' = Retained(inst.vars, Cut(trail, limits, 0), reason)
    BY <1>1, <1>3, ReasonsAre
  <2> QED
    BY <1>1, <1>3, <1>4, <2>2, <2>3, SameModels
<1>8. QueueOK' /\ ConflictOK' /\ SatIsModel' /\ CoreIsUnsat'
  BY <1>1 DEF QueueOK, ConflictOK, SatIsModel, CoreIsUnsat
<1>9. (~Refuted /\ ~refused => WatchesOK(trail, limits, db, inst.lemmas, qhead, Unvisited))'
  <2>1. Unvisited' = {} /\ Unvisited = {} /\ Refuted' = Refuted
    BY <1>1 DEF Unvisited, Refuted
  <2>2. ASSUME ~Refuted PROVE WatchesOK(Kept(0), <<>>, db, inst.lemmas, qhead', {})
    <3>1. WatchesOK(trail, limits, db, inst.lemmas, qhead, {})
      BY <1>2, <2>1, <2>2 DEF IInv
    <3>2. qhead' <= Len(Cut(trail, limits, 0))
      BY <1>3, <1>5
    <3> QED
      BY <1>2, <1>3, <1>4, <1>5, <3>1, <3>2, WatchesCut
  <2> QED
    BY <1>1, <2>1, <2>2
<1>10. (~refused => \A i \in 1 .. added : GivenOK(trail, limits, db, inst.clauses[i]))'
  <2>1. ASSUME NEW i \in 1 .. added PROVE GivenOK(Kept(0), <<>>, db, inst.clauses[i])
    <3>1. GivenOK(trail, limits, db, inst.clauses[i])
      BY <1>2 DEF IInv
    <3> QED
      BY <1>2, <1>3, <1>4, <3>1, GivenCut
  <2> QED
    BY <1>1, <2>1
<1> QED
  BY <1>6, <1>7, <1>8, <1>9, <1>10, Assembled

\* What add_clause is given.
LEMMA AddedFacts ==
    ASSUME IInv, MayAdd, inst' = inst, added' = added + 1
    PROVE  /\ pc = "idle" /\ ~refused /\ limits = <<>> /\ Len(limits) = 0
           /\ inst \in Instances /\ added' \in 0 .. Len(inst.clauses) /\ added \in Nat
           /\ NextClause \in Seq(Lits) /\ NextClause = inst.clauses[added + 1]
           /\ Len(NextClause) \in Nat /\ DOMAIN NextClause = 1 .. Len(NextClause)
           /\ Range(NextClause) \subseteq Lits
           /\ \A i, j \in 1 .. Len(NextClause) : NextClause[i] = NextClause[j] => i = j
           /\ Models(Given)' \in SUBSET Models(Given)
           /\ \A m \in Models(Given)' : Range(NextClause) \cap m # {}
<1>1. pc = "idle" /\ ~refused /\ limits = <<>> /\ Len(limits) = 0 /\ inst \in Instances
  BY EmptySeq DEF MayAdd, IInv, ControlOK
<1>2. inst.clauses \in Seq(Seq(Lits) \ {<<>>})
  BY <1>1, CDCLAssumption DEF Lits
<1>3. added \in Nat /\ Len(inst.clauses) \in Nat /\ added + 1 \in 1 .. Len(inst.clauses)
      /\ DOMAIN inst.clauses = 1 .. Len(inst.clauses)
  BY <1>2, LenProperties DEF IInv, ControlOK, MayAdd
<1>4. NextClause \in Seq(Lits) /\ NextClause = inst.clauses[added + 1]
  BY <1>2, <1>3, ElementOfSeq DEF NextClause
<1>5. Len(NextClause) \in Nat /\ DOMAIN NextClause = 1 .. Len(NextClause)
  BY <1>4, LenProperties
<1>6. Range(NextClause) \subseteq Lits
  BY <1>4, <1>5, ElementOfSeq DEF Range
<1>7. \A i, j \in 1 .. Len(NextClause) : NextClause[i] = NextClause[j] => i = j
  <2>1. \A i \in DOMAIN inst.clauses : IsInjective(inst.clauses[i])
    BY <1>1, CDCLAssumption
  <2>2. IsInjective(NextClause)
    BY <1>3, <1>4, <2>1
  <2> QED
    BY <1>5, <2>2 DEF IsInjective
<1>8. Given \subseteq Given' /\ Range(NextClause) \in Given' /\ Valuations' = Valuations
  <2>1. \A i \in 1 .. added : i \in 1 .. added + 1
    BY <1>3
  <2>2. added + 1 \in 1 .. added + 1
    BY <1>3
  <2> QED
    BY <1>4, <2>1, <2>2 DEF Given, Valuations, Vars
<1>9. Models(Given)' = {m \in Valuations : \A C \in Given' : C \cap m # {}}
  BY <1>8 DEF Models
<1>10. Models(Given)' \in SUBSET Models(Given) /\ \A m \in Models(Given)' : Range(NextClause) \cap m # {}
  BY <1>8, <1>9 DEF Models
<1> QED
  BY <1>1, <1>3, <1>4, <1>5, <1>6, <1>7, <1>10

LEMMA AddUnitStep ==
    ASSUME IInv, AddUnit
    PROVE  IInv'
<1> DEFINE a == NextClause[1]
<1>1. /\ UNCHANGED <<inst, db, limits, reason, qhead, pending, pc, conflict, assumptions, core,
                     answers, sinceRestart, untilReduce>>
      /\ MayAdd /\ Len(NextClause) = 1 /\ added' = added + 1 /\ refused' = IsFalse(a)
      /\ trail' = IF IsFree(a) THEN Append(trail, a) ELSE trail
  BY DEF AddUnit, counters
<1>2. /\ pc = "idle" /\ ~refused /\ limits = <<>> /\ Len(limits) = 0
      /\ inst \in Instances /\ added' \in 0 .. Len(inst.clauses) /\ added \in Nat
      /\ NextClause \in Seq(Lits) /\ NextClause = inst.clauses[added + 1]
      /\ DOMAIN NextClause = 1 .. 1
      /\ Models(Given)' \in SUBSET Models(Given)
      /\ \A m \in Models(Given)' : Range(NextClause) \cap m # {}
  BY <1>1, AddedFacts
<1>3. a \in Lits /\ Range(NextClause) = {a}
  <2>1. 1 \in 1 .. Len(NextClause)
    BY <1>1
  <2>2. \A i \in 1 .. 1 : i = 1
    OBVIOUS
  <2> QED
    BY <1>2, <2>1, <2>2, ElementOfSeq DEF Range
<1>4. \A m \in Models(Given)' : a \in m
  BY <1>2, <1>3
<1> HIDE DEF a
<1>5. /\ inst.vars \in Nat /\ Lits = LitsUpTo(inst.vars) /\ Len(trail) \in Nat
      /\ reason \in [1 .. inst.vars -> 0 .. Len(db)] /\ TrailOK(inst.vars, trail, limits)
  BY Basics, Levels DEF Vars
<1>6. Shape(inst.vars, trail, limits, reason, db, assumptions, Models(Given)')
  BY <1>2, ShapeNow, ShapeOther
<1>7. ASSUME IsFree(a)
      PROVE  /\ Fresh(trail, a) /\ Shape(inst.vars, Append(trail, a), limits, reason, db, assumptions, Models(Given)')
             /\ Len(Append(trail, a)) = Len(trail) + 1 /\ Append(trail, a)[Len(trail) + 1] = a
  <2>1. Fresh(trail, a)
    BY <1>3, <1>7, TruthFacts
  <2>2. \A i \in 1 .. Len(trail) : Var(trail[i]) # Var(a)
    BY <1>3, <1>5, <2>1, GrowTrail
  <2>3. Var(a) \in 1 .. inst.vars
    BY <1>3, <1>5, LitFacts
  <2>4. reason[Var(a)] = 0
    BY <2>2, <2>3 DEF IInv, ReasonsOK
  <2>5. [reason EXCEPT ![Var(a)] = 0] = reason
    BY <1>5, <2>3, <2>4
  <2>6. Shape(inst.vars, Append(trail, a), limits, [reason EXCEPT ![Var(a)] = 0], db, assumptions, Models(Given)')
    BY <1>2, <1>3, <1>4, <1>5, <1>6, <2>1, ShapeUnit
  <2>7. Len(Append(trail, a)) = Len(trail) + 1 /\ Append(trail, a)[Len(trail) + 1] = a
    BY <1>3, <1>5, <2>1, GrowTrail
  <2>8. Shape(inst.vars, Append(trail, a), limits, reason, db, assumptions, Models(Given)')
    BY <2>5, <2>6
  <2> QED
    BY <2>1, <2>7, <2>8
<1>8. Shape(inst.vars, trail, limits, reason, db, assumptions, Models(Given))'
  <2>1. Shape(inst.vars, trail', limits, reason, db, assumptions, Models(Given)')
    BY <1>1, <1>6, <1>7
  <2> QED
    BY <1>1, <2>1
<1>9. ControlOK'
  <2>1. /\ qhead \in 0 .. Len(trail) /\ pending \subseteq 1 .. Len(db)
        /\ conflict \subseteq Lits /\ assumptions \subseteq Lits /\ core \subseteq Lits
        /\ answers \in Seq(Outcomes) /\ Len(answers) <= inst.checks
        /\ sinceRestart \in 0 .. inst.cooldown /\ untilReduce \in Int
    BY DEF IInv, ControlOK
  <2>2. qhead \in 0 .. Len(trail')
    BY <1>1, <1>5, <1>7, <2>1
  <2>3. refused' \in BOOLEAN
    BY <1>1 DEF IsFalse
  <2>4. Lits' = Lits
    BY <1>1 DEF Lits
  <2> QED
    BY <1>1, <1>2, <2>1, <2>2, <2>3, <2>4 DEF ControlOK, Running, Outcomes
<1>10. QueueOK' /\ ConflictOK' /\ SatIsModel' /\ CoreIsUnsat'
  BY <1>1, <1>2 DEF QueueOK, ConflictOK, SatIsModel, CoreIsUnsat
<1>11. (~Refuted /\ ~refused => WatchesOK(trail, limits, db, inst.lemmas, qhead, Unvisited))'
  <2>1. Unvisited' = {} /\ Unvisited = {} /\ Refuted' = Refuted
    BY <1>1, <1>2 DEF Unvisited, Refuted
  <2>2. ASSUME ~Refuted PROVE WatchesOK(trail', limits, db, inst.lemmas, qhead, {})
    <3>1. WatchesOK(trail, limits, db, inst.lemmas, qhead, {})
      BY <1>2, <2>1, <2>2 DEF IInv
    <3>2. qhead \in Int /\ qhead <= Len(trail)
      BY <1>5 DEF IInv, ControlOK
    <3>3. CASE IsFree(a)
      BY <1>1, <1>3, <1>5, <1>7, <3>1, <3>2, <3>3, WatchesGrow
    <3>4. CASE ~IsFree(a)
      BY <1>1, <3>1, <3>4
    <3> QED
      BY <3>3, <3>4
  <2> QED
    BY <1>1, <2>1, <2>2
<1>12. (~refused => \A i \in 1 .. added : GivenOK(trail, limits, db, inst.clauses[i]))'
  <2>1. ASSUME ~IsFalse(a), NEW i \in 1 .. added + 1 PROVE GivenOK(trail', limits, db, inst.clauses[i])
    <3>1. CASE i = added + 1
      <4>1. \E j \in 1 .. Len(trail') : trail'[j] = a
        <5>1. CASE IsFree(a)
          BY <1>1, <1>5, <1>7, <5>1
        <5>2. CASE ~IsFree(a)
          BY <1>1, <1>3, <2>1, <5>2, TruthFacts DEF IsFree
        <5> QED
          BY <5>1, <5>2
      <4> QED
        BY <1>1, <1>2, <3>1, <4>1 DEF GivenOK, Ground, a
    <3>2. CASE i \in 1 .. added
      <4>1. GivenOK(trail, limits, db, inst.clauses[i])
        BY <1>2, <3>2 DEF IInv
      <4>2. CASE IsFree(a)
        BY <1>1, <1>3, <1>5, <1>7, <4>1, <4>2, GivenGrow
      <4>3. CASE ~IsFree(a)
        BY <1>1, <4>1, <4>3
      <4> QED
        BY <4>2, <4>3
    <3> QED
      BY <1>2, <3>1, <3>2
  <2> QED
    BY <1>1, <2>1
<1> QED
  BY <1>8, <1>9, <1>10, <1>11, <1>12, Assembled

\* The best of some literals to watch: none is worth more.
LEMMA BestFacts ==
    ASSUME NEW C, NEW S, S \subseteq Nat, S # {}
    PROVE  Best(C, S) \in S /\ \A j \in S : Worth(C[j]) <= Worth(C[Best(C, S)])
<1> DEFINE T == {2 - Worth(C[i]) : i \in S}
<1>1. \A i \in S : Worth(C[i]) \in 0 .. 2
  BY DEF Worth
<1>2. T \subseteq Nat /\ T # {}
  <2>1. \A i \in S : 2 - Worth(C[i]) \in Nat
    BY <1>1
  <2> QED
    BY <2>1
<1>3. PICK b \in T : \A k \in T : b <= k
  <2> HIDE DEF T
  <2> QED
    BY <1>2, LeastOf
<1> DEFINE B == {i \in S : 2 - Worth(C[i]) = b}
<1>4. B \subseteq Nat /\ B # {}
  BY <1>3
<1>5. PICK i \in B : \A j \in B : i <= j
  <2> HIDE DEF B
  <2> QED
    BY <1>4, LeastOf
<1>6. ASSUME NEW j \in S PROVE Worth(C[j]) <= Worth(C[i]) /\ (Worth(C[j]) = Worth(C[i]) => i <= j)
  <2>1. b <= 2 - Worth(C[j]) /\ b = 2 - Worth(C[i])
    BY <1>3, <1>5
  <2>2. Worth(C[j]) \in 0 .. 2 /\ Worth(C[i]) \in 0 .. 2
    BY <1>1, <1>5
  <2>3. Worth(C[j]) = Worth(C[i]) => j \in B
    BY <2>1
  <2> QED
    <3>1. Worth(C[j]) <= Worth(C[i])
      <4>1. Worth(C[j]) \in Int /\ Worth(C[i]) \in Int
        BY <2>2
      <4> QED
        BY <2>1, <4>1
    <3>2. Worth(C[j]) = Worth(C[i]) => i <= j
      BY <1>5, <2>3
    <3> QED
      BY <3>1, <3>2
<1>7. i \in S /\ \A j \in S \ {i} :
                     Worth(C[i]) > Worth(C[j]) \/ (Worth(C[i]) = Worth(C[j]) /\ i < j)
  <2>1. i \in S
    OBVIOUS
  <2>2. ASSUME NEW j \in S \ {i}
        PROVE  Worth(C[i]) > Worth(C[j]) \/ (Worth(C[i]) = Worth(C[j]) /\ i < j)
    <3>1. Worth(C[j]) \in 0 .. 2 /\ Worth(C[i]) \in 0 .. 2 /\ i \in Nat /\ j \in Nat /\ i # j
      BY <1>1, <2>1
    <3>2. Worth(C[j]) <= Worth(C[i]) /\ (Worth(C[j]) = Worth(C[i]) => i <= j)
      BY <1>6
    <3> QED
      BY <3>1, <3>2
  <2> QED
    BY <2>1, <2>2
<1>8. Best(C, S) \in S /\ \A j \in S \ {Best(C, S)} :
          \/ Worth(C[Best(C, S)]) > Worth(C[j])
          \/ Worth(C[Best(C, S)]) = Worth(C[j]) /\ Best(C, S) < j
  BY <1>7 DEF Best
<1> HIDE DEF T, B
<1>9. ASSUME NEW j \in S PROVE Worth(C[j]) <= Worth(C[Best(C, S)])
  <2>1. Worth(C[j]) \in 0 .. 2 /\ Worth(C[Best(C, S)]) \in 0 .. 2
    BY <1>1, <1>8
  <2>2. CASE j = Best(C, S)
    BY <2>1, <2>2
  <2>3. CASE j # Best(C, S)
    <3>1. \/ Worth(C[Best(C, S)]) > Worth(C[j])
          \/ Worth(C[Best(C, S)]) = Worth(C[j])
      BY <1>8, <2>3
    <3> QED
      BY <2>1, <3>1
  <2> QED
    BY <2>2, <2>3
<1> QED
  BY <1>8, <1>9

\* The literals a clause is first watched by.
LEMMA BestWatchesFacts ==
    ASSUME IInv, MayAdd, inst' = inst, added' = added + 1, Len(NextClause) > 1,
           NEW w, w = BestWatches(NextClause)
    PROVE  /\ w[1] \in Range(NextClause) /\ w[2] \in Range(NextClause) /\ w[1] # w[2]
           /\ w = <<w[1], w[2]>>
           /\ IsTrue(w[2]) => IsTrue(w[1])
           /\ IsFalse(w[2]) => \A l \in Range(NextClause) \ {w[1]} : IsFalse(l)
<1> DEFINE C == NextClause
           S == DOMAIN C
           i == Best(C, S)
           j == Best(C, S \ {i})
<1>1. S = 1 .. Len(C) /\ Len(C) \in Nat /\ Range(C) \subseteq Lits
      /\ \A a, b \in S : C[a] = C[b] => a = b
  BY AddedFacts
<1>2. S \subseteq Nat /\ 1 \in S /\ 2 \in S /\ 1 # 2
  BY <1>1
<1>3. w = <<C[i], C[j]>>
  BY DEF BestWatches
<1> HIDE DEF S, C
<1>4. i \in S /\ \A k \in S : Worth(C[k]) <= Worth(C[i])
  BY <1>2, BestFacts
<1> HIDE DEF i
<1>5. j \in S \ {i} /\ \A k \in S \ {i} : Worth(C[k]) <= Worth(C[j])
  <2>1. S \ {i} \subseteq Nat /\ S \ {i} # {}
    <3>1. 1 \in S \ {i} \/ 2 \in S \ {i}
      BY <1>2
    <3> QED
      BY <1>2, <3>1
  <2> QED
    BY <2>1, BestFacts
<1> HIDE DEF j
<1>6. \A k \in S : C[k] \in Range(C) /\ C[k] \in Lits
  BY <1>1 DEF Range, S
<1>7. w[1] = C[i] /\ w[2] = C[j] /\ w = <<w[1], w[2]>>
  BY <1>3
<1>8. w[1] # w[2]
  BY <1>1, <1>4, <1>5, <1>7
<1>9. \A l \in Lits : /\ Worth(l) \in 0 .. 2 /\ (Worth(l) = 2 <=> IsTrue(l))
                      /\ (Worth(l) = 0 <=> IsFalse(l))
  BY TruthFacts DEF Worth, IsFree
<1>10. IsTrue(w[2]) => IsTrue(w[1])
  BY <1>4, <1>5, <1>6, <1>7, <1>9
<1>11. ASSUME IsFalse(w[2]), NEW l \in Range(C) \ {w[1]} PROVE IsFalse(l)
  <2>1. PICK k \in S : l = C[k]
    BY DEF Range, S
  <2>2. k \in S \ {i}
    BY <1>7, <2>1
  <2>3. Worth(C[k]) <= Worth(C[j])
    BY <1>5, <2>2
  <2> QED
    BY <1>5, <1>6, <1>7, <1>9, <1>11, <2>1, <2>2, <2>3
<1> QED
  BY <1>4, <1>5, <1>6, <1>7, <1>8, <1>10, <1>11 DEF C

LEMMA AddLongerStep ==
    ASSUME IInv, AddLonger
    PROVE  IInv'
<1> DEFINE C == NextClause
           w == BestWatches(C)
           x == Clause(Range(C), w, FALSE, TRUE)
           n == Len(db) + 1
           force == IsFree(w[1]) /\ IsFalse(w[2])
<1>1. /\ UNCHANGED <<inst, limits, qhead, pending, pc, conflict, assumptions, core,
                     answers, sinceRestart, untilReduce>>
      /\ MayAdd /\ Len(C) > 1 /\ added' = added + 1
      /\ db' = Append(db, x) /\ refused' = IsFalse(w[1])
      /\ IF force THEN trail' = Append(trail, w[1]) /\ reason' = [reason EXCEPT ![Var(w[1])] = n]
         ELSE UNCHANGED <<trail, reason>>
  BY DEF AddLonger, counters
<1>2. /\ pc = "idle" /\ ~refused /\ limits = <<>> /\ Len(limits) = 0
      /\ inst \in Instances /\ added' \in 0 .. Len(inst.clauses) /\ added \in Nat
      /\ C = inst.clauses[added + 1]
      /\ Range(C) \subseteq Lits
      /\ Models(Given)' \in SUBSET Models(Given)
      /\ \A m \in Models(Given)' : Range(C) \cap m # {}
  BY <1>1, AddedFacts
<1>3. /\ w[1] \in Range(C) /\ w[2] \in Range(C) /\ w[1] # w[2] /\ w = <<w[1], w[2]>>
      /\ IsTrue(w[2]) => IsTrue(w[1])
      /\ IsFalse(w[2]) => \A l \in Range(C) \ {w[1]} : IsFalse(l)
  <2>1. w = BestWatches(NextClause)
    OBVIOUS
  <2> HIDE DEF w
  <2> QED
    BY <1>1, <2>1, BestWatchesFacts
<1>4. Len(C) # 1
  <2>1. Len(C) \in Nat /\ Len(C) > 1
    BY <1>1, AddedFacts
  <2>2. \A k \in Nat : k > 1 => k # 1
    OBVIOUS
  <2> HIDE DEF C
  <2> QED
    BY <2>1, <2>2
<1> HIDE DEF w, C
<1>5. /\ inst.vars \in Nat /\ Lits = LitsUpTo(inst.vars) /\ Len(trail) \in Nat /\ Len(db) \in Nat
      /\ TrailOK(inst.vars, trail, limits) /\ DbOK(inst.vars, db)
  BY Basics, Levels DEF IInv
<1>6. x \in ClauseType(inst.vars) /\ ClauseOK(x) /\ x.lits = Range(C) /\ ~x.learned /\ ~x.deleted
      /\ x.watch[1] = w[1] /\ x.watch[2] = w[2] /\ x.keep
  <2>1. w \in LitsUpTo(inst.vars) \X LitsUpTo(inst.vars)
    BY <1>2, <1>3, <1>5
  <2>2. Range(C) \subseteq LitsUpTo(inst.vars)
    BY <1>2, <1>5
  <2>3. /\ x.lits = Range(C) /\ ~x.learned /\ ~x.deleted /\ x.watch = w /\ x.keep
    BY DEF Clause
  <2>4. x \in ClauseType(inst.vars)
    BY <2>1, <2>2 DEF Clause, ClauseType
  <2> HIDE DEF x
  <2>5. ClauseOK(x)
    BY <1>3, <2>3 DEF ClauseOK
  <2> QED
    BY <2>3, <2>4, <2>5
<1> HIDE DEF x
<1>7. Len(db') = n /\ db'[n] = x /\ \A c \in 1 .. Len(db) : db'[c] = db[c]
  BY <1>1, <1>5, <1>6, ExtendedFacts
<1>8. Shape(inst.vars, trail, limits, reason, db', assumptions, Models(Given)')
  <2>1. Shape(inst.vars, trail, limits, reason, db, assumptions, Models(Given)')
    BY <1>2, ShapeNow, ShapeOther
  <2>2. \A m \in Models(Given)' : x.lits \cap m # {}
    BY <1>2, <1>6
  <2> QED
    BY <1>1, <1>5, <1>6, <2>1, <2>2, ShapeExtend
<1>9. w[1] \in Lits /\ w[2] \in Lits
  BY <1>2, <1>3
<1>10. ASSUME force
       PROVE  /\ Fresh(trail, w[1]) /\ trail' = Append(trail, w[1])
              /\ Len(trail') = Len(trail) + 1 /\ trail'[Len(trail) + 1] = w[1]
              /\ \A i \in 1 .. Len(trail) : trail'[i] = trail[i]
              /\ Shape(inst.vars, trail', limits, reason', db', assumptions, Models(Given)')
  <2>1. Fresh(trail, w[1])
    BY <1>9, <1>10, TruthFacts
  <2>2. trail' = Append(trail, w[1]) /\ reason' = [reason EXCEPT ![Var(w[1])] = n]
    BY <1>1, <1>10
  <2>3. /\ Len(trail') = Len(trail) + 1 /\ trail'[Len(trail) + 1] = w[1]
        /\ \A i \in 1 .. Len(trail) : trail'[i] = trail[i]
    BY <1>5, <1>9, <2>1, <2>2, GrowTrail
  <2>4. Forces(db'[n], Append(trail, w[1]), Len(trail) + 1)
    <3>1. ASSUME NEW l \in Range(C) \ {w[1]}
          PROVE  \E j \in 1 .. (Len(trail) + 1) - 1 : trail'[j] = -l
      <4>1. IsFalse(l) /\ l \in Lits
        BY <1>2, <1>3, <1>10
      <4>2. PICK j \in 1 .. Len(trail) : trail[j] = -l
        BY <4>1, TruthFacts
      <4> QED
        BY <1>5, <2>3, <4>2
    <3> QED
      BY <1>3, <1>6, <1>7, <2>2, <2>3, <3>1 DEF Forces
  <2>5. n \in 1 .. Len(db') /\ Models(Given)' \in SUBSET Valuations
    BY <1>2, <1>5, <1>7, ShapeNow
  <2>6. Shape(inst.vars, Append(trail, w[1]), limits, [reason EXCEPT ![Var(w[1])] = n], db',
              assumptions, Models(Given)')
    BY <1>5, <1>8, <1>9, <2>1, <2>4, <2>5, ShapeForced
  <2> QED
    BY <2>1, <2>2, <2>3, <2>6
<1>11. Shape(inst.vars, trail, limits, reason, db, assumptions, Models(Given))'
  <2>1. Shape(inst.vars, trail', limits, reason', db', assumptions, Models(Given)')
    BY <1>1, <1>8, <1>10
  <2> QED
    BY <1>1, <2>1
<1>12. ControlOK'
  <2>1. /\ qhead \in 0 .. Len(trail) /\ pending \subseteq 1 .. Len(db)
        /\ conflict \subseteq Lits /\ assumptions \subseteq Lits /\ core \subseteq Lits
        /\ answers \in Seq(Outcomes) /\ Len(answers) <= inst.checks
        /\ sinceRestart \in 0 .. inst.cooldown /\ untilReduce \in Int
    BY DEF IInv, ControlOK
  <2>2. qhead \in 0 .. Len(trail')
    BY <1>1, <1>5, <1>10, <2>1
  <2>3. refused' \in BOOLEAN
    BY <1>1 DEF IsFalse
  <2>4. Lits' = Lits
    BY <1>1 DEF Lits
  <2>5. pending \subseteq 1 .. Len(db')
    BY <1>5, <1>7, <2>1
  <2> QED
    BY <1>1, <1>2, <2>1, <2>2, <2>3, <2>4, <2>5 DEF ControlOK, Running, Outcomes
<1>13. QueueOK' /\ ConflictOK' /\ SatIsModel' /\ CoreIsUnsat'
  BY <1>1, <1>2 DEF QueueOK, ConflictOK, SatIsModel, CoreIsUnsat
<1>14. (~Refuted /\ ~refused => WatchesOK(trail, limits, db, inst.lemmas, qhead, Unvisited))'
  <2>1. Unvisited' = {} /\ Unvisited = {} /\ Refuted' = Refuted
    BY <1>1, <1>2 DEF Unvisited, Refuted
  <2>2. ASSUME ~Refuted, ~IsFalse(w[1]) PROVE WatchesOK(trail', limits, db', inst.lemmas, qhead, {})
    <3>1. WatchesOK(trail, limits, db, inst.lemmas, qhead, {})
      BY <1>2, <2>1, <2>2 DEF IInv
    <3>2. qhead \in Int /\ qhead <= Len(trail)
      BY <1>5 DEF IInv, ControlOK
    <3>3. WatchesOK(trail', limits, db, inst.lemmas, qhead, {})
      <4>1. CASE force
        BY <1>5, <1>9, <1>10, <3>1, <3>2, <4>1, WatchesGrow
      <4>2. CASE ~force
        BY <1>1, <3>1, <4>2
      <4> QED
        BY <4>1, <4>2
    <3>4. Watched(trail', limits, x, qhead)
      <4> SUFFICES ASSUME NEW i \in 1 .. qhead, trail'[i] \in {-x.watch[1], -x.watch[2]}
                   PROVE  \E j \in 1 .. Len(trail') : trail'[j] \in x.lits /\ NoDeeper(limits, j, i)
        BY DEF Watched
      <4>1. i \in 1 .. Len(trail) /\ trail'[i] = trail[i]
        BY <1>1, <1>5, <1>10, <3>2
      <4>2. trail[i] # -w[1]
        BY <1>9, <2>2, <4>1, TruthFacts
      <4>3. IsFalse(w[2])
        BY <1>6, <1>9, <4>1, <4>2, TruthFacts
      <4>4. PICK j \in 1 .. Len(trail') : trail'[j] = w[1]
        <5>1. CASE IsFree(w[1])
          BY <1>5, <1>10, <4>3, <5>1
        <5>2. CASE ~IsFree(w[1])
          <6>1. trail' = trail
            BY <1>1, <5>2
          <6>2. IsTrue(w[1])
            BY <2>2, <5>2 DEF IsFree
          <6> QED
            BY <1>9, <6>1, <6>2, TruthFacts
        <5> QED
          BY <5>1, <5>2
      <4>5. NoDeeper(limits, j, i)
        BY <1>2 DEF NoDeeper
      <4> QED
        BY <1>3, <1>6, <4>4, <4>5
    <3>5. \A c \in 1 .. Len(db') : c = n \/ c \in 1 .. Len(db)
      BY <1>5, <1>7
    <3>6. \A c \in 1 .. Len(db') : ~db'[c].deleted /\ db'[c].lits \notin inst.lemmas =>
              \/ Watched(trail', limits, db'[c], IF c \in {} THEN qhead - 1 ELSE qhead)
              \/ /\ c \in 1 .. Len(db) /\ ~db[c].deleted /\ db'[c].lits = db[c].lits
                 /\ db'[c].watch = db[c].watch /\ (c \in {} <=> c \in {})
      <4> SUFFICES ASSUME NEW c \in 1 .. Len(db'), ~db'[c].deleted
                   PROVE  \/ Watched(trail', limits, db'[c], qhead)
                          \/ /\ c \in 1 .. Len(db) /\ ~db[c].deleted /\ db'[c].lits = db[c].lits
                             /\ db'[c].watch = db[c].watch
        OBVIOUS
      <4>1. CASE c = n
        BY <1>7, <3>4, <4>1
      <4>2. CASE c \in 1 .. Len(db)
        BY <1>7, <4>2
      <4> QED
        BY <3>5, <4>1, <4>2
    <3> QED
      BY <3>3, <3>6, WatchesOther
  <2> QED
    BY <1>1, <2>1, <2>2
<1>15. (~refused => \A i \in 1 .. added : GivenOK(trail, limits, db, inst.clauses[i]))'
  <2>1. ASSUME NEW i \in 1 .. added + 1 PROVE GivenOK(trail', limits, db', inst.clauses[i])
    <3>1. CASE i = added + 1
      <4>1. n \in 1 .. Len(db') /\ db'[n].lits = Range(C) /\ ~db'[n].learned
        BY <1>5, <1>6, <1>7
      <4> QED
        BY <1>2, <1>4, <3>1, <4>1 DEF GivenOK
    <3>2. CASE i \in 1 .. added
      <4>1. GivenOK(trail, limits, db, inst.clauses[i])
        BY <1>2, <3>2 DEF IInv
      <4>2. GivenOK(trail, limits, db', inst.clauses[i])
        BY <1>5, <1>7, <4>1, GivenOther
      <4>3. CASE force
        BY <1>5, <1>9, <1>10, <4>2, <4>3, GivenGrow
      <4>4. CASE ~force
        BY <1>1, <4>2, <4>4
      <4> QED
        BY <4>3, <4>4
    <3> QED
      BY <1>2, <3>1, <3>2
  <2> QED
    BY <1>1, <2>1
<1> QED
  BY <1>11, <1>12, <1>13, <1>14, <1>15, Assembled

(***************************************************************************)
(* The answers.                                                            *)
(***************************************************************************)

\* What every answer leaves alone.
Answers(o) ==
    /\ pc \in Running /\ pc' \in {"SAT", "UNSAT"}
    /\ UNCHANGED <<inst, added, refused, db, trail, limits, reason, qhead, pending, conflict,
                   assumptions, sinceRestart>>
    /\ untilReduce' \in Int
    /\ o \in Outcomes /\ answers' = Append(answers, o)
    /\ o = "UNSAT" \/ pc = "propagate"

LEMMA AnswerStep ==
    ASSUME IInv, NEW o, Answers(o), core' \subseteq Lits, SatIsModel', CoreIsUnsat'
    PROVE  IInv'
<1>1. /\ answers \in Seq(Outcomes) /\ Len(answers) \in Nat /\ Len(answers) < inst.checks
      /\ inst.checks \in Nat /\ o \in Outcomes /\ answers' = Append(answers, o) /\ ~refused
  BY BoundFacts, WhileRunning, LenProperties DEF Answers, IInv, ControlOK
<1>2. /\ answers' \in Seq(Outcomes) /\ Len(answers') = Len(answers) + 1
      /\ DOMAIN answers = 1 .. Len(answers) /\ DOMAIN answers' = 1 .. Len(answers')
      /\ \A i \in 1 .. Len(answers) : answers'[i] = answers[i]
      /\ answers'[Len(answers) + 1] = o
  BY <1>1, AppendProperties, LenProperties
<1>3. (Refuted => Refuted') /\ (o = "UNSAT" => Refuted')
  <2>1. ASSUME Refuted PROVE Refuted'
    <3>1. PICK i \in 1 .. Len(answers) : answers[i] = "UNSAT"
      BY <1>2, <2>1 DEF Refuted
    <3>2. i \in 1 .. Len(answers')
      BY <1>1, <1>2
    <3> QED
      BY <1>2, <3>1, <3>2 DEF Refuted
  <2>2. ASSUME o = "UNSAT" PROVE Refuted'
    <3>1. Len(answers) + 1 \in 1 .. Len(answers')
      BY <1>1, <1>2
    <3> QED
      BY <1>2, <2>2, <3>1 DEF Refuted
  <2> QED
    BY <2>1, <2>2
<1>4. ControlOK'
  <2>1. Lits' = Lits
    BY DEF Answers, Lits
  <2>2. /\ inst \in Instances /\ added \in 0 .. Len(inst.clauses) /\ refused \in BOOLEAN
        /\ qhead \in 0 .. Len(trail) /\ pending \subseteq 1 .. Len(db)
        /\ conflict \subseteq Lits /\ assumptions \subseteq Lits
        /\ sinceRestart \in 0 .. inst.cooldown /\ untilReduce \in Int
    BY DEF IInv, ControlOK
  <2>3. Len(answers') <= inst.checks
    BY <1>1, <1>2
  <2>4. answers' \in Seq(Outcomes)'
    BY <1>2 DEF Outcomes
  <2> QED
    BY <1>1, <2>1, <2>2, <2>3, <2>4 DEF ControlOK, Answers, Running
<1>5. Shape(inst.vars, trail, limits, reason, db, assumptions, Models(Given))'
  BY ShapeNow, SameModels DEF Answers
<1>6. QueueOK' /\ ConflictOK'
  <2>1. \A k \in 1 .. Len(limits) : limits[k] <= qhead
    BY DEF IInv, QueueOK
  <2> QED
    BY <2>1 DEF Answers, QueueOK, ConflictOK
<1>7. (~Refuted /\ ~refused => WatchesOK(trail, limits, db, inst.lemmas, qhead, Unvisited))'
  <2>1. ASSUME ~Refuted' PROVE WatchesOK(trail, limits, db, inst.lemmas, qhead, Unvisited)'
    <3>1. pc = "propagate"
      BY <1>3, <2>1 DEF Answers
    <3>2. Unvisited = {} /\ Unvisited' = {}
      BY <3>1 DEF Unvisited, Answers
    <3>3. WatchesOK(trail, limits, db, inst.lemmas, qhead, {})
      BY <1>1, <1>3, <2>1, <3>2 DEF IInv
    <3> QED
      BY <3>2, <3>3 DEF Answers
  <2> QED
    BY <2>1
<1>8. (~refused => \A i \in 1 .. added : GivenOK(trail, limits, db, inst.clauses[i]))'
  BY <1>1 DEF IInv, Answers
<1> QED
  BY <1>4, <1>5, <1>6, <1>7, <1>8, Assembled

\* A conflict at level 0 is between literals that every model makes true.
LEMMA AnswerUnsatStep ==
    ASSUME IInv, AnswerUnsat
    PROVE  IInv'
<1>1. /\ pc = "conflict" /\ (DecisionLevel = 0 \/ MaxLevel(conflict) = 0)
      /\ core' = {} /\ pc' = "UNSAT" /\ answers' = Append(answers, "UNSAT")
      /\ UNCHANGED <<inst, added, refused, db, trail, limits, reason, qhead, pending, conflict,
                     assumptions, sinceRestart>>
      /\ untilReduce' = untilReduce - 1
  BY DEF AnswerUnsat, problem
<1>2. Answers("UNSAT")
  BY <1>1, BoundFacts DEF Answers, Running, Outcomes
<1>3. ASSUME NEW m \in Models(Given) PROVE FALSE
  <2>1. PICK l \in conflict : l \in m
    BY <1>1 DEF IInv, ConflictOK
  <2>2. FalseIn(conflict) /\ conflict # {} /\ l \in Lits /\ m \in Valuations
        /\ inst.vars \in Nat /\ TrailOK(inst.vars, trail, limits)
    BY <1>1, ConflictFalse, Basics, Levels DEF FalseIn, Models
  <2>3. PICK i \in 1 .. Len(trail) : trail[i] = -l
    BY <2>2 DEF FalseIn
  <2>4. Level(l) = LevelAt(i)
    BY <2>2, <2>3, LevelOf
  <2>5. i \in Int /\ LevelAt(i) \in 0 .. Len(limits)
        /\ \A k \in 1 .. Len(limits) : k <= LevelAt(i) <=> limits[k] < i
    BY <2>2, <2>3, LevelFacts
  <2>6. LevelAt(i) = 0
    <3>1. CASE DecisionLevel = 0
      BY <2>5, <3>1 DEF DecisionLevel
    <3>2. CASE MaxLevel(conflict) = 0
      <4>1. Level(l) \in 0 .. MaxLevel(conflict)
        BY <2>2, MaxLevelFacts
      <4> QED
        BY <2>4, <3>2, <4>1
    <3> QED
      BY <1>1, <3>1, <3>2
  <2>7. Ground(limits, i)
    <3>1. \A k \in 1 .. Len(limits) : limits[k] \in Nat
      BY Basics
    <3> QED
      BY <2>5, <2>6, <3>1 DEF Ground
  <2>8. -l \in m
    BY <2>3, <2>7 DEF IInv, GroundOK
  <2> QED
    BY <2>1, <2>2, <2>8, Total
<1>4. SatIsModel' /\ CoreIsUnsat'
  <2>1. Models(Given)' = Models(Given)
    BY <1>1, SameModels
  <2> QED
    BY <1>1, <1>3, <2>1 DEF SatIsModel, CoreIsUnsat
<1> QED
  BY <1>1, <1>2, <1>4, AnswerStep

\* What analyze_final marks: the assumption, and with a literal that is marked
\* the others of its reason.
LEMMA SeenFacts ==
    ASSUME IInv, NEW a \in Lits, NEW seen, seen = FoldRight(SeenBefore, trail, {Var(a)})
    PROVE  /\ Var(a) \in seen
           /\ \A i \in 1 .. Len(trail) : Var(trail[i]) \in seen /\ reason[Var(trail[i])] # 0 =>
                  \A k \in db[reason[Var(trail[i])]].lits : Var(k) \in seen
<1> DEFINE n == Len(trail)
           c(i) == reason[Var(trail[i])]
           Closed(S, j) == /\ Var(a) \in S
                           /\ \A i \in j .. n : Var(trail[i]) \in S /\ c(i) # 0 =>
                                  \A k \in db[c(i)].lits : Var(k) \in S
<1>1. inst.vars \in Nat /\ trail \in Seq(Lits) /\ n \in Nat /\ {Var(a)} \subseteq Vars
      /\ \A i \in 1 .. n : trail[i] \in Lits
  BY Basics, LitFacts
<1>2. PICK run : /\ run[n + 1] = {Var(a)}
                 /\ \A i \in 1 .. n : run[i] = SeenBefore(trail[i], run[i + 1])
                 /\ run[1] = seen
  BY <1>1, SeenRun
<1>3. Closed(run[n + 1], n + 1)
  BY <1>1, <1>2
<1>4. ASSUME NEW j \in 1 .. n, Closed(run[j + 1], j + 1) PROVE Closed(run[j], j)
  <2> DEFINE R == {Var(k) : k \in db[c(j)].lits}
             S == run[j + 1]
             T == run[j]
  <2>1. T = IF Var(trail[j]) \in S /\ c(j) # 0 THEN S \cup R ELSE S
    BY <1>2 DEF SeenBefore
  <2>2. Var(a) \in T
    BY <1>4, <2>1
  <2>3. ASSUME NEW i \in j .. n, Var(trail[i]) \in T, c(i) # 0, NEW k \in db[c(i)].lits
        PROVE  Var(k) \in T
    <3>1. CASE i = j
      <4>1. Var(trail[j]) \in S
        BY <2>1, <2>3, <3>1
      <4> QED
        BY <2>1, <2>3, <3>1, <4>1
    <3>2. CASE i # j
      <4>1. i \in (j + 1) .. n /\ i \in 1 .. n
        BY <1>1, <3>2
      <4>2. Var(trail[i]) \in S
        <5> SUFFICES ASSUME Var(trail[i]) \notin S PROVE FALSE
          OBVIOUS
        <5>1. Var(trail[i]) \in R /\ c(j) # 0
          BY <2>1, <2>3
        <5>2. PICK l \in db[c(j)].lits : Var(l) = Var(trail[i])
          BY <5>1
        <5>3. Forces(db[c(j)], trail, j)
          BY <5>1 DEF IInv, ReasonsOK
        <5>4. PICK p \in 1 .. j : Var(trail[p]) = Var(trail[i])
          <6>1. CASE l = trail[j]
            BY <1>1, <5>2, <6>1
          <6>2. CASE l # trail[j]
            <7>1. PICK p \in 1 .. j - 1 : trail[p] = -l
              BY <5>3, <6>2 DEF Forces
            <7>2. c(j) \in 1 .. Len(db)
              <8>1. reason \in [Vars -> 0 .. Len(db)] /\ Len(db) \in Nat /\ Vars = 1 .. inst.vars
                BY Basics
              <8>2. Var(trail[j]) \in Vars
                BY <1>1, <8>1, LitFacts DEF Lits
              <8> QED
                BY <5>1, <8>1, <8>2
            <7>3. l \in Lits
              BY <7>2, Basics
            <7>4. Var(-l) = Var(l)
              BY <1>1, <7>3, LitFacts DEF Lits
            <7> QED
              BY <1>1, <5>2, <7>1, <7>4
          <6> QED
            BY <6>1, <6>2
        <5>5. p \in 1 .. n /\ p # i
          BY <1>1, <4>1, <5>4
        <5> QED
          BY <4>1, <5>4, <5>5 DEF IInv, TrailOK
      <4>3. Var(k) \in S
        BY <1>4, <2>3, <4>1, <4>2
      <4> QED
        BY <2>1, <4>3
    <3> QED
      BY <3>1, <3>2
  <2> QED
    BY <2>2, <2>3
<1>5. Closed(run[1], 1)
  <2> DEFINE Bad == {m \in 0 .. n : ~Closed(run[n + 1 - m], n + 1 - m)}
  <2>1. Bad \subseteq Nat
    OBVIOUS
  <2>2. SUFFICES Bad = {}
    <3>1. n \in 0 .. n /\ n + 1 - n = 1
      BY <1>1
    <3> HIDE DEF Closed
    <3> QED
      BY <3>1
  <2>3. SUFFICES ASSUME Bad # {} PROVE FALSE
    OBVIOUS
  <2>4. PICK m \in Bad : \A k \in Bad : m <= k
    <3> HIDE DEF Bad
    <3> QED
      BY <2>1, <2>3, LeastOf
  <2> HIDE DEF Closed
  <2>5. m \in 0 .. n /\ ~Closed(run[n + 1 - m], n + 1 - m)
    BY <2>4
  <2>6. m # 0
    BY <1>1, <1>3, <2>5
  <2>7. m - 1 \in 0 .. n /\ m - 1 \notin Bad
    BY <1>1, <2>4, <2>5, <2>6
  <2>8. n + 1 - (m - 1) = (n + 1 - m) + 1 /\ n + 1 - m \in 1 .. n
    BY <1>1, <2>5, <2>6
  <2>9. Closed(run[(n + 1 - m) + 1], (n + 1 - m) + 1)
    BY <2>7, <2>8
  <2> QED
    BY <1>4, <2>5, <2>8, <2>9
<1> QED
  BY <1>2, <1>5

\* What the marked part of the trail has true, a model of the core has true.
LEMMA AnswerUnsatUnderStep ==
    ASSUME IInv, NEW a \in assumptions, AnswerUnsatUnder(a)
    PROVE  IInv'
<1> DEFINE seen == FoldRight(SeenBefore, trail, {Var(a)})
           Core == {a} \cup {l \in TrueLits \cap assumptions : Var(l) \in seen /\ reason[Var(l)] = 0}
<1>1. /\ pc = "propagate" /\ IsFalse(a)
      /\ core' = Core /\ pc' = "UNSAT" /\ answers' = Append(answers, "UNSAT under assumptions")
      /\ UNCHANGED <<inst, added, refused, db, trail, limits, reason, qhead, pending, conflict,
                     assumptions, sinceRestart, untilReduce>>
  BY DEF AnswerUnsatUnder, AtFixpoint, AnalyzeFinal, problem, schedule
<1>2. Answers("UNSAT under assumptions")
  BY <1>1, BoundFacts DEF Answers, Running, Outcomes
<1>3. assumptions \subseteq Lits /\ a \in Lits /\ inst.vars \in Nat
      /\ \A i \in 1 .. Len(trail) : trail[i] \in Lits
  BY Basics DEF IInv, ControlOK
<1>4. Core \subseteq assumptions
  OBVIOUS
<1>5. /\ Var(a) \in seen
      /\ \A i \in 1 .. Len(trail) : Var(trail[i]) \in seen /\ reason[Var(trail[i])] # 0 =>
             \A k \in db[reason[Var(trail[i])]].lits : Var(k) \in seen
  BY <1>3, SeenFacts
<1> HIDE DEF seen
<1>6. PICK e \in 1 .. Len(trail) : trail[e] = -a
  BY <1>1, <1>3, TruthFacts
<1>7. ASSUME NEW m \in Models(Given), Core \subseteq m PROVE FALSE
  <2> DEFINE Bad == {i \in 1 .. Len(trail) : Var(trail[i]) \in seen /\ trail[i] \notin m}
  <2>1. m \in Valuations
    BY DEF Models
  <2>2. Bad = {}
    <3>1. SUFFICES ASSUME Bad # {} PROVE FALSE
      OBVIOUS
    <3>2. PICK i \in Bad : \A j \in Bad : i <= j
      <4>1. Bad \subseteq Nat
        OBVIOUS
      <4> HIDE DEF Bad
      <4> QED
        BY <3>1, <4>1, LeastOf
    <3>3. i \in 1 .. Len(trail) /\ Var(trail[i]) \in seen /\ trail[i] \notin m
      BY <3>2
    <3> DEFINE c == reason[Var(trail[i])]
    <3>4. CASE c = 0
      <4>1. ~Ground(limits, i)
        BY <3>3 DEF IInv, GroundOK
      <4>2. PICK k \in 1 .. Len(limits) : i = limits[k] + 1
        BY <3>3, <3>4, <4>1 DEF IInv, DecisionsOK
      <4>3. ~ \A b \in assumptions : \E j \in 1 .. limits[k] : trail[j] = b
        <5> SUFFICES ASSUME NEW j \in 1 .. limits[k], trail[j] = a PROVE FALSE
          OBVIOUS
        <5>1. j \in 1 .. Len(trail)
          <6>1. limits[k] \in Nat /\ limits[k] < Len(trail) /\ Len(trail) \in Nat
            BY <4>2, Basics
          <6> QED
            BY ONLY <6>1
        <5>2. IsTrue(a)
          BY <1>3, <5>1, TruthFacts
        <5> QED
          BY <1>1, <1>3, <5>2, TruthFacts
      <4>4. trail[limits[k] + 1] \in assumptions
        BY <4>3 DEF IInv, DecisionsOK
      <4>5. trail[i] \in TrueLits
        BY <3>3, Basics DEF TrueLits
      <4>6. trail[i] \in Core
        BY <3>3, <3>4, <4>2, <4>4, <4>5
      <4> QED
        BY <1>7, <3>3, <4>6
    <3>5. CASE c # 0
      <4>1. Forces(db[c], trail, i)
        BY <3>3, <3>5 DEF IInv, ReasonsOK
      <4>2. c \in 1 .. Len(db)
        BY <1>3, <3>3, <3>5, Basics, LitFacts
      <4>3. PICK l \in db[c].lits : l \in m
        BY <4>2 DEF IInv, FollowOK
      <4>4. l # trail[i] /\ l \in Lits
        BY <3>3, <4>2, <4>3, Basics
      <4>5. PICK j \in 1 .. i - 1 : trail[j] = -l
        BY <4>1, <4>4 DEF Forces
      <4>6. Var(trail[j]) \in seen
        <5>1. Var(-l) = Var(l)
          BY <1>3, <4>4, LitFacts DEF Lits
        <5>2. Var(l) \in seen
          BY <1>5, <3>3, <3>5
        <5> QED
          BY <4>5, <5>1, <5>2
      <4>7. j \in 1 .. Len(trail) /\ ~(i <= j)
        BY <3>3, <4>5, Basics
      <4>8. trail[j] \in m
        BY <3>2, <4>6, <4>7
      <4> QED
        BY <1>3, <2>1, <4>3, <4>4, <4>5, <4>8, Total
    <3> QED
      BY <3>4, <3>5
  <2>3. Var(-a) = Var(a)
    BY <1>3, LitFacts DEF Lits
  <2>4. -a \in m
    BY <1>5, <1>6, <2>2, <2>3
  <2>5. a \in m
    BY <1>7
  <2> QED
    BY <1>3, <2>1, <2>4, <2>5, Total
<1>8. SatIsModel' /\ CoreIsUnsat'
  <2>1. Models(Given)' = Models(Given)
    BY <1>1, SameModels
  <2> HIDE DEF Core
  <2> QED
    BY <1>1, <1>4, <1>7, <2>1 DEF SatIsModel, CoreIsUnsat
<1> QED
  BY <1>1, <1>2, <1>3, <1>4, <1>8, AnswerStep

\* With as many literals as variables, every variable is on the trail.
LEMMA AssignedFacts ==
    ASSUME IInv, Len(trail) = inst.vars
    PROVE  /\ \A l \in Lits : IsTrue(l) \/ IsFalse(l)
           /\ TrueLits \in Valuations
<1> DEFINE f == [i \in Vars |-> Var(trail[i])]
<1>1. /\ inst.vars \in Nat /\ Lits = LitsUpTo(inst.vars) /\ Vars = 1 .. inst.vars
      /\ \A i \in Vars : trail[i] \in Lits
  BY Basics
<1>2. f \in Injection(Vars, Vars)
  <2>1. f \in [Vars -> Vars]
    BY <1>1, LitFacts
  <2>2. \A i, j \in Vars : f[i] = f[j] => i = j
    BY <1>1 DEF IInv, TrailOK
  <2> QED
    BY <2>1, <2>2 DEF Injection, IsInjective
<1>3. \A v \in Vars : \E i \in Vars : Var(trail[i]) = v
  <2>1. IsFiniteSet(Vars)
    BY <1>1, FS_Interval
  <2>2. f \in Surjection(Vars, Vars)
    <3> HIDE DEF f
    <3> QED
      BY <1>2, <2>1, FS_Injection
  <2> QED
    BY <2>2 DEF Surjection
<1>4. ASSUME NEW l \in Lits PROVE IsTrue(l) \/ IsFalse(l)
  <2>1. Var(l) \in Vars
    BY <1>1, <1>4, LitFacts
  <2>2. PICK i \in Vars : Var(trail[i]) = Var(l)
    BY <1>3, <2>1
  <2>3. trail[i] = l \/ trail[i] = -l
    BY <1>1, <1>4, <2>2, LitFacts
  <2>4. i \in 1 .. Len(trail)
    BY <1>1
  <2> QED
    BY <1>4, <2>3, <2>4, TruthFacts
<1>5. TrueLits \in Valuations
  <2> DEFINE V == {v \in Vars : IsTrue(v)}
  <2>1. ASSUME NEW l \in TrueLits PROVE l \in V \/ \E v \in Vars \ V : l = -v
    <3>1. l \in Lits /\ IsTrue(l)
      BY <1>1, Basics DEF TrueLits, IsTrue
    <3>2. CASE l \in Vars
      BY <3>1, <3>2
    <3>3. CASE l \notin Vars
      <4>1. PICK v \in Vars : l = -v
        BY <1>1, <3>1, <3>3 DEF LitsUpTo
      <4>2. v \in Lits /\ -v = l
        BY <1>1, <4>1 DEF LitsUpTo
      <4>3. ~IsTrue(v)
        BY <3>1, <4>2, TruthFacts DEF IsTrue, IsFalse
      <4> QED
        BY <4>1, <4>3
    <3> QED
      BY <3>2, <3>3
  <2>2. ASSUME NEW v \in Vars \ V PROVE -v \in TrueLits
    <3>1. v \in Lits
      BY <1>1 DEF LitsUpTo
    <3> QED
      BY <1>4, <3>1 DEF IsFalse
  <2>3. TrueLits = {v : v \in V} \cup {-v : v \in Vars \ V}
    BY <2>1, <2>2 DEF IsTrue
  <2> QED
    BY <2>3 DEF Valuations
<1> QED
  BY <1>4, <1>5

\* A clause that was added has a true literal when all variables are assigned.
LEMMA GivenTrue ==
    ASSUME IInv, pc = "propagate", ~Refuted, qhead = Len(trail), Len(trail) = inst.vars,
           NEW i \in 1 .. added, Range(inst.clauses[i]) \notin inst.lemmas
    PROVE  Range(inst.clauses[i]) \cap TrueLits # {}
<1> DEFINE C == inst.clauses[i]
<1>1. inst.clauses \in Seq(Seq(Lits) \ {<<>>}) /\ added \in 0 .. Len(inst.clauses)
  BY CDCLAssumption DEF IInv, ControlOK, Lits
<1>2. C \in Seq(Lits)
  <2>1. i \in 1 .. Len(inst.clauses)
    BY <1>1, LenProperties
  <2> QED
    BY <1>1, <2>1, ElementOfSeq
<1>3. pc \in Running
  BY DEF Running
<1>4. GivenOK(trail, limits, db, C) /\ WatchesOK(trail, limits, db, inst.lemmas, qhead, {})
  BY <1>3, WhileRunning DEF Unvisited
<1>5. CASE Len(C) = 1
  <2>1. PICK j \in 1 .. Len(trail) : trail[j] = C[1]
    BY <1>4, <1>5 DEF GivenOK
  <2>2. C[1] \in Range(C)
    <3>1. 1 \in DOMAIN C
      BY <1>2, <1>5, LenProperties
    <3> QED
      BY <3>1 DEF Range
  <2>3. trail[j] \in TrueLits
    BY <2>1, Basics DEF TrueLits
  <2> QED
    BY <2>1, <2>2, <2>3
<1>6. CASE Len(C) # 1
  <2>1. PICK c \in 1 .. Len(db) : db[c].lits = Range(C) /\ ~db[c].learned
    BY <1>4, <1>6 DEF GivenOK
  <2>2. ~db[c].deleted /\ db[c].watch[1] \in db[c].lits
    BY <2>1 DEF IInv, DbOK, ClauseOK
  <2>3. Watched(trail, limits, db[c], Len(trail))
    BY <1>4, <2>1, <2>2 DEF WatchesOK
  <2>4. db[c].watch[1] \in Lits
    BY <2>1, <2>2, Basics
  <2>5. CASE IsTrue(db[c].watch[1])
    BY <2>1, <2>2, <2>5 DEF IsTrue
  <2>6. CASE ~IsTrue(db[c].watch[1])
    <3>1. PICK p \in 1 .. Len(trail) : trail[p] = -db[c].watch[1]
      BY <2>4, <2>6, AssignedFacts, TruthFacts
    <3>2. PICK j \in 1 .. Len(trail) : trail[j] \in db[c].lits
      BY <2>3, <3>1 DEF Watched
    <3>3. trail[j] \in TrueLits
      BY <3>2, Basics DEF TrueLits
    <3> QED
      BY <2>1, <3>2, <3>3
  <2> QED
    BY <2>5, <2>6
<1> QED
  BY <1>5, <1>6

\* The theory's check has no lemma that is false, and a clause that was added is
\* watched by a literal that is true or that is false beside a true one.
LEMMA AnswerSatStep ==
    ASSUME IInv, AnswerSat
    PROVE  IInv'
<1>1. /\ pc = "propagate" /\ qhead = Len(trail) /\ Len(trail) = inst.vars
      /\ \A L \in inst.lemmas : ~Falsified(L)
      /\ \A a \in assumptions : ~IsFalse(a)
      /\ pc' = "SAT" /\ answers' = Append(answers, "SAT")
      /\ UNCHANGED <<inst, added, refused, db, trail, limits, reason, qhead, pending, conflict,
                     assumptions, core, sinceRestart, untilReduce>>
  BY DEF AnswerSat, AtFixpoint, AllAssigned, problem, schedule
<1>2. /\ assumptions \subseteq Lits /\ core \subseteq Lits
      /\ answers \in Seq(Outcomes)
  BY DEF IInv, ControlOK
<1>3. pc \in Running /\ "SAT" \in Outcomes
  BY <1>1 DEF Running, Outcomes
<1>4. ASSUME ~Refuted' PROVE TrueLits \in Models(Given) /\ assumptions \subseteq TrueLits
  <2>1. ~Refuted
    <3> SUFFICES ASSUME Refuted PROVE FALSE
      OBVIOUS
    <3>1. Len(answers) \in Nat /\ DOMAIN answers = 1 .. Len(answers)
      BY <1>2, LenProperties
    <3>2. PICK i \in 1 .. Len(answers) : answers[i] = "UNSAT"
      BY <3>1 DEF Refuted
    <3>3. answers'[i] = "UNSAT" /\ i \in DOMAIN answers'
      BY <1>1, <1>2, <1>3, <3>1, <3>2, AppendProperties, LenProperties
    <3> QED
      BY <1>4, <3>3 DEF Refuted
  <2>2. ASSUME NEW L \in inst.lemmas PROVE L \cap TrueLits # {}
    <3>1. PICK l \in L : -l \notin Asserted
      BY <1>1 DEF Falsified
    <3>2. l \in Lits
      BY <3>1, LemmaFacts
    <3>3. ~IsFalse(l)
      BY <1>1, <3>1, Basics DEF IsFalse, TrueLits, Asserted
    <3> QED
      BY <1>1, <3>1, <3>2, <3>3, AssignedFacts DEF IsTrue
  <2>3. ASSUME NEW i \in 1 .. added PROVE Range(inst.clauses[i]) \cap TrueLits # {}
    BY <1>1, <2>1, <2>2, GivenTrue
  <2>4. TrueLits \in Models(Given)
    BY <1>1, <2>2, <2>3, AssignedFacts DEF Models, Given
  <2>5. assumptions \subseteq TrueLits
    BY <1>1, <1>2, AssignedFacts DEF IsTrue
  <2> QED
    BY <2>4, <2>5
<1>5. Answers("SAT")
  BY <1>1, <1>3, BoundFacts DEF Answers
<1>6. SatIsModel' /\ CoreIsUnsat'
  <2>1. Models(Given)' = Models(Given) /\ TrueLits' = TrueLits
    BY <1>1, SameModels DEF TrueLits
  <2> QED
    BY <1>1, <1>4, <2>1 DEF SatIsModel, CoreIsUnsat
<1> QED
  BY <1>1, <1>2, <1>3, <1>5, <1>6, AnswerStep

(***************************************************************************)
(* The invariant is inductive.                                             *)
(***************************************************************************)
LEMMA InitInvariant ==
    ASSUME Init
    PROVE  IInv
<1>1. /\ inst \in Instances /\ inst.vars \in Nat /\ inst.checks \in Nat
      /\ inst.cooldown \in Nat /\ inst.threshold \in Nat
      /\ inst.clauses \in Seq(Seq(LitsUpTo(inst.vars)) \ {<<>>})
  BY CDCLAssumption DEF Init
<1>2. /\ trail = <<>> /\ limits = <<>> /\ db = <<>> /\ answers = <<>>
      /\ Len(trail) = 0 /\ Len(limits) = 0 /\ Len(db) = 0 /\ Len(answers) = 0
      /\ Len(inst.clauses) \in Nat
  BY <1>1, LenProperties, EmptySeq DEF Init
<1>3. pc = "idle" /\ added = 0 /\ qhead = 0 /\ pending = {} /\ refused = FALSE
  BY DEF Init
<1>4. ControlOK
  <2>1. answers \in Seq(Outcomes) /\ 0 <= inst.checks
    BY <1>1, <1>2, EmptySeq
  <2>2. added \in 0 .. Len(inst.clauses) /\ qhead \in 0 .. Len(trail)
    BY <1>2, <1>3
  <2>3. /\ conflict \subseteq Lits /\ assumptions \subseteq Lits /\ core \subseteq Lits
        /\ sinceRestart \in 0 .. inst.cooldown /\ untilReduce \in Int
    BY <1>1 DEF Init
  <2> QED
    BY <1>1, <1>2, <1>3, <2>1, <2>2, <2>3 DEF ControlOK, Running
<1>5. TrailOK(inst.vars, trail, limits) /\ DbOK(inst.vars, db)
  BY <1>2, EmptySeq DEF TrailOK, DbOK
<1>6. ReasonsOK(inst.vars, trail, reason, db)
  BY <1>2 DEF Init, ReasonsOK, Vars
<1>7. /\ DecisionsOK(trail, limits, reason, assumptions)
      /\ GroundOK(trail, limits, Models(Given)) /\ FollowOK(db, Models(Given))
  BY <1>2 DEF DecisionsOK, GroundOK, FollowOK
<1>8. QueueOK /\ ConflictOK /\ SatIsModel /\ CoreIsUnsat
  BY <1>2, <1>3 DEF QueueOK, ConflictOK, SatIsModel, CoreIsUnsat
<1>9. WatchesOK(trail, limits, db, inst.lemmas, qhead, Unvisited)
  BY <1>2 DEF WatchesOK
<1>10. \A i \in 1 .. added : GivenOK(trail, limits, db, inst.clauses[i])
  BY <1>3
<1> QED
  BY <1>4, <1>5, <1>6, <1>7, <1>8, <1>9, <1>10 DEF IInv

LEMMA StutterStep ==
    ASSUME IInv, UNCHANGED vars
    PROVE  IInv'
<1>1. UNCHANGED <<inst, added, refused, db, trail, limits, reason, qhead, pending, pc, conflict,
                  assumptions, core, answers, sinceRestart, untilReduce>>
  BY DEF vars
<1>2. ControlOK'
  BY <1>1 DEF IInv, ControlOK, Running, Lits, Outcomes
<1>3. Models(Given)' = Models(Given)
  BY <1>1, SameModels
<1>4. Shape(inst.vars, trail, limits, reason, db, assumptions, Models(Given))'
  BY <1>1, <1>3, ShapeNow
<1>5. QueueOK' /\ ConflictOK'
  BY <1>1, <1>3 DEF IInv, QueueOK, ConflictOK, Current
<1>6. (~Refuted /\ ~refused => WatchesOK(trail, limits, db, inst.lemmas, qhead, Unvisited))'
  <2>1. Refuted' = Refuted /\ Unvisited' = Unvisited
    BY <1>1 DEF Refuted, Unvisited
  <2> QED
    BY <1>1, <2>1 DEF IInv
<1>7. (~refused => \A i \in 1 .. added : GivenOK(trail, limits, db, inst.clauses[i]))'
  BY <1>1 DEF IInv
<1>8. SatIsModel' /\ CoreIsUnsat'
  <2>1. Refuted' = Refuted /\ TrueLits' = TrueLits
    BY <1>1 DEF Refuted, TrueLits
  <2> QED
    BY <1>1, <1>3, <2>1 DEF IInv, SatIsModel, CoreIsUnsat
<1> QED
  BY <1>2, <1>4, <1>5, <1>6, <1>7, <1>8, Assembled

LEMMA Inductive == IInv /\ [Next]_vars => IInv'
<1> SUFFICES ASSUME IInv, [Next]_vars PROVE IInv'
  OBVIOUS
<1>1. CASE Dequeue
  BY <1>1, DequeueStep
<1>2. CASE StartVisits
  BY <1>2, StartVisitsStep
<1>3. CASE EndVisits
  BY <1>3, EndVisitsStep
<1>4. ASSUME NEW L \in inst.lemmas, TheoryConflict(L) PROVE IInv'
  BY <1>4, TheoryConflictStep
<1>5. ASSUME NEW L \in inst.lemmas, NEW l \in L, NEW k \in L, TheoryPropagate(L, l, k) PROVE IInv'
  BY <1>5, TheoryPropagateStep
<1>6. ASSUME NEW L \in inst.lemmas, NEW w, TheoryLemma(L, w) PROVE IInv'
  BY <1>6, TheoryLemmaStep
<1>7. ASSUME NEW c \in pending, VisitSatisfied(c) PROVE IInv'
  BY <1>7, VisitSatisfiedStep
<1>8. ASSUME NEW c \in pending, VisitUnit(c) PROVE IInv'
  BY <1>8, VisitUnitStep
<1>9. ASSUME NEW c \in pending, VisitConflict(c) PROVE IInv'
  BY <1>9, VisitConflictStep
<1>10. ASSUME NEW c \in pending, NEW l \in db[c].lits, VisitRewatch(c, l) PROVE IInv'
  BY <1>10, VisitRewatchStep
<1>11. CASE AnswerSat
  BY <1>11, AnswerSatStep
<1>12. CASE AnswerUnsat
  BY <1>12, AnswerUnsatStep
<1>13. CASE Learn
  BY <1>13, LearnStep
<1>14. ASSUME NEW a \in assumptions, AnswerUnsatUnder(a) PROVE IInv'
  BY <1>14, AnswerUnsatUnderStep
<1>15. ASSUME NEW l \in Lits, Decide(l) PROVE IInv'
  BY <1>15, DecideStep
<1>16. CASE AddUnit
  BY <1>16, AddUnitStep
<1>17. CASE AddLonger
  BY <1>17, AddLongerStep
<1>18. CASE Reset
  BY <1>18, ResetStep
<1>19. ASSUME NEW A \in inst.assumed, BeginCheck(A) PROVE IInv'
  BY <1>19, BeginCheckStep
<1>20. CASE UNCHANGED vars
  BY <1>20, StutterStep
<1>21. Search => IInv'
  BY <1>1, <1>2, <1>3, <1>4, <1>5, <1>6, <1>7, <1>8, <1>9, <1>10, <1>11, <1>12, <1>13, <1>14, <1>15
  DEF Search
<1>22. Caller => IInv'
  BY <1>16, <1>17, <1>18, <1>19 DEF Caller
<1> QED
  BY <1>20, <1>21, <1>22 DEF Next

\* The invariant holds of every state the solver and its callers reach: the trail, the
\* reasons, the decisions, what level 0 and the clauses say of the models, the queue and
\* the watches fit each other between any two steps of check, add_clause and reset.
THEOREM Invariance == Spec => []IInv
  BY InitInvariant, Inductive, PTL DEF Spec

(***************************************************************************)
(* What the invariant says.                                                *)
(***************************************************************************)
LEMMA Types ==
    ASSUME IInv
    PROVE  TypeOK
<1>1. /\ Lits = LitsUpTo(inst.vars)
      /\ DOMAIN trail = 1 .. Len(trail) /\ DOMAIN limits = 1 .. Len(limits) /\ DOMAIN db = 1 .. Len(db)
      /\ Len(trail) \in Nat /\ Len(limits) \in Nat
      /\ reason \in [Vars -> 0 .. Len(db)]
      /\ \A i \in 1 .. Len(trail) : trail[i] \in Lits
      /\ \A k \in 1 .. Len(limits) : limits[k] \in Nat /\ limits[k] < Len(trail)
      /\ \A c \in 1 .. Len(db) : db[c].lits \subseteq Lits
  BY Basics
<1>2. \A i, j \in DOMAIN trail : trail[i] \in Lits /\ (Var(trail[i]) = Var(trail[j]) => i = j)
  BY <1>1 DEF IInv, TrailOK
<1>3. \A i \in DOMAIN limits : limits[i] \in 0 .. Len(trail) - 1
  BY <1>1
<1>4. \A i \in 2 .. Len(limits) : limits[i - 1] < limits[i]
  <2> SUFFICES ASSUME NEW i \in 2 .. Len(limits) PROVE limits[i - 1] < limits[i]
    OBVIOUS
  <2>1. i - 1 \in 1 .. Len(limits) /\ i \in 1 .. Len(limits) /\ i - 1 < i
    BY <1>1
  <2> QED
    BY <2>1 DEF IInv, TrailOK
<1>5. \A c \in DOMAIN db : /\ db[c].lits \subseteq Lits
                           /\ {db[c].watch[1], db[c].watch[2]} \subseteq db[c].lits
                           /\ db[c].watch[1] # db[c].watch[2]
  BY <1>1 DEF IInv, DbOK, ClauseOK
<1>6. /\ inst \in Instances /\ added \in 0 .. Len(inst.clauses) /\ refused \in BOOLEAN
      /\ qhead \in 0 .. Len(trail) /\ pending \subseteq DOMAIN db
      /\ pc \in {"idle", "propagate", "theory", "visit", "conflict", "SAT", "UNSAT"}
      /\ conflict \subseteq Lits /\ assumptions \subseteq Lits /\ core \subseteq Lits
      /\ answers \in Seq(Outcomes) /\ Len(answers) <= inst.checks
      /\ sinceRestart \in 0 .. inst.cooldown /\ untilReduce \in Int
  BY <1>1 DEF IInv, ControlOK, Running
<1> QED
  BY <1>1, <1>2, <1>3, <1>4, <1>5, <1>6 DEF TypeOK

\* A literal that was propagated is forced by a clause that _reduce_db has not deleted,
\* whose other literals were false before it: so conflict analysis and the final analysis
\* of assumptions always find the reason they walk back over.
THEOREM ReasonsStandAlways == Spec => []ReasonsStand
<1>1. IInv => ReasonsStand
  <2> SUFFICES ASSUME IInv, NEW i \in 1 .. Len(trail), reason[Var(trail[i])] # 0
               PROVE  LET c == reason[Var(trail[i])]
                      IN  /\ ~db[c].deleted /\ trail[i] \in db[c].lits
                          /\ \A l \in db[c].lits \ {trail[i]} : -l \in {trail[j] : j \in 1 .. i - 1}
    BY Types, Basics DEF ReasonsStand
  <2>1. Forces(db[reason[Var(trail[i])]], trail, i)
    BY DEF IInv, ReasonsOK
  <2> QED
    BY <2>1 DEF Forces
<1> QED
  BY <1>1, Invariance, PTL

\* Every clause in the database follows from the clauses that were added and the theory's
\* lemmas, whatever was decided or assumed when it was learned: it may be kept for every
\* later check.
THEOREM LearnedFollowAlways == Spec => []LearnedFollow
<1>1. IInv => LearnedFollow
  BY Basics DEF IInv, FollowOK, LearnedFollow
<1> QED
  BY <1>1, Invariance, PTL

\* When the queue is empty, two watches have been enough: no clause is false and none has
\* one free literal left, over any backjumps, restarts, deletions and earlier checks, as
\* long as the clauses were not refuted.
THEOREM PropagationCompleteAlways == Spec => []PropagationComplete
<1>1. IInv => PropagationComplete
  <2> SUFFICES ASSUME IInv, AtFixpoint, ~Refuted, NEW c \in DOMAIN db, ~db[c].deleted,
                      db[c].lits \notin inst.lemmas, \A l \in db[c].lits : ~IsTrue(l)
               PROVE  Cardinality({l \in db[c].lits : IsFree(l)}) > 1
    BY DEF PropagationComplete
  <2> DEFINE x == db[c].watch[1]
             y == db[c].watch[2]
             FreeLits == {l \in db[c].lits : IsFree(l)}
  <2>1. /\ c \in 1 .. Len(db) /\ db[c].lits \subseteq Lits /\ inst.vars \in Nat
        /\ Lits = LitsUpTo(inst.vars)
    BY Basics
  <2>2. x \in db[c].lits /\ y \in db[c].lits /\ x # y
    BY <2>1 DEF IInv, DbOK, ClauseOK
  <2>3. pc = "propagate" /\ qhead = Len(trail)
    BY DEF AtFixpoint
  <2>4. Watched(trail, limits, db[c], Len(trail))
    <3>1. WatchesOK(trail, limits, db, inst.lemmas, qhead, {})
      BY <2>3, WhileRunning DEF Unvisited, Running
    <3> QED
      BY <2>1, <2>3, <3>1 DEF WatchesOK
  <2>5. ASSUME NEW l \in {x, y} PROVE l \in FreeLits
    <3>1. l \in Lits /\ l \in db[c].lits
      BY <2>1, <2>2
    <3>2. ~IsFalse(l)
      <4> SUFFICES ASSUME IsFalse(l) PROVE FALSE
        OBVIOUS
      <4>1. PICK p \in 1 .. Len(trail) : trail[p] = -l
        BY <3>1, TruthFacts
      <4>2. PICK j \in 1 .. Len(trail) : trail[j] \in db[c].lits
        BY <2>4, <4>1 DEF Watched
      <4> QED
        BY <2>1, <4>2, TruthFacts
    <3> QED
      BY <3>1, <3>2 DEF IsFree
  <2>6. IsFiniteSet(FreeLits)
    BY <2>1, LitsFinite, FS_Subset
  <2>7. Cardinality({x, y}) = 2
    <3>1. Cardinality({x}) = 1 /\ IsFiniteSet({x})
      BY FS_Singleton
    <3>2. Cardinality({x} \cup {y}) = 2
      <4>1. y \notin {x}
        BY <2>2
      <4> HIDE DEF x, y
      <4>2. Cardinality({x} \cup {y}) = Cardinality({x}) + 1
        BY ONLY <3>1, <4>1, FS_AddElement
      <4> QED
        BY <3>1, <4>2
    <3>3. {x, y} = {x} \cup {y}
      OBVIOUS
    <3> QED
      BY <3>2, <3>3
  <2>8. {x, y} \subseteq FreeLits
    BY <2>5
  <2>9. Cardinality({x, y}) <= Cardinality(FreeLits) /\ Cardinality(FreeLits) \in Nat
    <3> HIDE DEF FreeLits
    <3> QED
      BY <2>6, <2>8, FS_Subset, FS_CardinalityType
  <2> QED
    BY <2>7, <2>9
<1> QED
  BY <1>1, Invariance, PTL

\* SAT is answered with an assignment that satisfies every clause added, every lemma of the
\* theory and every assumption of the check, unless the clauses were refuted before.
THEOREM SatIsModelAlways == Spec => []SatIsModel
<1>1. IInv => SatIsModel
  BY DEF IInv
<1> QED
  BY <1>1, Invariance, PTL

\* UNSAT is answered with a core: assumptions of the check that no model of the clauses and
\* the theory's lemmas satisfies together, none of them when the clauses were refuted.
THEOREM CoreIsUnsatAlways == Spec => []CoreIsUnsat
<1>1. IInv => CoreIsUnsat
  BY DEF IInv
<1> QED
  BY <1>1, Invariance, PTL

(***************************************************************************)
(* The decision heap is right for any number of variables, any limit of the *)
(* increment and any scale.  Entries is almost inductive: a new variable is *)
(* pushed with activity 0, so the activities of the variables not yet added *)
(* must be 0, and NeverNull needs that _decide is only called while a       *)
(* variable is free.                                                       *)
(***************************************************************************)
Unadded == \A v \in AllVars \ Known : activity[v] = 0

HeapInv ==
    /\ HeapTypeOK
    /\ Entries
    /\ Unadded
    /\ deciding => Free # {}

(* Dividing by Scale keeps natural numbers, and an increment above the      *)
(* limit stays positive.                                                   *)
LEMMA ScaledIsNat ==
    ASSUME NEW x \in Nat
    PROVE  Scaled(x) \in Nat /\ (x > Limit => Scaled(x) # 0)
<1>1. Scale \in Nat /\ Scale > 0 /\ Limit \in Nat /\ Scale <= Limit + 1
  BY HeapAssumption
<1>2. \A q \in Int : x = Scale * q + (x % Scale) /\ x >= 0 => q >= 0
  BY <1>1, Z3
<1> QED  BY <1>1, Z3 DEF Scaled

(* The marked variables of a rebuilt heap have exactly their own entry.     *)
LEMMA RebuiltEntries ==
    ASSUME NEW act, NEW in
    PROVE  /\ \A e \in Rebuilt(act, in) :
                  e[2] \in Known /\ in[e[2]] /\ e = <<act[e[2]], e[2]>>
           /\ \A v \in Known : in[v] => <<act[v], v>> \in Rebuilt(act, in)
           /\ \A v \in Known : <<act[v], v>> \in Rebuilt(act, in) => in[v]
BY DEF Rebuilt

(* Known variables are numbers below NumVars; entries are pairs.           *)
LEMMA TypesOfEntries ==
    ASSUME HeapTypeOK
    PROVE  /\ Known \subseteq AllVars
           /\ count < NumVars => count \in AllVars /\ count \notin Known
           /\ \A e \in heap : /\ e = <<e[1], e[2]>>
                             /\ e[1] \in Nat /\ e[2] \in Known /\ e[2] \in AllVars
<1>1. count \in 0 .. NumVars /\ NumVars \in Nat
  BY HeapAssumption DEF HeapTypeOK
<1>2. Known \subseteq AllVars /\ (count < NumVars => count \in AllVars /\ count \notin Known)
  BY <1>1 DEF Known, AllVars
<1>3. \A e \in heap : e \in Nat \X Known
  BY DEF HeapTypeOK
<1> HIDE DEF Known, AllVars
<1>4. \A e \in Nat \X Known : e = <<e[1], e[2]>> /\ e[1] \in Nat /\ e[2] \in Known
  OBVIOUS
<1> QED  BY <1>2, <1>3, <1>4

LEMMA InitHeapInv == HeapInit => HeapInv
<1> SUFFICES ASSUME HeapInit  PROVE HeapInv
  OBVIOUS
<1>1. Known = {} /\ NumVars \in Nat  BY HeapAssumption DEF HeapInit, Known
<1>2. HeapTypeOK
  <2>1. count \in 0 .. NumVars /\ inc \in Nat \ {0}
    BY <1>1 DEF HeapInit
  <2>2. activity \in [AllVars -> Nat] /\ inHeap \in [AllVars -> BOOLEAN]
        /\ deciding \in BOOLEAN
    BY DEF HeapInit
  <2>3. heap \subseteq Nat \X Known /\ assigned \subseteq Known
    BY DEF HeapInit
  <2> QED  BY <2>1, <2>2, <2>3 DEF HeapTypeOK
<1>3. Entries  BY <1>1 DEF HeapInit, Entries, Free
<1> QED
  BY <1>2, <1>3 DEF HeapInit, HeapInv, Unadded

LEMMA NextHeapInv == HeapInv /\ [HeapNext]_heapVars => HeapInv'
<1> SUFFICES ASSUME HeapInv, [HeapNext]_heapVars
             PROVE  HeapInv'
  OBVIOUS
<1> USE DEF HeapInv
<1>0. Known \subseteq AllVars /\ \A e \in heap : e[2] \in Known
  BY TypesOfEntries
<1>1. CASE AddVariable
  <2>1. count \in AllVars /\ activity[count] = 0 /\ count \notin Known
        /\ Known' = Known \cup {count}
    BY <1>1, HeapAssumption DEF AddVariable, HeapTypeOK, Unadded, AllVars, Known
  <2>2. HeapTypeOK'
    BY <1>1, <2>1, HeapAssumption DEF AddVariable, HeapTypeOK
  <2>3. Entries'
    BY <1>1, <2>1 DEF AddVariable, HeapTypeOK, Entries, Free, Known
  <2>4. Unadded' /\ (deciding => Free # {})'
    BY <1>1, <2>1 DEF AddVariable, Unadded
  <2> QED  BY <2>2, <2>3, <2>4
<1>2. ASSUME NEW v \in Known, Assign(v)
      PROVE  HeapInv'
  BY <1>2 DEF Assign, HeapTypeOK, Entries, Unadded, Known, Free, AllVars
<1>3. ASSUME NEW v \in Known, Bump(v)
      PROVE  HeapInv'
  <2>1. v \in AllVars /\ v \in assigned /\ activity[v] \in Nat /\ inc \in Nat \ {0}
        /\ activity'[v] = activity[v] + inc
        /\ \A w \in AllVars : w # v => activity'[w] = activity[w]
    BY <1>0, <1>3 DEF Bump, HeapTypeOK
  <2>2. HeapTypeOK'
    BY <1>3, <2>1 DEF Bump, HeapTypeOK, Known
  <2>3. Entries'
    <3>1. Known' = Known /\ Free' = Free /\ Known \subseteq AllVars
      BY <1>0, <1>3 DEF Bump, Known, Free
    <3>2. \A e \in heap' : e[1] <= activity'[e[2]]
      BY <1>3, <2>1, <2>2, <3>1 DEF Bump, HeapTypeOK, Entries
    <3>3. <<activity'[v], v>> \in heap' /\ inHeap'[v]
      BY <1>3, <2>1 DEF Bump, HeapTypeOK
    <3>4. ASSUME NEW w \in Known, w # v
          PROVE  inHeap'[w] <=> <<activity'[w], w>> \in heap'
      BY <1>3, <2>1, <3>1, <3>4 DEF Bump, HeapTypeOK, Entries
    <3>5. \A w \in Free : inHeap'[w]
      BY <1>3, <2>1 DEF Bump, HeapTypeOK, Entries, Free
    <3> QED  BY <3>1, <3>2, <3>3, <3>4, <3>5 DEF Entries
  <2>4. Unadded' /\ (deciding => Free # {})'
    BY <1>3, <2>1 DEF Bump, Unadded, Known
  <2> QED  BY <2>2, <2>3, <2>4
<1>4. ASSUME NEW v \in Known, BumpAndRescale(v)
      PROVE  HeapInv'
  <2>1. Known' = Known /\ Free' = Free /\ Known \subseteq AllVars /\ v \in assigned
    BY <1>0, <1>4 DEF BumpAndRescale, Known, Free
  <2>2. activity' \in [AllVars -> Nat] /\ inc' \in Nat \ {0}
    <3>1. \A w \in AllVars : (IF w = v THEN activity[w] + inc ELSE activity[w]) \in Nat
      BY DEF HeapTypeOK
    <3> QED  BY <1>4, <3>1, ScaledIsNat DEF BumpAndRescale, HeapTypeOK
  <2>3. heap' = Rebuilt(activity', inHeap') /\ inHeap' \in [AllVars -> BOOLEAN]
        /\ \A w \in Free : inHeap'[w]
    BY <1>4, <2>1 DEF BumpAndRescale, HeapTypeOK, Entries, Free
  <2>4. HeapTypeOK'
    BY <1>4, <2>1, <2>2, <2>3, RebuiltEntries DEF BumpAndRescale, HeapTypeOK, Rebuilt
  <2>5. Entries'
    <3>1. \A e \in heap' : e[2] \in Known /\ e[1] = activity'[e[2]]
      BY <2>3, RebuiltEntries
    <3>2. \A w \in Known : inHeap'[w] <=> <<activity'[w], w>> \in heap'
      <4> SUFFICES ASSUME NEW w \in Known
                   PROVE  inHeap'[w] <=> <<activity'[w], w>> \in heap'
        OBVIOUS
      <4>1. inHeap'[w] \in BOOLEAN  BY <2>1, <2>3
      <4> QED  BY <2>3, <4>1, RebuiltEntries
    <3>3. \A e \in heap' : activity'[e[2]] \in Nat  BY <2>1, <2>2, <3>1
    <3> QED  BY <2>1, <2>3, <3>1, <3>2, <3>3 DEF Entries
  <2>6. Unadded' /\ (deciding => Free # {})'
    <3>1. Scaled(0) = 0  BY HeapAssumption, Z3 DEF Scaled
    <3> QED  BY <1>4, <2>1, <3>1 DEF BumpAndRescale, Unadded
  <2> QED  BY <2>4, <2>5, <2>6
<1>5. CASE BeginDecide
  BY <1>5 DEF BeginDecide, HeapTypeOK, Entries, Unadded, Known, Free, AllVars
<1>6. ASSUME NEW e \in heap, DropOutdated(e)
      PROVE  HeapInv'
  <2>1. e[1] < activity[e[2]] /\ e[1] \in Nat /\ e[2] \in AllVars
    BY <1>6, TypesOfEntries DEF DropOutdated, Outdated
  <2>2. \A v \in AllVars : <<activity[v], v>> # e
    BY <2>1 DEF HeapTypeOK
  <2>3. Known' = Known /\ Free' = Free /\ UNCHANGED <<activity, inHeap, deciding>>
        /\ heap' = heap \ {e}
    BY <1>6 DEF DropOutdated, Known, Free
  <2>4. HeapTypeOK'  BY <1>6, <2>3 DEF DropOutdated, HeapTypeOK
  <2>5. Entries' BY <1>0, <2>2, <2>3 DEF Entries
  <2> QED  BY <2>3, <2>4, <2>5 DEF Unadded
<1>7. ASSUME NEW e \in heap, ~Outdated(e)
      PROVE  /\ e[2] \in Known
             /\ e = <<activity[e[2]], e[2]>>
             /\ \A v \in Known : v # e[2] => <<activity[v], v>> # e
  <2>1. e = <<e[1], e[2]>> /\ e[1] \in Nat /\ e[2] \in Known /\ e[2] \in AllVars
    BY TypesOfEntries
  <2>2. e[1] = activity[e[2]]
    BY <1>7, <2>1 DEF HeapTypeOK, Entries, Outdated
  <2> QED  BY <2>1, <2>2
<1>8. ASSUME NEW e \in heap, SkipAssigned(e)
      PROVE  HeapInv'
  <2>1. /\ e[2] \in Known /\ e = <<activity[e[2]], e[2]>>
        /\ \A v \in Known : v # e[2] => <<activity[v], v>> # e
    BY <1>7, <1>8 DEF SkipAssigned
  <2>2. Known' = Known /\ Free' = Free /\ UNCHANGED <<activity, deciding>>
        /\ heap' = heap \ {e} /\ e[2] \notin Free
        /\ inHeap' = [inHeap EXCEPT ![e[2]] = FALSE]
    BY <1>8 DEF SkipAssigned, Known, Free
  <2>3. HeapTypeOK'  BY <1>8, <2>2 DEF SkipAssigned, HeapTypeOK
  <2>4. Entries' BY <1>0, <2>1, <2>2 DEF Entries, HeapTypeOK, Free
  <2> QED  BY <2>2, <2>3, <2>4 DEF Unadded
<1>9. ASSUME NEW e \in heap, Choose(e)
      PROVE  HeapInv'
  <2>1. /\ e[2] \in Known /\ e = <<activity[e[2]], e[2]>>
        /\ \A v \in Known : v # e[2] => <<activity[v], v>> # e
    BY <1>7, <1>9 DEF Choose
  <2>2. Known' = Known /\ Free' = Free \ {e[2]} /\ UNCHANGED activity
        /\ heap' = heap \ {e} /\ deciding' = FALSE
        /\ inHeap' = [inHeap EXCEPT ![e[2]] = FALSE]
    BY <1>9 DEF Choose, Known, Free
  <2>3. HeapTypeOK'  BY <1>9, <2>1, <2>2 DEF Choose, HeapTypeOK
  <2>4. Entries' BY <1>0, <2>1, <2>2 DEF Entries, HeapTypeOK, Free
  <2> QED  BY <2>2, <2>3, <2>4 DEF Unadded
<1>10. CASE Decay
  BY <1>10 DEF Decay, HeapTypeOK, Entries, Unadded, Known, Free, AllVars
<1>11. ASSUME NEW kept \in SUBSET assigned, Backtrack(kept)
       PROVE  HeapInv'
  <2> DEFINE pushed == {v \in assigned \ kept : ~inHeap[v]}
  <2>1. Known' = Known /\ activity' = activity /\ pushed \subseteq Known
        /\ Known \subseteq AllVars /\ deciding' = FALSE /\ assigned' = kept
    BY <1>0, <1>11 DEF Backtrack, HeapTypeOK, Known
  <2>2. heap' = heap \cup {<<activity[v], v>> : v \in pushed}
        /\ inHeap' = [v \in AllVars |-> inHeap[v] \/ v \in pushed]
    BY <1>11 DEF Backtrack
  <2>3. HeapTypeOK'
    BY <1>11, <2>1, <2>2 DEF Backtrack, HeapTypeOK
  <2>4. \A e \in heap' : e[1] <= activity'[e[2]]
    BY <2>1, <2>2 DEF HeapTypeOK, Entries
  <2>5. ASSUME NEW v \in Known
        PROVE  inHeap'[v] <=> <<activity'[v], v>> \in heap'
    BY <2>1, <2>2 DEF HeapTypeOK, Entries
  <2>6. \A v \in Free' : inHeap'[v]
    BY <2>1, <2>2 DEF HeapTypeOK, Entries, Free
  <2> QED  BY <1>11, <2>1, <2>3, <2>4, <2>5, <2>6 DEF Backtrack, Entries, Unadded
<1>12. CASE UNCHANGED heapVars
  BY <1>12 DEF heapVars, HeapTypeOK, Entries, Unadded, Known, Free, AllVars
<1> QED
  BY <1>1, <1>2, <1>3, <1>4, <1>5, <1>6, <1>8, <1>9, <1>10, <1>11, <1>12 DEF HeapNext

(* HeapInv holds in every state of the solver.                             *)
THEOREM HeapInvariant == HeapSpec => []HeapInv
<1> QED  BY InitHeapInv, NextHeapInv, PTL DEF HeapSpec

(* The marks of in_heap and the entries of the heap agree, for any number   *)
(* of variables, limit and scale.                                          *)
THEOREM HeapEntries == HeapSpec => [](HeapTypeOK /\ Entries)
<1>1. HeapInv => HeapTypeOK /\ Entries  BY DEF HeapInv
<1> QED  BY <1>1, HeapInvariant, PTL

(* _decide always finds an entry: NULL_LITERAL never reaches the trail.     *)
THEOREM DecideNeverNull == HeapSpec => []NeverNull
<1>1. HeapInv => NeverNull
  BY DEF HeapInv, Entries, NeverNull, Free
<1> QED  BY <1>1, HeapInvariant, PTL

(* What _decide returns is the most active free variable.                  *)
THEOREM DecidesMostActive == HeapSpec => MostActive
<1> DEFINE Decided ==
        deciding /\ ~deciding' =>
         \A v \in assigned' \ assigned, w \in Free :
             \/ activity[w] < activity[v]
             \/ activity[w] = activity[v] /\ v <= w
<1>1. HeapInv /\ [HeapNext]_heapVars => [Decided]_heapVars
  <2> SUFFICES ASSUME HeapInv, [HeapNext]_heapVars, deciding, ~deciding',
                      NEW v \in assigned' \ assigned, NEW w \in Free
               PROVE  \/ activity[w] < activity[v]
                      \/ activity[w] = activity[v] /\ v <= w
    OBVIOUS
  <2>1. PICK e \in heap : Choose(e)
    BY DEF HeapNext, AddVariable, Assign, Bump, BumpAndRescale, BeginDecide, DropOutdated,
           SkipAssigned, Decay, Backtrack, heapVars
  <2>2. e[1] \in Nat /\ e[2] \in AllVars
    BY TypesOfEntries DEF HeapInv
  <2>3. v = e[2] /\ e[1] = activity[v]
    BY <2>1, <2>2 DEF Choose, Outdated, HeapInv, HeapTypeOK, Entries
  <2>4. <<activity[w], w>> \in heap
    BY DEF HeapInv, Entries, Free
  <2> QED  BY <2>1, <2>3, <2>4 DEF Choose, PopsFirst
<1> QED  BY <1>1, HeapInvariant, PTL DEF HeapSpec, MostActive
===============================================================================
