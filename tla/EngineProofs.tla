---------------------------- MODULE EngineProofs ----------------------------
(***************************************************************************)
(* What the SMT engine promises, for all formulas, rules, scopes and budgets: *)
(* its budgets are kept, UNSAT is sound, and SAT is only answered when every *)
(* instance within reach of the matcher was asserted.                       *)
(***************************************************************************)
EXTENDS EngineUse, FiniteSetTheorems, SequenceTheorems, WellFoundedInduction, TLAPS

\* A set of numbers has a least member.
LEMMA LeastOf ==
    ASSUME NEW S, S \subseteq Nat, S # {}
    PROVE  \E n \in S : \A m \in S : n <= m
<1> DEFINE Less == {ss \in Nat \X Nat : ss[1] < ss[2]}
<1>1. IsWellFoundedOn(Less, Nat)
  BY NatLessThanWellFounded DEF OpToRel
<1>2. PICK n \in S : \A m \in S : ~(<<m, n>> \in Less)
  <2> HIDE DEF Less
  <2> QED
    BY <1>1, WFMin
<1>3. ASSUME NEW m \in S
      PROVE  n <= m
  <2>1. ~(m < n)
    BY <1>2
  <2> QED
    BY <2>1
<1> QED
  BY <1>3

(***************************************************************************)
(* Literals, and what satisfies the clauses of the SAT solver.             *)
(***************************************************************************)
AllVars == Atoms \cup Range(RuleAtom) \cup Range(ScopeAtoms)
AllLits == LitsOf(AllVars)

\* The clauses cls and the literals lv of level 0 are well formed.
Clausal(cls, lv) ==
    /\ IsFiniteSet(cls) /\ \A c \in cls : IsFiniteSet(c) /\ c \subseteq AllLits
    /\ IsFiniteSet(lv) /\ lv \subseteq AllLits
    /\ \A l \in lv : -l \notin lv
    /\ \A l \in lv : \E k \in UNION cls : Abs(k) = Abs(l)

Meets(m, lits) == \E l \in lits : IsTrue(l, m)
Sat(cls, lv, m) == (\A l \in lv : IsTrue(l, m)) /\ \A c \in cls : Meets(m, c)

\* Variables are positive, so literals have a sign.
LEMMA AllVarsArePositive ==
    AllVars \subseteq Nat \ {0}
<1>1. Range(RuleAtom) \subseteq Nat \ {0}
  BY EngineAssumption DEF Range
<1>2. Range(ScopeAtoms) \subseteq Nat \ {0}
  BY EngineAssumption, RangeOfSeq
<1> QED
  BY <1>1, <1>2, EngineAssumption DEF AllVars

LEMMA LiteralFacts ==
    ASSUME NEW vs \in SUBSET (Nat \ {0}), NEW l \in LitsOf(vs)
    PROVE  /\ l \in Int /\ l # 0 /\ -l \in LitsOf(vs) /\ -(-l) = l /\ Abs(l) \in vs /\ Abs(-l) = Abs(l)
           /\ \A m : IsTrue(-l, m) <=> ~IsTrue(l, m)
           /\ \A m : IsTrue(l, m) <=> IF l > 0 THEN Abs(l) \in m ELSE Abs(l) \notin m
  BY DEF LitsOf, Abs, IsTrue

LEMMA AllLitsFacts ==
    ASSUME NEW l \in AllLits
    PROVE  /\ l \in Int /\ l # 0 /\ -l \in AllLits /\ -(-l) = l /\ Abs(l) \in AllVars /\ Abs(-l) = Abs(l)
           /\ \A m : IsTrue(-l, m) <=> ~IsTrue(l, m)
           /\ \A m : IsTrue(l, m) <=> IF l > 0 THEN Abs(l) \in m ELSE Abs(l) \notin m
<1>1. AllVars \in SUBSET (Nat \ {0}) /\ l \in LitsOf(AllVars)
  BY AllVarsArePositive DEF AllLits
<1> QED
  BY <1>1, LiteralFacts DEF AllLits

\* Truth depends on the variable only.
LEMMA TruthAgrees ==
    ASSUME NEW l \in AllLits, NEW m, NEW n, Abs(l) \in m <=> Abs(l) \in n
    PROVE  IsTrue(l, m) <=> IsTrue(l, n)
  BY AllLitsFacts

\* The literals that are forced, step by step.
LEMMA PropagatedFacts ==
    ASSUME Clausal(clauses, level0)
    PROVE  /\ level0 \subseteq Propagated /\ Propagated \subseteq level0 \cup (UNION clauses)
           /\ \A m : Sat(clauses, level0, m) => \A l \in Propagated : IsTrue(l, m)
<1> DEFINE U == level0 \cup (UNION clauses)
           Forced(L) == {l \in UNION clauses : \E c \in clauses : l \in c /\ \A k \in c \ {l} : -k \in L}
           Is(g) == g = [L \in SUBSET (level0 \cup (UNION clauses)) |->
                           IF Forced(L) \subseteq L THEN L ELSE g[L \cup Forced(L)]]
           Over(L) == {C \in SUBSET U : L \subseteq C /\ Forced(C) \subseteq C}
           F == [L \in SUBSET (level0 \cup (UNION clauses)) |-> {l \in U : \A C \in Over(L) : l \in C}]
           step == CHOOSE g : Is(g)
<1>1. \A L \in SUBSET U : Forced(L) \subseteq U /\ L \cup Forced(L) \in SUBSET U
  OBVIOUS
<1>2. \A L, C \in SUBSET U : L \subseteq C => Forced(L) \subseteq Forced(C)
  OBVIOUS
<1>3. IsFiniteSet(U) /\ Cardinality(U) \in Nat
  BY FS_UNION, FS_Union, FS_CardinalityType DEF Clausal
<1>4. \A m : Sat(clauses, level0, m) =>
        \A L \in SUBSET U : (\A l \in L : IsTrue(l, m)) => \A l \in Forced(L) : IsTrue(l, m)
  <2> SUFFICES ASSUME NEW m, Sat(clauses, level0, m), NEW L \in SUBSET U, \A l \in L : IsTrue(l, m),
                      NEW l \in Forced(L)
               PROVE  IsTrue(l, m)
    OBVIOUS
  <2>1. PICK c \in clauses : l \in c /\ \A k \in c \ {l} : -k \in L
    OBVIOUS
  <2>2. PICK k \in c : IsTrue(k, m)
    BY DEF Sat, Meets
  <2>3. k \in AllLits
    BY DEF Clausal
  <2>4. k # l => IsTrue(-k, m)
    BY <2>1
  <2> HIDE DEF Forced, U
  <2> QED
    BY <2>2, <2>3, <2>4, AllLitsFacts
<1> HIDE DEF U, Forced
<1>5. Is(F)
  <2>1. ASSUME NEW L \in SUBSET U
        PROVE  F[L] = IF Forced(L) \subseteq L THEN L ELSE F[L \cup Forced(L)]
    <3>1. CASE Forced(L) \subseteq L
      <4>1. L \in Over(L) /\ \A C \in Over(L) : L \subseteq C
        BY <3>1
      <4>2. F[L] = {l \in U : \A C \in Over(L) : l \in C}
        BY DEF U
      <4> HIDE DEF Over, F
      <4> QED
        BY <3>1, <4>1, <4>2
    <3>2. CASE ~(Forced(L) \subseteq L)
      <4>1. Over(L) = Over(L \cup Forced(L))
        BY <1>1, <1>2
      <4>2. F[L] = {l \in U : \A C \in Over(L) : l \in C}
        BY DEF U
      <4>3. F[L \cup Forced(L)] = {l \in U : \A C \in Over(L \cup Forced(L)) : l \in C}
        BY <1>1 DEF U
      <4> HIDE DEF Over, F
      <4> QED
        BY <3>2, <4>1, <4>2, <4>3
    <3> QED
      BY <3>1, <3>2
  <2>2. F = [L \in SUBSET (level0 \cup (UNION clauses)) |-> F[L]]
    OBVIOUS
  <2> HIDE DEF F
  <2> QED
    BY <2>1, <2>2, Zenon DEF U
<1>6. Is(step)
  <2> HIDE DEF Is, F
  <2> QED
    BY <1>5, Zenon
<1>7. Propagated = step[level0]
  BY Zenon DEF Propagated, Forced
<1> HIDE DEF step
<1>8. step = [L \in SUBSET (level0 \cup (UNION clauses)) |->
                IF Forced(L) \subseteq L THEN L ELSE step[L \cup Forced(L)]]
  BY <1>6, Zenon
<1> HIDE DEF Is, F, Over
<1>9. \A L \in SUBSET U : step[L] = IF Forced(L) \subseteq L THEN L ELSE step[L \cup Forced(L)]
  BY <1>8, Zenon DEF U
<1> DEFINE True(L, m) == \A l \in L : IsTrue(l, m)
           Fine(L) == /\ L \subseteq step[L] /\ step[L] \subseteq U
                      /\ \A m : Sat(clauses, level0, m) /\ True(L, m) => True(step[L], m)
           Off == {L \in SUBSET U : ~Fine(L)}
           Gaps == {Cardinality(U) - Cardinality(L) : L \in Off}
<1>10. \A L \in SUBSET U : Cardinality(L) \in Nat /\ Cardinality(L) <= Cardinality(U)
  BY <1>3, FS_Subset, FS_CardinalityType
<1>11. Off = {}
  <2> SUFFICES ASSUME Off # {} PROVE FALSE
    OBVIOUS
  <2>1. Gaps \subseteq Nat /\ Gaps # {}
    <3> HIDE DEF Fine
    <3> QED
      BY <1>3, <1>10
  <2>2. PICK k \in Gaps : \A m \in Gaps : k <= m
    <3> HIDE DEF Gaps
    <3> QED
      BY <2>1, LeastOf
  <2>3. PICK L \in Off : k = Cardinality(U) - Cardinality(L)
    OBVIOUS
  <2>4. L \in SUBSET U /\ ~Fine(L)
    OBVIOUS
  <2> DEFINE M == L \cup Forced(L)
  <2>5. M \in SUBSET U /\ L \in SUBSET M
    BY <1>1
  <2>6. ~(Forced(L) \subseteq L)
    <3> SUFFICES ASSUME Forced(L) \subseteq L PROVE FALSE
      OBVIOUS
    <3>1. step[L] = L
      BY <1>9, <2>4
    <3> HIDE DEF Off, Gaps
    <3> QED
      BY <2>4, <3>1
  <2>7. Cardinality(L) < Cardinality(M)
    <3>1. M # L
      BY <2>6
    <3>2. IsFiniteSet(M)
      BY <1>3, <2>5, FS_Subset
    <3> HIDE DEF Off, Gaps, M
    <3>3. Cardinality(L) <= Cardinality(M) /\ (Cardinality(M) = Cardinality(L) => M = L)
      BY ONLY <3>2, <2>5, FS_Subset
    <3> QED
      BY <1>10, <2>4, <2>5, <3>1, <3>3
  <2>8. Fine(M)
    <3> SUFFICES ASSUME M \in Off PROVE FALSE
      BY <2>5
    <3>1. Cardinality(U) - Cardinality(M) \in Gaps
      OBVIOUS
    <3> HIDE DEF Gaps, Off, M
    <3> QED
      BY <1>3, <1>10, <2>2, <2>3, <2>4, <2>5, <2>7, <3>1
  <2>9. step[L] = step[M]
    BY <1>9, <2>4, <2>6
  <2>10. \A m : Sat(clauses, level0, m) /\ True(L, m) => True(M, m)
    BY <1>4, <2>4
  <2> HIDE DEF Off, Gaps, M, True
  <2> QED
    BY <2>4, <2>5, <2>8, <2>9, <2>10
<1>12. Fine(level0)
  <2>1. level0 \in SUBSET U
    BY DEF U
  <2> HIDE DEF Fine
  <2> QED
    BY <1>11, <2>1
<1> QED
  BY <1>7, <1>12 DEF U, Sat

VarsIn(lits) == {Abs(l) : l \in lits}

\* The variables the solver knows.
LEMMA VarsAre ==
    ASSUME Clausal(clauses, level0), NEW lits \in SUBSET AllLits
    PROVE  /\ Vars(lits) \subseteq AllVars /\ Vars({}) \subseteq Vars(lits)
           /\ \A x : x \in Vars(lits) <=> (\E l \in UNION clauses : x = Abs(l)) \/ \E l \in lits : x = Abs(l)
<1>1. UNION clauses \subseteq AllLits
  BY DEF Clausal
<1>2. \A l \in (UNION clauses) \cup lits : Abs(l) \in AllVars
  BY <1>1, AllLitsFacts
<1> QED
  BY <1>2 DEF Vars

\* The models of the solver are the sets of its variables that satisfy it.
LEMMA ModelsAre ==
    ASSUME Clausal(clauses, level0), NEW lits \in SUBSET AllLits
    PROVE  Models(lits) = {m \in SUBSET Vars(lits) :
                             Sat(clauses, level0, m) /\ \A l \in lits : IsTrue(l, m)}
<1> DEFINE true == {l \in level0 : l > 0}
           open == Vars(lits) \ {Abs(l) : l \in level0}
           Right(m) == /\ \A l \in lits : IsTrue(l, m)
                       /\ \A c \in clauses : \E l \in c : IsTrue(l, m)
<1>1. Models(lits) = {m \in {true \cup s : s \in SUBSET open} : Right(m)}
  BY DEF Models
<1>2. \A l \in level0 : l \in AllLits /\ -l \notin level0 /\ \E k \in UNION clauses : Abs(k) = Abs(l)
  BY DEF Clausal
<1>3. \A l \in level0 : Abs(l) \in Vars(lits)
  BY <1>2, VarsAre
<1>4. \A l \in level0 : l \in Int /\ l # 0 /\ Abs(l) = (IF l > 0 THEN l ELSE -l) /\ -(-l) = l
  BY <1>2, AllLitsFacts DEF Abs
<1>5. \A l \in level0 : \A m : IsTrue(l, m) <=> IF l > 0 THEN Abs(l) \in m ELSE Abs(l) \notin m
  BY <1>2, AllLitsFacts
<1>6. ASSUME NEW s \in SUBSET open
      PROVE  true \cup s \in SUBSET Vars(lits) /\ \A l \in level0 : IsTrue(l, true \cup s)
  <2>1. \A l \in true : l \in Vars(lits)
    BY <1>3, <1>4
  <2>2. ASSUME NEW l \in level0
        PROVE  IsTrue(l, true \cup s)
    <3>1. CASE l > 0
      BY <1>4, <1>5, <3>1
    <3>2. CASE ~(l > 0)
      <4>1. Abs(l) = -l /\ -l \notin level0
        BY <1>2, <1>4, <3>2
      <4>2. Abs(l) \notin s /\ Abs(l) \notin true
        BY <4>1
      <4> HIDE DEF true, open
      <4> QED
        BY <1>5, <3>2, <4>2
    <3> QED
      BY <3>1, <3>2
  <2> QED
    BY <2>1, <2>2
<1>7. ASSUME NEW m \in SUBSET Vars(lits), \A l \in level0 : IsTrue(l, m)
      PROVE  \E s \in SUBSET open : m = true \cup s
  <2> DEFINE s == m \ {Abs(l) : l \in level0}
  <2>1. s \in SUBSET open
    OBVIOUS
  <2>2. \A l \in true : l \in m
    BY <1>4, <1>5, <1>7
  <2>3. \A l \in level0 : Abs(l) \in m => Abs(l) \in true
    BY <1>4, <1>5, <1>7
  <2>4. m = true \cup s
    <3> HIDE DEF true
    <3> QED
      BY <2>2, <2>3
  <2> QED
    BY <2>1, <2>4
<1> HIDE DEF true, open
<1>8. \A m : Sat(clauses, level0, m) /\ (\A l \in lits : IsTrue(l, m))
             <=> Right(m) /\ \A l \in level0 : IsTrue(l, m)
  BY DEF Sat, Meets
<1> HIDE DEF Right
<1>9. \A m \in Models(lits) : m \in SUBSET Vars(lits) /\ Right(m) /\ \A l \in level0 : IsTrue(l, m)
  BY <1>1, <1>6
<1>10. \A m \in SUBSET Vars(lits) : Right(m) /\ (\A l \in level0 : IsTrue(l, m)) => m \in Models(lits)
  BY <1>1, <1>7
<1> QED
  BY <1>8, <1>9, <1>10

\* What satisfies the solver does so on its variables alone.
LEMMA Restricted ==
    ASSUME Clausal(clauses, level0), NEW lits \in SUBSET AllLits,
           NEW m, Sat(clauses, level0, m), \A l \in lits : IsTrue(l, m)
    PROVE  m \cap Vars(lits) \in Models(lits)
<1> DEFINE n == m \cap Vars(lits)
<1>1. \A l \in (UNION clauses) \cup lits : l \in AllLits /\ Abs(l) \in Vars(lits)
  BY VarsAre DEF Clausal
<1>2. \A l \in level0 : l \in AllLits /\ Abs(l) \in Vars(lits)
  BY VarsAre DEF Clausal
<1>3. \A l \in (UNION clauses) \cup lits \cup level0 : IsTrue(l, m) <=> IsTrue(l, n)
  BY <1>1, <1>2, TruthAgrees
<1>4. Sat(clauses, level0, n)
  <2> HIDE DEF n
  <2>1. \A l \in level0 : IsTrue(l, n)
    BY <1>3 DEF Sat
  <2>2. ASSUME NEW c \in clauses
        PROVE  Meets(n, c)
    <3>1. PICK l \in c : IsTrue(l, m)
      BY DEF Sat, Meets
    <3> QED
      BY <1>3, <3>1 DEF Meets
  <2> QED
    BY <2>1, <2>2 DEF Sat
<1>5. \A l \in lits : IsTrue(l, n)
  BY <1>3
<1> HIDE DEF n
<1>6. n \subseteq Vars(lits)
  BY DEF n
<1>7. n \in Models(lits)
  BY <1>4, <1>5, <1>6, ModelsAre
<1> QED
  BY <1>7 DEF n

\* What a check leaves at level 0 follows from the clauses.
LEMMA SolvedFacts ==
    ASSUME Clausal(clauses, level0), NEW lv \in Level0After(Models({}), Propagated)
    PROVE  /\ Clausal(clauses, lv) /\ level0 \subseteq lv
           /\ \A m : Sat(clauses, lv, m) <=> Sat(clauses, level0, m)
<1>1. CASE Models({}) = {}
  <2>1. lv = level0
    BY <1>1 DEF Level0After
  <2> QED
    BY <2>1
<1>2. CASE Models({}) # {}
  <2> DEFINE implied == {l \in LitsOf(Vars({})) : \A m \in Models({}) : IsTrue(l, m)}
  <2>1. PICK s \in SUBSET (implied \ Propagated) : lv = Propagated \cup s
    BY <1>2 DEF Level0After
  <2>2. {} \in SUBSET AllLits /\ Vars({}) \in SUBSET AllVars
    BY VarsAre
  <2>3. Vars({}) \in SUBSET (Nat \ {0})
    BY <2>2, AllVarsArePositive
  <2>4. \A l \in LitsOf(Vars({})) : l \in AllLits /\ Abs(l) \in Vars({})
    <3>1. LitsOf(Vars({})) \subseteq AllLits
      BY <2>2 DEF LitsOf, AllLits
    <3> QED
      BY <2>3, <3>1, LiteralFacts
  <2>5. \A m : Sat(clauses, level0, m) => \A l \in lv : IsTrue(l, m)
    <3> SUFFICES ASSUME NEW m, Sat(clauses, level0, m), NEW l \in lv
                 PROVE  IsTrue(l, m)
      OBVIOUS
    <3>1. CASE l \in Propagated
      BY <3>1, PropagatedFacts
    <3>2. CASE l \in implied
      <4>1. m \cap Vars({}) \in Models({})
        BY <2>2, Restricted
      <4>2. IsTrue(l, m \cap Vars({})) /\ l \in AllLits /\ Abs(l) \in Vars({})
        BY <2>4, <3>2, <4>1
      <4> QED
        BY <4>2, TruthAgrees
    <3> QED
      BY <2>1, <3>1, <3>2
  <2>6. level0 \subseteq lv /\ lv \subseteq level0 \cup (UNION clauses) \cup LitsOf(Vars({}))
    BY <2>1, PropagatedFacts
  <2>7. \A m : Sat(clauses, lv, m) <=> Sat(clauses, level0, m)
    BY <2>5, <2>6 DEF Sat
  <2>8. \A l \in lv : l \in AllLits /\ \E k \in UNION clauses : Abs(k) = Abs(l)
    <3> SUFFICES ASSUME NEW l \in lv
                 PROVE  l \in AllLits /\ \E k \in UNION clauses : Abs(k) = Abs(l)
      OBVIOUS
    <3>1. CASE l \in level0 \cup (UNION clauses)
      BY <3>1 DEF Clausal
    <3>2. CASE l \in LitsOf(Vars({}))
      <4>1. Abs(l) \in Vars({}) /\ l \in AllLits
        BY <2>4, <3>2
      <4> QED
        BY <4>1, <2>2, VarsAre
    <3> QED
      BY <2>6, <3>1, <3>2
  <2>9. \A l \in lv : -l \notin lv
    <3>1. PICK m : Sat(clauses, level0, m)
      BY <1>2, <2>2, ModelsAre
    <3>2. \A l \in lv : IsTrue(l, m) /\ l \in AllLits
      BY <2>5, <2>8, <3>1
    <3> QED
      BY <3>2, AllLitsFacts
  <2>10. IsFiniteSet(lv)
    <3> DEFINE U == UNION clauses
               V == {-l : l \in U}
               neg == [l \in U |-> -l]
    <3>1. IsFiniteSet(U)
      BY FS_UNION DEF Clausal
    <3>2. neg \in Surjection(U, V)
      BY DEF Surjection
    <3>3. IsFiniteSet(V)
      <4> HIDE DEF U, V, neg
      <4> QED
        BY <3>1, <3>2, FS_Surjection
    <3>4. IsFiniteSet(level0 \cup U \cup V)
      BY <3>1, <3>3, FS_Union DEF Clausal
    <3>5. \A l \in lv : l \in level0 \cup U \cup V
      <4> SUFFICES ASSUME NEW l \in lv
                   PROVE  l \in level0 \cup U \cup V
        OBVIOUS
      <4>1. PICK k \in U : Abs(k) = Abs(l)
        BY <2>8
      <4>2. k \in AllLits /\ l \in AllLits
        BY <2>8, <4>1 DEF Clausal
      <4>3. l = k \/ l = -k
        BY <4>1, <4>2, AllLitsFacts DEF Abs
      <4> QED
        BY <4>1, <4>3
    <3>6. lv \in SUBSET (level0 \cup U \cup V)
      BY <3>5
    <3> HIDE DEF U, V
    <3> QED
      BY <3>4, <3>6, FS_Subset
  <2> QED
    BY <2>6, <2>7, <2>8, <2>9, <2>10 DEF Clausal
<1> QED
  BY <1>1, <1>2

\* What a clause added leaves.
LEMMA AddFacts ==
    ASSUME Clausal(clauses, level0), NEW c \in SUBSET AllLits, IsFiniteSet(c),
           NEW cls \in ClausesWith(c), NEW lv, lv = level0 \cup UnitsOf(c)
    PROVE  /\ Clausal(cls, lv)
           /\ clauses \subseteq cls /\ cls \subseteq clauses \cup {c} /\ (~Falsified(c) => c \in cls)
           /\ \A m : Sat(clauses, level0, m) /\ Meets(m, c) => Sat(cls, lv, m)
           /\ \A m : Sat(clauses, level0, m) /\ Meets(m, c) => ~Falsified(c)
<1>1. clauses \subseteq cls /\ cls \subseteq clauses \cup {c} /\ (~Falsified(c) => c \in cls)
  BY DEF ClausesWith
<1>2. \A l \in UnitsOf(c) : l \in c /\ -l \notin level0 /\ UnitsOf(c) = {l} /\ \A k \in c \ {l} : -k \in level0
  <2> DEFINE open == {l \in c : -l \notin level0}
  <2> SUFFICES ASSUME NEW l \in UnitsOf(c)
               PROVE  l \in c /\ -l \notin level0 /\ UnitsOf(c) = {l} /\ \A k \in c \ {l} : -k \in level0
    OBVIOUS
  <2>1. UnitsOf(c) = open /\ Cardinality(open) = 1
    BY DEF UnitsOf
  <2>2. IsFiniteSet(open)
    BY FS_Subset
  <2>3. PICK x : open = {x}
    <3> HIDE DEF open
    <3> QED
      BY <2>1, <2>2, FS_Singleton
  <2>4. open = {l}
    BY <2>1, <2>3
  <2> QED
    BY <2>1, <2>4
<1>3. IsFiniteSet(UnitsOf(c))
  <2>1. UnitsOf(c) \subseteq c
    BY <1>2
  <2> QED
    BY <2>1, FS_Subset
<1>4. IsFiniteSet(cls) /\ IsFiniteSet(lv)
  <2>1. IsFiniteSet(clauses \cup {c})
    BY FS_AddElement DEF Clausal
  <2> QED
    BY <1>1, <1>3, <2>1, FS_Subset, FS_Union DEF Clausal
<1>5. \A l \in lv : l \in AllLits /\ -l \notin lv /\ \E k \in UNION cls : Abs(k) = Abs(l)
  <2> SUFFICES ASSUME NEW l \in lv
               PROVE  l \in AllLits /\ -l \notin lv /\ \E k \in UNION cls : Abs(k) = Abs(l)
    OBVIOUS
  <2>1. CASE l \in level0
    <3>1. l \in AllLits /\ -l \notin level0 /\ \E k \in UNION clauses : Abs(k) = Abs(l)
      BY <2>1 DEF Clausal
    <3>2. -l \notin UnitsOf(c)
      BY <1>2, <2>1, <3>1, AllLitsFacts
    <3>3. PICK d \in clauses : \E k \in d : Abs(k) = Abs(l)
      BY <3>1
    <3> QED
      BY <1>1, <3>1, <3>2, <3>3
  <2>2. CASE l \in UnitsOf(c)
    <3>1. l \in c /\ l \in AllLits /\ -l \notin level0 /\ UnitsOf(c) = {l}
      BY <1>2, <2>2
    <3>2. c \in cls
      BY <1>1, <3>1 DEF Falsified
    <3>3. -l # l
      BY <3>1, AllLitsFacts
    <3> QED
      BY <3>1, <3>2, <3>3
  <2> QED
    BY <2>1, <2>2
<1>6. Clausal(cls, lv)
  BY <1>1, <1>4, <1>5 DEF Clausal
<1>7. ASSUME NEW m, Sat(clauses, level0, m), Meets(m, c)
      PROVE  Sat(cls, lv, m) /\ ~Falsified(c)
  <2>1. PICK k \in c : IsTrue(k, m)
    BY <1>7 DEF Meets
  <2>2. -k \notin level0
    <3>1. k \in AllLits
      OBVIOUS
    <3> QED
      BY <1>7, <2>1, <3>1, AllLitsFacts DEF Sat
  <2>3. \A l \in UnitsOf(c) : IsTrue(l, m)
    BY <1>2, <2>1, <2>2
  <2> QED
    BY <1>1, <1>7, <2>1, <2>2, <2>3 DEF Sat, Falsified
<1> QED
  BY <1>1, <1>6, <1>7

(***************************************************************************)
(* Sequences: sets listed, sequences of sequences flattened, and the fold    *)
(* that collects instances.                                                *)
(***************************************************************************)
LEMMA Listed ==
    ASSUME NEW S, IsFiniteSet(S)
    PROVE  SetToSeq(S) \in Seq(S) /\ Range(SetToSeq(S)) = S /\ IsInjective(SetToSeq(S))
<1> DEFINE n == Cardinality(S)
           f == SetToSeq(S)
<1>1. n \in Nat /\ ExistsBijection(1 .. n, S)
  BY FS_CardinalityType
<1>2. \E g \in [1 .. n -> S] : IsInjective(g)
  BY <1>1 DEF ExistsBijection, Bijection, Injection
<1>3. f = CHOOSE g \in [1 .. n -> S] : IsInjective(g)
  BY DEF SetToSeq
<1>4. f \in [1 .. n -> S] /\ IsInjective(f)
  <2> HIDE DEF f, n
  <2> QED
    BY <1>2, <1>3
<1>5. f \in Seq(S)
  <2> HIDE DEF f, n
  <2> QED
    BY <1>1, <1>4
<1>6. f \in Surjection(1 .. n, S)
  <2>1. f \in Injection(1 .. n, S)
    BY <1>4 DEF Injection
  <2>2. IsFiniteSet(1 .. n) /\ Cardinality(1 .. n) = n
    BY <1>1, FS_Interval
  <2> HIDE DEF f
  <2> QED
    BY <2>1, <2>2, FS_Injection
<1>7. Range(f) = S
  <2> HIDE DEF f, n
  <2> QED
    BY <1>4, <1>6 DEF Range, Surjection
<1> QED
  BY <1>4, <1>5, <1>7

\* The members of a sequence, and of those made from it.
LEMMA RangeIs ==
    ASSUME NEW S, NEW s \in Seq(S)
    PROVE  \A x : x \in Range(s) <=> \E i \in 1 .. Len(s) : s[i] = x
  BY LenProperties DEF Range

LEMMA RangeIn ==
    ASSUME NEW S, NEW s \in Seq(S)
    PROVE  /\ Range(s) \subseteq S /\ \A i \in 1 .. Len(s) : s[i] \in Range(s)
           /\ \A e \in S : Range(Append(s, e)) = Range(s) \cup {e}
<1>1. DOMAIN s = 1 .. Len(s) /\ Len(s) \in Nat /\ \A i \in 1 .. Len(s) : s[i] \in S
  BY LenProperties, ElementOfSeq
<1>2. ASSUME NEW e \in S
      PROVE  Range(Append(s, e)) = Range(s) \cup {e}
  <2>1. Append(s, e) = s \o <<e>>
    BY AppendIsConcat
  <2>2. <<e>> \in Seq(S) /\ Range(<<e>>) = {e}
    BY DEF Range
  <2>3. Range(s \o <<e>>) = Range(s) \cup Range(<<e>>)
    BY ONLY s \in Seq(S), <2>2, RangeConcatenation
  <2> QED
    BY <2>1, <2>2, <2>3
<1> QED
  BY <1>1, <1>2 DEF Range

\* A recursion along the numbers up to n has a solution.
IsChain(f, n, base, step) == f[0] = base /\ \A i \in 1 .. n : f[i] = step[i][f[i - 1]]

\* A value made in n steps from a first one exists.
LEMMA ChainExists ==
    ASSUME NEW n \in Nat, NEW V, NEW base \in V, NEW step \in [1 .. n -> [V -> V]]
    PROVE  \E f \in [0 .. n -> V] : IsChain(f, n, base, step)
<1> DEFINE UpTo(k) == \E f \in [0 .. n -> V] :
                         f[0] = base /\ \A i \in 1 .. n : i <= k => f[i] = step[i][f[i - 1]]
           Bad == {k \in Nat : ~UpTo(k)}
<1>1. UpTo(0)
  <2>1. [i \in 0 .. n |-> base] \in [0 .. n -> V] /\ [i \in 0 .. n |-> base][0] = base
    OBVIOUS
  <2>2. \A i \in 1 .. n : ~(i <= 0)
    OBVIOUS
  <2> QED
    BY <2>1, <2>2
<1>2. ASSUME NEW k \in Nat, UpTo(k)
      PROVE  UpTo(k + 1)
  <2>1. PICK f \in [0 .. n -> V] : f[0] = base /\ \A i \in 1 .. n : i <= k => f[i] = step[i][f[i - 1]]
    BY <1>2
  <2> DEFINE g == [i \in 0 .. n |-> IF i = k + 1 THEN step[i][f[i - 1]] ELSE f[i]]
  <2>2. g \in [0 .. n -> V] /\ g[0] = base
    BY <2>1
  <2>3. \A i \in 1 .. n : i <= k + 1 => g[i - 1] = f[i - 1]
    OBVIOUS
  <2>4. \A i \in 1 .. n : i <= k + 1 => g[i] = step[i][f[i - 1]]
    BY <2>1
  <2> HIDE DEF g
  <2> QED
    BY <2>2, <2>3, <2>4
<1>3. Bad = {}
  <2> SUFFICES ASSUME Bad # {} PROVE FALSE
    OBVIOUS
  <2> HIDE DEF UpTo
  <2>1. PICK k \in Bad : \A m \in Bad : k <= m
    BY LeastOf
  <2>2. k # 0
    BY <1>1, <2>1
  <2>3. k - 1 \in Nat /\ k - 1 \notin Bad
    BY <2>1, <2>2
  <2>4. UpTo((k - 1) + 1)
    BY <1>2, <2>3
  <2> QED
    BY <2>1, <2>3, <2>4
<1>4. PICK f \in [0 .. n -> V] : f[0] = base /\ \A i \in 1 .. n : i <= n => f[i] = step[i][f[i - 1]]
  BY <1>3
<1> QED
  BY <1>4 DEF IsChain

\* The members of a sequence of sequences flattened are those of its members.
LEMMA Flattened ==
    ASSUME NEW V, NEW ss \in Seq(Seq(V))
    PROVE  /\ FlattenSeq(ss) \in Seq(V)
           /\ \A x : x \in Range(FlattenSeq(ss)) <=> \E i \in 1 .. Len(ss) : x \in Range(ss[i])
<1> DEFINE n == Len(ss)
           Is(f) == f = [i \in 1 .. Len(ss) |-> IF i = 1 THEN ss[i] ELSE f[i - 1] \o ss[i]]
           flatten == CHOOSE f : Is(f)
<1>1. n \in Nat /\ \A i \in 1 .. n : ss[i] \in Seq(V)
  BY LenProperties, ElementOfSeq
<1>2. CASE n = 0
  <2>1. FlattenSeq(ss) = ss /\ ss = <<>>
    BY <1>2 DEF FlattenSeq
  <2> QED
    BY <1>2, <2>1 DEF Range
<1>3. CASE n # 0
  <2>1. FlattenSeq(ss) = flatten[n]
    BY <1>3 DEF FlattenSeq
  <2> DEFINE step == [i \in 1 .. n |-> [v \in Seq(V) |-> v \o ss[i]]]
  <2>2. step \in [1 .. n -> [Seq(V) -> Seq(V)]] /\ <<>> \in Seq(V)
    <3>1. \A i \in 1 .. n, v \in Seq(V) : v \o ss[i] \in Seq(V)
      BY <1>1, ConcatProperties
    <3>2. <<>> \in Seq(V)
      OBVIOUS
    <3> HIDE DEF n
    <3> QED
      BY <3>1, <3>2
  <2>3. PICK f \in [0 .. n -> Seq(V)] : f[0] = <<>> /\ \A i \in 1 .. n : f[i] = step[i][f[i - 1]]
    <3> HIDE DEF step, n
    <3>1. n \in Nat
      BY <1>1
    <3>2. \E f \in [0 .. n -> Seq(V)] : IsChain(f, n, <<>>, step)
      BY ONLY <3>1, <2>2, ChainExists
    <3> QED
      BY <3>2 DEF IsChain
  <2>4. \A i \in 1 .. n : f[i] = f[i - 1] \o ss[i]
    <3> SUFFICES ASSUME NEW i \in 1 .. n
                 PROVE  f[i] = f[i - 1] \o ss[i]
      OBVIOUS
    <3>1. i - 1 \in 0 .. n
      BY <1>1
    <3>2. f[i - 1] \in Seq(V)
      BY <2>3, <3>1
    <3> QED
      BY <2>3, <3>2
  <2> HIDE DEF step
  <2>5. f[1] = ss[1]
    <3>1. 1 \in 1 .. n /\ ss[1] \in Seq(V)
      BY <1>1, <1>3
    <3>2. \A i \in 1 .. n : i - 1 = 0 => f[i] = f[0] \o ss[i]
      BY <2>4
    <3>3. f[1] = <<>> \o ss[1]
      BY <2>3, <3>1, <3>2
    <3> QED
      BY <3>1, <3>3, ConcatEmptySeq
  <2> DEFINE g == [i \in 1 .. n |-> f[i]]
  <2>6. Is(g)
    <3>1. \A i \in 1 .. n : g[i] = IF i = 1 THEN ss[i] ELSE g[i - 1] \o ss[i]
      <4> SUFFICES ASSUME NEW i \in 1 .. n
                   PROVE  g[i] = IF i = 1 THEN ss[i] ELSE g[i - 1] \o ss[i]
        OBVIOUS
      <4>1. i # 1 => i - 1 \in 1 .. n
        BY <1>1
      <4> QED
        BY <2>4, <2>5, <4>1
    <3>2. g = [i \in 1 .. n |-> g[i]]
      OBVIOUS
    <3> HIDE DEF g
    <3> QED
      BY <3>1, <3>2, Zenon
  <2>7. Is(flatten)
    <3> HIDE DEF Is, g
    <3> QED
      BY <2>6, Zenon
  <2> HIDE DEF flatten
  <2>8. flatten = [i \in 1 .. n |-> IF i = 1 THEN ss[i] ELSE flatten[i - 1] \o ss[i]]
    BY <2>7, Zenon
  <2> HIDE DEF Is, g
  <2>9. \A i \in 1 .. n : flatten[i] = IF i = 1 THEN ss[i] ELSE flatten[i - 1] \o ss[i]
    BY <2>8, Zenon
  <2> DEFINE Fine(i) == /\ flatten[i] \in Seq(V)
                        /\ \A x : x \in Range(flatten[i]) <=> \E j \in 1 .. i : x \in Range(ss[j])
             Bad == {i \in 1 .. n : ~Fine(i)}
  <2>10. Bad = {}
    <3> SUFFICES ASSUME Bad # {} PROVE FALSE
      OBVIOUS
    <3>1. PICK k \in Bad : \A m \in Bad : k <= m
      <4>1. Bad \subseteq Nat
        BY <1>1
      <4> HIDE DEF Bad
      <4> QED
        BY <4>1, LeastOf
    <3>2. k \in 1 .. n /\ ~Fine(k)
      BY <3>1
    <3>3. CASE k = 1
      <4>1. flatten[1] = ss[1] /\ ss[1] \in Seq(V) /\ 1 .. 1 = {1}
        BY <1>1, <2>9, <3>2, <3>3
      <4> QED
        BY <3>2, <3>3, <4>1
    <3>4. CASE k # 1
      <4>1. k - 1 \in 1 .. n /\ k - 1 \notin Bad
        <5> HIDE DEF Bad, Fine
        <5> QED
          BY <1>1, <3>1, <3>2, <3>4
      <4>2. Fine(k - 1)
        BY <4>1
      <4>3. flatten[k] = flatten[k - 1] \o ss[k] /\ ss[k] \in Seq(V)
        BY <1>1, <2>9, <3>2, <3>4
      <4>4. flatten[k] \in Seq(V) /\ Range(flatten[k]) = Range(flatten[k - 1]) \cup Range(ss[k])
        BY <4>2, <4>3, ConcatProperties, RangeConcatenation
      <4>5. \A j : j \in 1 .. k <=> j \in 1 .. k - 1 \/ j = k
        BY <1>1, <3>2
      <4> HIDE DEF Bad
      <4> QED
        BY <3>2, <4>2, <4>4, <4>5
    <3> QED
      BY <3>3, <3>4
  <2>11. Fine(n)
    <3>1. n \in 1 .. n
      BY <1>1, <1>3
    <3> HIDE DEF Fine
    <3> QED
      BY <2>10, <3>1
  <2> QED
    BY <2>1, <2>11
<1> QED
  BY <1>2, <1>3

\* A fold that takes the positions 1 .. n from the last one is defined.
IsRun(f, n, base, step) ==
    \A s \in SUBSET (1 .. n) :
        f[s] = IF s = {} THEN base ELSE step[Max(s)][f[s \ {Max(s)}]]

\* The maximum of a set of positions.
LEMMA MaxOf ==
    ASSUME NEW n \in Nat, NEW s \in SUBSET (1 .. n), s # {}
    PROVE  Max(s) \in s /\ \A x \in s : Max(s) >= x
<1> DEFINE S == {n - x : x \in s}
<1>1. S \subseteq Nat /\ S # {}
  <2>1. \A x \in s : x \in 1 .. n /\ n - x \in Nat
    OBVIOUS
  <2> QED
    BY <2>1
<1>2. PICK k \in S : \A m \in S : k <= m
  <2> HIDE DEF S
  <2> QED
    BY <1>1, LeastOf
<1>3. PICK x \in s : k = n - x
  OBVIOUS
<1>4. \A y \in s : x >= y
  <2> SUFFICES ASSUME NEW y \in s
               PROVE  x >= y
    OBVIOUS
  <2>1. n - y \in S
    OBVIOUS
  <2>2. n - x <= n - y
    <3> HIDE DEF S
    <3> QED
      BY <1>2, <1>3, <2>1
  <2> QED
    BY <2>2
<1> QED
  BY <1>4 DEF Max

LEMMA RunExists ==
    ASSUME NEW n \in Nat, NEW V, NEW base \in V, NEW step \in [1 .. n -> [V -> V]]
    PROVE  \E f \in [SUBSET (1 .. n) -> V] : IsRun(f, n, base, step)
<1> DEFINE D == 1 .. n
           Body(f, s) == IF s = {} THEN base ELSE step[Max(s)][f[s \ {Max(s)}]]
           UpTo(k) == \E f \in [SUBSET D -> V] :
                         \A s \in SUBSET D : Cardinality(s) <= k => f[s] = Body(f, s)
           Bad == {k \in Nat : ~UpTo(k)}
<1>1. \A s \in SUBSET D : s # {} => Max(s) \in s
  BY MaxOf
<1>2. \A f \in [SUBSET D -> V], s \in SUBSET D : Body(f, s) \in V
  <2> SUFFICES ASSUME NEW f \in [SUBSET D -> V], NEW s \in SUBSET D, s # {}
               PROVE  step[Max(s)][f[s \ {Max(s)}]] \in V
    OBVIOUS
  <2>1. Max(s) \in D /\ s \ {Max(s)} \in SUBSET D
    BY <1>1
  <2>2. f[s \ {Max(s)}] \in V
    BY <2>1
  <2> HIDE DEF D
  <2>3. step \in [D -> [V -> V]]
    BY DEF D
  <2> QED
    BY <2>1, <2>2, <2>3
<1>3. IsFiniteSet(D) /\ \A s \in SUBSET D : IsFiniteSet(s) /\ Cardinality(s) \in Nat /\ Cardinality(s) <= Cardinality(D)
  <2>1. IsFiniteSet(D)
    BY FS_Interval
  <2> HIDE DEF D
  <2> QED
    BY <2>1, FS_Subset, FS_CardinalityType
<1> HIDE DEF D
<1>4. UpTo(0)
  <2>1. [s \in SUBSET D |-> base] \in [SUBSET D -> V]
    OBVIOUS
  <2>2. ASSUME NEW s \in SUBSET D, Cardinality(s) <= 0
        PROVE  s = {}
    BY <1>3, <2>2, FS_EmptySet
  <2> QED
    BY <2>1, <2>2
<1>5. ASSUME NEW k \in Nat, UpTo(k)
      PROVE  UpTo(k + 1)
  <2>1. PICK f \in [SUBSET D -> V] : \A s \in SUBSET D : Cardinality(s) <= k => f[s] = Body(f, s)
    BY <1>5
  <2> DEFINE g == [s \in SUBSET D |-> Body(f, s)]
  <2>2. g \in [SUBSET D -> V]
    BY <1>2
  <2>3. ASSUME NEW s \in SUBSET D, Cardinality(s) <= k + 1
        PROVE  g[s] = Body(g, s)
    <3>1. CASE s = {}
      BY <3>1
    <3>2. CASE s # {}
      <4> DEFINE r == s \ {Max(s)}
      <4>1. Max(s) \in s /\ r \in SUBSET D
        BY <1>1, <3>2
      <4>2. Cardinality(r) = Cardinality(s) - 1
        BY <1>3, <4>1, FS_RemoveElement
      <4>3. Cardinality(r) <= k
        BY <1>3, <2>3, <4>2
      <4>4. f[r] = Body(f, r)
        BY <2>1, <4>1, <4>3
      <4>5. g[r] = f[r]
        BY <4>1, <4>4
      <4> QED
        BY <3>2, <4>5
    <3> QED
      BY <3>1, <3>2
  <2> HIDE DEF g, Body
  <2> QED
    BY <2>2, <2>3
<1>6. Bad = {}
  <2> SUFFICES ASSUME Bad # {} PROVE FALSE
    OBVIOUS
  <2> HIDE DEF UpTo
  <2>1. PICK k \in Bad : \A m \in Bad : k <= m
    BY LeastOf
  <2>2. k # 0
    BY <1>4, <2>1
  <2>3. k - 1 \in Nat /\ k - 1 \notin Bad
    BY <2>1, <2>2
  <2>4. UpTo((k - 1) + 1)
    BY <1>5, <2>3
  <2> QED
    BY <2>1, <2>3, <2>4
<1>7. UpTo(Cardinality(D))
  <2>1. Cardinality(D) \in Nat
    BY <1>3, FS_CardinalityType
  <2> HIDE DEF UpTo
  <2> QED
    BY <1>6, <2>1
<1>8. PICK f \in [SUBSET D -> V] : \A s \in SUBSET D : Cardinality(s) <= Cardinality(D) => f[s] = Body(f, s)
  BY <1>7
<1>9. \A s \in SUBSET D : f[s] = Body(f, s)
  BY <1>3, <1>8
<1> QED
  BY <1>9 DEF D, IsRun

\* The instances collected, candidate by candidate.
Collected(found, w) == IF Yields(w) /\ ~Contains(found, Binding(w)) THEN Append(found, Binding(w)) ELSE found

\* The fold of Found takes the candidates considered one after the other.
LEMMA FoundChain ==
    ASSUME NEW W, NEW work, NEW t \in Seq(W), t = Considered(work)
    PROVE  \E run : /\ run[0] = <<>> /\ run[Len(t)] = Found(work)
                    /\ \A i \in 1 .. Len(t) : run[i] = Collected(run[i - 1], t[i])
<1> DEFINE n == Len(t)
           B == {Binding(w) : w \in W}
           V == Seq(B)
           step == [i \in 1 .. n |-> [v \in V |-> Collected(v, t[i])]]
           Body(f, s) == IF s = {} THEN <<>> ELSE Collected(f[s \ {Max(s)}], t[Max(s)])
           it == CHOOSE f : f = [s \in SUBSET DOMAIN t |-> Body(f, s)]
<1>1. n \in Nat /\ DOMAIN t = 1 .. n /\ \A i \in 1 .. n : t[i] \in W
  BY LenProperties, ElementOfSeq
<1>2. \A i \in 1 .. n : \A v \in V : Collected(v, t[i]) \in V
  <2> SUFFICES ASSUME NEW i \in 1 .. n, NEW v \in V
               PROVE  Collected(v, t[i]) \in V
    OBVIOUS
  <2>1. Binding(t[i]) \in B
    BY <1>1
  <2> HIDE DEF B
  <2>2. Append(v, Binding(t[i])) \in Seq(B)
    BY <2>1, AppendProperties
  <2> QED
    BY <2>2 DEF Collected
<1> HIDE DEF B
<1>3. step \in [1 .. n -> [V -> V]] /\ <<>> \in V
  BY <1>2
<1>4. \A i \in 1 .. n : \A v \in V : step[i][v] = Collected(v, t[i])
  OBVIOUS
<1> HIDE DEF step, V
<1>5. PICK f \in [SUBSET (1 .. n) -> V] : IsRun(f, n, <<>>, step)
  <2> HIDE DEF n
  <2>1. n \in Nat
    BY <1>1
  <2> QED
    BY ONLY <1>3, <2>1, RunExists
<1>6. f = [s \in SUBSET DOMAIN t |-> Body(f, s)]
  <2>1. ASSUME NEW s \in SUBSET (1 .. n)
        PROVE  f[s] = Body(f, s)
    <3>1. CASE s = {}
      BY <1>5, <3>1 DEF IsRun
    <3>2. CASE s # {}
      <4>1. Max(s) \in 1 .. n
        BY <1>1, <3>2, MaxOf
      <4>2. f[s \ {Max(s)}] \in V
        BY <1>5
      <4> QED
        BY <1>4, <1>5, <3>2, <4>1, <4>2 DEF IsRun
    <3> QED
      BY <3>1, <3>2
  <2> HIDE DEF Body
  <2> QED
    BY <1>1, <1>5, <2>1
<1>7. it = [s \in SUBSET DOMAIN t |-> Body(it, s)]
  <2> HIDE DEF Body
  <2> QED
    BY <1>6
<1>8. Found(work) = it[DOMAIN t]
  BY DEF Found, FoldLeft, MapThenFoldSet, Collected
<1> HIDE DEF it
<1>9. \A s \in SUBSET (1 .. n) : it[s] = Body(it, s)
  <2> HIDE DEF Body
  <2> QED
    BY <1>1, <1>7
<1> DEFINE run == [i \in 0 .. n |-> it[1 .. i]]
<1>10. run[0] = <<>>
  <2>1. 1 .. 0 = {} /\ {} \in SUBSET (1 .. n) /\ 0 \in 0 .. n
    BY <1>1
  <2>2. it[{}] = Body(it, {})
    BY <1>9
  <2> QED
    BY <2>1, <2>2
<1>11. ASSUME NEW i \in 1 .. n
       PROVE  run[i] = Collected(run[i - 1], t[i])
  <2>1. 1 .. i # {} /\ 1 .. i \in SUBSET (1 .. n) /\ i - 1 \in 0 .. n /\ i \in 0 .. n
    <3>1. i \in Nat /\ i >= 1 /\ i <= n
      BY <1>1
    <3> HIDE DEF n
    <3>2. \A x \in 1 .. i : x \in 1 .. n
      BY <1>1, <3>1
    <3>3. 1 \in 1 .. i /\ i - 1 \in 0 .. n /\ i \in 0 .. n
      BY <1>1, <3>1
    <3> QED
      BY <3>2, <3>3
  <2>2. Max(1 .. i) = i
    <3>1. Max(1 .. i) \in 1 .. i /\ \A x \in 1 .. i : Max(1 .. i) >= x
      BY <1>1, <2>1, MaxOf
    <3> QED
      BY <1>1, <3>1
  <2>3. (1 .. i) \ {i} = 1 .. i - 1
    BY <1>1
  <2>4. it[1 .. i] = Collected(it[1 .. i - 1], t[i])
    BY <1>9, <2>1, <2>2, <2>3
  <2> QED
    BY <2>1, <2>4
<1>12. run[n] = it[DOMAIN t]
  BY <1>1
<1> HIDE DEF run
<1> QED
  BY <1>8, <1>10, <1>11, <1>12

\* Each instance found is one that a candidate yields, and where none is found none yields any.
LEMMA FoundFacts ==
    ASSUME NEW W, NEW work, NEW t \in Seq(W), t = Considered(work)
    PROVE  /\ Found(work) \in Seq({Binding(w) : w \in W})
           /\ \A b \in Range(Found(work)) : \E w \in Range(t) : Yields(w) /\ b = Binding(w)
           /\ Found(work) = <<>> => \A w \in Range(t) : ~Yields(w)
<1> DEFINE n == Len(t)
           B == {Binding(w) : w \in W}
<1>1. PICK run : /\ run[0] = <<>> /\ run[n] = Found(work)
                 /\ \A i \in 1 .. n : run[i] = Collected(run[i - 1], t[i])
  BY FoundChain
<1>2. n \in Nat /\ DOMAIN t = 1 .. n /\ \A i \in 1 .. n : t[i] \in W /\ t[i] \in Range(t) /\ Binding(t[i]) \in B
  BY LenProperties, ElementOfSeq DEF Range
<1> DEFINE Fine(i) == /\ run[i] \in Seq(B)
                      /\ \A b \in Range(run[i]) : \E w \in Range(t) : Yields(w) /\ b = Binding(w)
                      /\ run[i] = <<>> => \A j \in 1 .. i : ~Yields(t[j])
           Bad == {i \in 0 .. n : ~Fine(i)}
<1> HIDE DEF B, n
<1>3. Fine(0)
  <2>1. \A j \in 1 .. 0 : FALSE
    OBVIOUS
  <2>2. <<>> \in Seq(B) /\ Range(<<>>) = {}
    BY DEF Range
  <2> QED
    BY <1>1, <2>1, <2>2
<1>4. ASSUME NEW i \in 1 .. n, Fine(i - 1)
      PROVE  Fine(i)
  <2> DEFINE v == run[i - 1]
             w == t[i]
             a == Append(v, Binding(w))
  <2>1. v \in Seq(B) /\ Binding(w) \in B /\ w \in Range(t) /\ run[i] = Collected(v, w)
    BY <1>1, <1>2, <1>4
  <2>2. a \in Seq(B) /\ a # <<>> /\ Range(a) = Range(v) \cup {Binding(w)}
    <3> HIDE DEF v, w
    <3> QED
      BY <2>1, AppendProperties, RangeIn
  <2>3. \A b \in Range(v) : \E x \in Range(t) : Yields(x) /\ b = Binding(x)
    BY <1>4
  <2>4. v = <<>> => \A j \in 1 .. i - 1 : ~Yields(t[j])
    BY <1>4
  <2>5. \A j \in 1 .. i : j \in 1 .. i - 1 \/ j = i
    BY <1>2
  <2>6. CASE Yields(w) /\ ~Contains(v, Binding(w))
    <3>1. run[i] = a
      BY <2>1, <2>6 DEF Collected
    <3> HIDE DEF v, a
    <3> QED
      BY <2>1, <2>2, <2>3, <2>6, <3>1
  <2>7. CASE ~(Yields(w) /\ ~Contains(v, Binding(w)))
    <3>1. run[i] = v
      BY <2>1, <2>7 DEF Collected
    <3>2. v = <<>> => ~Yields(w)
      <4>1. ~Contains(<<>>, Binding(w))
        BY DEF Contains
      <4> QED
        BY <2>7, <4>1
    <3> HIDE DEF v, a
    <3> QED
      BY <2>1, <2>3, <2>4, <2>5, <3>1, <3>2
  <2> QED
    BY <2>6, <2>7
<1>5. Bad = {}
  <2> SUFFICES ASSUME Bad # {} PROVE FALSE
    OBVIOUS
  <2>1. PICK k \in Bad : \A m \in Bad : k <= m
    <3>1. Bad \subseteq Nat
      BY <1>2
    <3> HIDE DEF Bad
    <3> QED
      BY <3>1, LeastOf
  <2> HIDE DEF Fine
  <2>2. k \in 0 .. n /\ ~Fine(k) /\ k # 0
    BY <1>3, <2>1
  <2>3. k \in 1 .. n /\ k - 1 \in 0 .. n /\ k - 1 \notin Bad
    BY <1>2, <2>1, <2>2
  <2> QED
    BY <1>4, <2>2, <2>3
<1>6. Fine(n)
  <2> HIDE DEF Fine
  <2> QED
    BY <1>2, <1>5
<1>7. \A w \in Range(t) : \E i \in 1 .. n : w = t[i]
  BY <1>2 DEF Range
<1> QED
  BY <1>1, <1>6, <1>7 DEF B

(***************************************************************************)
(* The books of the engine: what each variable is, and the budgets of the   *)
(* check that is running.                                                  *)
(***************************************************************************)
Apps == UNION {AppsOf[a] : a \in Atoms}
Bindings == Rules \X Terms \X Nat
Asserted == [formula : Formulas, scope : {NoScope} \cup Range(ScopeAtoms)]
Calls == [phase : {"solve", "match", "assert"}, assumed : Assumable,
          maxRounds : Nat \cup {Unlimited}, maxMatches : Nat \cup {Unlimited}, rounds : Nat,
          left : Nat \cup {Unlimited}, used : Nat, truncated : BOOLEAN, queue : Seq(Bindings)]

\* What was spent and what is left are the budget, truncation means that nothing is
\* left, and a round is begun only below the cap.
Budgeted(c) ==
    /\ c \in Calls
    /\ c.maxMatches = Unlimited => c.left = Unlimited /\ ~c.truncated
    /\ c.maxMatches # Unlimited => /\ c.left # Unlimited /\ c.left + c.used = c.maxMatches
                                   /\ c.truncated => c.left = 0
    /\ c.maxRounds # Unlimited => c.rounds <= c.maxRounds
    /\ c.phase = "assert" => c.queue # <<>> /\ (c.maxRounds # Unlimited => c.rounds < c.maxRounds)

Answers(a) ==
    /\ a.verdict \in {"SAT", "UNSAT", "UNKNOWN"}
    /\ a.assumed \in Assumable /\ a.core \subseteq a.assumed
    /\ a.maxRounds # Unlimited => a.rounds <= a.maxRounds
    /\ a.maxMatches # Unlimited => a.used <= a.maxMatches
    /\ a.verdict = "UNKNOWN" => a.rounds = a.maxRounds \/ a.used = a.maxMatches

Deep(d) == d = [x \in DOMAIN d |-> d[x]] /\ \A x \in DOMAIN d : d[x] \in Nat

Matching ==
    /\ apps \in Seq(Apps) /\ IsInjective(apps) /\ Deep(depth)
    /\ rules \in Seq(Rules) /\ instantiated \subseteq Range(rules) \X Terms
Solving == Clausal(clauses, level0) /\ pending \subseteq level0 /\ refuted \in BOOLEAN
Scoped ==
    /\ scopes \in Seq(Range(ScopeAtoms)) /\ made \in Nat /\ isUnsat \in BOOLEAN
    /\ assertions \in Seq(Asserted)
Running ==
    /\ call = NoCall \/ (Budgeted(call) /\ \A b \in Range(call.queue) : <<b[1], b[2]>> \in instantiated)
    /\ answer = NoAnswer \/ (Answers(answer) /\ call = NoCall)
Inv == Matching /\ Solving /\ Scoped /\ Running

LEMMA ImageFinite ==
    ASSUME NEW S, IsFiniteSet(S), NEW f
    PROVE  IsFiniteSet({f[x] : x \in S})
<1> DEFINE g == [x \in S |-> f[x]]
           T == {f[x] : x \in S}
<1>1. g \in Surjection(S, T)
  BY DEF Surjection
<1> HIDE DEF g, T
<1>2. IsFiniteSet(T)
  BY <1>1, FS_Surjection
<1> QED
  BY <1>2 DEF T

LEMMA AtomsFinite ==
    ASSUME NEW lits, IsFiniteSet(lits)
    PROVE  AtomsOf(lits) \in SUBSET Atoms /\ IsFiniteSet(AtomsOf(lits))
<1> DEFINE abs == [l \in lits |-> Abs(l)]
           S == {abs[l] : l \in lits}
<1>1. IsFiniteSet(S)
  <2> HIDE DEF abs
  <2> QED
    BY ImageFinite
<1>2. AtomsOf(lits) \in SUBSET S
  BY DEF AtomsOf
<1> HIDE DEF S
<1> QED
  BY <1>1, <1>2, FS_Subset DEF AtomsOf

\* Registration adds what is new, once.
LEMMA RegisterFacts ==
    ASSUME apps \in Seq(Apps), IsInjective(apps), Deep(depth),
           NEW atoms \in SUBSET Atoms, IsFiniteSet(atoms), NEW d \in Nat, Register(atoms, d)
    PROVE  apps' \in Seq(Apps) /\ IsInjective(apps)' /\ Range(apps) \subseteq Range(apps') /\ Deep(depth')
<1> DEFINE N == NewApps(atoms)
           s == SetToSeq(N)
<1>1. IsFiniteSet(UNION {AppsOf[a] : a \in atoms})
  <2>1. IsFiniteSet({AppsOf[a] : a \in atoms})
    BY ImageFinite
  <2>2. \A T \in {AppsOf[a] : a \in atoms} : IsFiniteSet(T)
    BY VocabularyAssumption
  <2> QED
    BY <2>1, <2>2, FS_UNION
<1>2. IsFiniteSet(N) /\ N \subseteq Apps /\ N \cap Range(apps) = {}
  <2>1. NewApps(atoms) \in SUBSET (UNION {AppsOf[a] : a \in atoms})
    BY DEF NewApps
  <2>2. IsFiniteSet(NewApps(atoms))
    BY <1>1, <2>1, FS_Subset
  <2>3. \A x \in UNION {AppsOf[a] : a \in atoms} : x \in Apps
    BY DEF Apps
  <2>4. NewApps(atoms) \subseteq Apps /\ NewApps(atoms) \cap Range(apps) = {}
    BY <2>3 DEF NewApps
  <2> QED
    BY <2>2, <2>4
<1> HIDE DEF N
<1>3. s \in Seq(N) /\ Range(s) = N /\ IsInjective(s)
  BY <1>2, Listed
<1> HIDE DEF s
<1>4. s \in Seq(Apps)
  BY <1>2, <1>3, SeqMonotonic
<1>5. apps' = apps \o s
  BY DEF Register, N, s
<1>6. /\ apps' \in Seq(Apps) /\ Len(apps') = Len(apps) + Len(s)
      /\ \A i \in 1 .. Len(apps) + Len(s) : apps'[i] = IF i <= Len(apps) THEN apps[i] ELSE s[i - Len(apps)]
  BY <1>4, <1>5, ConcatProperties
<1>7. /\ Len(apps) \in Nat /\ Len(s) \in Nat
      /\ DOMAIN apps = 1 .. Len(apps) /\ DOMAIN s = 1 .. Len(s) /\ DOMAIN apps' = 1 .. Len(apps')
  BY <1>4, <1>6, LenProperties
<1>8. \A i \in 1 .. Len(apps), j \in 1 .. Len(s) : apps[i] # s[j]
  <2>1. \A i \in 1 .. Len(apps) : apps[i] \in Range(apps)
    BY <1>7 DEF Range
  <2>2. \A j \in 1 .. Len(s) : s[j] \in N
    BY <1>3, <1>7 DEF Range
  <2> QED
    BY <1>2, <2>1, <2>2
<1>9. \A i, j \in DOMAIN apps' : apps'[i] = apps'[j] => i = j
  <2> SUFFICES ASSUME NEW i \in 1 .. Len(apps) + Len(s), NEW j \in 1 .. Len(apps) + Len(s), apps'[i] = apps'[j]
               PROVE  i = j
    BY <1>6, <1>7
  <2>1. CASE i <= Len(apps) /\ j <= Len(apps)
    <3>1. apps'[i] = apps[i] /\ apps'[j] = apps[j] /\ i \in DOMAIN apps /\ j \in DOMAIN apps
      BY <1>6, <1>7, <2>1
    <3> QED
      BY <3>1 DEF IsInjective
  <2>2. CASE i > Len(apps) /\ j > Len(apps)
    <3>1. /\ apps'[i] = s[i - Len(apps)] /\ apps'[j] = s[j - Len(apps)]
          /\ i - Len(apps) \in DOMAIN s /\ j - Len(apps) \in DOMAIN s
      BY <1>6, <1>7, <2>2
    <3>2. i - Len(apps) = j - Len(apps)
      BY <1>3, <3>1 DEF IsInjective
    <3> QED
      BY <1>7, <3>2
  <2>3. CASE i <= Len(apps) /\ j > Len(apps)
    <3>1. apps'[i] = apps[i] /\ apps'[j] = s[j - Len(apps)] /\ i \in 1 .. Len(apps) /\ j - Len(apps) \in 1 .. Len(s)
      BY <1>6, <1>7, <2>3
    <3> QED
      BY <1>8, <3>1
  <2>4. CASE i > Len(apps) /\ j <= Len(apps)
    <3>1. apps'[j] = apps[j] /\ apps'[i] = s[i - Len(apps)] /\ j \in 1 .. Len(apps) /\ i - Len(apps) \in 1 .. Len(s)
      BY <1>6, <1>7, <2>4
    <3> QED
      BY <1>8, <3>1
  <2> QED
    BY <1>7, <2>1, <2>2, <2>3, <2>4
<1>10. Range(apps') = Range(apps) \cup Range(s)
  BY <1>4, <1>5, RangeConcatenation
<1>11. Deep(depth')
  <2> DEFINE D == DOMAIN depth \cup (UNION {Sides[a] : a \in atoms})
  <2>1. depth' = [x \in D |-> IF x \in DOMAIN depth THEN depth[x] ELSE d]
    BY DEF Register
  <2> HIDE DEF D
  <2> QED
    BY <2>1 DEF Deep
<1> QED
  BY <1>6, <1>9, <1>10, <1>11 DEF IsInjective

\* The work of a round: each rule with each of its patterns and each application.
LEMMA WorkFacts ==
    ASSUME rules \in Seq(Rules), apps \in Seq(Apps)
    PROVE  /\ Work \in Seq(Rules \X Nat \X Apps)
           /\ \A w : w \in Range(Work) <=>
                \E r \in Range(rules) : \E i \in DOMAIN Patterns[r], a \in Range(apps) : w = <<r, i, a>>
<1> DEFINE W == Rules \X Nat \X Apps
           each(r, i) == [j \in DOMAIN apps |-> <<r, i, apps[j]>>]
           lists(r) == [i \in DOMAIN Patterns[r] |-> each(r, i)]
           work == [k \in DOMAIN rules |-> FlattenSeq(lists(rules[k]))]
<1>1. DOMAIN apps = 1 .. Len(apps) /\ Len(apps) \in Nat /\ \A j \in 1 .. Len(apps) : apps[j] \in Apps
  BY LenProperties, ElementOfSeq
<1>2. DOMAIN rules = 1 .. Len(rules) /\ Len(rules) \in Nat /\ \A k \in 1 .. Len(rules) : rules[k] \in Rules
  BY LenProperties, ElementOfSeq
<1>3. \A r \in Rules : Len(Patterns[r]) \in Nat /\ DOMAIN Patterns[r] = 1 .. Len(Patterns[r])
  BY VocabularyAssumption, LenProperties
<1>4. ASSUME NEW r \in Rules, NEW i \in DOMAIN Patterns[r]
      PROVE  /\ each(r, i) \in Seq(W)
             /\ \A w : w \in Range(each(r, i)) <=> \E a \in Range(apps) : w = <<r, i, a>>
  <2>1. i \in Nat
    BY <1>3
  <2>2. \A j \in 1 .. Len(apps) : <<r, i, apps[j]>> \in W
    BY <1>1, <2>1
  <2>3. each(r, i) \in [1 .. Len(apps) -> W]
    <3> HIDE DEF W
    <3> QED
      BY <1>1, <2>2
  <2>4. each(r, i) \in Seq(W)
    <3> HIDE DEF W, each
    <3> QED
      BY <1>1, <2>3
  <2>5. \A w : w \in Range(each(r, i)) <=> \E j \in DOMAIN apps : w = <<r, i, apps[j]>>
    BY DEF Range
  <2> HIDE DEF W, each
  <2> QED
    BY <2>4, <2>5 DEF Range
<1> HIDE DEF W, each
<1>5. ASSUME NEW r \in Rules
      PROVE  /\ FlattenSeq(lists(r)) \in Seq(W)
             /\ \A w : w \in Range(FlattenSeq(lists(r))) <=>
                  \E i \in DOMAIN Patterns[r], a \in Range(apps) : w = <<r, i, a>>
  <2>1. lists(r) \in [1 .. Len(Patterns[r]) -> Seq(W)] /\ Len(Patterns[r]) \in Nat
    BY <1>3, <1>4
  <2>2. lists(r) \in Seq(Seq(W)) /\ Len(lists(r)) = Len(Patterns[r])
    <3> HIDE DEF lists
    <3> QED
      BY <2>1
  <2>3. \A i \in 1 .. Len(Patterns[r]) : lists(r)[i] = each(r, i)
    BY <1>3
  <2> HIDE DEF lists
  <2>4. /\ FlattenSeq(lists(r)) \in Seq(W)
        /\ \A w : w \in Range(FlattenSeq(lists(r))) <=> \E i \in 1 .. Len(lists(r)) : w \in Range(lists(r)[i])
    BY <2>2, Flattened
  <2>5. \A i \in DOMAIN Patterns[r] : \A w : w \in Range(lists(r)[i]) <=> \E a \in Range(apps) : w = <<r, i, a>>
    BY <1>3, <1>4, <2>3
  <2>6. 1 .. Len(lists(r)) = DOMAIN Patterns[r]
    BY <1>3, <2>2
  <2> QED
    BY <2>4, <2>5, <2>6, Zenon
<1> HIDE DEF lists
<1>6. work \in [1 .. Len(rules) -> Seq(W)]
  BY <1>2, <1>5
<1>7. \A k \in 1 .. Len(rules) : work[k] = FlattenSeq(lists(rules[k]))
  BY <1>2
<1>8. Work = FlattenSeq(work)
  BY DEF Work, lists, each
<1> HIDE DEF work
<1>9. work \in Seq(Seq(W)) /\ Len(work) = Len(rules)
  BY <1>2, <1>6
<1>10. /\ FlattenSeq(work) \in Seq(W)
       /\ \A w : w \in Range(FlattenSeq(work)) <=> \E k \in 1 .. Len(work) : w \in Range(work[k])
  BY <1>9, Flattened
<1>11. \A w : w \in Range(Work) <=>
          \E k \in 1 .. Len(rules) : \E i \in DOMAIN Patterns[rules[k]], a \in Range(apps) : w = <<rules[k], i, a>>
  <2>1. \A k \in 1 .. Len(rules) : \A w : w \in Range(work[k]) <=>
           \E i \in DOMAIN Patterns[rules[k]], a \in Range(apps) : w = <<rules[k], i, a>>
    BY <1>2, <1>5, <1>7
  <2>2. \A w : w \in Range(Work) <=> \E k \in 1 .. Len(rules) : w \in Range(work[k])
    BY <1>8, <1>9, <1>10
  <2> SUFFICES ASSUME NEW w
               PROVE  w \in Range(Work) <=>
                        \E k \in 1 .. Len(rules) : \E i \in DOMAIN Patterns[rules[k]], a \in Range(apps) : w = <<rules[k], i, a>>
    OBVIOUS
  <2> DEFINE Of(k) == \E i \in DOMAIN Patterns[rules[k]], a \in Range(apps) : w = <<rules[k], i, a>>
  <2>3. \A k \in 1 .. Len(rules) : w \in Range(work[k]) <=> Of(k)
    BY <2>1
  <2> HIDE DEF Of
  <2>4. w \in Range(Work) <=> \E k \in 1 .. Len(rules) : Of(k)
    BY ONLY <2>2, <2>3
  <2> QED
    BY ONLY <2>4 DEF Of
<1>12. \A r : r \in Range(rules) <=> \E k \in 1 .. Len(rules) : r = rules[k]
  BY <1>2 DEF Range
<1> QED
  BY <1>8, <1>10, <1>11, <1>12 DEF W

\* What the work budget leaves of the candidates: all of them, or as many as are left.
LEMMA ConsideredFacts ==
    ASSUME NEW W, NEW work \in Seq(W), call.left \in Nat \cup {Unlimited}
    PROVE  /\ Considered(work) \in Seq(W) /\ Range(Considered(work)) \subseteq Range(work)
           /\ Len(Considered(work)) \in 0 .. Len(work)
           /\ call.left = Unlimited => Len(Considered(work)) = Len(work)
           /\ call.left # Unlimited =>
                Len(Considered(work)) <= call.left /\ (Len(Considered(work)) < Len(work) => Len(Considered(work)) = call.left)
           /\ Len(Considered(work)) = Len(work) => Considered(work) = work
<1> DEFINE n == IF call.left = Unlimited \/ call.left > Len(work) THEN Len(work) ELSE call.left
<1>1. Len(work) \in Nat /\ DOMAIN work = 1 .. Len(work) /\ \A i \in 1 .. Len(work) : work[i] \in W
  BY LenProperties, ElementOfSeq
<1>2. n \in 0 .. Len(work)
  BY <1>1 DEF Unlimited
<1>3. Considered(work) = SubSeq(work, 1, n)
  BY DEF Considered
<1>4. /\ call.left = Unlimited => n = Len(work)
      /\ call.left # Unlimited => n <= call.left /\ (n < Len(work) => n = call.left)
  BY <1>1 DEF Unlimited
<1> HIDE DEF n
<1>5. /\ SubSeq(work, 1, n) \in Seq(W) /\ Len(SubSeq(work, 1, n)) = n
      /\ \A i \in 1 .. n : SubSeq(work, 1, n)[i] = work[i]
  <2>1. \A i \in 1 .. n : work[i] \in W /\ 1 + i - 1 = i
    BY <1>1, <1>2
  <2>2. n \in Int /\ 1 \in Int /\ n - 1 + 1 = n /\ (IF 1 <= n THEN n - 1 + 1 ELSE 0) = n
    BY <1>1, <1>2
  <2> QED
    BY <2>1, <2>2, SubSeqProperties
<1>6. Range(SubSeq(work, 1, n)) \subseteq Range(work)
  <2>1. DOMAIN SubSeq(work, 1, n) = 1 .. n
    BY <1>5, LenProperties
  <2> QED
    BY <1>1, <1>2, <1>5, <2>1 DEF Range
<1>7. n = Len(work) => SubSeq(work, 1, n) = work
  BY SubSeqFull
<1> QED
  BY <1>2, <1>3, <1>4, <1>5, <1>6, <1>7


(***************************************************************************)
(* The steps keep the books.                                               *)
(***************************************************************************)
\* The clause of a formula added in a scope.
Plain(f) == f.lits \cup {RuleAtom[r] : r \in f.rules}
Under(f, s) == IF s = NoScope THEN Plain(f) ELSE Plain(f) \cup {-s}

\* A formula is guarded by an open scope, or there is none.
LEMMA ScopeFacts ==
    ASSUME scopes \in Seq(Range(ScopeAtoms))
    PROVE  /\ CurrentScope \in {NoScope} \cup Range(ScopeAtoms)
           /\ scopes = <<>> => CurrentScope = NoScope
           /\ scopes # <<>> => CurrentScope \in Range(ScopeAtoms) /\ CurrentScope \in Range(scopes)
           /\ Range(ScopeAtoms) \subseteq Nat \ {0}
<1>1. Range(ScopeAtoms) \subseteq Nat \ {0}
  BY EngineAssumption, RangeOfSeq
<1>2. ASSUME scopes # <<>>
      PROVE  CurrentScope \in Range(ScopeAtoms) /\ CurrentScope \in Range(scopes)
  <2>1. Len(scopes) \in Nat \ {0} /\ DOMAIN scopes = 1 .. Len(scopes)
    BY <1>2, EmptySeq, LenProperties
  <2>2. scopes[Len(scopes)] \in Range(ScopeAtoms) /\ scopes[Len(scopes)] \in Range(scopes)
    BY <2>1, ElementOfSeq DEF Range
  <2> QED
    BY <1>2, <2>2 DEF CurrentScope, Last
<1> QED
  BY <1>1, <1>2 DEF CurrentScope

\* The clause of a formula is over the solver's variables.
LEMMA FormulaFacts ==
    ASSUME NEW f \in Formulas, NEW s \in {NoScope} \cup Range(ScopeAtoms)
    PROVE  Under(f, s) \in SUBSET AllLits /\ IsFiniteSet(Under(f, s))
<1>1. /\ f.lits \subseteq LitsOf(Atoms) /\ IsFiniteSet(f.lits)
      /\ f.rules \subseteq Rules /\ IsFiniteSet(f.rules)
  BY VocabularyAssumption
<1>2. IsFiniteSet({RuleAtom[r] : r \in f.rules})
  BY <1>1, ImageFinite
<1>3. {RuleAtom[r] : r \in f.rules} \subseteq Range(RuleAtom)
  BY <1>1, EngineAssumption DEF Range
<1>4. IsFiniteSet(Plain(f))
  BY <1>1, <1>2, FS_Union DEF Plain
<1>5. Plain(f) \subseteq AllLits
  BY <1>1, <1>3 DEF Plain, AllLits, AllVars, LitsOf
<1>6. s # NoScope => -s \in AllLits
  BY DEF AllLits, AllVars, LitsOf
<1>7. IsFiniteSet(Plain(f) \cup {-s})
  BY <1>4, FS_AddElement
<1> QED
  BY <1>4, <1>5, <1>6, <1>7 DEF Under

LEMMA GuardedIs ==
    ASSUME scopes \in Seq(Range(ScopeAtoms)), NEW f
    PROVE  Guarded(f.lits \cup {RuleAtom[r] : r \in f.rules}) = Under(f, CurrentScope)
<1>1. scopes # <<>> => CurrentScope # NoScope
  BY ScopeFacts DEF NoScope
<1> QED
  BY <1>1, ScopeFacts DEF Guarded, Under, Plain

LEMMA AddClauseKeeps ==
    ASSUME Solving, NEW c \in SUBSET AllLits, IsFiniteSet(c), AddClause(c)
    PROVE  Solving'
<1>1. Clausal(clauses', level0')
  BY AddFacts DEF Solving, AddClause
<1>2. pending' \subseteq level0' /\ refuted' \in BOOLEAN
  BY DEF Solving, AddClause
<1> QED
  BY <1>1, <1>2 DEF Solving

\* The instances wanted are over the atoms.
LEMMA InstanceFacts ==
    ASSUME NEW r \in Rules, NEW t \in Terms
    PROVE  Instance[r][t] \in SUBSET AllLits /\ IsFiniteSet(Instance[r][t])
BY VocabularyAssumption DEF AllLits, AllVars, LitsOf

\* The rules of a formula that the matcher does not have yet are added.
LEMMA RulesAdded ==
    ASSUME rules \in Seq(Rules), NEW f \in Formulas, rules' = rules \o SetToSeq(f.rules \ Range(rules))
    PROVE  rules' \in Seq(Rules) /\ Range(rules') = Range(rules) \cup f.rules
<1> DEFINE N == f.rules \ Range(rules)
<1>1. IsFiniteSet(N) /\ N \subseteq Rules
  <2>1. N \in SUBSET f.rules
    OBVIOUS
  <2> QED
    BY <2>1, FS_Subset, VocabularyAssumption
<1>2. rules' = rules \o SetToSeq(N) /\ Range(rules) \cup N = Range(rules) \cup f.rules
  OBVIOUS
<1> HIDE DEF N
<1>3. SetToSeq(N) \in Seq(Rules) /\ Range(SetToSeq(N)) = N
  BY <1>1, Listed, SeqMonotonic
<1>4. rules \o SetToSeq(N) \in Seq(Rules)
  BY <1>3, ConcatProperties
<1>5. Range(rules \o SetToSeq(N)) = Range(rules) \cup Range(SetToSeq(N))
  BY <1>3, RangeConcatenation
<1> QED
  BY <1>2, <1>3, <1>4, <1>5

LEMMA AddFormulaKeeps ==
    ASSUME Inv, NEW f \in Formulas, AddFormula(f)
    PROVE  Inv'
<1>1. Scoped'
  <2>1. [formula |-> f, scope |-> CurrentScope] \in Asserted
    BY ScopeFacts DEF Inv, Scoped, Asserted
  <2>2. assertions' \in Seq(Asserted)
    BY <2>1, AppendProperties DEF Inv, Scoped, AddFormula
  <2>3. isUnsat' \in BOOLEAN
    BY DEF AddFormula, Inv, Scoped, Falsified
  <2> QED
    BY <2>2, <2>3 DEF Inv, Scoped, AddFormula
<1>2. Solving'
  <2>1. AddClause(Under(f, CurrentScope))
    BY GuardedIs DEF AddFormula, Inv, Scoped
  <2> QED
    BY <2>1, FormulaFacts, ScopeFacts, AddClauseKeeps DEF Inv, Scoped
<1>3. Matching'
  <2>1. AtomsOf(f.lits) \in SUBSET Atoms /\ IsFiniteSet(AtomsOf(f.lits))
    BY VocabularyAssumption, AtomsFinite
  <2>2. apps' \in Seq(Apps) /\ IsInjective(apps)' /\ Deep(depth')
    BY <2>1, RegisterFacts DEF AddFormula, Inv, Matching
  <2>3. rules' \in Seq(Rules) /\ Range(rules) \subseteq Range(rules')
    BY RulesAdded DEF AddFormula, Inv, Matching
  <2>4. instantiated' \subseteq Range(rules') \X Terms
    BY <2>3 DEF AddFormula, Inv, Matching
  <2> QED
    BY <2>2, <2>3, <2>4 DEF Matching
<1>4. Running'
  BY DEF AddFormula, Inv, Running, Idle
<1> QED
  BY <1>1, <1>2, <1>3, <1>4 DEF Inv

LEMMA PushScopeKeeps ==
    ASSUME Inv, PushScope
    PROVE  Inv'
<1>1. Scoped'
  <2>1. made + 1 \in DOMAIN ScopeAtoms
    BY EngineAssumption, LenProperties DEF Inv, Scoped, PushScope
  <2>2. ScopeAtoms[made + 1] \in Range(ScopeAtoms)
    BY <2>1 DEF Range
  <2>3. scopes' \in Seq(Range(ScopeAtoms))
    BY <2>2, AppendProperties DEF Inv, Scoped, PushScope
  <2> QED
    BY <2>3 DEF Inv, Scoped, PushScope
<1>2. Solving' /\ Matching'
  BY DEF PushScope, Inv, Solving, Matching, sat, matcher
<1>3. Running'
  BY DEF PushScope, Inv, Running, Idle
<1> QED
  BY <1>1, <1>2, <1>3 DEF Inv

LEMMA PopScopesKeeps ==
    ASSUME Inv, NEW n \in 1 .. Len(scopes), PopScopes(n)
    PROVE  Inv' /\ Range(scopes') \subseteq Range(scopes)
<1>1. scopes' \in Seq(Range(ScopeAtoms)) /\ Range(scopes') \subseteq Range(scopes)
  <2> DEFINE k == Len(scopes) - n
  <2>1. Len(scopes) \in Nat /\ DOMAIN scopes = 1 .. Len(scopes) /\ \A i \in 1 .. Len(scopes) : scopes[i] \in Range(ScopeAtoms)
    BY LenProperties, ElementOfSeq DEF Inv, Scoped
  <2>2. k \in 0 .. Len(scopes)
    BY <2>1
  <2>3. scopes' = SubSeq(scopes, 1, k)
    BY DEF PopScopes
  <2> HIDE DEF k
  <2>4. \A i \in 1 .. k : scopes[i] \in Range(ScopeAtoms)
    BY <2>1, <2>2
  <2>5. /\ SubSeq(scopes, 1, k) \in Seq(Range(ScopeAtoms)) /\ Len(SubSeq(scopes, 1, k)) = k
        /\ \A i \in 1 .. k : SubSeq(scopes, 1, k)[i] = scopes[i]
    BY <2>1, <2>2, <2>4, SubSeqProperties
  <2>6. DOMAIN SubSeq(scopes, 1, k) = 1 .. k
    BY <2>5, LenProperties
  <2> QED
    BY <2>1, <2>2, <2>3, <2>5, <2>6 DEF Range
<1>2. Scoped'
  BY <1>1 DEF Inv, Scoped, PopScopes
<1>3. Solving' /\ Matching'
  BY DEF PopScopes, Inv, Solving, Matching, sat, matcher
<1>4. Running'
  BY DEF PopScopes, Inv, Running, Idle
<1> QED
  BY <1>1, <1>2, <1>3, <1>4 DEF Inv

\* A refuted engine answers at once, before anything is spent.
LEMMA BeginCheckKeeps ==
    ASSUME Inv, NEW assumed \in Assumable, NEW r \in RoundLimits, NEW m \in MatchLimits, BeginCheck(assumed, r, m)
    PROVE  Inv'
<1> DEFINE c == [phase |-> "solve", assumed |-> assumed, maxRounds |-> r, maxMatches |-> m,
                 rounds |-> 0, left |-> m, used |-> 0, truncated |-> FALSE, queue |-> <<>>]
<1>1. r \in Nat \cup {Unlimited} /\ m \in Nat \cup {Unlimited}
  BY EngineAssumption
<1>2. Budgeted(c)
  <2>1. c \in Calls
    BY <1>1 DEF Calls
  <2> QED
    BY <1>1, <2>1 DEF Budgeted, Unlimited
<1>3. Range(c.queue) = {}
  BY DEF Range
<1>4. Answers(Answer("UNSAT", {}, c))
  BY <1>1 DEF Answers, Answer, Unlimited
<1>5. Running'
  <2>1. \/ answer' = Answer("UNSAT", {}, c) /\ call' = call
        \/ call' = c /\ answer' = NoAnswer
    BY DEF BeginCheck
  <2>2. call = NoCall
    BY DEF Inv, Running, BeginCheck, Idle, Budgeted, Calls
  <2> HIDE DEF c
  <2> QED
    BY <1>2, <1>3, <1>4, <2>1, <2>2 DEF Running
<1>6. Matching'
  <2>1. AtomsOf(assumed) \in SUBSET Atoms /\ IsFiniteSet(AtomsOf(assumed))
    BY VocabularyAssumption, AtomsFinite
  <2>2. UNCHANGED <<rules, instantiated>> /\ (Register(AtomsOf(assumed), 0) \/ UNCHANGED <<apps, depth>>)
    BY DEF BeginCheck
  <2>3. apps' \in Seq(Apps) /\ IsInjective(apps)' /\ Deep(depth')
    BY <2>1, <2>2, RegisterFacts DEF Inv, Matching
  <2> QED
    BY <2>2, <2>3 DEF Inv, Matching
<1>7. Solving' /\ Scoped'
  BY DEF BeginCheck, Inv, Solving, Scoped, sat
<1> QED
  BY <1>5, <1>6, <1>7 DEF Inv

\* An answer of a budgeted call keeps the budgets.
LEMMA AnswerFacts ==
    ASSUME NEW c, Budgeted(c), NEW core, core \subseteq c.assumed, NEW verdict \in {"SAT", "UNSAT", "UNKNOWN"},
           verdict = "UNKNOWN" => c.rounds = c.maxRounds \/ c.used = c.maxMatches
    PROVE  Answers(Answer(verdict, core, c))
<1>1. c.assumed \in Assumable /\ c.used \in Nat /\ c.left \in Nat \cup {Unlimited} /\ c.maxMatches \in Nat \cup {Unlimited}
  BY DEF Budgeted, Calls
<1>2. c.maxMatches # Unlimited => c.used <= c.maxMatches
  BY <1>1 DEF Budgeted, Unlimited
<1>3. c.maxRounds # Unlimited => c.rounds <= c.maxRounds
  BY DEF Budgeted
<1> QED
  BY <1>1, <1>2, <1>3 DEF Answers, Answer

\* A verdict of the solver leaves the books, and level 0 consistent.
LEMMA SolveKeeps ==
    ASSUME Inv, Solve
    PROVE  Inv'
<1>1. Clausal(clauses, level0')
  BY SolvedFacts DEF Solve, Inv, Solving
<1>2. Solving'
  BY <1>1 DEF Solve, Inv, Solving
<1>3. Budgeted(call) /\ (\A b \in Range(call.queue) : <<b[1], b[2]>> \in instantiated) /\ answer = NoAnswer
  BY DEF Solve, Inv, Running, NoCall
<1>4. Running'
  <2>1. CASE call' = [call EXCEPT !.phase = "match"] /\ UNCHANGED answer
    <3>1. Budgeted(call') /\ call'.queue = call.queue
      BY <1>3, <2>1 DEF Budgeted, Calls
    <3> QED
      BY <1>3, <2>1, <3>1 DEF Running, Solve
  <2>2. CASE \E core : Finish("UNSAT", core \cap call.assumed, call)
    <3>1. PICK core : Finish("UNSAT", core \cap call.assumed, call)
      BY <2>2
    <3>2. Answers(Answer("UNSAT", core \cap call.assumed, call))
      BY <1>3, AnswerFacts
    <3> QED
      BY <3>1, <3>2 DEF Running, Finish
  <2> QED
    BY <2>1, <2>2 DEF Solve
<1>5. Matching' /\ Scoped'
  BY DEF Solve, Inv, Matching, Scoped, matcher
<1> QED
  BY <1>2, <1>4, <1>5 DEF Inv

\* What one round of the matcher yields.
LEMMA MatchFacts ==
    ASSUME Inv, call # NoCall
    PROVE  /\ Found(Work) \in Seq(Bindings)
           /\ \A b \in Range(Found(Work)) : b[1] \in Range(rules) /\ b[2] \in Terms /\ b[3] <= MaxDepth
           /\ Found(Work) = <<>> /\ Len(Considered(Work)) = Len(Work) =>
                \A r \in Range(rules) : \A t \in Reached(r) : <<r, t>> \in instantiated
<1> DEFINE W == Rules \X Nat \X Apps
           t == Considered(Work)
<1>1. /\ Work \in Seq(W)
      /\ \A w : w \in Range(Work) <=>
           \E r \in Range(rules) : \E i \in DOMAIN Patterns[r], a \in Range(apps) : w = <<r, i, a>>
  BY WorkFacts DEF Inv, Matching
<1>2. Range(rules) \subseteq Rules
  BY RangeIn DEF Inv, Matching
<1>3. call.left \in Nat \cup {Unlimited}
  BY DEF Inv, Running, Budgeted, Calls
<1>4. t \in Seq(W) /\ Range(t) \subseteq Range(Work) /\ (Len(t) = Len(Work) => t = Work)
  <2> HIDE DEF W
  <2> QED
    BY <1>1, <1>3, ConsideredFacts
<1>5. /\ Found(Work) \in Seq({Binding(w) : w \in W})
      /\ \A b \in Range(Found(Work)) : \E w \in Range(t) : Yields(w) /\ b = Binding(w)
      /\ Found(Work) = <<>> => \A w \in Range(t) : ~Yields(w)
  <2> HIDE DEF W, t
  <2> QED
    BY <1>4, FoundFacts DEF t
<1>6. ASSUME NEW b \in Range(Found(Work))
      PROVE  b \in Bindings /\ b[1] \in Range(rules) /\ b[2] \in Terms /\ b[3] <= MaxDepth
  <2>1. PICK w \in Range(Work) : Yields(w) /\ b = Binding(w)
    BY <1>4, <1>5
  <2>2. PICK r \in Range(rules) : \E i \in DOMAIN Patterns[r], a \in Range(apps) : w = <<r, i, a>>
    BY <1>1, <2>1
  <2>3. PICK i \in DOMAIN Patterns[r], a \in Range(apps) : w = <<r, i, a>>
    BY <2>2
  <2>4. a \in DOMAIN Patterns[r][i] /\ b = <<r, Patterns[r][i][a], Depth(Patterns[r][i][a]) + 1>> /\ b[3] <= MaxDepth
    BY <2>1, <2>3 DEF Yields, Binding
  <2>5. Patterns[r][i][a] \in Terms
    <3>1. Patterns[r][i][a] \in Range(Patterns[r][i])
      BY <2>4 DEF Range
    <3> QED
      BY <1>2, <3>1, VocabularyAssumption
  <2>6. \A x : Depth(x) \in Nat
    BY DEF Depth, Inv, Matching, Deep
  <2> QED
    BY <1>2, <2>4, <2>5, <2>6 DEF Bindings
<1>7. Found(Work) \in Seq(Bindings)
  <2> DEFINE f == Found(Work)
  <2>1. Len(f) \in Nat /\ f \in [1 .. Len(f) -> {Binding(w) : w \in W}] /\ DOMAIN f = 1 .. Len(f)
    <3> HIDE DEF f, W
    <3> QED
      BY <1>5, LenProperties DEF f
  <2>2. \A i \in 1 .. Len(f) : f[i] \in Bindings
    BY <1>6, <2>1 DEF Range
  <2> HIDE DEF f, W
  <2>3. f \in [1 .. Len(f) -> Bindings]
    BY <2>1, <2>2
  <2> QED
    BY <2>1, <2>3 DEF f
<1>8. ASSUME Found(Work) = <<>>, Len(t) = Len(Work), NEW r \in Range(rules), NEW x \in Reached(r)
      PROVE  <<r, x>> \in instantiated
  <2>1. PICK i \in DOMAIN Patterns[r], a \in Range(apps) : a \in DOMAIN Patterns[r][i] /\ Patterns[r][i][a] = x
    BY <1>8 DEF Reached
  <2>2. <<r, i, a>> \in Range(t)
    BY <1>1, <1>4, <1>8
  <2>3. ~Yields(<<r, i, a>>)
    BY <1>5, <1>8, <2>2
  <2>4. Depth(x) + 1 <= MaxDepth
    BY <1>8 DEF Reached
  <2> QED
    BY <2>1, <2>3, <2>4 DEF Yields, Binding
<1> QED
  BY <1>6, <1>7, <1>8

\* A round spends what it considers, and a cut one has nothing left.
LEMMA MatchKeeps ==
    ASSUME Inv, Match
    PROVE  Inv'
<1> DEFINE found == Found(Work)
           n == Len(Considered(Work))
           spent == Spent(n, Len(Work))
<1>1. /\ instantiated' = Recorded(found)
      /\ IF found = <<>> \/ CapReached
           THEN Finish(Verdict(found, spent.truncated), {}, spent)
           ELSE call' = [spent EXCEPT !.phase = "assert", !.queue = found] /\ UNCHANGED answer
  BY DEF Match
<1>2. call # NoCall /\ Budgeted(call) /\ answer = NoAnswer
  BY DEF Inv, Running, Match, NoCall
<1>3. /\ found \in Seq(Bindings)
      /\ \A b \in Range(found) : b[1] \in Range(rules) /\ b[2] \in Terms
  BY <1>2, MatchFacts
<1>4. /\ n \in Nat /\ (call.left = Unlimited => n = Len(Work))
      /\ call.left # Unlimited => n <= call.left /\ (n < Len(Work) => n = call.left)
  <2>1. Work \in Seq(Rules \X Nat \X Apps)
    BY WorkFacts DEF Inv, Matching
  <2>2. call.left \in Nat \cup {Unlimited}
    BY <1>2 DEF Budgeted, Calls
  <2>3. Len(Considered(Work)) \in 0 .. Len(Work)
    BY <2>1, <2>2, ConsideredFacts
  <2>4. Len(Considered(Work)) \in Nat
    BY <2>1, <2>3, LenProperties
  <2> QED
    BY <2>1, <2>2, <2>4, ConsideredFacts
<1>5. Budgeted(spent) /\ (spent.truncated => spent.used = spent.maxMatches) /\ spent.maxRounds = call.maxRounds
      /\ spent.rounds = call.rounds /\ spent.assumed = call.assumed
  <2> HIDE DEF n
  <2>1. CASE call.left = Unlimited
    <3>1. spent = call
      BY <2>1 DEF Spent
    <3> HIDE DEF spent
    <3> QED
      BY <1>2, <2>1, <3>1 DEF Budgeted, Calls
  <2>2. CASE call.left # Unlimited
    <3>1. spent = [call EXCEPT !.used = @ + n, !.left = @ - n, !.truncated = @ \/ n < Len(Work)]
      BY <2>2 DEF Spent
    <3>2. /\ call \in Calls /\ call.maxMatches # Unlimited /\ call.left \in Nat /\ call.used \in Nat /\ call.truncated \in BOOLEAN
          /\ call.left + call.used = call.maxMatches /\ (call.truncated => call.left = 0) /\ call.phase = "match"
      BY <1>2, <2>2 DEF Budgeted, Calls, Match
    <3>3. (call.left - n) \in Nat /\ (call.used + n) \in Nat /\ (call.left - n) + (call.used + n) = call.maxMatches
      BY <1>4, <3>2, <2>2
    <3>4. (call.truncated \/ n < Len(Work)) => call.left - n = 0
      BY <1>4, <3>2, <2>2
    <3>5. spent \in Calls
      <4>1. (call.truncated \/ n < Len(Work)) \in BOOLEAN
        BY <3>2
      <4> QED
        BY <3>1, <3>2, <3>3, <4>1 DEF Calls
    <3>6. /\ spent.used = call.used + n /\ spent.left = call.left - n
          /\ (spent.truncated <=> call.truncated \/ n < Len(Work))
          /\ spent.phase = "match" /\ spent.maxMatches = call.maxMatches /\ spent.maxRounds = call.maxRounds
          /\ spent.rounds = call.rounds /\ spent.assumed = call.assumed
      BY <3>1, <3>2 DEF Calls
    <3> HIDE DEF spent
    <3>7. spent.truncated => spent.left = 0 /\ spent.used = spent.maxMatches
      BY <3>3, <3>4, <3>6, <3>2
    <3>8. call.maxRounds # Unlimited => call.rounds <= call.maxRounds
      BY <1>2 DEF Budgeted
    <3>9. spent.left # Unlimited
      BY <3>3, <3>6 DEF Unlimited
    <3> QED
      BY <3>2, <3>3, <3>5, <3>6, <3>7, <3>8, <3>9 DEF Budgeted
  <2> QED
    BY <2>1, <2>2
<1> HIDE DEF n, spent, found
<1>6. instantiated \subseteq instantiated' /\ \A b \in Range(found) : <<b[1], b[2]>> \in instantiated'
  BY <1>1 DEF Recorded
<1>7. Running'
  <2>1. CASE found = <<>> \/ CapReached
    <3>1. Finish(Verdict(found, spent.truncated), {}, spent)
      BY <1>1, <2>1
    <3>2. Verdict(found, spent.truncated) \in {"SAT", "UNSAT", "UNKNOWN"}
      BY DEF Verdict
    <3>3. ASSUME Verdict(found, spent.truncated) = "UNKNOWN"
          PROVE  spent.rounds = spent.maxRounds \/ spent.used = spent.maxMatches
      <4>1. CASE CapReached
        <5>1. spent.maxRounds # Unlimited /\ spent.rounds >= spent.maxRounds
          BY <1>5, <4>1 DEF CapReached
        <5>2. spent.rounds <= spent.maxRounds /\ spent.rounds \in Nat /\ spent.maxRounds \in Nat
          BY <1>5, <5>1 DEF Budgeted, Calls
        <5> QED
          BY <5>1, <5>2
      <4>2. CASE ~CapReached
        <5>1. spent.truncated
          BY <2>1, <3>3, <4>2 DEF Verdict
        <5> QED
          BY <1>5, <5>1
      <4> QED
        BY <4>1, <4>2
    <3>4. Answers(Answer(Verdict(found, spent.truncated), {}, spent))
      BY <1>5, <3>2, <3>3, AnswerFacts
    <3> QED
      BY <3>1, <3>4 DEF Running, Finish
  <2>2. CASE ~(found = <<>> \/ CapReached)
    <3>1. call' = [spent EXCEPT !.phase = "assert", !.queue = found] /\ answer' = answer
      BY <1>1, <2>2
    <3>2. spent \in Calls
      BY <1>5 DEF Budgeted
    <3>3. call' \in Calls /\ call'.queue = found /\ call'.phase = "assert"
      BY <1>3, <3>1, <3>2 DEF Calls
    <3>4. spent.maxRounds # Unlimited => spent.rounds < spent.maxRounds
      BY <1>5, <2>2, <3>2 DEF CapReached, Calls, Unlimited
    <3>5. /\ call'.maxMatches = spent.maxMatches /\ call'.maxRounds = spent.maxRounds /\ call'.left = spent.left
          /\ call'.used = spent.used /\ call'.truncated = spent.truncated /\ call'.rounds = spent.rounds
      BY <3>1, <3>2 DEF Calls
    <3>6. Budgeted(call')
      BY <1>5, <2>2, <3>3, <3>4, <3>5 DEF Budgeted
    <3> QED
      BY <1>2, <1>6, <3>1, <3>3, <3>6 DEF Running
  <2> QED
    BY <2>1, <2>2
<1>8. Matching'
  <2>1. \A p \in instantiated' : p \in Range(rules) \X Terms
    BY <1>1, <1>3 DEF Recorded, Inv, Matching
  <2> QED
    BY <2>1 DEF Match, Inv, Matching, matcher
<1>9. Solving' /\ Scoped'
  BY DEF Match, Inv, Solving, Scoped, sat
<1> QED
  BY <1>7, <1>8, <1>9 DEF Inv

\* Each instance in line is asserted, and the round counted at the last one.
LEMMA AssertInstanceKeeps ==
    ASSUME Inv, AssertInstance
    PROVE  Inv'
<1> DEFINE b == Head(call.queue)
           c == Instance[b[1]][b[2]]
<1>1. Budgeted(call) /\ answer = NoAnswer /\ call # NoCall /\ (\A x \in Range(call.queue) : <<x[1], x[2]>> \in instantiated)
  BY DEF AssertInstance, Inv, Running, NoCall
<1>2. call \in Calls /\ call.queue \in Seq(Bindings) /\ call.queue # <<>> /\ (call.maxRounds # Unlimited => call.rounds < call.maxRounds)
  BY <1>1 DEF Budgeted, Calls, AssertInstance
<1>3. b \in Bindings /\ Tail(call.queue) \in Seq(Bindings) /\ Range(Tail(call.queue)) \subseteq Range(call.queue)
  <2>1. b \in Bindings
    BY <1>2, HeadTailProperties
  <2>2. /\ Tail(call.queue) \in Seq(Bindings) /\ Len(Tail(call.queue)) = Len(call.queue) - 1
        /\ \A i \in 1 .. Len(Tail(call.queue)) : Tail(call.queue)[i] = call.queue[i + 1]
    BY <1>2, HeadTailProperties
  <2>3. /\ Len(call.queue) \in Nat /\ DOMAIN call.queue = 1 .. Len(call.queue)
        /\ DOMAIN Tail(call.queue) = 1 .. Len(Tail(call.queue))
    BY <1>2, <2>2, LenProperties
  <2>4. Range(Tail(call.queue)) \subseteq Range(call.queue)
    BY <2>2, <2>3 DEF Range
  <2> QED
    BY <2>1, <2>2, <2>4
<1>4. b[1] \in Rules /\ b[2] \in Terms /\ b[3] \in Nat
  BY <1>3 DEF Bindings
<1>5. c \in SUBSET AllLits /\ IsFiniteSet(c)
  BY <1>4, InstanceFacts
<1>6. /\ AddClause(c) /\ Register(AtomsOf(c), b[3])
      /\ IF Falsified(c) THEN Finish("UNSAT", {}, call)
         ELSE /\ call' = IF Len(call.queue) > 1 THEN [call EXCEPT !.queue = Tail(@)]
                         ELSE [call EXCEPT !.queue = <<>>, !.phase = "solve",
                                     !.rounds = IF call.maxRounds = Unlimited THEN @ ELSE @ + 1]
              /\ UNCHANGED answer
      /\ UNCHANGED <<assertions, scopes, made, rules, instantiated, isUnsat, checks>>
  BY DEF AssertInstance
<1> HIDE DEF c
<1>7. Solving'
  BY <1>5, <1>6, AddClauseKeeps DEF Inv
<1> HIDE DEF b
<1>8. Matching'
  <2>1. AtomsOf(c) \in SUBSET Atoms /\ IsFiniteSet(AtomsOf(c))
    BY <1>5, AtomsFinite
  <2>2. apps' \in Seq(Apps) /\ IsInjective(apps)' /\ Deep(depth')
    BY <1>4, <1>6, <2>1, RegisterFacts DEF Inv, Matching
  <2> QED
    BY <1>6, <2>2 DEF Inv, Matching
<1>9. Running'
  <2>1. CASE Falsified(c)
    <3>1. Answers(Answer("UNSAT", {}, call))
      BY <1>1, AnswerFacts
    <3> QED
      BY <1>6, <2>1, <3>1 DEF Running, Finish
  <2>2. CASE ~Falsified(c) /\ Len(call.queue) > 1
    <3>1. call' = [call EXCEPT !.queue = Tail(@)] /\ answer' = answer /\ instantiated' = instantiated
      BY <1>6, <2>2
    <3>2. call' \in Calls /\ call'.queue = Tail(call.queue)
      BY <1>2, <1>3, <3>1 DEF Calls
    <3>3. Tail(call.queue) # <<>>
      <4> DEFINE k == Len(call.queue)
                 j == Len(Tail(call.queue))
      <4>1. k \in Nat /\ j = k - 1 /\ k > 1
        BY <1>2, <2>2, LenProperties, HeadTailProperties
      <4> HIDE DEF k, j
      <4>2. j # 0
        BY ONLY <4>1
      <4> QED
        BY <1>3, <4>2, EmptySeq DEF j
    <3>4. Budgeted(call')
      BY <1>1, <1>2, <3>1, <3>2, <3>3 DEF Budgeted, Calls
    <3> QED
      BY <1>1, <1>3, <3>1, <3>2, <3>4 DEF Running
  <2>3. CASE ~Falsified(c) /\ ~(Len(call.queue) > 1)
    <3> DEFINE n == IF call.maxRounds = Unlimited THEN call.rounds ELSE call.rounds + 1
    <3>1. call' = [call EXCEPT !.queue = <<>>, !.phase = "solve", !.rounds = n] /\ answer' = answer
      BY <1>6, <2>3
    <3>2. n \in Nat /\ (call.maxRounds # Unlimited => n <= call.maxRounds)
      BY <1>2 DEF Calls, Unlimited
    <3> HIDE DEF n
    <3>3. call' \in Calls /\ call'.queue = <<>> /\ call'.phase = "solve" /\ call'.rounds = n
      <4>1. <<>> \in Seq(Bindings)
        BY EmptySeq
      <4>2. call' \in Calls
        BY <1>2, <3>1, <3>2, <4>1 DEF Calls
      <4> QED
        BY <1>2, <3>1, <4>2 DEF Calls
    <3>4. /\ call'.maxMatches = call.maxMatches /\ call'.maxRounds = call.maxRounds /\ call'.left = call.left
          /\ call'.used = call.used /\ call'.truncated = call.truncated
      BY <1>2, <3>1 DEF Calls
    <3>5. Budgeted(call')
      BY <1>1, <3>2, <3>3, <3>4 DEF Budgeted
    <3>6. Range(call'.queue) = {}
      BY <3>3 DEF Range
    <3> QED
      BY <1>1, <3>1, <3>5, <3>6 DEF Running
  <2> QED
    BY <2>1, <2>2, <2>3
<1>10. Scoped'
  BY <1>6 DEF Inv, Scoped
<1> QED
  BY <1>7, <1>8, <1>9, <1>10 DEF Inv

LEMMA InitInv ==
    Init => Inv
<1> SUFFICES ASSUME Init
             PROVE  Inv
  OBVIOUS
<1>1. Solving
  <2>1. UNION clauses = {} /\ IsFiniteSet({})
    BY FS_EmptySet DEF Init
  <2> QED
    BY <2>1 DEF Init, Solving, Clausal
<1>2. Matching
  <2>1. <<>> \in Seq(Apps) /\ <<>> \in Seq(Rules) /\ DOMAIN <<>> = {}
    BY EmptySeq
  <2> QED
    BY <2>1 DEF Init, Matching, IsInjective, Deep
<1>3. Scoped
  BY EmptySeq DEF Init, Scoped
<1>4. Running
  BY DEF Init, Running
<1> QED
  BY <1>1, <1>2, <1>3, <1>4 DEF Inv

LEMMA NextInv ==
    ASSUME Inv, [Next]_vars
    PROVE  Inv'
<1>1. ASSUME NEW f \in Formulas, AddFormula(f)
      PROVE  Inv'
  BY <1>1, AddFormulaKeeps
<1>2. CASE PushScope
  BY <1>2, PushScopeKeeps
<1>3. ASSUME NEW n \in 1 .. Len(scopes), PopScopes(n)
      PROVE  Inv'
  BY <1>3, PopScopesKeeps
<1>4. ASSUME NEW assumed \in Assumable, NEW r \in RoundLimits, NEW m \in MatchLimits, BeginCheck(assumed, r, m)
      PROVE  Inv'
  BY <1>4, BeginCheckKeeps
<1>5. CASE Solve
  BY <1>5, SolveKeeps
<1>6. CASE Match
  BY <1>6, MatchKeeps
<1>7. CASE AssertInstance
  BY <1>7, AssertInstanceKeeps
<1>8. CASE UNCHANGED vars
  BY <1>8 DEF vars, sat, matcher, Inv, Matching, Solving, Scoped, Running
<1> QED
  BY <1>1, <1>2, <1>3, <1>4, <1>5, <1>6, <1>7, <1>8 DEF Next, Continue

\* A sequence that repeats nothing is as long as the set of its members is large.
LEMMA LengthCounts ==
    ASSUME NEW S, NEW s \in Seq(S), IsInjective(s)
    PROVE  IsFiniteSet(Range(s)) /\ Cardinality(Range(s)) = Len(s)
<1>1. Len(s) \in Nat /\ DOMAIN s = 1 .. Len(s) /\ s \in [1 .. Len(s) -> S]
  BY LenProperties
<1>2. s \in Bijection(1 .. Len(s), Range(s))
  BY <1>1 DEF Bijection, Injection, Surjection, IsInjective, Range
<1>3. IsFiniteSet(1 .. Len(s)) /\ Cardinality(1 .. Len(s)) = Len(s)
  BY <1>1, FS_Interval
<1>4. ExistsBijection(1 .. Len(s), Range(s))
  BY <1>2 DEF ExistsBijection
<1> QED
  BY <1>3, <1>4, FS_Bijection

LEMMA InvGivesTypeOK ==
    ASSUME Inv
    PROVE  TypeOK
<1>1. (\A l \in level0 : -l \notin level0) /\ pending \subseteq level0 /\ refuted \in BOOLEAN
  BY DEF Inv, Solving, Clausal
<1>2. Range(scopes) \subseteq Range(ScopeAtoms) /\ isUnsat \in BOOLEAN
  BY RangeIn DEF Inv, Scoped
<1>3. Cardinality(Range(apps)) = Len(apps) /\ instantiated \subseteq Range(rules) \X Terms
  BY LengthCounts DEF Inv, Matching
<1>4. call.phase \in {"idle", "solve", "match", "assert"}
  BY DEF Inv, Running, NoCall, Budgeted, Calls
<1>5. answer.verdict \in {"none", "SAT", "UNSAT", "UNKNOWN"}
  BY DEF Inv, Running, NoAnswer, Answers
<1> QED
  BY <1>1, <1>2, <1>3, <1>4, <1>5 DEF TypeOK

LEMMA InvGivesBudgets ==
    ASSUME Inv
    PROVE  BudgetsKept
<1>1. answer.verdict # "none" => Answers(answer)
  BY DEF Inv, Running, NoAnswer
<1> QED
  BY <1>1, InvGivesTypeOK DEF BudgetsKept, Answers

\* The books are kept by every use of the engine.
THEOREM BooksAlways ==
    Spec => []Inv
<1> QED
  BY InitInv, NextInv, PTL DEF Spec

\* The budgets bound every check as a whole, and UNKNOWN is only answered when one of
\* them is spent (check and the matcher's match).
THEOREM BudgetsAlways ==
    Spec => []BudgetsKept
<1>1. Inv => BudgetsKept
  BY InvGivesBudgets
<1> QED
  BY <1>1, BooksAlways, PTL

(***************************************************************************)
(* UNSAT.  A set m of true atoms is extended to the variables of the solver: *)
(* with the scopes S that are assumed, and the rules that hold in m.         *)
(***************************************************************************)
Ext(m, S) == (m \cup S) \cup {RuleAtom[r] : r \in {r \in Rules : RuleHolds(r, m)}}
Holds(m, S) == \A i \in DOMAIN assertions :
                   assertions[i].scope \in {NoScope} \cup S => Satisfies(m, assertions[i].formula)

\* Whatever satisfies the formulas of the scopes S satisfies the solver.
Followed == \A m \in SUBSET Atoms, S \in SUBSET Range(ScopeAtoms) :
                Holds(m, S) => Sat(clauses, level0, Ext(m, S))
\* Each rule of the matcher is a formula that is in force for good.
Standing == \A r \in Range(rules) : \E i \in DOMAIN assertions :
                assertions[i].scope = NoScope /\ assertions[i].formula.lits = {}
                /\ assertions[i].formula.rules = {r}
Refuted == isUnsat => \A m \in SUBSET Atoms : ~Holds(m, {})
SoundInv == Inv /\ Followed /\ Standing /\ Refuted /\ UnsatSound

\* The extension agrees on the atoms, the scopes and the rules that hold.
LEMMA ExtFacts ==
    ASSUME NEW m \in SUBSET Atoms, NEW S \in SUBSET Range(ScopeAtoms)
    PROVE  /\ \A l \in LitsOf(Atoms) : IsTrue(l, Ext(m, S)) <=> IsTrue(l, m)
           /\ \A s \in Range(ScopeAtoms) : /\ IsTrue(s, Ext(m, S)) <=> s \in S
                                           /\ IsTrue(-s, Ext(m, S)) <=> s \notin S
           /\ \A r \in Rules : RuleHolds(r, m) => IsTrue(RuleAtom[r], Ext(m, S))
<1> DEFINE R == {RuleAtom[r] : r \in {r \in Rules : RuleHolds(r, m)}}
<1>1. R \subseteq Range(RuleAtom)
  BY EngineAssumption DEF Range
<1>2. \A r \in Rules : RuleHolds(r, m) => RuleAtom[r] \in R
  OBVIOUS
<1>3. Ext(m, S) = (m \cup S) \cup R
  BY DEF Ext
<1> HIDE DEF R
<1>4. Range(ScopeAtoms) \subseteq Nat \ {0} /\ Atoms \subseteq Nat \ {0}
  BY EngineAssumption, RangeOfSeq
<1>5. /\ \A x \in Atoms : x \in Ext(m, S) <=> x \in m
      /\ \A x \in Range(ScopeAtoms) : x \in Ext(m, S) <=> x \in S
  BY <1>1, <1>3, EngineAssumption
<1>6. ASSUME NEW l \in LitsOf(Atoms)
      PROVE  IsTrue(l, Ext(m, S)) <=> IsTrue(l, m)
  BY <1>4, <1>5, LiteralFacts
<1>7. ASSUME NEW s \in Range(ScopeAtoms)
      PROVE  (IsTrue(s, Ext(m, S)) <=> s \in S) /\ (IsTrue(-s, Ext(m, S)) <=> s \notin S)
  <2>1. s > 0 /\ ~(-s > 0) /\ -(-s) = s
    BY <1>4
  <2> QED
    BY <1>5, <2>1 DEF IsTrue
<1>8. ASSUME NEW r \in Rules, RuleHolds(r, m)
      PROVE  IsTrue(RuleAtom[r], Ext(m, S))
  <2>1. RuleAtom[r] \in Nat \ {0}
    BY EngineAssumption
  <2> QED
    BY <1>2, <1>3, <1>8, <2>1 DEF IsTrue
<1> QED
  BY <1>6, <1>7, <1>8

\* A formula that holds, or is out of force, meets its clause.
LEMMA FormulaMeets ==
    ASSUME NEW m \in SUBSET Atoms, NEW S \in SUBSET Range(ScopeAtoms),
           NEW f \in Formulas, NEW s \in {NoScope} \cup Range(ScopeAtoms),
           s \in {NoScope} \cup S => Satisfies(m, f)
    PROVE  Meets(Ext(m, S), Under(f, s))
<1>1. Plain(f) \subseteq Under(f, s) /\ (s # NoScope => -s \in Under(f, s))
  BY DEF Under
<1>2. CASE s \in {NoScope} \cup S
  <2>1. CASE \E l \in f.lits : IsTrue(l, m)
    <3>1. f.lits \subseteq LitsOf(Atoms)
      BY VocabularyAssumption
    <3> QED
      BY <1>1, <2>1, <3>1, ExtFacts DEF Plain, Meets
  <2>2. CASE \E r \in f.rules : RuleHolds(r, m)
    <3>1. f.rules \subseteq Rules
      BY VocabularyAssumption
    <3>2. PICK r \in f.rules : RuleHolds(r, m)
      BY <2>2
    <3>3. RuleAtom[r] \in Plain(f)
      BY DEF Plain
    <3>4. IsTrue(RuleAtom[r], Ext(m, S))
      BY <3>1, <3>2, ExtFacts
    <3> QED
      BY <1>1, <3>3, <3>4 DEF Meets
  <2> QED
    BY <1>2, <2>1, <2>2 DEF Satisfies
<1>3. CASE s \notin {NoScope} \cup S
  <2>1. IsTrue(-s, Ext(m, S))
    BY <1>3, ExtFacts
  <2> QED
    BY <1>1, <1>3, <2>1 DEF Meets
<1> QED
  BY <1>2, <1>3

\* What satisfies the live formulas satisfies those of the open scopes.
LEMMA LiveHolds ==
    ASSUME assertions \in Seq(Asserted), NEW m, \A f \in Live : Satisfies(m, f)
    PROVE  Holds(m, Range(scopes)) /\ Holds(m, {})
BY DEF Live, Holds

\* An instance of a rule in force holds.
LEMMA InstanceMeets ==
    ASSUME Inv, Standing, NEW r \in Range(rules), NEW t \in Terms,
           NEW m \in SUBSET Atoms, NEW S \in SUBSET Range(ScopeAtoms), Holds(m, S)
    PROVE  Meets(Ext(m, S), Instance[r][t])
<1>1. r \in Rules
  BY RangeIn DEF Inv, Matching
<1>2. PICK i \in DOMAIN assertions : assertions[i].scope = NoScope /\ assertions[i].formula.lits = {}
                                     /\ assertions[i].formula.rules = {r}
  BY DEF Standing
<1>3. Satisfies(m, assertions[i].formula)
  BY <1>2 DEF Holds
<1>4. RuleHolds(r, m)
  BY <1>2, <1>3 DEF Satisfies
<1>5. Instance[r][t] \subseteq LitsOf(Atoms)
  BY <1>1, VocabularyAssumption
<1> QED
  BY <1>4, <1>5, ExtFacts DEF RuleHolds, Meets

\* The assertions after one more.
LEMMA AppendedFacts ==
    ASSUME assertions \in Seq(Asserted), NEW f \in Formulas, NEW s \in {NoScope} \cup Range(ScopeAtoms),
           assertions' = Append(assertions, [formula |-> f, scope |-> s])
    PROVE  /\ DOMAIN assertions = 1 .. Len(assertions) /\ Len(assertions) \in Nat
           /\ DOMAIN assertions' = 1 .. Len(assertions) + 1
           /\ \A i \in 1 .. Len(assertions) : assertions'[i] = assertions[i]
           /\ assertions'[Len(assertions) + 1] = [formula |-> f, scope |-> s]
           /\ Last(assertions') = [formula |-> f, scope |-> s] /\ assertions' # assertions
<1>1. [formula |-> f, scope |-> s] \in Asserted
  BY DEF Asserted
<1>2. /\ assertions' \in Seq(Asserted) /\ Len(assertions') = Len(assertions) + 1
      /\ \A i \in 1 .. Len(assertions) : assertions'[i] = assertions[i]
      /\ assertions'[Len(assertions) + 1] = [formula |-> f, scope |-> s]
  BY <1>1, AppendProperties
<1>3. Len(assertions) \in Nat /\ DOMAIN assertions = 1 .. Len(assertions) /\ DOMAIN assertions' = 1 .. Len(assertions')
  BY <1>2, LenProperties
<1>4. Last(assertions') = assertions'[Len(assertions) + 1]
  BY <1>2 DEF Last
<1>5. assertions' # assertions
  <2> DEFINE n == Len(assertions)
  <2>1. n \in Nat /\ Len(assertions') = n + 1
    BY <1>2, <1>3
  <2> HIDE DEF n
  <2>2. Len(assertions') # n
    BY <2>1
  <2> QED
    BY <2>2 DEF n
<1> QED
  BY <1>2, <1>3, <1>4, <1>5

\* Whatever satisfies the formula, or ignores its scope, satisfies its clause.
LEMMA AddFormulaSound ==
    ASSUME SoundInv, NEW f \in Formulas, AddFormula(f), assertions' # assertions => Apart(Last(assertions').formula)
    PROVE  SoundInv'
<1> DEFINE s == CurrentScope
           c == Under(f, s)
           n == Len(assertions)
<1>1. Inv /\ assertions \in Seq(Asserted) /\ scopes \in Seq(Range(ScopeAtoms)) /\ Clausal(clauses, level0)
  BY DEF SoundInv, Inv, Scoped, Solving
<1>2. s \in {NoScope} \cup Range(ScopeAtoms) /\ (scopes = <<>> => s = NoScope)
  BY <1>1, ScopeFacts
<1>3. /\ AddClause(c) /\ isUnsat' = (isUnsat \/ Falsified(c))
      /\ assertions' = Append(assertions, [formula |-> f, scope |-> s])
  BY <1>1, GuardedIs DEF AddFormula
<1>4. /\ DOMAIN assertions = 1 .. n /\ n \in Nat /\ DOMAIN assertions' = 1 .. n + 1
      /\ \A i \in 1 .. n : assertions'[i] = assertions[i]
      /\ assertions'[n + 1] = [formula |-> f, scope |-> s]
      /\ Last(assertions') = [formula |-> f, scope |-> s] /\ assertions' # assertions
  <2> HIDE DEF s
  <2> QED
    BY <1>1, <1>2, <1>3, AppendedFacts
<1>5. c \in SUBSET AllLits /\ IsFiniteSet(c)
  <2> HIDE DEF s
  <2> QED
    BY <1>2, FormulaFacts
<1> HIDE DEF s, c, n
<1>6. ASSUME NEW m \in SUBSET Atoms, NEW S \in SUBSET Range(ScopeAtoms), Holds(m, S)'
      PROVE  Holds(m, S) /\ Meets(Ext(m, S), c)
  <2>1. \A i \in 1 .. n + 1 : assertions'[i].scope \in {NoScope} \cup S => Satisfies(m, assertions'[i].formula)
    BY <1>4, <1>6 DEF Holds
  <2>2. Holds(m, S)
    BY <1>4, <2>1 DEF Holds
  <2>3. s \in {NoScope} \cup S => Satisfies(m, f)
    BY <1>4, <2>1
  <2> QED
    BY <1>2, <2>2, <2>3, FormulaMeets DEF c
<1>7. ASSUME NEW m \in SUBSET Atoms, NEW S \in SUBSET Range(ScopeAtoms), Holds(m, S)'
      PROVE  Sat(clauses', level0', Ext(m, S)) /\ ~Falsified(c)
  <2>1. Sat(clauses, level0, Ext(m, S)) /\ Meets(Ext(m, S), c)
    BY <1>6, <1>7 DEF SoundInv, Followed
  <2> QED
    BY <1>1, <1>3, <1>5, <2>1, AddFacts DEF AddClause
<1>8. Followed'
  <2> SUFFICES ASSUME NEW m \in SUBSET Atoms, NEW S \in SUBSET Range(ScopeAtoms), Holds(m, S)'
               PROVE  Sat(clauses', level0', Ext(m, S))
    BY DEF Followed
  <2> QED
    BY <1>7
<1>9. Refuted'
  <2> SUFFICES ASSUME isUnsat', NEW m \in SUBSET Atoms, Holds(m, {})'
               PROVE  FALSE
    BY DEF Refuted
  <2>1. Holds(m, {}) /\ ~Falsified(c)
    BY <1>6, <1>7
  <2> QED
    BY <1>3, <2>1 DEF SoundInv, Refuted
<1>10. Standing'
  <2> SUFFICES ASSUME NEW r \in Range(rules')
               PROVE  \E i \in DOMAIN assertions' : assertions'[i].scope = NoScope
                           /\ assertions'[i].formula.lits = {} /\ assertions'[i].formula.rules = {r}
    BY DEF Standing
  <2>1. IsFiniteSet(f.rules)
    BY VocabularyAssumption
  <2>2. Range(rules') = Range(rules) \cup f.rules
    BY <1>1, RulesAdded DEF AddFormula, Inv, Matching
  <2>3. CASE r \in Range(rules)
    <3>1. PICK i \in DOMAIN assertions : assertions[i].scope = NoScope /\ assertions[i].formula.lits = {}
                                         /\ assertions[i].formula.rules = {r}
      BY <2>3 DEF SoundInv, Standing
    <3>2. i \in DOMAIN assertions' /\ assertions'[i] = assertions[i]
      BY <1>4
    <3> QED
      BY <3>1, <3>2
  <2>4. CASE r \in f.rules
    <3>1. scopes = <<>> /\ f.lits = {} /\ Cardinality(f.rules) = 1
      <4>1. Apart(f)
        BY <1>4
      <4> QED
        BY <2>4, <4>1 DEF Apart
    <3>2. f.rules = {r}
      BY <2>1, <2>4, <3>1, FS_Singleton
    <3>3. n + 1 \in DOMAIN assertions' /\ assertions'[n + 1] = [formula |-> f, scope |-> s] /\ s = NoScope
      BY <1>2, <1>4, <3>1
    <3> QED
      BY <3>1, <3>2, <3>3
  <2> QED
    BY <2>2, <2>3, <2>4
<1>11. Inv' /\ UnsatSound'
  BY <1>1, AddFormulaKeeps DEF AddFormula, UnsatSound, NoAnswer
<1> QED
  BY <1>8, <1>9, <1>10, <1>11 DEF SoundInv

\* The steps that add nothing to the solver or the assertions.
LEMMA StillSound ==
    ASSUME SoundInv, Inv', UNCHANGED <<assertions, clauses, level0, rules, isUnsat>>, UnsatSound'
    PROVE  SoundInv'
<1>1. \A m, S : Holds(m, S)' <=> Holds(m, S)
  BY DEF Holds
<1>2. Followed'
  BY <1>1 DEF SoundInv, Followed
<1>3. Refuted'
  BY <1>1 DEF SoundInv, Refuted
<1>4. Standing'
  BY DEF SoundInv, Standing
<1> QED
  BY <1>2, <1>3, <1>4 DEF SoundInv

LEMMA BeginCheckSound ==
    ASSUME SoundInv, NEW assumed \in Assumable, NEW r \in RoundLimits, NEW m \in MatchLimits, BeginCheck(assumed, r, m)
    PROVE  SoundInv'
<1>1. Inv' /\ UNCHANGED <<assertions, scopes, clauses, level0, rules, isUnsat>>
  BY BeginCheckKeeps DEF SoundInv, BeginCheck, sat
<1>2. UnsatSound'
  <2>1. CASE ~isUnsat
    BY <2>1 DEF BeginCheck, UnsatSound, NoAnswer
  <2>2. CASE isUnsat
    <3> SUFFICES ASSUME NEW n \in SUBSET Atoms, \A f \in Live' : Satisfies(n, f)
                 PROVE  FALSE
      BY DEF UnsatSound
    <3>1. Live' = Live
      BY <1>1 DEF Live
    <3>2. Holds(n, {})
      BY <3>1, LiveHolds DEF SoundInv, Inv, Scoped
    <3> QED
      BY <2>2, <3>2 DEF SoundInv, Refuted
  <2> QED
    BY <2>1, <2>2
<1> QED
  BY <1>1, <1>2, StillSound

LEMMA ScopesUsedIn ==
    ASSUME scopes \in Seq(Range(ScopeAtoms))
    PROVE  ScopesUsed \subseteq Range(scopes) /\ Range(scopes) \subseteq Range(ScopeAtoms)
BY RangeIn DEF ScopesUsed

LEMMA AssumptionsFacts ==
    ASSUME Inv, call # NoCall
    PROVE  Assumptions \in SUBSET AllLits /\ call.assumed \subseteq LitsOf(Atoms)
<1>1. call.assumed \subseteq LitsOf(Atoms)
  BY VocabularyAssumption DEF Inv, Running, Budgeted, Calls
<1>2. ScopesUsed \subseteq Range(ScopeAtoms)
  BY ScopesUsedIn DEF Inv, Scoped
<1> QED
  BY <1>1, <1>2 DEF Assumptions, AllLits, AllVars, LitsOf

\* A core is refuted by no model of the live formulas, since its extension satisfies the solver.
LEMMA SolveSound ==
    ASSUME SoundInv, Solve
    PROVE  SoundInv'
<1>1. Inv /\ Inv' /\ Clausal(clauses, level0) /\ call # NoCall /\ answer = NoAnswer
  BY SolveKeeps DEF SoundInv, Inv, Solving, Running, Solve, NoCall
<1>2. UNCHANGED <<assertions, scopes, clauses, rules, isUnsat>>
  BY DEF Solve, matcher
<1>3. \A m, S : Holds(m, S)' <=> Holds(m, S)
  BY <1>2 DEF Holds
<1>4. \A m : Sat(clauses, level0', m) <=> Sat(clauses, level0, m)
  BY <1>1, SolvedFacts DEF Solve
<1>5. Followed'
  <2> SUFFICES ASSUME NEW m \in SUBSET Atoms, NEW S \in SUBSET Range(ScopeAtoms), Holds(m, S)'
               PROVE  Sat(clauses', level0', Ext(m, S))
    BY DEF Followed
  <2>1. Sat(clauses, level0, Ext(m, S))
    BY <1>3 DEF SoundInv, Followed
  <2> QED
    BY <1>2, <1>4, <2>1
<1>6. Refuted' /\ Standing'
  BY <1>2, <1>3 DEF SoundInv, Refuted, Standing
<1>7. UnsatSound'
  <2>1. CASE UNCHANGED answer
    BY <1>1, <2>1 DEF UnsatSound, NoAnswer
  <2>2. CASE \E core \in SUBSET Assumptions : Contradictory(core) /\ Finish("UNSAT", core \cap call.assumed, call)
    <3>1. PICK core \in SUBSET Assumptions : Contradictory(core) /\ Finish("UNSAT", core \cap call.assumed, call)
      BY <2>2
    <3>2. answer'.core = core \cap call.assumed
      BY <3>1 DEF Finish, Answer
    <3> SUFFICES ASSUME NEW m \in SUBSET Atoms, \A f \in Live' : Satisfies(m, f), \A l \in answer'.core : IsTrue(l, m)
                 PROVE  FALSE
      BY DEF UnsatSound
    <3> DEFINE S == Range(scopes)
               n == Ext(m, S)
    <3>3. Live' = Live
      BY <1>2 DEF Live
    <3>4. Holds(m, S)
      BY <1>1, <3>3, LiveHolds DEF Inv, Scoped
    <3>5. S \in SUBSET Range(ScopeAtoms) /\ ScopesUsed \subseteq S
      BY <1>1, ScopesUsedIn DEF Inv, Scoped
    <3> HIDE DEF S
    <3>6. Sat(clauses, level0, n)
      BY <3>4, <3>5 DEF SoundInv, Followed
    <3>7. ASSUME NEW l \in core
          PROVE  IsTrue(l, n)
      <4>1. CASE l \in ScopesUsed
        BY <3>5, <4>1, ExtFacts
      <4>2. CASE l \in call.assumed
        <5>1. l \in LitsOf(Atoms) /\ l \in answer'.core
          BY <1>1, <3>2, <4>2, AssumptionsFacts
        <5>2. IsTrue(l, m)
          BY <5>1
        <5> QED
          BY <3>5, <5>1, <5>2, ExtFacts
      <4> QED
        BY <4>1, <4>2 DEF Assumptions
    <3>8. core \in SUBSET AllLits
      BY <1>1, AssumptionsFacts
    <3> HIDE DEF n
    <3>9. n \cap Vars(core) \in Models(core)
      BY <1>1, <3>6, <3>7, <3>8, Restricted
    <3> QED
      BY <3>1, <3>9 DEF Contradictory
  <2> QED
    BY <2>1, <2>2 DEF Solve
<1> QED
  BY <1>1, <1>5, <1>6, <1>7 DEF SoundInv

LEMMA MatchSound ==
    ASSUME SoundInv, Match
    PROVE  SoundInv'
<1>1. Inv' /\ UNCHANGED <<assertions, clauses, level0, rules, isUnsat>> /\ answer = NoAnswer
  BY MatchKeeps DEF SoundInv, Match, sat, matcher, Inv, Running, NoCall
<1>2. answer'.verdict # "UNSAT"
  <2>1. \/ UNCHANGED answer
        \/ \E found, spent : Finish(Verdict(found, spent.truncated), {}, spent)
    BY DEF Match
  <2> QED
    BY <1>1, <2>1 DEF NoAnswer, Finish, Answer, Verdict
<1> QED
  BY <1>1, <1>2, StillSound DEF UnsatSound

\* An instance excludes no model, since its rule is in force.
LEMMA AssertInstanceSound ==
    ASSUME SoundInv, AssertInstance
    PROVE  SoundInv'
<1> DEFINE b == Head(call.queue)
           c == Instance[b[1]][b[2]]
<1>1. Inv /\ Inv' /\ Clausal(clauses, level0)
  BY AssertInstanceKeeps DEF SoundInv, Inv, Solving
<1>2. /\ AddClause(c) /\ (Falsified(c) => Finish("UNSAT", {}, call)) /\ (~Falsified(c) => UNCHANGED answer)
      /\ UNCHANGED <<assertions, scopes, rules, isUnsat>>
  BY DEF AssertInstance
<1>3. b[1] \in Range(rules) /\ b[2] \in Terms /\ answer = NoAnswer
  <2>1. /\ call.queue \in Seq(Bindings) /\ call.queue # <<>> /\ answer = NoAnswer
        /\ \A x \in Range(call.queue) : <<x[1], x[2]>> \in instantiated
    BY DEF AssertInstance, SoundInv, Inv, Running, NoCall, Budgeted, Calls
  <2>2. b \in Range(call.queue)
    <3>1. b = call.queue[1] /\ 1 \in DOMAIN call.queue
      BY <2>1, EmptySeq, LenProperties, HeadTailProperties
    <3> QED
      BY <3>1 DEF Range
  <2>3. <<b[1], b[2]>> \in Range(rules) \X Terms
    BY <2>1, <2>2 DEF SoundInv, Inv, Matching
  <2> QED
    BY <2>1, <2>3
<1>4. c \in SUBSET AllLits /\ IsFiniteSet(c)
  <2>1. b[1] \in Rules
    BY <1>1, <1>3, RangeIn DEF Inv, Matching
  <2> QED
    BY <1>3, <2>1, InstanceFacts
<1>5. \A m \in SUBSET Atoms, S \in SUBSET Range(ScopeAtoms) : Holds(m, S) => Meets(Ext(m, S), c)
  BY <1>1, <1>3, InstanceMeets DEF SoundInv
<1> HIDE DEF b, c
<1>6. \A m, S : Holds(m, S)' <=> Holds(m, S)
  BY <1>2 DEF Holds
<1>7. ASSUME NEW m \in SUBSET Atoms, NEW S \in SUBSET Range(ScopeAtoms), Holds(m, S)
      PROVE  Sat(clauses', level0', Ext(m, S)) /\ ~Falsified(c)
  <2>1. Sat(clauses, level0, Ext(m, S)) /\ Meets(Ext(m, S), c)
    BY <1>5, <1>7 DEF SoundInv, Followed
  <2> QED
    BY <1>1, <1>2, <1>4, <2>1, AddFacts DEF AddClause
<1>8. Followed'
  <2> SUFFICES ASSUME NEW m \in SUBSET Atoms, NEW S \in SUBSET Range(ScopeAtoms), Holds(m, S)'
               PROVE  Sat(clauses', level0', Ext(m, S))
    BY DEF Followed
  <2> QED
    BY <1>6, <1>7
<1>9. Refuted' /\ Standing'
  BY <1>2, <1>6 DEF SoundInv, Refuted, Standing
<1>10. UnsatSound'
  <2>1. CASE ~Falsified(c)
    BY <1>2, <1>3, <2>1 DEF UnsatSound, NoAnswer
  <2>2. CASE Falsified(c)
    <3> SUFFICES ASSUME NEW m \in SUBSET Atoms, \A f \in Live' : Satisfies(m, f)
                 PROVE  FALSE
      BY DEF UnsatSound
    <3>1. Live' = Live
      BY <1>2 DEF Live
    <3>2. Holds(m, {})
      BY <1>1, <3>1, LiveHolds DEF Inv, Scoped
    <3> QED
      BY <1>7, <2>2, <3>2
  <2> QED
    BY <2>1, <2>2
<1> QED
  BY <1>1, <1>8, <1>9, <1>10 DEF SoundInv

LEMMA InitSound ==
    Init => SoundInv
<1> SUFFICES ASSUME Init
             PROVE  SoundInv
  OBVIOUS
<1>1. Inv
  BY InitInv
<1>2. Followed
  BY DEF Init, Followed, Sat
<1>3. Standing
  BY DEF Init, Standing, Range
<1>4. Refuted /\ UnsatSound
  BY DEF Init, Refuted, UnsatSound, NoAnswer
<1> QED
  BY <1>1, <1>2, <1>3, <1>4 DEF SoundInv

LEMMA NextSound ==
    ASSUME SoundInv, [ApartNext]_vars
    PROVE  SoundInv'
<1>1. ASSUME NEW f \in Formulas, AddFormula(f), assertions' # assertions => Apart(Last(assertions').formula)
      PROVE  SoundInv'
  BY <1>1, AddFormulaSound
<1>2. CASE PushScope
  <2>1. Inv' /\ UNCHANGED <<assertions, clauses, level0, rules, isUnsat>> /\ UnsatSound'
    BY <1>2, PushScopeKeeps DEF SoundInv, PushScope, sat, matcher, UnsatSound, NoAnswer
  <2> QED
    BY <2>1, StillSound
<1>3. ASSUME NEW n \in 1 .. Len(scopes), PopScopes(n)
      PROVE  SoundInv'
  <2>1. Inv' /\ UNCHANGED <<assertions, clauses, level0, rules, isUnsat>> /\ UnsatSound'
    BY <1>3, PopScopesKeeps DEF SoundInv, PopScopes, sat, matcher, UnsatSound, NoAnswer
  <2> QED
    BY <2>1, StillSound
<1>4. ASSUME NEW assumed \in Assumable, NEW r \in RoundLimits, NEW m \in MatchLimits, BeginCheck(assumed, r, m)
      PROVE  SoundInv'
  BY <1>4, BeginCheckSound
<1>5. CASE Solve
  BY <1>5, SolveSound
<1>6. CASE Match
  BY <1>6, MatchSound
<1>7. CASE AssertInstance
  BY <1>7, AssertInstanceSound
<1>8. CASE UNCHANGED vars
  <2>1. Inv'
    BY <1>8, NextInv DEF SoundInv
  <2>2. UNCHANGED <<assertions, scopes, clauses, level0, rules, isUnsat, answer>>
    BY <1>8 DEF vars, sat, matcher
  <2>3. UnsatSound'
    BY <2>2 DEF SoundInv, UnsatSound, Live
  <2> QED
    BY <2>1, <2>2, <2>3, StillSound
<1> QED
  BY <1>1, <1>2, <1>3, <1>4, <1>5, <1>6, <1>7, <1>8 DEF ApartNext, Next, Continue

\* UNSAT is a verdict on the live formulas under the assumptions of the core, whatever
\* was asserted, assumed, refuted and popped before (check, _map_conflict), where rules
\* are formulas of their own outside every scope.
THEOREM UnsatSoundAlways ==
    ApartSpec => []UnsatSound
<1>1. SoundInv => UnsatSound
  BY DEF SoundInv
<1> QED
  BY <1>1, InitSound, NextSound, PTL DEF ApartSpec

(***************************************************************************)
(* SAT.  While the solver is kept, nothing it was told has been lost.       *)
(***************************************************************************)
InForce(s) == \E i \in DOMAIN assertions : assertions[i].scope = s

\* Each assertion is a clause.
Stated == \A i \in DOMAIN assertions : Under(assertions[i].formula, assertions[i].scope) \in clauses
\* Each instance recorded is a clause, or in line to become one.
Delivered == \A p \in instantiated :
    \/ Instance[p[1]][p[2]] \in clauses
    \/ call.phase = "assert" /\ \E b \in Range(call.queue) : b[1] = p[1] /\ b[2] = p[2]
\* The clauses speak of no scope in which nothing was asserted.
Spoken == \A c \in clauses : \A l \in c : Abs(l) \in Range(ScopeAtoms) => InForce(Abs(l))
Matched == \A i \in DOMAIN assertions : assertions[i].formula.rules \subseteq Range(rules)
Kept ==
    /\ Spoken /\ Matched /\ ~refuted
    /\ ~isUnsat => Stated
    /\ Delivered
    /\ call # NoCall => ~isUnsat
    /\ call.phase = "match" => \E m : Sat(clauses, level0, m) /\ \A l \in Assumptions : IsTrue(l, m)
FitInv == Inv /\ spoiled \in BOOLEAN /\ (~spoiled => Kept) /\ SatSaturated

LEMMA StatedMore ==
    ASSUME assertions' = assertions, clauses \subseteq clauses', isUnsat' = isUnsat, ~isUnsat => Stated
    PROVE  ~isUnsat' => Stated'
BY DEF Stated

LEMMA SpokenMore ==
    ASSUME Spoken, NEW c \in SUBSET LitsOf(Atoms), clauses' \subseteq clauses \cup {c}, assertions' = assertions
    PROVE  Spoken'
<1> SUFFICES ASSUME NEW k \in clauses', NEW l \in k, Abs(l) \in Range(ScopeAtoms)
             PROVE  InForce(Abs(l))'
  BY DEF Spoken
<1>1. k \in clauses
  <2> SUFFICES ASSUME k = c
               PROVE  FALSE
    OBVIOUS
  <2>1. Abs(l) \in Atoms
    BY LiteralFacts, EngineAssumption
  <2> QED
    BY <2>1, EngineAssumption
<1>2. InForce(Abs(l))
  BY <1>1 DEF Spoken
<1> QED
  BY <1>2 DEF InForce

\* Unless it is refuted, the engine keeps what it is told.
LEMMA AddFormulaFits ==
    ASSUME Inv, Kept, NEW f \in Formulas, AddFormula(f)
    PROVE  Kept'
<1> DEFINE s == CurrentScope
           c == Under(f, s)
           n == Len(assertions)
<1>1. /\ assertions \in Seq(Asserted) /\ scopes \in Seq(Range(ScopeAtoms)) /\ Clausal(clauses, level0)
      /\ call = NoCall
  BY DEF Inv, Scoped, Solving, Running, AddFormula, Idle, Budgeted, Calls
<1>2. s \in {NoScope} \cup Range(ScopeAtoms)
  BY <1>1, ScopeFacts
<1>3. /\ AddClause(c) /\ isUnsat' = (isUnsat \/ Falsified(c)) /\ refuted' = refuted /\ call' = call
      /\ assertions' = Append(assertions, [formula |-> f, scope |-> s]) /\ instantiated' = instantiated
  BY <1>1, GuardedIs DEF AddFormula, AddClause
<1>4. /\ DOMAIN assertions = 1 .. n /\ n \in Nat /\ DOMAIN assertions' = 1 .. n + 1
      /\ \A i \in 1 .. n : assertions'[i] = assertions[i]
      /\ assertions'[n + 1] = [formula |-> f, scope |-> s]
  <2> HIDE DEF s
  <2> QED
    BY <1>1, <1>2, <1>3, AppendedFacts
<1>5. c \in SUBSET AllLits /\ IsFiniteSet(c)
  <2> HIDE DEF s
  <2> QED
    BY <1>2, FormulaFacts
<1> HIDE DEF s, c, n
<1>6. clauses \subseteq clauses' /\ clauses' \subseteq clauses \cup {c} /\ (~Falsified(c) => c \in clauses')
  BY <1>1, <1>3, <1>5, AddFacts DEF AddClause
<1>7. Spoken'
  <2> SUFFICES ASSUME NEW k \in clauses', NEW l \in k, Abs(l) \in Range(ScopeAtoms)
               PROVE  \E i \in DOMAIN assertions' : assertions'[i].scope = Abs(l)
    BY DEF Spoken, InForce
  <2>1. CASE k \in clauses
    <3>1. PICK i \in DOMAIN assertions : assertions[i].scope = Abs(l)
      BY <2>1 DEF Kept, Spoken, InForce
    <3>2. i \in DOMAIN assertions' /\ assertions'[i] = assertions[i]
      BY <1>4
    <3> QED
      BY <3>1, <3>2
  <2>2. CASE k = c
    <3>1. l \notin f.lits
      <4>1. \A x \in f.lits : Abs(x) \in Atoms
        BY VocabularyAssumption, LiteralFacts, EngineAssumption
      <4> QED
        BY <4>1, EngineAssumption
    <3>2. l \notin {RuleAtom[r] : r \in f.rules}
      <4> SUFFICES ASSUME NEW r \in f.rules, l = RuleAtom[r]
                   PROVE  FALSE
        OBVIOUS
      <4>1. r \in Rules
        BY VocabularyAssumption
      <4>2. l \in Nat \ {0} /\ l \in Range(RuleAtom)
        BY <4>1, EngineAssumption DEF Range
      <4>3. Abs(l) = l
        BY <4>2 DEF Abs
      <4> QED
        BY <4>2, <4>3, EngineAssumption
    <3>3. l = -s /\ s # NoScope
      BY <2>2, <3>1, <3>2 DEF c, Under, Plain
    <3>4. Abs(l) = s
      <4>1. s \in Nat \ {0}
        BY <1>1, <1>2, <3>3, ScopeFacts
      <4> QED
        BY <3>3, <4>1 DEF Abs
    <3>5. n + 1 \in DOMAIN assertions' /\ assertions'[n + 1].scope = s
      BY <1>4
    <3> QED
      BY <3>4, <3>5
  <2> QED
    BY <1>6, <2>1, <2>2
<1>8. Matched'
  <2>1. Range(rules') = Range(rules) \cup f.rules
    BY RulesAdded DEF AddFormula, Inv, Matching
  <2>2. \A i \in 1 .. n : assertions[i].formula.rules \subseteq Range(rules)
    BY <1>4 DEF Kept, Matched
  <2>3. \A i \in 1 .. n + 1 : assertions'[i].formula.rules \subseteq Range(rules')
    <3> SUFFICES ASSUME NEW i \in 1 .. n + 1
                 PROVE  assertions'[i].formula.rules \subseteq Range(rules')
      OBVIOUS
    <3>1. CASE i \in 1 .. n
      BY <1>4, <2>1, <2>2, <3>1
    <3>2. CASE i = n + 1
      BY <1>4, <2>1, <3>2
    <3> QED
      BY <1>4, <3>1, <3>2
  <2> QED
    BY <1>4, <2>3 DEF Matched
<1>9. ~isUnsat' => Stated'
  <2> SUFFICES ASSUME ~isUnsat', NEW i \in 1 .. n + 1
               PROVE  Under(assertions'[i].formula, assertions'[i].scope) \in clauses'
    BY <1>4 DEF Stated
  <2>1. CASE i \in 1 .. n
    <3>1. Under(assertions[i].formula, assertions[i].scope) \in clauses
      BY <1>3, <1>4, <2>1 DEF Kept, Stated
    <3> QED
      BY <1>4, <1>6, <2>1, <3>1
  <2>2. CASE i = n + 1
    <3>1. assertions'[i].formula = f /\ assertions'[i].scope = s
      BY <1>4, <2>2
    <3>2. c \in clauses'
      BY <1>3, <1>6
    <3> QED
      BY <3>1, <3>2 DEF c
  <2> QED
    BY <1>4, <2>1, <2>2
<1>10. Delivered'
  BY <1>1, <1>3, <1>6 DEF Kept, Delivered, NoCall
<1> QED
  BY <1>1, <1>3, <1>7, <1>8, <1>9, <1>10 DEF Kept, NoCall

\* The calls that change neither the assertions nor what the solver keeps.
LEMMA IdleFits ==
    ASSUME Kept, Idle, UNCHANGED <<assertions, sat, rules, instantiated, isUnsat>>,
           call'.phase # "match", call' # NoCall => ~isUnsat
    PROVE  Kept'
<1>1. Spoken' /\ Matched' /\ refuted' = refuted
  BY DEF Kept, Spoken, Matched, InForce, sat
<1>2. ~isUnsat' => Stated'
  BY DEF Kept, Stated, sat
<1>3. Delivered'
  BY DEF Kept, Delivered, sat, Idle
<1> QED
  BY <1>1, <1>2, <1>3 DEF Kept

\* What a check learns takes no model from it.
LEMMA SolveFits ==
    ASSUME Inv, Kept, Solve, ~Spoils
    PROVE  Kept'
<1>1. Clausal(clauses, level0) /\ call # NoCall /\ ~isUnsat /\ call \in Calls
  BY DEF Kept, Inv, Solving, Running, Solve, NoCall, Budgeted
<1>2. UNCHANGED <<assertions, scopes, clauses, rules, instantiated, isUnsat>>
  BY DEF Solve, matcher
<1>3. Spoken' /\ Matched' /\ Stated'
  BY <1>1, <1>2 DEF Kept, Spoken, Matched, InForce, Stated
<1>4. Delivered'
  BY <1>2 DEF Kept, Delivered, Solve
<1>5. CASE /\ refuted \/ ~Contradictory(Assumptions)
           /\ call' = [call EXCEPT !.phase = "match"]
           /\ UNCHANGED <<refuted, answer>>
  <2>1. PICK m \in Models(Assumptions) : TRUE
    BY <1>5 DEF Kept, Contradictory
  <2>2. Sat(clauses, level0, m) /\ \A l \in Assumptions : IsTrue(l, m)
    BY <1>1, <2>1, AssumptionsFacts, ModelsAre
  <2>3. Sat(clauses', level0', m)
    BY <1>1, <1>2, <2>2, SolvedFacts DEF Solve
  <2>4. call'.assumed = call.assumed
    BY <1>1, <1>5 DEF Calls
  <2>5. Assumptions' = Assumptions
    BY <1>2, <2>4 DEF Assumptions, ScopesUsed
  <2>6. \E k : Sat(clauses', level0', k) /\ \A l \in Assumptions' : IsTrue(l, k)
    BY <2>2, <2>3, <2>5
  <2> QED
    BY <1>1, <1>2, <1>3, <1>4, <1>5, <2>6 DEF Kept
<1>6. CASE \E core \in SUBSET Assumptions :
             Finish("UNSAT", core \cap call.assumed, call) /\ refuted' = (refuted \/ core = {})
  <2>1. PICK core \in SUBSET Assumptions :
             Finish("UNSAT", core \cap call.assumed, call) /\ refuted' = (refuted \/ core = {})
    BY <1>6
  <2>2. answer'.verdict = "UNSAT" /\ answer'.core = core \cap call.assumed /\ call' = NoCall
    BY <2>1 DEF Finish, Answer
  <2>3. core # {}
    BY <2>2 DEF Spoils
  <2> QED
    BY <1>1, <1>3, <1>4, <2>1, <2>2, <2>3 DEF Kept, NoCall
<1> QED
  BY <1>5, <1>6 DEF Solve

\* When a complete round finds nothing, every model of the solver is saturated.
LEMMA RoundSaturates ==
    ASSUME Inv, Kept, call.phase = "match", Found(Work) = <<>>, Len(Considered(Work)) = Len(Work),
           NEW lits, lits = Range(scopes) \cup call.assumed
    PROVE  /\ Models(lits) # {}
           /\ \A m \in Models(lits), f \in Live :
                \/ \E l \in f.lits : IsTrue(l, m)
                \/ \E r \in f.rules : \A t \in Reached(r) : \E l \in Instance[r][t] : IsTrue(l, m)
<1>1. /\ Clausal(clauses, level0) /\ call # NoCall /\ ~isUnsat /\ scopes \in Seq(Range(ScopeAtoms))
      /\ assertions \in Seq(Asserted)
  BY DEF Kept, Inv, Solving, Scoped, NoCall
<1>2. /\ call.assumed \subseteq LitsOf(Atoms) /\ ScopesUsed \subseteq Range(scopes)
      /\ Range(scopes) \subseteq Range(ScopeAtoms) /\ Range(ScopeAtoms) \subseteq Nat \ {0}
  BY <1>1, AssumptionsFacts, ScopesUsedIn, ScopeFacts
<1>3. lits \in SUBSET AllLits
  BY <1>2 DEF AllLits, AllVars, LitsOf
<1>4. Models(lits) = {m \in SUBSET Vars(lits) : Sat(clauses, level0, m) /\ \A l \in lits : IsTrue(l, m)}
  BY <1>1, <1>3, ModelsAre
<1>5. Models(lits) # {}
  <2>1. PICK m : Sat(clauses, level0, m) /\ \A l \in Assumptions : IsTrue(l, m)
    BY DEF Kept
  <2> DEFINE n == m \cup Range(scopes)
  <2>2. \A s \in Range(scopes) : InForce(s) => s \in m
    <3> SUFFICES ASSUME NEW s \in Range(scopes), InForce(s)
                 PROVE  s \in m
      OBVIOUS
    <3>1. s \in Assumptions
      BY DEF InForce, Assumptions, ScopesUsed
    <3>2. IsTrue(s, m) /\ s > 0
      BY <1>2, <2>1, <3>1
    <3> QED
      BY <3>2 DEF IsTrue
  <2>3. \A c \in clauses : \A l \in c : l \in AllLits /\ (Abs(l) \in m <=> Abs(l) \in n)
    <3> SUFFICES ASSUME NEW c \in clauses, NEW l \in c
                 PROVE  l \in AllLits /\ (Abs(l) \in n => Abs(l) \in m)
      OBVIOUS
    <3>1. l \in AllLits
      BY <1>1 DEF Clausal
    <3>2. ASSUME Abs(l) \in Range(scopes)
          PROVE  Abs(l) \in m
      <4>1. InForce(Abs(l))
        BY <1>2, <3>2 DEF Kept, Spoken
      <4> QED
        BY <2>2, <3>2, <4>1
    <3> QED
      BY <3>1, <3>2
  <2> HIDE DEF n
  <2>4. \A c \in clauses : \A l \in c : IsTrue(l, m) <=> IsTrue(l, n)
    BY <2>3, TruthAgrees
  <2>5. \A l \in level0 : IsTrue(l, n)
    <3> SUFFICES ASSUME NEW l \in level0
                 PROVE  IsTrue(l, n)
      OBVIOUS
    <3>1. PICK k \in UNION clauses : Abs(k) = Abs(l)
      BY <1>1 DEF Clausal
    <3>2. Abs(l) \in m <=> Abs(l) \in n
      BY <2>3, <3>1
    <3>3. l \in AllLits /\ IsTrue(l, m)
      BY <1>1, <2>1 DEF Clausal, Sat
    <3> QED
      BY <3>2, <3>3, TruthAgrees
  <2>6. Sat(clauses, level0, n)
    BY <2>1, <2>4, <2>5 DEF Sat, Meets
  <2>7. \A l \in lits : IsTrue(l, n)
    <3> SUFFICES ASSUME NEW l \in lits
                 PROVE  IsTrue(l, n)
      OBVIOUS
    <3>1. CASE l \in Range(scopes)
      <4>1. l \in n /\ l > 0
        BY <1>2, <3>1 DEF n
      <4> QED
        BY <4>1 DEF IsTrue
    <3>2. CASE l \in call.assumed
      <4>1. l \in LitsOf(Atoms) /\ IsTrue(l, m)
        BY <1>2, <2>1, <3>2 DEF Assumptions
      <4>2. Abs(l) \in Atoms
        BY <4>1, LiteralFacts, EngineAssumption
      <4>3. Abs(l) \in m <=> Abs(l) \in n
        BY <1>2, <4>2, EngineAssumption DEF n
      <4> QED
        BY <1>3, <4>1, <4>3, TruthAgrees
    <3> QED
      BY <3>1, <3>2
  <2>8. n \cap Vars(lits) \in Models(lits)
    BY <1>1, <1>3, <2>6, <2>7, Restricted
  <2> QED
    BY <2>8
<1>6. ASSUME NEW m \in Models(lits), NEW f \in Live
      PROVE  \/ \E l \in f.lits : IsTrue(l, m)
             \/ \E r \in f.rules : \A t \in Reached(r) : \E l \in Instance[r][t] : IsTrue(l, m)
  <2>1. (\A c \in clauses : Meets(m, c)) /\ \A l \in lits : IsTrue(l, m)
    BY <1>4 DEF Sat
  <2>2. PICK i \in DOMAIN assertions : assertions[i].formula = f /\ assertions[i].scope \in {NoScope} \cup Range(scopes)
    BY DEF Live
  <2> DEFINE s == assertions[i].scope
  <2>3. Meets(m, Under(f, s))
    BY <1>1, <2>1, <2>2 DEF Kept, Stated
  <2>4. s # NoScope => ~IsTrue(-s, m)
    <3> SUFFICES ASSUME s # NoScope
                 PROVE  ~IsTrue(-s, m)
      OBVIOUS
    <3>1. s \in Range(scopes)
      BY <2>2
    <3>2. IsTrue(s, m) /\ s \in AllLits
      BY <1>3, <2>1, <3>1
    <3> QED
      BY <3>2, AllLitsFacts
  <2> HIDE DEF s
  <2>5. Meets(m, Plain(f))
    BY <2>3, <2>4 DEF Under, Meets
  <2>6. CASE \E l \in f.lits : IsTrue(l, m)
    BY <2>6
  <2>7. CASE \E r \in f.rules : IsTrue(RuleAtom[r], m)
    <3>1. PICK r \in f.rules : IsTrue(RuleAtom[r], m)
      BY <2>7
    <3>2. r \in Range(rules)
      BY <2>2 DEF Kept, Matched
    <3>3. \A t \in Reached(r) : <<r, t>> \in instantiated
      BY <1>1, <3>2, MatchFacts
    <3>4. \A t \in Reached(r) : Instance[r][t] \in clauses
      BY <3>3 DEF Kept, Delivered
    <3> QED
      BY <2>1, <3>4 DEF Meets
  <2> QED
    BY <2>5, <2>6, <2>7 DEF Plain, Meets
<1> QED
  BY <1>5, <1>6

\* A round that answers SAT has found all there is; another has its instances in line.
LEMMA MatchFits ==
    ASSUME Inv, Kept, Match, ~Spoils
    PROVE  Kept' /\ SatSaturated'
<1> DEFINE found == Found(Work)
           n == Len(Considered(Work))
           spent == Spent(n, Len(Work))
<1>1. /\ instantiated' = Recorded(found)
      /\ IF found = <<>> \/ CapReached
           THEN Finish(Verdict(found, spent.truncated), {}, spent)
           ELSE call' = [spent EXCEPT !.phase = "assert", !.queue = found] /\ UNCHANGED answer
      /\ UNCHANGED <<assertions, scopes, clauses, level0, refuted, rules, apps, depth, isUnsat>>
  BY DEF Match, sat, matcher
<1>2. call # NoCall /\ call \in Calls /\ ~isUnsat /\ answer = NoAnswer /\ call.phase = "match"
  BY DEF Kept, Inv, Running, Match, NoCall, Budgeted
<1>3. spent \in Calls /\ spent.assumed = call.assumed /\ (~spent.truncated => n = Len(Work))
  <2>1. /\ Work \in Seq(Rules \X Nat \X Apps) /\ Len(Work) \in Nat
        /\ call.left \in Nat \cup {Unlimited} /\ call.used \in Nat /\ call.truncated \in BOOLEAN
    BY <1>2, WorkFacts, LenProperties DEF Inv, Matching, Calls
  <2>2. /\ n \in 0 .. Len(Work) /\ (call.left = Unlimited => n = Len(Work))
        /\ (call.left # Unlimited => n <= call.left)
    BY <2>1, ConsideredFacts
  <2> HIDE DEF n
  <2>3. CASE call.left = Unlimited
    BY <1>2, <2>2, <2>3 DEF Spent
  <2>4. CASE call.left # Unlimited
    <3>1. spent = [call EXCEPT !.used = @ + n, !.left = @ - n, !.truncated = @ \/ n < Len(Work)]
      BY <2>4 DEF Spent
    <3>2. (call.left - n) \in Nat /\ (call.used + n) \in Nat /\ (call.truncated \/ n < Len(Work)) \in BOOLEAN
      BY <2>1, <2>2, <2>4
    <3>3. spent \in Calls
      BY <1>2, <3>1, <3>2 DEF Calls
    <3>4. spent.assumed = call.assumed /\ (spent.truncated <=> call.truncated \/ n < Len(Work))
      BY <1>2, <3>1 DEF Calls
    <3> HIDE DEF spent
    <3>5. ~spent.truncated => n = Len(Work)
      BY <2>1, <2>2, <3>4
    <3> QED
      BY <3>3, <3>4, <3>5
  <2> QED
    BY <2>3, <2>4
<1>4. found \in Seq(Bindings)
  BY <1>2, MatchFacts
<1> HIDE DEF spent, n, found
<1>5. Spoken' /\ Matched' /\ Stated' /\ ~refuted' /\ ~isUnsat'
  BY <1>1, <1>2 DEF Kept, Spoken, Matched, InForce, Stated
<1>6. \A p \in instantiated : Instance[p[1]][p[2]] \in clauses'
  BY <1>1, <1>2 DEF Kept, Delivered
<1>7. CASE found = <<>> \/ CapReached
  <2>1. /\ call' = NoCall /\ answer' = Answer(Verdict(found, spent.truncated), {}, spent)
        /\ answer'.verdict = Verdict(found, spent.truncated) /\ answer'.assumed = call.assumed
    BY <1>1, <1>3, <1>7 DEF Finish, Answer
  <2>2. found = <<>> /\ ~spent.truncated
    BY <2>1 DEF Spoils, Verdict
  <2>3. instantiated' = instantiated
    BY <1>1, <2>2 DEF Recorded, Range
  <2>4. Kept'
    BY <1>5, <1>6, <2>1, <2>3 DEF Kept, Delivered, NoCall
  <2> DEFINE lits == Range(scopes) \cup call.assumed
  <2>5. /\ Models(lits) # {}
        /\ \A m \in Models(lits), f \in Live :
             \/ \E l \in f.lits : IsTrue(l, m)
             \/ \E r \in f.rules : \A t \in Reached(r) : \E l \in Instance[r][t] : IsTrue(l, m)
    BY <1>2, <1>3, <2>2, RoundSaturates DEF found, n
  <2>6. (Range(scopes) \cup answer.assumed)' = lits
    BY <1>1, <2>1
  <2>7. \A v : Models(v)' = Models(v)
    BY <1>1 DEF Models, Vars
  <2>8. Live' = Live /\ \A r : Reached(r)' = Reached(r)
    BY <1>1 DEF Live, Reached, Depth
  <2>9. Models(Range(scopes) \cup answer.assumed)' = Models(lits)
    BY <1>1, <2>6 DEF Models, Vars
  <2> HIDE DEF lits
  <2>10. SatSaturated'
    BY <2>5, <2>8, <2>9 DEF SatSaturated
  <2> QED
    BY <2>4, <2>10
<1>8. CASE ~(found = <<>> \/ CapReached)
  <2>1. call' = [spent EXCEPT !.phase = "assert", !.queue = found] /\ answer' = NoAnswer
    BY <1>1, <1>2, <1>8
  <2>2. call'.phase = "assert" /\ call'.queue = found
    BY <1>3, <2>1 DEF Calls
  <2>3. Delivered'
    <3> SUFFICES ASSUME NEW p \in instantiated'
                 PROVE  Instance[p[1]][p[2]] \in clauses' \/ \E b \in Range(found) : b[1] = p[1] /\ b[2] = p[2]
      BY <2>2 DEF Delivered
    <3>1. p \in instantiated \/ \E b \in Range(found) : p = <<b[1], b[2]>>
      BY <1>1 DEF Recorded
    <3> QED
      BY <1>6, <3>1
  <2> QED
    BY <1>5, <2>1, <2>2, <2>3 DEF Kept, SatSaturated, NoAnswer
<1> QED
  BY <1>7, <1>8

\* The next instance becomes a clause, or the engine is refuted.
LEMMA AssertInstanceFits ==
    ASSUME Inv, Kept, AssertInstance, ~Spoils
    PROVE  Kept' /\ SatSaturated'
<1> DEFINE q == call.queue
           b == Head(q)
           c == Instance[b[1]][b[2]]
<1>1. /\ call # NoCall /\ call \in Calls /\ ~isUnsat /\ answer = NoAnswer /\ q # <<>> /\ q \in Seq(Bindings)
      /\ Clausal(clauses, level0)
  BY DEF Kept, Inv, Solving, Running, AssertInstance, NoCall, Budgeted, Calls
<1>2. /\ AddClause(c) /\ (Falsified(c) => Finish("UNSAT", {}, call))
      /\ UNCHANGED <<assertions, scopes, rules, instantiated, isUnsat, refuted>>
  BY DEF AssertInstance, AddClause
<1>3. ~Falsified(c)
  BY <1>2 DEF Spoils, Finish, Answer
<1>4. /\ call' = IF Len(q) > 1 THEN [call EXCEPT !.queue = Tail(@)]
                 ELSE [call EXCEPT !.queue = <<>>, !.phase = "solve",
                             !.rounds = IF call.maxRounds = Unlimited THEN @ ELSE @ + 1]
      /\ answer' = NoAnswer
  BY <1>1, <1>3 DEF AssertInstance
<1>5. /\ b \in Bindings /\ Len(q) \in Nat \ {0} /\ DOMAIN q = 1 .. Len(q) /\ q[1] = b
      /\ Tail(q) \in Seq(Bindings) /\ Len(Tail(q)) = Len(q) - 1
      /\ \A i \in 1 .. Len(Tail(q)) : Tail(q)[i] = q[i + 1]
      /\ DOMAIN Tail(q) = 1 .. Len(Tail(q))
  <2> HIDE DEF q
  <2>1. b \in Bindings /\ q[1] = b
    BY <1>1, HeadTailProperties
  <2>2. Len(q) \in Nat \ {0} /\ DOMAIN q = 1 .. Len(q)
    BY <1>1, EmptySeq, LenProperties
  <2>3. /\ Tail(q) \in Seq(Bindings) /\ Len(Tail(q)) = Len(q) - 1
        /\ \A i \in 1 .. Len(Tail(q)) : Tail(q)[i] = q[i + 1]
    BY <1>1, HeadTailProperties
  <2>4. DOMAIN Tail(q) = 1 .. Len(Tail(q))
    BY <2>3, LenProperties
  <2> QED
    BY <2>1, <2>2, <2>3, <2>4
<1>6. c \in SUBSET AllLits /\ IsFiniteSet(c) /\ c \in SUBSET LitsOf(Atoms)
  <2>1. b[1] \in Rules /\ b[2] \in Terms
    BY <1>5 DEF Bindings
  <2> QED
    BY <2>1, InstanceFacts, VocabularyAssumption
<1> HIDE DEF c
<1>7. clauses \subseteq clauses' /\ clauses' \subseteq clauses \cup {c} /\ c \in clauses'
  <2>1. clauses' \in ClausesWith(c) /\ level0' = level0 \cup UnitsOf(c)
    BY <1>2 DEF AddClause
  <2>2. Clausal(clauses, level0) /\ c \in SUBSET AllLits /\ IsFiniteSet(c)
    BY <1>1, <1>6
  <2>3. /\ clauses \subseteq clauses' /\ clauses' \subseteq clauses \cup {c}
        /\ ~Falsified(c) => c \in clauses'
    BY ONLY <2>1, <2>2, AddFacts
  <2> QED
    BY <1>3, <2>3
<1>8. Spoken' /\ Matched' /\ ~refuted'
  <2>1. Spoken'
    BY <1>2, <1>6, <1>7, SpokenMore DEF Kept
  <2> QED
    BY <1>2, <2>1 DEF Kept, Matched
<1>9. Stated' /\ ~isUnsat'
  BY <1>1, <1>2, <1>7 DEF Kept, Stated
<1>10. CASE Len(q) > 1
  <2>1. call'.phase = "assert" /\ call'.queue = Tail(q)
    BY <1>1, <1>4, <1>10 DEF Calls, AssertInstance
  <2>2. Delivered'
    <3> SUFFICES ASSUME NEW p \in instantiated,
                        \A x \in Range(Tail(q)) : ~(x[1] = p[1] /\ x[2] = p[2])
                 PROVE  Instance[p[1]][p[2]] \in clauses'
      BY <1>2, <2>1 DEF Delivered
    <3>1. CASE Instance[p[1]][p[2]] \in clauses
      BY <1>7, <3>1
    <3>2. CASE \E x \in Range(q) : x[1] = p[1] /\ x[2] = p[2]
      <4>1. PICK i \in 1 .. Len(q) : q[i][1] = p[1] /\ q[i][2] = p[2]
        BY <1>5, <3>2 DEF Range
      <4>2. i = 1
        <5> SUFFICES ASSUME i # 1
                     PROVE  FALSE
          OBVIOUS
        <5>1. i - 1 \in 1 .. Len(Tail(q)) /\ (i - 1) + 1 = i
          BY <1>5
        <5>2. Tail(q)[i - 1] = q[i]
          BY <1>5, <5>1
        <5>3. q[i] \in Range(Tail(q))
          BY <1>5, <5>1, <5>2 DEF Range
        <5> QED
          BY <4>1, <5>3
      <4> QED
        BY <1>5, <1>7, <4>1, <4>2 DEF c
    <3> QED
      BY <3>1, <3>2 DEF Kept, Delivered
  <2> QED
    BY <1>4, <1>8, <1>9, <2>1, <2>2 DEF Kept, SatSaturated, NoAnswer
<1>11. CASE ~(Len(q) > 1)
  <2>1. call'.phase = "solve"
    BY <1>1, <1>4, <1>11 DEF Calls
  <2>2. Delivered'
    <3> SUFFICES ASSUME NEW p \in instantiated
                 PROVE  Instance[p[1]][p[2]] \in clauses'
      BY <1>2 DEF Delivered
    <3>1. CASE Instance[p[1]][p[2]] \in clauses
      BY <1>7, <3>1
    <3>2. CASE \E x \in Range(q) : x[1] = p[1] /\ x[2] = p[2]
      <4>1. PICK i \in 1 .. Len(q) : q[i][1] = p[1] /\ q[i][2] = p[2]
        BY <1>5, <3>2 DEF Range
      <4>2. i = 1
        BY <1>5, <1>11
      <4> QED
        BY <1>5, <1>7, <4>1, <4>2 DEF c
    <3> QED
      BY <3>1, <3>2 DEF Kept, Delivered
  <2> QED
    BY <1>4, <1>8, <1>9, <2>1, <2>2 DEF Kept, SatSaturated, NoAnswer
<1> QED
  BY <1>10, <1>11

LEMMA InitFits ==
    UseInit => FitInv
<1> SUFFICES ASSUME UseInit
             PROVE  FitInv
  OBVIOUS
<1>1. Inv
  BY InitInv DEF UseInit
<1>2. Kept
  BY DEF UseInit, Init, Kept, Spoken, Matched, Stated, Delivered, NoCall
<1> QED
  BY <1>1, <1>2 DEF FitInv, UseInit, Init, SatSaturated, NoAnswer

LEMMA NextFits ==
    ASSUME FitInv, [UseNext]_useVars
    PROVE  FitInv'
<1>1. Inv'
  <2>1. [Next]_vars
    BY DEF UseNext, ApartNext, useVars
  <2> QED
    BY <2>1, NextInv DEF FitInv
<1>2. CASE UNCHANGED useVars
  <2>1. UNCHANGED <<assertions, scopes, made, clauses, level0, pending, refuted, apps, depth, rules, instantiated,
                    isUnsat, call, answer, checks, spoiled>>
    BY <1>2 DEF useVars, vars, sat, matcher
  <2>2. Kept <=> Kept'
    BY <2>1 DEF Kept, Spoken, Matched, Stated, Delivered, InForce, Assumptions, ScopesUsed
  <2>3. Models(Range(scopes) \cup answer.assumed)' = Models(Range(scopes) \cup answer.assumed)
    BY <2>1 DEF Models, Vars
  <2>4. Live' = Live /\ (\A r : Reached(r)' = Reached(r)) /\ answer' = answer
    BY <2>1 DEF Live, Reached, Depth
  <2>5. SatSaturated'
    BY <2>3, <2>4 DEF FitInv, SatSaturated
  <2> QED
    BY <1>1, <2>1, <2>2, <2>5 DEF FitInv
<1>3. CASE UseNext
  <2>1. Kept /\ Inv /\ spoiled' = Spoils /\ spoiled' \in BOOLEAN /\ Next
    BY <1>3 DEF FitInv, UseNext, ApartNext, Spoils
  <2>2. CASE Spoils
    BY <1>1, <2>1, <2>2 DEF FitInv, SatSaturated, Spoils
  <2>3. CASE ~Spoils
    <3>1. ASSUME NEW f \in Formulas, AddFormula(f)
          PROVE  Kept' /\ SatSaturated'
      BY <2>1, <3>1, AddFormulaFits DEF AddFormula, SatSaturated, NoAnswer
    <3>2. ASSUME PushScope \/ \E n \in 1 .. Len(scopes) : PopScopes(n)
          PROVE  Kept' /\ SatSaturated'
      <4>1. /\ Idle /\ UNCHANGED <<assertions, sat, rules, instantiated, isUnsat, call>>
            /\ answer' = NoAnswer
        BY <3>2 DEF PushScope, PopScopes, matcher
      <4>2. call' = NoCall
        BY <2>1, <4>1 DEF Inv, Running, Idle, Budgeted, Calls
      <4> QED
        BY <2>1, <4>1, <4>2, IdleFits DEF SatSaturated, NoAnswer, NoCall
    <3>3. ASSUME NEW assumed \in Assumable, NEW r \in RoundLimits, NEW m \in MatchLimits, BeginCheck(assumed, r, m)
          PROVE  Kept' /\ SatSaturated'
      <4>1. ~isUnsat
        BY <2>3, <3>3 DEF BeginCheck, Spoils, Answer
      <4>2. /\ Idle /\ UNCHANGED <<assertions, sat, rules, instantiated, isUnsat>> /\ answer' = NoAnswer
            /\ call'.phase = "solve"
        BY <3>3, <4>1 DEF BeginCheck
      <4> QED
        BY <2>1, <4>1, <4>2, IdleFits DEF SatSaturated, NoAnswer
    <3>4. ASSUME Solve
          PROVE  Kept' /\ SatSaturated'
      <4>1. answer'.verdict # "SAT"
        <5>1. answer = NoAnswer
          BY <2>1, <3>4 DEF Inv, Running, Solve, NoCall
        <5> QED
          BY <3>4, <5>1 DEF Solve, Finish, Answer, NoAnswer
      <4> QED
        BY <2>1, <2>3, <3>4, <4>1, SolveFits DEF SatSaturated
    <3>5. ASSUME Match
          PROVE  Kept' /\ SatSaturated'
      BY <2>1, <2>3, <3>5, MatchFits
    <3>6. ASSUME AssertInstance
          PROVE  Kept' /\ SatSaturated'
      BY <2>1, <2>3, <3>6, AssertInstanceFits
    <3>7. Kept' /\ SatSaturated'
      BY <2>1, <3>1, <3>2, <3>3, <3>4, <3>5, <3>6 DEF Next, Continue
    <3> QED
      BY <1>1, <2>1, <3>7 DEF FitInv
  <2> QED
    BY <2>2, <2>3
<1> QED
  BY <1>2, <1>3

\* SAT is only answered with a model, and every model the solver could answer with
\* satisfies the live formulas and each instance of a live rule within reach of the
\* matcher, while a solver that answered UNKNOWN or refuted its formulas is dropped.
THEOREM SatSaturatedAlways ==
    UseSpec => []SatSaturated
<1>1. FitInv => SatSaturated
  BY DEF FitInv
<1> QED
  BY <1>1, InitFits, NextFits, PTL DEF UseSpec
=============================================================================
