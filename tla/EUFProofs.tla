------------------------------ MODULE EUFProofs ------------------------------
(***************************************************************************)
(* What the theory of equality promises, for every set of terms: its classes *)
(* are the congruence closure of what was asserted, its explanations entail,  *)
(* it reports every equality that becomes true, and a roll back is exact.    *)
(***************************************************************************)
EXTENDS EUFTraced, FiniteSetTheorems, SequenceTheorems, WellFoundedInduction, TLAPS

LEMMA LeastOf ==
    ASSUME NEW S, S \subseteq Nat, S # {}
    PROVE  \E n \in S : \A m \in S : n <= m
<1> DEFINE Less == {ss \in Nat \X Nat : ss[1] < ss[2]}
<1>1. IsWellFoundedOn(Less, Nat)
  BY NatLessThanWellFounded DEF OpToRel
<1>2. PICK n \in S : \A m \in S : ~(<<m, n>> \in Less)
  <2> HIDE DEF Less
  <2> QED
    BY <1>1, WFMin
<1>3. ASSUME NEW m \in S
      PROVE  n <= m
  <2>1. ~(m < n)
    BY <1>2
  <2> QED
    BY <2>1
<1> QED
  BY <1>3

(***************************************************************************)
(* Forests.  A time tells when a term was put under another one; the roots,  *)
(* which were not yet, have the time of the next merge.                     *)
(***************************************************************************)
Up(reg, par, x) ==
    {y \in reg : \A S \in SUBSET reg : x \in S /\ (\A z \in S : par[z] \in S) => y \in S}
RootOf(reg, par, x) == CHOOSE r \in Up(reg, par, x) : par[r] = r

Timed(reg, par, time, n) ==
    /\ par \in [reg -> reg] /\ n \in Nat /\ time \in [reg -> Nat]
    /\ \A x \in reg : par[x] = x => time[x] = n
    /\ \A x \in reg : par[x] # x => time[x] < n /\ time[x] < time[par[x]]

\* What is above a term: the least set with it that holds the parents.
LEMMA UpFacts ==
    ASSUME NEW reg, NEW par \in [reg -> reg], NEW x \in reg
    PROVE  /\ x \in Up(reg, par, x) /\ Up(reg, par, x) \subseteq reg
           /\ \A z \in Up(reg, par, x) : par[z] \in Up(reg, par, x)
           /\ \A S \in SUBSET reg : x \in S /\ (\A z \in S : par[z] \in S) => Up(reg, par, x) \subseteq S
<1>1. ASSUME NEW z \in Up(reg, par, x)
      PROVE  par[z] \in Up(reg, par, x)
  BY DEF Up
<1> QED
  BY <1>1 DEF Up

LEMMA UpHolds ==
    ASSUME NEW reg, NEW par \in [reg -> reg], NEW x \in reg, NEW y \in Up(reg, par, x)
    PROVE  y \in reg /\ Up(reg, par, y) \subseteq Up(reg, par, x)
<1>1. /\ Up(reg, par, x) \in SUBSET reg
      /\ \A z \in Up(reg, par, x) : par[z] \in Up(reg, par, x)
  BY UpFacts
<1>2. y \in reg
  BY <1>1
<1> QED
  BY <1>1, <1>2, UpFacts

LEMMA UpUnfolds ==
    ASSUME NEW reg, NEW par \in [reg -> reg], NEW x \in reg
    PROVE  Up(reg, par, x) = {x} \cup Up(reg, par, par[x])
<1> DEFINE U == {x} \cup Up(reg, par, par[x])
<1>1. par[x] \in reg
  OBVIOUS
<1>2. /\ par[x] \in Up(reg, par, par[x]) /\ Up(reg, par, par[x]) \subseteq reg
      /\ \A z \in Up(reg, par, par[x]) : par[z] \in Up(reg, par, par[x])
  BY <1>1, UpFacts
<1>3. U \in SUBSET reg /\ x \in U /\ \A z \in U : par[z] \in U
  BY <1>2
<1>4. x \in Up(reg, par, x) /\ par[x] \in Up(reg, par, x)
  BY UpFacts
<1>5. Up(reg, par, par[x]) \subseteq Up(reg, par, x)
  BY <1>4, UpHolds
<1> HIDE DEF U
<1>6. Up(reg, par, x) \subseteq U
  BY <1>3, UpFacts
<1> QED
  BY <1>4, <1>5, <1>6 DEF U

\* What is above a term was put under something later.
LEMMA UpLater ==
    ASSUME NEW reg, NEW par, NEW time, NEW n, Timed(reg, par, time, n), NEW x \in reg,
           NEW y \in Up(reg, par, x)
    PROVE  y = x \/ time[x] < time[y]
<1> DEFINE S == {x} \cup {z \in reg : time[x] < time[z]}
<1>1. par \in [reg -> reg] /\ time \in [reg -> Nat] /\ n \in Nat
  BY DEF Timed
<1>2. ASSUME NEW z \in S
      PROVE  par[z] \in S
  <2>1. z \in reg /\ par[z] \in reg
    BY <1>1
  <2>2. CASE par[z] = z
    BY <2>2
  <2>3. CASE par[z] # z
    <3>1. time[z] < time[par[z]]
      BY <2>1, <2>3 DEF Timed
    <3>2. time[x] \in Nat /\ time[z] \in Nat /\ time[par[z]] \in Nat
      BY <1>1, <2>1
    <3> QED
      BY <2>1, <3>1, <3>2
  <2> QED
    BY <2>2, <2>3
<1>3. S \in SUBSET reg /\ x \in S
  OBVIOUS
<1>4. Up(reg, par, x) \subseteq S
  <2> HIDE DEF S
  <2> QED
    BY <1>1, <1>2, <1>3, UpFacts
<1> QED
  BY <1>4

LEMMA UpOrdered ==
    ASSUME NEW reg, NEW par, NEW time, NEW n, Timed(reg, par, time, n), NEW x \in reg, NEW y \in reg,
           x \in Up(reg, par, y), y \in Up(reg, par, x)
    PROVE  x = y
<1>1. y = x \/ time[x] < time[y]
  BY UpLater
<1>2. x = y \/ time[y] < time[x]
  BY UpLater
<1>3. time[x] \in Nat /\ time[y] \in Nat
  BY DEF Timed
<1> QED
  BY <1>1, <1>2, <1>3

\* In a set of terms there is one whose parent, if it has one, is outside.
LEMMA Topmost ==
    ASSUME NEW reg, NEW par, NEW time, NEW n, Timed(reg, par, time, n), NEW S, S \subseteq reg, S # {}
    PROVE  \E x \in S : par[x] = x \/ par[x] \notin S
<1>1. par \in [reg -> reg] /\ time \in [reg -> Nat] /\ n \in Nat
  BY DEF Timed
<1>2. \A x \in reg : time[x] \in 0 .. n
  BY <1>1 DEF Timed
<1> DEFINE Gaps == {n - time[x] : x \in S}
<1>3. Gaps \subseteq Nat /\ Gaps # {}
  BY <1>1, <1>2
<1>4. PICK k \in Gaps : \A m \in Gaps : k <= m
  <2> HIDE DEF Gaps
  <2> QED
    BY <1>3, LeastOf
<1>5. PICK x \in S : k = n - time[x]
  OBVIOUS
<1>6. ASSUME par[x] # x, par[x] \in S
      PROVE  FALSE
  <2>1. n - time[x] <= n - time[par[x]]
    BY <1>4, <1>5, <1>6
  <2>2. time[x] < time[par[x]]
    BY <1>6 DEF Timed
  <2>3. time[x] \in Nat /\ time[par[x]] \in Nat
    BY <1>1, <1>6
  <2> QED
    BY <1>1, <2>1, <2>2, <2>3
<1> QED
  BY <1>6

\* Above every term there is one root.
LEMMA RootFacts ==
    ASSUME NEW reg, NEW par, NEW time, NEW n, Timed(reg, par, time, n), NEW x \in reg
    PROVE  /\ RootOf(reg, par, x) \in Up(reg, par, x) /\ RootOf(reg, par, x) \in reg
           /\ par[RootOf(reg, par, x)] = RootOf(reg, par, x)
           /\ \A r \in Up(reg, par, x) : par[r] = r => r = RootOf(reg, par, x)
<1>0. par \in [reg -> reg]
  BY DEF Timed
<1> DEFINE Roots(y) == {r \in Up(reg, par, y) : par[r] = r}
           S == {y \in reg : ~\E r : Roots(y) = {r}}
<1>1. S = {}
  <2> SUFFICES ASSUME S # {} PROVE FALSE
    OBVIOUS
  <2>1. PICK y \in S : par[y] = y \/ par[y] \notin S
    <3>1. S \subseteq reg
      OBVIOUS
    <3> HIDE DEF S
    <3> QED
      BY <3>1, Topmost
  <2>2. y \in reg /\ par[y] \in reg
    BY <1>0
  <2>3. Up(reg, par, y) = {y} \cup Up(reg, par, par[y])
    BY <1>0, <2>2, UpUnfolds
  <2>4. CASE par[y] = y
    <3>1. \A S1 \in SUBSET reg : y \in S1 /\ (\A z \in S1 : par[z] \in S1) => Up(reg, par, y) \subseteq S1
      BY <1>0, <2>2, UpFacts
    <3>2. Up(reg, par, y) \subseteq {y}
      BY <2>2, <2>4, <3>1
    <3>3. Roots(y) = {y}
      BY <2>3, <2>4, <3>2
    <3> QED
      BY <3>3
  <2>5. CASE par[y] # y /\ par[y] \notin S
    <3>1. Roots(y) = Roots(par[y])
      BY <2>3, <2>5
    <3>2. \E r : Roots(par[y]) = {r}
      BY <2>2, <2>5
    <3> QED
      BY <3>1, <3>2
  <2> QED
    BY <2>1, <2>4, <2>5
<1>2. PICK r : Roots(x) = {r}
  BY <1>1
<1>3. RootOf(reg, par, x) = r
  BY <1>2 DEF RootOf
<1>4. Up(reg, par, x) \subseteq reg
  BY <1>0, UpFacts
<1> QED
  BY <1>2, <1>3, <1>4

\* A term has the root of its parent.
LEMMA RootAbove ==
    ASSUME NEW reg, NEW par, NEW time, NEW n, Timed(reg, par, time, n), NEW x \in reg
    PROVE  /\ par[x] = x => RootOf(reg, par, x) = x
           /\ RootOf(reg, par, par[x]) = RootOf(reg, par, x)
           /\ \A y \in Up(reg, par, x) : RootOf(reg, par, y) = RootOf(reg, par, x)
<1>0. par \in [reg -> reg]
  BY DEF Timed
<1>1. par[x] = x => RootOf(reg, par, x) = x
  <2>1. x \in Up(reg, par, x)
    BY <1>0, UpFacts
  <2> QED
    BY <2>1, RootFacts
<1>2. ASSUME NEW y \in Up(reg, par, x)
      PROVE  RootOf(reg, par, y) = RootOf(reg, par, x)
  <2>1. y \in reg /\ Up(reg, par, y) \subseteq Up(reg, par, x)
    BY <1>0, UpHolds
  <2>2. RootOf(reg, par, y) \in Up(reg, par, y) /\ par[RootOf(reg, par, y)] = RootOf(reg, par, y)
    BY <2>1, RootFacts
  <2> QED
    BY <2>1, <2>2, RootFacts
<1>3. par[x] \in Up(reg, par, x)
  BY <1>0, UpFacts
<1> QED
  BY <1>1, <1>2, <1>3

(***************************************************************************)
(* find and the paths of explanations are what their recursions say.        *)
(***************************************************************************)
LEMMA FindIsRoot ==
    ASSUME NEW time, NEW n, Timed(registered, parent, time, n)
    PROVE  \A x \in registered : Find[x] = RootOf(registered, parent, x)
<1>0. parent \in [registered -> registered]
  BY DEF Timed
<1> DEFINE Is(g) == g = [t \in registered |-> IF parent[t] = t THEN t ELSE g[parent[t]]]
           F == [t \in registered |-> RootOf(registered, parent, t)]
<1>1. Is(F)
  <2>1. ASSUME NEW t \in registered
        PROVE  F[t] = IF parent[t] = t THEN t ELSE F[parent[t]]
    <3>1. parent[t] \in registered
      BY <1>0
    <3> QED
      BY <3>1, RootAbove
  <2>2. F = [t \in registered |-> F[t]]
    OBVIOUS
  <2> HIDE DEF F
  <2> QED
    BY <2>1, <2>2, Zenon
<1>2. Find = CHOOSE g : Is(g)
  BY DEF Find
<1> HIDE DEF Is, F
<1>3. Is(Find)
  BY <1>1, <1>2
<1>4. Find = [t \in registered |-> IF parent[t] = t THEN t ELSE Find[parent[t]]]
  BY <1>3, Zenon DEF Is
<1>5. \A t \in registered : Find[t] = IF parent[t] = t THEN t ELSE Find[parent[t]]
  BY <1>4, Zenon
<1> DEFINE S == {x \in registered : Find[x] # RootOf(registered, parent, x)}
<1>6. S = {}
  <2> SUFFICES ASSUME S # {} PROVE FALSE
    OBVIOUS
  <2>1. PICK x \in S : parent[x] = x \/ parent[x] \notin S
    <3>1. S \subseteq registered
      OBVIOUS
    <3> HIDE DEF S
    <3> QED
      BY <3>1, Topmost
  <2>2. x \in registered /\ parent[x] \in registered
    BY <1>0
  <2>3. Find[x] = IF parent[x] = x THEN x ELSE Find[parent[x]]
    BY <1>5, <2>2
  <2> QED
    BY <2>1, <2>2, <2>3, RootAbove
<1> QED
  BY <1>6

LEMMA AboveIsUp ==
    ASSUME NEW time, NEW n, Timed(registered, parent, time, n),
           DOMAIN edge = {t \in registered : parent[t] # t}, \A t \in DOMAIN edge : edge[t].to = parent[t]
    PROVE  \A x \in registered : Above[x] = Up(registered, parent, x)
<1>0. parent \in [registered -> registered]
  BY DEF Timed
<1> DEFINE Is(g) == g = [t \in registered |-> IF t \in DOMAIN edge THEN {t} \cup g[edge[t].to] ELSE {t}]
           F == [t \in registered |-> Up(registered, parent, t)]
<1>9. ASSUME NEW t \in registered, parent[t] = t
       PROVE  Up(registered, parent, t) = {t}
  <2>1. \A S \in SUBSET registered : t \in S /\ (\A z \in S : parent[z] \in S)
                                        => Up(registered, parent, t) \subseteq S
    BY <1>0, UpFacts
  <2>2. Up(registered, parent, t) \subseteq {t}
    BY <1>9, <2>1
  <2> QED
    BY <1>0, <2>2, UpFacts
<1>1. Is(F)
  <2>1. ASSUME NEW t \in registered
        PROVE  F[t] = IF t \in DOMAIN edge THEN {t} \cup F[edge[t].to] ELSE {t}
    <3>1. parent[t] \in registered
      BY <1>0
    <3>2. CASE t \in DOMAIN edge
      BY <1>0, <3>1, <3>2, UpUnfolds
    <3>3. CASE t \notin DOMAIN edge
      BY <1>9, <3>3
    <3> QED
      BY <3>2, <3>3
  <2>2. F = [t \in registered |-> F[t]]
    OBVIOUS
  <2> HIDE DEF F
  <2> QED
    BY <2>1, <2>2, Zenon
<1>2. Above = CHOOSE g : Is(g)
  BY DEF Above
<1> HIDE DEF Is, F
<1>3. Is(Above)
  BY <1>1, <1>2
<1>4. Above = [t \in registered |-> IF t \in DOMAIN edge THEN {t} \cup Above[edge[t].to] ELSE {t}]
  BY <1>3, Zenon DEF Is
<1>5. \A t \in registered : Above[t] = IF t \in DOMAIN edge THEN {t} \cup Above[edge[t].to] ELSE {t}
  BY <1>4, Zenon
<1> DEFINE S == {x \in registered : Above[x] # Up(registered, parent, x)}
<1>6. S = {}
  <2> SUFFICES ASSUME S # {} PROVE FALSE
    OBVIOUS
  <2>1. PICK x \in S : parent[x] = x \/ parent[x] \notin S
    <3>1. S \subseteq registered
      OBVIOUS
    <3> HIDE DEF S
    <3> QED
      BY <3>1, Topmost
  <2>2. x \in registered /\ parent[x] \in registered
    BY <1>0
  <2>3. Above[x] = IF x \in DOMAIN edge THEN {x} \cup Above[edge[x].to] ELSE {x}
    BY <1>5, <2>2
  <2>4. Up(registered, parent, x) = {x} \cup Up(registered, parent, parent[x])
    BY <1>0, <2>2, UpUnfolds
  <2> QED
    BY <1>9, <2>1, <2>2, <2>3, <2>4
<1> QED
  BY <1>6

(***************************************************************************)
(* Two terms joined before a time: one root, and edges of the path between  *)
(* them that are all older.                                                 *)
(***************************************************************************)
Path(reg, par, s, t) == (Up(reg, par, s) \ Up(reg, par, t)) \cup (Up(reg, par, t) \ Up(reg, par, s))

Joined(reg, par, time, k, s, t) ==
    /\ s \in reg /\ t \in reg /\ RootOf(reg, par, s) = RootOf(reg, par, t)
    /\ \A z \in Path(reg, par, s, t) : time[z] < k

\* Between two terms of a class there is no root.
LEMMA PathFacts ==
    ASSUME NEW reg, NEW par, NEW time, NEW n, Timed(reg, par, time, n), NEW s \in reg, NEW t \in reg,
           RootOf(reg, par, s) = RootOf(reg, par, t)
    PROVE  \A z \in Path(reg, par, s, t) : z \in reg /\ par[z] # z /\ time[z] < n
<1>0. par \in [reg -> reg]
  BY DEF Timed
<1>1. Up(reg, par, s) \subseteq reg /\ Up(reg, par, t) \subseteq reg
  BY <1>0, UpFacts
<1>2. /\ RootOf(reg, par, s) \in Up(reg, par, s) /\ RootOf(reg, par, t) \in Up(reg, par, t)
      /\ \A r \in Up(reg, par, s) : par[r] = r => r = RootOf(reg, par, s)
      /\ \A r \in Up(reg, par, t) : par[r] = r => r = RootOf(reg, par, t)
  BY RootFacts
<1>3. ASSUME NEW z \in Path(reg, par, s, t)
      PROVE  z \in reg /\ par[z] # z
  BY <1>1, <1>2 DEF Path
<1> QED
  BY <1>3 DEF Timed

(***************************************************************************)
(* A root put under another one.                                            *)
(***************************************************************************)
Linked(par, below, top) == [par EXCEPT ![below] = top]
Dated(reg, par, time, n, below) ==
    [x \in reg |-> IF par[x] = x THEN IF x = below THEN n ELSE n + 1 ELSE time[x]]

LEMMA LinkTimed ==
    ASSUME NEW reg, NEW par, NEW time, NEW n, Timed(reg, par, time, n), NEW top \in reg, NEW below \in reg,
           par[top] = top, par[below] = below, top # below
    PROVE  Timed(reg, Linked(par, below, top), Dated(reg, par, time, n, below), n + 1)
<1> DEFINE par1 == Linked(par, below, top)
           time1 == Dated(reg, par, time, n, below)
<1>1. par \in [reg -> reg] /\ n \in Nat /\ time \in [reg -> Nat]
  BY DEF Timed
<1>2. par1 \in [reg -> reg] /\ time1 \in [reg -> Nat] /\ n + 1 \in Nat
  BY <1>1 DEF Linked, Dated
<1>3. ASSUME NEW x \in reg, par1[x] = x
      PROVE  time1[x] = n + 1
  BY <1>1, <1>3 DEF Linked, Dated
<1>4. ASSUME NEW x \in reg, par1[x] # x
      PROVE  time1[x] < n + 1 /\ time1[x] < time1[par1[x]]
  <2>1. CASE x = below
    BY <1>1, <2>1 DEF Linked, Dated
  <2>2. CASE x # below
    <3>1. par1[x] = par[x] /\ par[x] \in reg /\ par[x] # x /\ time1[x] = time[x]
      BY <1>1, <1>4, <2>2 DEF Linked, Dated
    <3>2. time[x] < n /\ time[x] < time[par[x]] /\ time[x] \in Nat /\ time[par[x]] \in Nat
      BY <1>1, <3>1 DEF Timed
    <3>3. time1[par[x]] = n \/ time1[par[x]] = n + 1 \/ time1[par[x]] = time[par[x]]
      BY <3>1 DEF Dated
    <3> QED
      BY <1>1, <3>1, <3>2, <3>3
  <2> QED
    BY <2>1, <2>2
<1> HIDE DEF par1, time1
<1>5. Timed(reg, par1, time1, n + 1)
  BY <1>2, <1>3, <1>4 DEF Timed
<1> QED
  BY <1>5 DEF par1, time1

LEMMA LinkUp ==
    ASSUME NEW reg, NEW par, NEW time, NEW n, Timed(reg, par, time, n), NEW top \in reg, NEW below \in reg,
           par[top] = top, par[below] = below, NEW x \in reg
    PROVE  Up(reg, Linked(par, below, top), x)
             = Up(reg, par, x) \cup (IF RootOf(reg, par, x) = below THEN {top} ELSE {})
<1> DEFINE par1 == Linked(par, below, top)
           more == IF RootOf(reg, par, x) = below THEN {top} ELSE {}
           U == Up(reg, par, x)
           U1 == Up(reg, par1, x)
<1>1. par \in [reg -> reg] /\ par1 \in [reg -> reg]
  BY DEF Timed, Linked
<1>2. par1[below] = top /\ \A z \in reg : z # below => par1[z] = par[z]
  BY <1>1 DEF Linked
<1>3. /\ x \in U /\ U \subseteq reg /\ \A z \in U : par[z] \in U
      /\ \A S \in SUBSET reg : x \in S /\ (\A z \in S : par[z] \in S) => U \subseteq S
  BY <1>1, UpFacts
<1>4. /\ x \in U1 /\ U1 \subseteq reg /\ \A z \in U1 : par1[z] \in U1
      /\ \A S \in SUBSET reg : x \in S /\ (\A z \in S : par1[z] \in S) => U1 \subseteq S
  <2> HIDE DEF par1
  <2> QED
    BY <1>1, UpFacts
<1>5. RootOf(reg, par, x) \in U /\ \A r \in U : par[r] = r => r = RootOf(reg, par, x)
  BY RootFacts
<1> HIDE DEF U, U1, par1
<1>6. U1 \subseteq U \cup more
  <2>1. ASSUME NEW z \in U \cup more
        PROVE  par1[z] \in U \cup more
    <3>1. CASE z \in U /\ z = below
      BY <1>2, <1>5, <3>1
    <3>2. CASE z \in U /\ z # below
      BY <1>2, <1>3, <3>2
    <3>3. CASE z \in more
      <4>1. z = top /\ more = {top}
        BY <3>3
      <4>2. par1[top] = top
        BY <1>2
      <4> QED
        BY <4>1, <4>2
    <3> QED
      BY <3>1, <3>2, <3>3
  <2>2. U \cup more \in SUBSET reg /\ x \in U \cup more
    BY <1>3
  <2> QED
    BY <1>4, <2>1, <2>2
<1>7. U \subseteq U1
  <2>1. \A z \in U1 : par[z] \in U1
    BY <1>2, <1>4
  <2> QED
    BY <1>3, <1>4, <2>1
<1>8. more \subseteq U1
  BY <1>2, <1>4, <1>5, <1>7
<1>9. U1 = U \cup more
  BY <1>6, <1>7, <1>8
<1> QED
  BY <1>9 DEF U, U1, par1

LEMMA LinkRoot ==
    ASSUME NEW reg, NEW par, NEW time, NEW n, Timed(reg, par, time, n), NEW top \in reg, NEW below \in reg,
           par[top] = top, par[below] = below, top # below, NEW x \in reg
    PROVE  RootOf(reg, Linked(par, below, top), x)
             = IF RootOf(reg, par, x) = below THEN top ELSE RootOf(reg, par, x)
<1> DEFINE par1 == Linked(par, below, top)
           r == IF RootOf(reg, par, x) = below THEN top ELSE RootOf(reg, par, x)
<1>1. Timed(reg, par1, Dated(reg, par, time, n, below), n + 1)
  BY LinkTimed
<1>2. Up(reg, par1, x) = Up(reg, par, x) \cup (IF RootOf(reg, par, x) = below THEN {top} ELSE {})
  BY LinkUp
<1>3. par \in [reg -> reg] /\ RootOf(reg, par, x) \in Up(reg, par, x) /\ RootOf(reg, par, x) \in reg
      /\ par[RootOf(reg, par, x)] = RootOf(reg, par, x)
  BY RootFacts DEF Timed
<1>4. r \in Up(reg, par1, x) /\ par1[r] = r
  BY <1>2, <1>3 DEF Linked
<1> HIDE DEF par1, r
<1>5. \A z \in Up(reg, par1, x) : par1[z] = z => z = RootOf(reg, par1, x)
  BY <1>1, RootFacts
<1>6. RootOf(reg, par1, x) = r
  BY <1>4, <1>5
<1> QED
  BY <1>6 DEF par1, r

\* What was joined stays joined as before, and terms of one class are joined before
\* the new edge.
LEMMA LinkJoined ==
    ASSUME NEW reg, NEW par, NEW time, NEW n, Timed(reg, par, time, n), NEW top \in reg, NEW below \in reg,
           par[top] = top, par[below] = below, top # below, NEW s \in reg, NEW t \in reg,
           RootOf(reg, par, s) = RootOf(reg, par, t)
    PROVE  LET par1 == Linked(par, below, top)
               time1 == Dated(reg, par, time, n, below)
           IN  /\ Joined(reg, par1, time1, n, s, t)
               /\ \A k : Joined(reg, par, time, k, s, t) => Joined(reg, par1, time1, k, s, t)
<1> DEFINE par1 == Linked(par, below, top)
           time1 == Dated(reg, par, time, n, below)
<1>1. RootOf(reg, par1, s) = RootOf(reg, par1, t)
  <2>1. /\ RootOf(reg, par1, s) = IF RootOf(reg, par, s) = below THEN top ELSE RootOf(reg, par, s)
        /\ RootOf(reg, par1, t) = IF RootOf(reg, par, t) = below THEN top ELSE RootOf(reg, par, t)
    BY LinkRoot
  <2> QED
    BY <2>1
<1>2. /\ Up(reg, par1, s) = Up(reg, par, s) \cup (IF RootOf(reg, par, s) = below THEN {top} ELSE {})
      /\ Up(reg, par1, t) = Up(reg, par, t) \cup (IF RootOf(reg, par, t) = below THEN {top} ELSE {})
  BY LinkUp
<1>3. Path(reg, par1, s, t) \subseteq Path(reg, par, s, t)
  BY <1>2 DEF Path
<1>4. \A z \in Path(reg, par, s, t) : z \in reg /\ par[z] # z /\ time[z] < n
  BY PathFacts
<1>5. \A z \in Path(reg, par, s, t) : time1[z] = time[z]
  BY <1>4 DEF Dated
<1> HIDE DEF par1, time1
<1>6. Joined(reg, par1, time1, n, s, t)
  BY <1>1, <1>3, <1>4, <1>5 DEF Joined
<1>7. \A k : Joined(reg, par, time, k, s, t) => Joined(reg, par1, time1, k, s, t)
  BY <1>1, <1>3, <1>5 DEF Joined
<1> QED
  BY <1>6, <1>7 DEF par1, time1

(***************************************************************************)
(* A new term.                                                              *)
(***************************************************************************)
LEMMA NewUp ==
    ASSUME NEW reg, NEW par \in [reg -> reg], NEW new, new \notin reg
    PROVE  /\ \A x \in reg : Up(reg \cup {new}, With(par, new, new), x) = Up(reg, par, x)
           /\ Up(reg \cup {new}, With(par, new, new), new) = {new}
<1> DEFINE par1 == With(par, new, new)
           reg1 == reg \cup {new}
<1>1. par1 \in [reg1 -> reg1] /\ par1[new] = new /\ \A z \in reg : par1[z] = par[z]
  BY DEF With
<1> HIDE DEF par1
<1>2. ASSUME NEW x \in reg
      PROVE  Up(reg1, par1, x) = Up(reg, par, x)
  <2>1. /\ x \in Up(reg, par, x) /\ Up(reg, par, x) \subseteq reg
        /\ \A z \in Up(reg, par, x) : par[z] \in Up(reg, par, x)
        /\ \A S \in SUBSET reg : x \in S /\ (\A z \in S : par[z] \in S) => Up(reg, par, x) \subseteq S
    BY UpFacts
  <2>2. /\ x \in Up(reg1, par1, x) /\ Up(reg1, par1, x) \subseteq reg1
        /\ \A z \in Up(reg1, par1, x) : par1[z] \in Up(reg1, par1, x)
        /\ \A S \in SUBSET reg1 : x \in S /\ (\A z \in S : par1[z] \in S) => Up(reg1, par1, x) \subseteq S
    <3> x \in reg1
      OBVIOUS
    <3> HIDE DEF reg1
    <3> QED
      BY <1>1, UpFacts
  <2>3. Up(reg1, par1, x) \subseteq Up(reg, par, x)
    <3>1. \A z \in Up(reg, par, x) : par1[z] \in Up(reg, par, x)
      BY <1>1, <2>1
    <3>2. Up(reg, par, x) \in SUBSET reg1
      BY <2>1
    <3> HIDE DEF reg1
    <3> QED
      BY <2>1, <2>2, <3>1, <3>2
  <2>4. Up(reg, par, x) \subseteq Up(reg1, par1, x)
    <3>1. Up(reg1, par1, x) \in SUBSET reg
      BY <2>1, <2>3
    <3>2. \A z \in Up(reg1, par1, x) : par[z] \in Up(reg1, par1, x)
      BY <1>1, <2>2, <3>1
    <3> HIDE DEF reg1
    <3> QED
      BY <2>1, <2>2, <3>1, <3>2
  <2> QED
    BY <2>3, <2>4
<1>3. Up(reg1, par1, new) = {new}
  <2>1. new \in reg1 /\ {new} \in SUBSET reg1
    OBVIOUS
  <2>2. /\ new \in Up(reg1, par1, new)
        /\ \A S \in SUBSET reg1 : new \in S /\ (\A z \in S : par1[z] \in S) => Up(reg1, par1, new) \subseteq S
    <3> HIDE DEF reg1
    <3> QED
      BY <1>1, <2>1, UpFacts
  <2>3. Up(reg1, par1, new) \subseteq {new}
    <3> HIDE DEF reg1
    <3> QED
      BY <1>1, <2>1, <2>2
  <2> QED
    BY <2>2, <2>3
<1> QED
  BY <1>1, <1>2, <1>3 DEF par1

LEMMA NewTimed ==
    ASSUME NEW reg, NEW par, NEW time, NEW n, Timed(reg, par, time, n), NEW new, new \notin reg
    PROVE  Timed(reg \cup {new}, With(par, new, new), With(time, new, n), n)
<1>1. par \in [reg -> reg] /\ n \in Nat /\ time \in [reg -> Nat]
  BY DEF Timed
<1> DEFINE par1 == With(par, new, new)
           time1 == With(time, new, n)
           reg1 == reg \cup {new}
<1>2. par1 \in [reg1 -> reg1] /\ time1 \in [reg1 -> Nat]
  BY <1>1 DEF With
<1>3. par1[new] = new /\ time1[new] = n /\ \A x \in reg : par1[x] = par[x] /\ time1[x] = time[x]
  BY <1>1 DEF With
<1>4. \A x \in reg : par[x] \in reg
  BY <1>1
<1> HIDE DEF par1, time1
<1>5. \A x \in reg1 : par1[x] = x => time1[x] = n
  BY <1>3 DEF Timed
<1>6. \A x \in reg1 : par1[x] # x => time1[x] < n /\ time1[x] < time1[par1[x]]
  BY <1>3, <1>4 DEF Timed
<1>7. Timed(reg1, par1, time1, n)
  BY <1>1, <1>2, <1>5, <1>6 DEF Timed
<1> QED
  BY <1>7 DEF par1, time1

LEMMA NewRoot ==
    ASSUME NEW reg, NEW par, NEW time, NEW n, Timed(reg, par, time, n), NEW new, new \notin reg
    PROVE  /\ \A x \in reg : RootOf(reg \cup {new}, With(par, new, new), x) = RootOf(reg, par, x)
           /\ RootOf(reg \cup {new}, With(par, new, new), new) = new
           /\ \A k : \A s, t \in reg : Joined(reg, par, time, k, s, t)
                => Joined(reg \cup {new}, With(par, new, new), With(time, new, n), k, s, t)
<1> DEFINE par1 == With(par, new, new)
           time1 == With(time, new, n)
           reg1 == reg \cup {new}
<1>1. Timed(reg1, par1, time1, n)
  BY NewTimed
<1>2. par \in [reg -> reg] /\ time \in [reg -> Nat]
  BY DEF Timed
<1>3. (\A x \in reg : Up(reg1, par1, x) = Up(reg, par, x)) /\ Up(reg1, par1, new) = {new}
  BY <1>2, NewUp
<1>4. \A x \in reg : par1[x] = par[x] /\ time1[x] = time[x]
  BY <1>2 DEF With
<1>5. \A x \in reg : x \in reg1
  OBVIOUS
<1>6. new \in reg1
  OBVIOUS
<1> HIDE DEF par1, time1, reg1
<1>7. ASSUME NEW x \in reg
      PROVE  RootOf(reg1, par1, x) = RootOf(reg, par, x)
  <2>1. RootOf(reg, par, x) \in Up(reg, par, x) /\ RootOf(reg, par, x) \in reg
        /\ par[RootOf(reg, par, x)] = RootOf(reg, par, x)
    BY RootFacts
  <2>2. \A r \in Up(reg1, par1, x) : par1[r] = r => r = RootOf(reg1, par1, x)
    BY <1>1, <1>5, RootFacts
  <2> QED
    BY <1>3, <1>4, <2>1, <2>2
<1>8. RootOf(reg1, par1, new) = new
  <2>1. RootOf(reg1, par1, new) \in Up(reg1, par1, new)
    BY <1>1, <1>6, RootFacts
  <2> QED
    BY <1>3, <2>1
<1>9. ASSUME NEW k, NEW s \in reg, NEW t \in reg, Joined(reg, par, time, k, s, t)
      PROVE  Joined(reg1, par1, time1, k, s, t)
  <2>1. Path(reg1, par1, s, t) = Path(reg, par, s, t)
    BY <1>3 DEF Path
  <2>2. Path(reg, par, s, t) \subseteq reg
    BY <1>2, UpFacts DEF Path
  <2> QED
    BY <1>4, <1>5, <1>7, <1>9, <2>1, <2>2 DEF Joined
<1> QED
  BY <1>7, <1>8, <1>9 DEF par1, time1, reg1

(***************************************************************************)
(* What the lists of the union-find L are, when the literals A are asserted. *)
(***************************************************************************)
CongruentIn(reg, par, s, t) ==
    /\ FunctionOf[s] = FunctionOf[t] /\ Len(ArgsOf[s]) = Len(ArgsOf[t])
    /\ \A i \in DOMAIN ArgsOf[s] : RootOf(reg, par, ArgsOf[s][i]) = RootOf(reg, par, ArgsOf[t][i])

\* The terms that an edge equates are the sides of its literal, or applications of
\* one function to arguments that were joined before.
Rests(reg, A, par, time, k, above, under, literal) ==
    /\ literal # NoLiteral =>
         literal \in A /\ (Sides[literal] = <<above, under>> \/ Sides[literal] = <<under, above>>)
    /\ literal = NoLiteral =>
         /\ FunctionOf[above] = FunctionOf[under] /\ Len(ArgsOf[above]) = Len(ArgsOf[under])
         /\ \A i \in DOMAIN ArgsOf[above] :
              Joined(reg, par, time, k, ArgsOf[above][i], ArgsOf[under][i])

Sound(reg, kn, A, par, time, x, e) ==
    /\ e.to = par[x] /\ e.literal \in kn \cup {NoLiteral}
    /\ Joined(reg, par, time, time[x], x, e.under) /\ Joined(reg, par, time, time[x], e.above, e.to)
    /\ Rests(reg, A, par, time, time[x], e.above, e.under, e.literal)

Founded(reg, kn, A, L, time, n) ==
    /\ Timed(reg, L.parent, time, n)
    /\ DOMAIN L.edge = {x \in reg : L.parent[x] # x} /\ L.edge = [x \in DOMAIN L.edge |-> L.edge[x]]
    /\ \A x \in DOMAIN L.edge : Sound(reg, kn, A, L.parent, time, x, L.edge[x])

Members(reg, L) ==
    /\ L.class \in [reg -> SUBSET reg] /\ L.use \in [reg -> Seq(reg)]
    /\ \A t \in reg : L.parent[t] = t => L.class[t] = {s \in reg : RootOf(reg, L.parent, s) = t}

Literals(reg, kn, A, L) ==
    /\ L.diseqs \in Seq(kn) /\ {L.diseqs[i] : i \in DOMAIN L.diseqs} = {e \in kn : -e \in A}
    /\ \A e \in kn : e \in A => RootOf(reg, L.parent, Sides[e][1]) = RootOf(reg, L.parent, Sides[e][2])
    /\ \A l \in A : l \in kn \/ -l \in kn

Good(reg, kn, A, L) ==
    (\E time, n : Founded(reg, kn, A, L, time, n)) /\ Members(reg, L) /\ Literals(reg, kn, A, L)

\* The lists after a merge.
Put(L, top, below, e) ==
    [parent |-> Linked(L.parent, below, top),
     class |-> [L.class EXCEPT ![top] = @ \cup L.class[below]],
     use |-> [L.use EXCEPT ![top] = @ \o L.use[below]],
     edge |-> With(L.edge, below, e), diseqs |-> L.diseqs]

Vocabulary(reg, kn) ==
    /\ reg \subseteq Terms /\ kn \subseteq Equalities /\ \A t \in reg : Args(t) \subseteq reg
    /\ \A e \in kn : Sides[e][1] \in reg /\ Sides[e][2] \in reg

LEMMA ArgsAreSeqs ==
    ASSUME NEW t \in Terms
    PROVE  /\ ArgsOf[t] \in Seq(Terms) /\ Len(ArgsOf[t]) \in Nat
           /\ DOMAIN ArgsOf[t] = 1 .. Len(ArgsOf[t])
<1>1. ArgsOf[t] \in Seq(Terms)
  BY EUFAssumption DEF EUFAssumption
<1> QED
  BY <1>1

LEMMA RestsLinked ==
    ASSUME NEW reg, NEW A, NEW par, NEW time, NEW n, Timed(reg, par, time, n), NEW top \in reg,
           NEW below \in reg, par[top] = top, par[below] = below, top # below,
           NEW k, NEW s, NEW t, NEW literal,
           Rests(reg, A, par, time, k, s, t, literal)
    PROVE  Rests(reg, A, Linked(par, below, top), Dated(reg, par, time, n, below), k, s, t, literal)
<1> DEFINE par1 == Linked(par, below, top)
           time1 == Dated(reg, par, time, n, below)
<1>1. ASSUME NEW a, NEW b, Joined(reg, par, time, k, a, b)
      PROVE  Joined(reg, par1, time1, k, a, b)
  <2>1. a \in reg /\ b \in reg /\ RootOf(reg, par, a) = RootOf(reg, par, b)
    BY <1>1 DEF Joined
  <2> QED
    BY <1>1, <2>1, LinkJoined
<1> HIDE DEF par1, time1
<1>2. Rests(reg, A, par1, time1, k, s, t, literal)
  BY <1>1 DEF Rests
<1> QED
  BY <1>2 DEF par1, time1

\* A merge of the classes of two terms, for a reason that stands, keeps the edges founded.
LEMMA PutFounded ==
    ASSUME NEW reg, NEW kn, NEW A, NEW L, NEW time, NEW n, Founded(reg, kn, A, L, time, n),
           NEW s \in reg, NEW t \in reg, reg \subseteq Terms,
           RootOf(reg, L.parent, s) # RootOf(reg, L.parent, t),
           NEW literal \in kn \cup {NoLiteral},
           literal # NoLiteral =>
             literal \in A /\ (Sides[literal] = <<s, t>> \/ Sides[literal] = <<t, s>>),
           literal = NoLiteral => CongruentIn(reg, L.parent, s, t) /\ Args(s) \subseteq reg /\ Args(t) \subseteq reg
    PROVE  LET top == RootOf(reg, L.parent, s)
               below == RootOf(reg, L.parent, t)
               e == [to |-> top, literal |-> literal, above |-> s, under |-> t]
           IN  Founded(reg, kn, A, Put(L, top, below, e), Dated(reg, L.parent, time, n, below), n + 1)
<1> DEFINE par == L.parent
           top == RootOf(reg, par, s)
           below == RootOf(reg, par, t)
           e == [to |-> top, literal |-> literal, above |-> s, under |-> t]
           par1 == Linked(par, below, top)
           time1 == Dated(reg, par, time, n, below)
           edge1 == With(L.edge, below, e)
<1>1. Timed(reg, par, time, n) /\ par \in [reg -> reg] /\ time \in [reg -> Nat] /\ n \in Nat
  BY DEF Founded, Timed
<1>2. /\ DOMAIN L.edge = {x \in reg : par[x] # x}
      /\ \A x \in DOMAIN L.edge : Sound(reg, kn, A, par, time, x, L.edge[x])
  BY DEF Founded
<1>3. /\ top \in reg /\ par[top] = top /\ below \in reg /\ par[below] = below
      /\ top \in Up(reg, par, s) /\ below \in Up(reg, par, t)
  BY <1>1, RootFacts
<1>4. RootOf(reg, par, top) = top /\ RootOf(reg, par, below) = below
  BY <1>1, <1>3, RootAbove
<1>5. top # below
  OBVIOUS
<1>6. par1[below] = top /\ (\A x \in reg : x # below => par1[x] = par[x]) /\ time1[below] = n
      /\ \A x \in reg : par[x] # x => time1[x] = time[x]
  BY <1>1, <1>3 DEF Linked, Dated
<1>7. Timed(reg, par1, time1, n + 1)
  <2> HIDE DEF par, top, below
  <2> QED
    BY <1>1, <1>3, <1>5, LinkTimed
<1>8. ASSUME NEW a \in reg, NEW b \in reg, RootOf(reg, par, a) = RootOf(reg, par, b)
      PROVE  /\ Joined(reg, par1, time1, n, a, b)
             /\ \A k : Joined(reg, par, time, k, a, b) => Joined(reg, par1, time1, k, a, b)
  <2> HIDE DEF par, top, below
  <2> QED
    BY <1>1, <1>3, <1>5, <1>8, LinkJoined
<1>9. DOMAIN edge1 = {x \in reg : par1[x] # x} /\ edge1 = [x \in DOMAIN edge1 |-> edge1[x]]
  <2>1. DOMAIN edge1 = DOMAIN L.edge \cup {below}
    BY DEF With
  <2>2. edge1 = [x \in DOMAIN edge1 |-> edge1[x]]
    BY DEF With
  <2> HIDE DEF edge1, par, par1, below, top
  <2> QED
    BY <1>2, <1>3, <1>5, <1>6, <2>1, <2>2
<1>10. below \notin DOMAIN L.edge /\ edge1[below] = e
       /\ \A x \in DOMAIN L.edge : edge1[x] = L.edge[x] /\ x \in reg /\ par[x] # x /\ x # below
  BY <1>2, <1>3 DEF With
<1>11. Sound(reg, kn, A, par1, time1, below, e)
  <2>1. Joined(reg, par1, time1, n, below, t) /\ Joined(reg, par1, time1, n, s, top)
    BY <1>3, <1>4, <1>8
  <2>2. ASSUME literal = NoLiteral, NEW i \in DOMAIN ArgsOf[s]
        PROVE  Joined(reg, par1, time1, n, ArgsOf[s][i], ArgsOf[t][i])
    <3>1. CongruentIn(reg, par, s, t) /\ Args(s) \subseteq reg /\ Args(t) \subseteq reg
      BY <2>2
    <3>2. /\ FunctionOf[s] = FunctionOf[t] /\ Len(ArgsOf[s]) = Len(ArgsOf[t])
          /\ RootOf(reg, par, ArgsOf[s][i]) = RootOf(reg, par, ArgsOf[t][i])
      BY <3>1 DEF CongruentIn
    <3>3. ArgsOf[s][i] \in reg
      BY <3>1 DEF Args
    <3>4. i \in DOMAIN ArgsOf[t]
      <4>1. DOMAIN ArgsOf[s] = 1 .. Len(ArgsOf[s]) /\ DOMAIN ArgsOf[t] = 1 .. Len(ArgsOf[t])
        BY ArgsAreSeqs
      <4> QED
        BY <3>2, <4>1
    <3>5. ArgsOf[t][i] \in reg
      BY <3>1, <3>4 DEF Args
    <3> HIDE DEF par, par1, time1
    <3> QED
      BY <1>8, <3>2, <3>3, <3>5
  <2>3. Rests(reg, A, par1, time1, n, s, t, literal)
    <3>1. literal = NoLiteral => FunctionOf[s] = FunctionOf[t] /\ Len(ArgsOf[s]) = Len(ArgsOf[t])
      BY DEF CongruentIn
    <3> HIDE DEF par, par1, time1
    <3> QED
      BY <2>2, <3>1 DEF Rests
  <2>4. e.to = top /\ e.literal = literal /\ e.above = s /\ e.under = t
    OBVIOUS
  <2> HIDE DEF par, par1, time1, e, top, below
  <2> QED
    BY <1>6, <2>1, <2>3, <2>4 DEF Sound
<1>12. ASSUME NEW x \in DOMAIN L.edge
       PROVE  Sound(reg, kn, A, par1, time1, x, L.edge[x])
  <2>1. Sound(reg, kn, A, par, time, x, L.edge[x]) /\ x \in reg /\ par[x] # x
    BY <1>2, <1>10
  <2>2. time1[x] = time[x] /\ par1[x] = par[x]
    BY <1>6, <1>10, <2>1
  <2>3. Rests(reg, A, par1, time1, time[x], L.edge[x].above, L.edge[x].under, L.edge[x].literal)
    <3>1. Rests(reg, A, par, time, time[x], L.edge[x].above, L.edge[x].under, L.edge[x].literal)
      BY <2>1 DEF Sound
    <3> HIDE DEF par, top, below
    <3> QED
      BY <1>1, <1>3, <1>5, <3>1, RestsLinked
  <2>4. ASSUME NEW a, NEW b, Joined(reg, par, time, time[x], a, b)
        PROVE  Joined(reg, par1, time1, time[x], a, b)
    <3>1. a \in reg /\ b \in reg /\ RootOf(reg, par, a) = RootOf(reg, par, b)
      BY <2>4 DEF Joined
    <3> HIDE DEF par, par1, time1
    <3> QED
      BY <1>8, <2>4, <3>1
  <2> HIDE DEF par, par1, time1
  <2> QED
    BY <2>1, <2>2, <2>3, <2>4 DEF Sound
<1> DEFINE L1 == Put(L, top, below, e)
<1>13. L1.parent = par1 /\ L1.edge = edge1
  BY DEF Put
<1>14. DOMAIN edge1 = DOMAIN L.edge \cup {below}
  BY DEF With
<1> HIDE DEF par, par1, time1, edge1, e, top, below, L1
<1>15. \A x \in DOMAIN edge1 : Sound(reg, kn, A, par1, time1, x, edge1[x])
  BY <1>10, <1>11, <1>12, <1>14
<1>16. Founded(reg, kn, A, L1, time1, n + 1)
  BY <1>7, <1>9, <1>13, <1>15 DEF Founded
<1> QED
  BY <1>16 DEF par, par1, time1, e, top, below, L1

LEMMA PutMembers ==
    ASSUME NEW reg, NEW L, NEW time, NEW n, Timed(reg, L.parent, time, n), Members(reg, L),
           NEW top \in reg, NEW below \in reg, L.parent[top] = top, L.parent[below] = below, top # below, NEW e
    PROVE  Members(reg, Put(L, top, below, e))
<1> DEFINE L1 == Put(L, top, below, e)
           par == L.parent
           par1 == Linked(par, below, top)
<1>1. par \in [reg -> reg] /\ L.class \in [reg -> SUBSET reg] /\ L.use \in [reg -> Seq(reg)]
  BY DEF Timed, Members
<1>2. /\ L1.parent = par1 /\ L1.class = [L.class EXCEPT ![top] = @ \cup L.class[below]]
      /\ L1.use = [L.use EXCEPT ![top] = @ \o L.use[below]]
  BY DEF Put
<1>3. \A x \in reg : RootOf(reg, par1, x) = IF RootOf(reg, par, x) = below THEN top ELSE RootOf(reg, par, x)
  BY LinkRoot
<1>4. \A x \in reg : par[x] = x => L.class[x] = {s \in reg : RootOf(reg, par, s) = x}
  BY DEF Members
<1>5. L.use[top] \o L.use[below] \in Seq(reg)
  BY <1>1, ConcatProperties
<1>6. par1[below] = top /\ \A x \in reg : x # below => par1[x] = par[x]
  BY <1>1 DEF Linked
<1> HIDE DEF L1, par, par1
<1>7. L1.class \in [reg -> SUBSET reg]
  BY <1>1, <1>2
<1>8. L1.use \in [reg -> Seq(reg)]
  BY <1>1, <1>2, <1>5
<1>9. ASSUME NEW x \in reg, par1[x] = x
      PROVE  L1.class[x] = {s \in reg : RootOf(reg, par1, s) = x}
  <2>1. x # below /\ par[x] = x
    BY <1>6, <1>9
  <2>2. L1.class[x] = IF x = top THEN L.class[top] \cup L.class[below] ELSE L.class[x]
    BY <1>1, <1>2
  <2>3. /\ L.class[x] = {s \in reg : RootOf(reg, par, s) = x}
        /\ L.class[below] = {s \in reg : RootOf(reg, par, s) = below}
        /\ L.class[top] = {s \in reg : RootOf(reg, par, s) = top}
    BY <1>4, <2>1 DEF par
  <2> QED
    BY <1>3, <2>1, <2>2, <2>3
<1> QED
  BY <1>2, <1>7, <1>8, <1>9 DEF Members, L1

LEMMA EqualitiesArePositive ==
    ASSUME NEW reg, NEW kn, Vocabulary(reg, kn), NEW e \in kn
    PROVE  /\ e \in Nat /\ e # 0 /\ -e \notin kn /\ -(-e) = e /\ e # NoLiteral
           /\ Sides[e] \in reg \X reg /\ Sides[e] = <<Sides[e][1], Sides[e][2]>>
<1>1. e \in Equalities /\ kn \subseteq Nat \ {0} /\ Sides[e] \in Terms \X Terms
  BY EUFAssumption DEF EUFAssumption, Vocabulary
<1>2. Sides[e][1] \in reg /\ Sides[e][2] \in reg
  BY DEF Vocabulary
<1>3. Sides[e] = <<Sides[e][1], Sides[e][2]>>
  BY <1>1
<1>4. Sides[e] \in reg \X reg
  BY <1>2, <1>3
<1>5. e \in Nat /\ e # 0
  BY <1>1
<1>6. -e \notin Nat /\ -(-e) = e
  BY <1>5
<1> QED
  BY <1>1, <1>3, <1>4, <1>5, <1>6 DEF NoLiteral

\* More literals leave the edges founded.
LEMMA MoreFounded ==
    ASSUME NEW reg, NEW kn, NEW A, NEW L, NEW time, NEW n, Founded(reg, kn, A, L, time, n),
           NEW kn1, kn \subseteq kn1, NEW A1, A \subseteq A1, NEW L1,
           L1.parent = L.parent, L1.edge = L.edge
    PROVE  Founded(reg, kn1, A1, L1, time, n)
<1>1. ASSUME NEW x \in DOMAIN L.edge
      PROVE  Sound(reg, kn1, A1, L.parent, time, x, L.edge[x])
  <2>1. Sound(reg, kn, A, L.parent, time, x, L.edge[x])
    BY DEF Founded
  <2> QED
    BY <2>1 DEF Sound, Rests
<1> QED
  BY <1>1 DEF Founded

LEMMA GoodPut ==
    ASSUME NEW reg, NEW kn, Vocabulary(reg, kn), NEW A, NEW L, Good(reg, kn, A, L),
           NEW s \in reg, NEW t \in reg, RootOf(reg, L.parent, s) # RootOf(reg, L.parent, t),
           NEW literal \in kn \cup {NoLiteral},
           literal # NoLiteral => Sides[literal] = <<s, t>> \/ Sides[literal] = <<t, s>>,
           literal = NoLiteral => CongruentIn(reg, L.parent, s, t)
    PROVE  LET top == RootOf(reg, L.parent, s)
               below == RootOf(reg, L.parent, t)
               e == [to |-> top, literal |-> literal, above |-> s, under |-> t]
           IN  Good(reg, kn, IF literal = NoLiteral THEN A ELSE A \cup {literal}, Put(L, top, below, e))
<1> DEFINE par == L.parent
           top == RootOf(reg, par, s)
           below == RootOf(reg, par, t)
           e == [to |-> top, literal |-> literal, above |-> s, under |-> t]
           L1 == Put(L, top, below, e)
           A1 == IF literal = NoLiteral THEN A ELSE A \cup {literal}
<1>1. PICK time, n : Founded(reg, kn, A, L, time, n)
  BY DEF Good
<1>2. Founded(reg, kn, A1, L, time, n)
  <2> A \subseteq A1
    OBVIOUS
  <2> HIDE DEF A1
  <2> QED
    BY <1>1, MoreFounded
<1>3. reg \subseteq Terms /\ Args(s) \subseteq reg /\ Args(t) \subseteq reg
  BY DEF Vocabulary
<1>4. Founded(reg, kn, A1, L1, Dated(reg, par, time, n, below), n + 1)
  <2>1. literal # NoLiteral => literal \in A1
    OBVIOUS
  <2> HIDE DEF A1
  <2> QED
    BY <1>2, <1>3, <2>1, PutFounded
<1>5. Timed(reg, par, time, n) /\ par \in [reg -> reg]
  BY <1>1 DEF Founded, Timed
<1>6. top \in reg /\ below \in reg /\ par[top] = top /\ par[below] = below
  BY <1>5, RootFacts
<1>7. Members(reg, L1)
  <2> Members(reg, L) /\ top # below
    BY DEF Good
  <2> HIDE DEF top, below, e
  <2> QED
    BY <1>5, <1>6, PutMembers
<1>8. \A x \in reg : RootOf(reg, L1.parent, x) = IF RootOf(reg, par, x) = below THEN top ELSE RootOf(reg, par, x)
  <2>1. L1.parent = Linked(par, below, top)
    BY DEF Put
  <2> top # below
    OBVIOUS
  <2> HIDE DEF par, L1, top, below
  <2> QED
    BY <1>5, <1>6, <2>1, LinkRoot
<1>9. Literals(reg, kn, A1, L1)
  <2>1. L1.diseqs = L.diseqs
    BY DEF Put
  <2>2. /\ L.diseqs \in Seq(kn) /\ {L.diseqs[i] : i \in DOMAIN L.diseqs} = {d \in kn : -d \in A}
        /\ \A d \in kn : d \in A => RootOf(reg, par, Sides[d][1]) = RootOf(reg, par, Sides[d][2])
        /\ \A l \in A : l \in kn \/ -l \in kn
    BY DEF Good, Literals
  <2>3. \A d \in kn : -d \in A1 <=> -d \in A
    <3>1. ASSUME NEW d \in kn
          PROVE  -d # literal
      BY EqualitiesArePositive DEF NoLiteral
    <3> QED
      BY <3>1
  <2>4. \A d \in kn : Sides[d][1] \in reg /\ Sides[d][2] \in reg
    BY DEF Vocabulary
  <2>5. ASSUME NEW d \in kn, d \in A1
        PROVE  RootOf(reg, L1.parent, Sides[d][1]) = RootOf(reg, L1.parent, Sides[d][2])
    <3>1. CASE d \in A
      BY <1>8, <2>2, <2>4, <3>1
    <3>2. CASE d \notin A
      <4>1. d = literal /\ literal # NoLiteral
        BY <2>5, <3>2
      <4>2. {Sides[d][1], Sides[d][2]} = {s, t}
        BY <4>1
      <4>3. RootOf(reg, L1.parent, s) = top /\ RootOf(reg, L1.parent, t) = top
        <5> HIDE DEF L1, par
        <5> QED
          BY <1>8
      <4> HIDE DEF L1, top
      <4> QED
        BY <4>2, <4>3
    <3> QED
      BY <3>1, <3>2
  <2>6. \A l \in A1 : l \in kn \/ -l \in kn
    BY <2>2
  <2> HIDE DEF A1, L1
  <2> QED
    BY <2>1, <2>2, <2>3, <2>5, <2>6 DEF Literals
<1> HIDE DEF par, top, below, e, L1, A1
<1>10. Good(reg, kn, A1, L1)
  BY <1>4, <1>7, <1>9 DEF Good
<1> QED
  BY <1>10 DEF par, top, below, e, L1, A1

\* An equality asserted of two terms of one class.
LEMMA GoodAgain ==
    ASSUME NEW reg, NEW kn, Vocabulary(reg, kn), NEW A, NEW L, Good(reg, kn, A, L), NEW e \in kn,
           RootOf(reg, L.parent, Sides[e][1]) = RootOf(reg, L.parent, Sides[e][2])
    PROVE  Good(reg, kn, A \cup {e}, L)
<1>1. \E time, n : Founded(reg, kn, A \cup {e}, L, time, n)
  <2>1. PICK time, n : Founded(reg, kn, A, L, time, n)
    BY DEF Good
  <2>2. Founded(reg, kn, A \cup {e}, L, time, n)
    BY <2>1, MoreFounded
  <2> QED
    BY <2>2
<1>2. \A d \in kn : -d \in A \cup {e} <=> -d \in A
  <2>1. ASSUME NEW d \in kn
        PROVE  -d # e
    BY EqualitiesArePositive
  <2> QED
    BY <2>1
<1>3. Literals(reg, kn, A \cup {e}, L)
  <2>1. Literals(reg, kn, A, L)
    BY DEF Good
  <2>2. {d \in kn : -d \in A \cup {e}} = {d \in kn : -d \in A}
    BY <1>2
  <2> QED
    BY <2>1, <2>2 DEF Literals
<1> QED
  BY <1>1, <1>3 DEF Good

\* A disequality asserted.
LEMMA GoodDistinct ==
    ASSUME NEW reg, NEW kn, Vocabulary(reg, kn), NEW A, NEW L, Good(reg, kn, A, L), NEW e \in kn,
           NEW L1, L1.parent = L.parent, L1.class = L.class, L1.use = L.use, L1.edge = L.edge,
           L1.diseqs = Append(L.diseqs, e)
    PROVE  Good(reg, kn, A \cup {-e}, L1)
<1>1. \E time, n : Founded(reg, kn, A \cup {-e}, L1, time, n)
  <2>1. PICK time, n : Founded(reg, kn, A, L, time, n)
    BY DEF Good
  <2>2. Founded(reg, kn, A \cup {-e}, L1, time, n)
    BY <2>1, MoreFounded
  <2> QED
    BY <2>2
<1>2. /\ L.diseqs \in Seq(kn) /\ {L.diseqs[i] : i \in DOMAIN L.diseqs} = {d \in kn : -d \in A}
      /\ \A d \in kn : d \in A => RootOf(reg, L.parent, Sides[d][1]) = RootOf(reg, L.parent, Sides[d][2])
      /\ \A l \in A : l \in kn \/ -l \in kn
  BY DEF Good, Literals
<1>3. \A d \in kn : (-d \in A \cup {-e} <=> -d \in A \/ d = e) /\ (d \in A \cup {-e} <=> d \in A)
  <2>1. ASSUME NEW d \in kn
        PROVE  d # -e /\ (-d = -e => d = e)
    <3>1. d \in Nat /\ e \in Nat /\ -(-e) = e /\ -(-d) = d /\ -e \notin kn
      BY EqualitiesArePositive
    <3> QED
      BY <3>1
  <2> QED
    BY <2>1
<1>4. L1.diseqs \in Seq(kn)
  BY <1>2, AppendProperties
<1>5. {L1.diseqs[i] : i \in DOMAIN L1.diseqs} = {d \in kn : -d \in A \cup {-e}}
  <2>1. {L1.diseqs[i] : i \in DOMAIN L1.diseqs} = {L.diseqs[i] : i \in DOMAIN L.diseqs} \cup {e}
    BY <1>2
  <2> QED
    BY <1>2, <1>3, <2>1
<1>6. -(-e) \in kn
  BY EqualitiesArePositive
<1>7. Literals(reg, kn, A \cup {-e}, L1)
  BY <1>2, <1>3, <1>4, <1>5, <1>6 DEF Literals
<1>8. Members(reg, L1)
  BY DEF Good, Members
<1> QED
  BY <1>1, <1>7, <1>8 DEF Good

\* A new equality.
LEMMA GoodEquality ==
    ASSUME NEW reg, NEW kn, NEW e, Vocabulary(reg, kn \cup {e}), e \notin kn, NEW A, NEW L, Good(reg, kn, A, L)
    PROVE  Good(reg, kn \cup {e}, A, L)
<1>1. \E time, n : Founded(reg, kn \cup {e}, A, L, time, n)
  <2>1. PICK time, n : Founded(reg, kn, A, L, time, n)
    BY DEF Good
  <2>2. Founded(reg, kn \cup {e}, A, L, time, n)
    BY <2>1, MoreFounded
  <2> QED
    BY <2>2
<1>2. /\ L.diseqs \in Seq(kn) /\ {L.diseqs[i] : i \in DOMAIN L.diseqs} = {d \in kn : -d \in A}
      /\ \A d \in kn : d \in A => RootOf(reg, L.parent, Sides[d][1]) = RootOf(reg, L.parent, Sides[d][2])
      /\ \A l \in A : l \in kn \/ -l \in kn
  BY DEF Good, Literals
<1>3. e \notin A /\ -e \notin A
  <2>1. e \in Nat /\ -(-e) = e /\ -e \notin kn \cup {e}
    BY EqualitiesArePositive
  <2> QED
    BY <1>2, <2>1
<1>4. L.diseqs \in Seq(kn \cup {e})
  BY <1>2, SeqDef
<1>5. Literals(reg, kn \cup {e}, A, L)
  BY <1>2, <1>3, <1>4 DEF Literals
<1> QED
  BY <1>1, <1>5 DEF Good

\* A new term.
LEMMA GoodTerm ==
    ASSUME NEW reg, NEW kn, Vocabulary(reg, kn), NEW A, NEW L, Good(reg, kn, A, L),
           NEW new, new \notin reg, NEW L1, L1.parent = With(L.parent, new, new),
           L1.class = With(L.class, new, {new}), NEW more \in [reg -> Seq(reg \cup {new})],
           L1.use = With(more, new, <<>>), L1.edge = L.edge, L1.diseqs = L.diseqs
    PROVE  Good(reg \cup {new}, kn, A, L1)
<1> DEFINE reg1 == reg \cup {new}
           par == L.parent
           par1 == With(par, new, new)
<1>1. PICK time, n : Founded(reg, kn, A, L, time, n)
  BY DEF Good
<1> DEFINE time1 == With(time, new, n)
<1>2. Timed(reg, par, time, n) /\ par \in [reg -> reg] /\ time \in [reg -> Nat]
  BY <1>1 DEF Founded, Timed
<1>3. Timed(reg1, par1, time1, n)
  BY <1>2, NewTimed
<1>4. /\ \A x \in reg : RootOf(reg1, par1, x) = RootOf(reg, par, x)
      /\ RootOf(reg1, par1, new) = new
      /\ \A k : \A s, t \in reg : Joined(reg, par, time, k, s, t) => Joined(reg1, par1, time1, k, s, t)
  BY <1>2, NewRoot
<1>5. /\ \A x \in reg : par1[x] = par[x] /\ time1[x] = time[x]
      /\ par1[new] = new
  BY <1>2 DEF With
<1> HIDE DEF par, par1, time1
<1>6. ASSUME NEW k, NEW s, NEW t, Joined(reg, par, time, k, s, t)
      PROVE  Joined(reg1, par1, time1, k, s, t)
  <2> s \in reg /\ t \in reg
    BY <1>6 DEF Joined
  <2> QED
    BY <1>4, <1>6
<1>7. ASSUME NEW x \in DOMAIN L.edge
      PROVE  Sound(reg1, kn, A, par1, time1, x, L.edge[x])
  <2>1. Sound(reg, kn, A, par, time, x, L.edge[x]) /\ x \in reg
    BY <1>1 DEF Founded, par
  <2>2. par1[x] = par[x] /\ time1[x] = time[x]
    BY <1>5, <2>1
  <2>3. Rests(reg1, A, par1, time1, time[x], L.edge[x].above, L.edge[x].under, L.edge[x].literal)
    BY <1>6, <2>1 DEF Sound, Rests
  <2> HIDE DEF reg1
  <2> QED
    BY <1>6, <2>1, <2>2, <2>3 DEF Sound
<1>8. DOMAIN L.edge = {x \in reg1 : par1[x] # x} /\ L.edge = [x \in DOMAIN L.edge |-> L.edge[x]]
  <2>1. DOMAIN L.edge = {x \in reg : par[x] # x} /\ L.edge = [x \in DOMAIN L.edge |-> L.edge[x]]
    BY <1>1 DEF Founded, par
  <2> QED
    BY <1>5, <2>1
<1>9. L1.parent = par1
  BY DEF par1, par
<1>10. Founded(reg1, kn, A, L1, time1, n)
  <2> HIDE DEF reg1
  <2> QED
    BY <1>3, <1>7, <1>8, <1>9 DEF Founded
<1>11. Members(reg1, L1)
  <2>1. /\ L.class \in [reg -> SUBSET reg]
        /\ \A x \in reg : par[x] = x => L.class[x] = {s \in reg : RootOf(reg, par, s) = x}
    BY DEF Good, Members, par
  <2>2. L1.class \in [reg1 -> SUBSET reg1] /\ L1.class[new] = {new} /\ \A x \in reg : L1.class[x] = L.class[x]
    BY <2>1 DEF With
  <2>3. <<>> \in Seq(reg1)
    OBVIOUS
  <2>4. L1.use \in [reg1 -> Seq(reg1)]
    BY <2>3 DEF With
  <2>5. ASSUME NEW x \in reg1, par1[x] = x
        PROVE  L1.class[x] = {s \in reg1 : RootOf(reg1, par1, s) = x}
    <3>1. CASE x = new
      <4>1. \A s \in reg : RootOf(reg1, par1, s) # new
        <5>1. \A s \in reg : RootOf(reg, par, s) \in reg
          BY <1>2, RootFacts
        <5> QED
          BY <1>4, <5>1
      <4>2. {s \in reg1 : RootOf(reg1, par1, s) = new} = {new}
        <5>1. RootOf(reg1, par1, new) = new
          BY <1>4
        <5> QED
          BY <4>1, <5>1
      <4> QED
        BY <2>2, <3>1, <4>2
    <3>2. CASE x \in reg
      <4>1. new # x
        BY <3>2
      <4>2. par[x] = x
        BY <1>5, <2>5, <3>2
      <4>3. {s \in reg1 : RootOf(reg1, par1, s) = x} = {s \in reg : RootOf(reg, par, s) = x}
        BY ONLY <1>4, <4>1
      <4>4. L1.class[x] = L.class[x] /\ L.class[x] = {s \in reg : RootOf(reg, par, s) = x}
        BY <2>1, <2>2, <3>2, <4>2
      <4> QED
        BY ONLY <4>3, <4>4
    <3> QED
      BY <3>1, <3>2
  <2> HIDE DEF reg1
  <2> QED
    BY <1>9, <2>2, <2>4, <2>5 DEF Members
<1>12. Literals(reg1, kn, A, L1)
  <2>1. \A d \in kn : Sides[d][1] \in reg /\ Sides[d][2] \in reg
    BY DEF Vocabulary
  <2>2. Literals(reg, kn, A, L)
    BY DEF Good
  <2>3. \A d \in kn : d \in A => RootOf(reg, par, Sides[d][1]) = RootOf(reg, par, Sides[d][2])
    BY <2>2 DEF Literals, par
  <2> QED
    BY <1>4, <1>9, <2>1, <2>2, <2>3 DEF Literals
<1> HIDE DEF reg1
<1>13. Good(reg1, kn, A, L1)
  BY <1>10, <1>11, <1>12 DEF Good
<1> QED
  BY <1>13 DEF reg1

(***************************************************************************)
(* Rolling back.                                                            *)
(***************************************************************************)
IsSeq(s) == Len(s) \in Nat /\ s = [i \in 1 .. Len(s) |-> s[i]]

LEMMA SeqTyped ==
    ASSUME NEW s, IsSeq(s), NEW e
    PROVE  \E S : s \in Seq(S) /\ e \in S
<1> DEFINE S == {s[i] : i \in 1 .. Len(s)} \cup {e}
           n == Len(s)
<1>1. n \in Nat /\ s = [i \in 1 .. n |-> s[i]]
  BY DEF IsSeq
<1>2. s \in [1 .. n -> S]
  <2> HIDE DEF n
  <2> QED
    BY <1>1
<1>3. s \in Seq(S)
  <2> HIDE DEF S, n
  <2> QED
    BY <1>1, <1>2, SeqDef
<1> QED
  BY <1>3

LEMMA SeqAppend ==
    ASSUME NEW s, IsSeq(s), NEW e
    PROVE  /\ IsSeq(Append(s, e)) /\ Len(Append(s, e)) = Len(s) + 1 /\ Len(s) \in Nat
           /\ \A i \in 1 .. Len(s) : Append(s, e)[i] = s[i]
           /\ Append(s, e)[Len(s) + 1] = e
<1>1. PICK S : s \in Seq(S) /\ e \in S
  BY SeqTyped
<1>2. /\ Append(s, e) \in Seq(S) /\ Len(Append(s, e)) = Len(s) + 1 /\ Len(s) \in Nat
      /\ \A i \in 1 .. Len(s) : Append(s, e)[i] = s[i]
      /\ Append(s, e)[Len(s) + 1] = e
  BY <1>1, AppendProperties
<1>3. Append(s, e) = [i \in 1 .. Len(Append(s, e)) |-> Append(s, e)[i]]
  <2>1. Append(s, e) \in [1 .. Len(Append(s, e)) -> S]
    BY <1>2, LenProperties
  <2> QED
    BY <2>1
<1> QED
  BY <1>2, <1>3 DEF IsSeq

LEMMA SeqCut ==
    ASSUME NEW s, IsSeq(s), NEW n \in 0 .. Len(s)
    PROVE  /\ IsSeq(SubSeq(s, 1, n)) /\ Len(SubSeq(s, 1, n)) = n
           /\ \A i \in 1 .. n : SubSeq(s, 1, n)[i] = s[i]
<1>1. PICK S : s \in Seq(S) /\ n \in S
  BY SeqTyped
<1>2. Len(s) \in Nat /\ n \in Int /\ \A i \in 1 .. n : s[i] \in S
  BY <1>1, LenProperties
<1>3. /\ SubSeq(s, 1, n) \in Seq(S) /\ Len(SubSeq(s, 1, n)) = IF 1 <= n THEN n - 1 + 1 ELSE 0
      /\ \A i \in 1 .. n - 1 + 1 : SubSeq(s, 1, n)[i] = s[1 + i - 1]
  BY <1>2, SubSeqProperties
<1>4. SubSeq(s, 1, n) = [i \in 1 .. Len(SubSeq(s, 1, n)) |-> SubSeq(s, 1, n)[i]]
  <2>1. SubSeq(s, 1, n) \in [1 .. Len(SubSeq(s, 1, n)) -> S]
    BY <1>3, LenProperties
  <2> QED
    BY <2>1
<1> QED
  BY <1>2, <1>3, <1>4 DEF IsSeq

LEMMA FrontAppend ==
    ASSUME NEW S, NEW s \in Seq(S), NEW e \in S
    PROVE  Front(Append(s, e)) = s
<1>1. /\ Append(s, e) \in Seq(S) /\ Len(Append(s, e)) = Len(s) + 1 /\ Len(s) \in Nat
      /\ \A i \in 1 .. Len(s) : Append(s, e)[i] = s[i]
  BY AppendProperties, LenProperties
<1>6. s = [i \in 1 .. Len(s) |-> s[i]]
  <2>1. s \in [1 .. Len(s) -> S]
    BY LenProperties
  <2> QED
    BY <2>1
<1>2. IsSeq(Append(s, e))
  BY <1>1, <1>6, SeqAppend DEF IsSeq
<1>3. Len(s) \in 0 .. Len(Append(s, e))
  BY <1>1
<1> DEFINE f == SubSeq(Append(s, e), 1, Len(s))
<1>4. IsSeq(f) /\ Len(f) = Len(s) /\ \A i \in 1 .. Len(s) : f[i] = Append(s, e)[i]
  BY <1>2, <1>3, SeqCut
<1>5. Front(Append(s, e)) = f
  BY <1>1 DEF Front
<1>7. f = [i \in 1 .. Len(f) |-> f[i]]
  BY <1>4 DEF IsSeq
<1> HIDE DEF f
<1>8. f = s
  BY <1>1, <1>4, <1>6, <1>7
<1> QED
  BY <1>5, <1>8

\* The entry of a merge undoes it.
LEMMA UndoPut ==
    ASSUME NEW reg, NEW kn, NEW A, NEW L, Good(reg, kn, A, L),
           L = [parent |-> L.parent, class |-> L.class, use |-> L.use, edge |-> L.edge, diseqs |-> L.diseqs],
           NEW top \in reg, NEW below \in reg, L.parent[top] = top, L.parent[below] = below, NEW e
    PROVE  Undo([undo |-> "merge", top |-> top, below |-> below,
                 class |-> L.class[top], use |-> L.use[top]], Put(L, top, below, e)) = L
<1> DEFINE L1 == Put(L, top, below, e)
           entry == [undo |-> "merge", top |-> top, below |-> below,
                     class |-> L.class[top], use |-> L.use[top]]
<1>1. PICK time, n : Founded(reg, kn, A, L, time, n)
  BY DEF Good
<1>2. L.parent \in [reg -> reg] /\ below \notin DOMAIN L.edge /\ L.edge = [x \in DOMAIN L.edge |-> L.edge[x]]
  BY <1>1 DEF Founded, Timed
<1>3. L.class \in [reg -> SUBSET reg] /\ L.use \in [reg -> Seq(reg)]
  BY DEF Good, Members
<1>4. [L1.parent EXCEPT ![below] = below] = L.parent
  BY <1>2 DEF Put, Linked
<1>5. [L1.class EXCEPT ![top] = L.class[top]] = L.class
  BY <1>3 DEF Put
<1>6. [L1.use EXCEPT ![top] = L.use[top]] = L.use
  BY <1>3 DEF Put
<1>7. [x \in DOMAIN L1.edge \ {below} |-> L1.edge[x]] = L.edge
  <2>1. L1.edge = With(L.edge, below, e)
    BY DEF Put
  <2>2. DOMAIN L1.edge \ {below} = DOMAIN L.edge /\ \A x \in DOMAIN L.edge : L1.edge[x] = L.edge[x]
    BY <1>2, <2>1 DEF With
  <2> HIDE DEF L1
  <2> QED
    BY <1>2, <2>2
<1>8. L1.diseqs = L.diseqs
  BY DEF Put
<1>9. L1 = [parent |-> L1.parent, class |-> L1.class, use |-> L1.use, edge |-> L1.edge, diseqs |-> L1.diseqs]
  BY DEF Put
<1>10. Undo(entry, L1) = [parent |-> [L1.parent EXCEPT ![below] = below],
                          class |-> [L1.class EXCEPT ![top] = L.class[top]],
                          use |-> [L1.use EXCEPT ![top] = L.use[top]],
                          edge |-> [x \in DOMAIN L1.edge \ {below} |-> L1.edge[x]], diseqs |-> L1.diseqs]
  <2>1. entry.undo # "diseq" /\ entry.top = top /\ entry.below = below /\ entry.class = L.class[top]
        /\ entry.use = L.use[top]
    OBVIOUS
  <2> HIDE DEF entry, L1
  <2> QED
    BY <1>9, <2>1 DEF Undo
<1> HIDE DEF L1, entry
<1>11. Undo(entry, L1) = L
  BY <1>4, <1>5, <1>6, <1>7, <1>8, <1>10
<1> QED
  BY <1>11 DEF L1, entry

\* From the first limit on, a run of the entries from the end of the history backwards
\* passes by what was saved at each limit.
Rewinds(run, hist, lims, sv, L) ==
    /\ run[Len(hist)] = L
    /\ \A k \in lims[1] + 1 .. Len(hist) : run[k - 1] = Undo(hist[k], run[k])
    /\ \A j \in 1 .. Len(lims) : run[lims[j]] = sv[j]

Stacked(hist, lims, sv) ==
    /\ IsSeq(hist) /\ IsSeq(sv) /\ lims \in Seq(Nat) /\ Len(sv) = Len(lims)
    /\ \A i \in 1 .. Len(lims) : lims[i] \in 0 .. Len(hist)
    /\ \A i, j \in 1 .. Len(lims) : i <= j => lims[i] <= lims[j]

\* What pop computes.
Undone(hist, target, L) ==
    LET back[k \in target .. Len(hist)] == IF k = Len(hist) THEN L ELSE Undo(hist[k + 1], back[k + 1])
    IN  back[target]

LEMMA RewindsFrom ==
    ASSUME NEW hist, NEW lims, NEW sv, NEW L, Stacked(hist, lims, sv), NEW run, Rewinds(run, hist, lims, sv, L),
           NEW j \in 1 .. Len(lims)
    PROVE  Undone(hist, lims[j], L) = sv[j]
<1> DEFINE low == lims[j]
           m == Len(hist)
           Is(g) == g = [k \in low .. m |-> IF k = m THEN L ELSE Undo(hist[k + 1], g[k + 1])]
           F == [k \in low .. m |-> run[k]]
           back == CHOOSE g : Is(g)
<1>1. low \in Nat /\ m \in Nat /\ low <= m /\ lims[1] \in Nat /\ lims[1] <= low
  <2>1. 1 \in 1 .. Len(lims) /\ 1 <= j
    BY DEF Stacked
  <2>2. lims[1] <= lims[j] /\ lims[1] \in 0 .. m /\ lims[j] \in 0 .. m /\ m \in Nat
    BY <2>1 DEF Stacked, IsSeq
  <2> QED
    BY <2>2
<1>2. run[m] = L /\ \A k \in lims[1] + 1 .. m : run[k - 1] = Undo(hist[k], run[k])
  BY DEF Rewinds
<1>3. Is(F)
  <2>1. ASSUME NEW k \in low .. m
        PROVE  F[k] = IF k = m THEN L ELSE Undo(hist[k + 1], F[k + 1])
    <3>1. CASE k = m
      BY <1>2, <3>1
    <3>2. CASE k # m
      <4>1. k + 1 \in low .. m /\ k + 1 \in lims[1] + 1 .. m /\ (k + 1) - 1 = k
        BY <1>1, <3>2
      <4>2. F[k] = run[k] /\ F[k + 1] = run[k + 1]
        BY <4>1
      <4>3. run[(k + 1) - 1] = Undo(hist[k + 1], run[k + 1])
        BY <1>2, <4>1
      <4> QED
        BY <3>2, <4>1, <4>2, <4>3
    <3> QED
      BY <3>1, <3>2
  <2>2. F = [k \in low .. m |-> F[k]]
    OBVIOUS
  <2> HIDE DEF F, low, m
  <2> QED
    BY <2>1, <2>2, Zenon
<1>4. Is(back)
  <2> HIDE DEF Is, F
  <2> QED
    BY <1>3, Zenon
<1> HIDE DEF back
<1>5. back = [k \in low .. m |-> IF k = m THEN L ELSE Undo(hist[k + 1], back[k + 1])]
  BY <1>4, Zenon
<1> HIDE DEF Is, F
<1>6. \A k \in low .. m : back[k] = IF k = m THEN L ELSE Undo(hist[k + 1], back[k + 1])
  <2> HIDE DEF low, m
  <2> QED
    BY <1>5, Zenon
<1> DEFINE Off == {k \in low .. m : back[k] # run[k]}
           Gaps == {m - k : k \in Off}
<1> HIDE DEF low, m
<1>7. Off = {}
  <2> SUFFICES ASSUME Off # {} PROVE FALSE
    OBVIOUS
  <2>1. Gaps \subseteq Nat /\ Gaps # {}
    BY <1>1
  <2>2. PICK d \in Gaps : \A c \in Gaps : d <= c
    <3> HIDE DEF Gaps
    <3> QED
      BY <2>1, LeastOf
  <2>3. PICK k \in Off : d = m - k
    OBVIOUS
  <2>4. k \in low .. m /\ back[k] # run[k]
    BY <2>3
  <2>5. k # m
    BY <1>2, <1>6, <2>4
  <2>6. k + 1 \in low .. m /\ k + 1 \in lims[1] + 1 .. m /\ (k + 1) - 1 = k
    BY <1>1, <2>4, <2>5
  <2>7. k + 1 \notin Off
    <3> SUFFICES ASSUME k + 1 \in Off PROVE FALSE
      OBVIOUS
    <3>1. m - (k + 1) \in Gaps
      OBVIOUS
    <3>2. m - k <= m - (k + 1)
      <4> HIDE DEF Gaps, Off
      <4> QED
        BY <2>2, <2>3, <3>1
    <3> QED
      BY <1>1, <2>4, <3>2
  <2>8. back[k + 1] = run[k + 1]
    BY <2>6, <2>7
  <2>9. run[k] = Undo(hist[k + 1], run[k + 1])
    <3>1. run[(k + 1) - 1] = Undo(hist[k + 1], run[k + 1])
      BY <1>2, <2>6
    <3> QED
      BY <2>6, <3>1
  <2>10. back[k] = Undo(hist[k + 1], back[k + 1])
    <3> HIDE DEF Off, Gaps
    <3> QED
      BY <1>6, <2>4, <2>5
  <2> QED
    BY <2>4, <2>8, <2>9, <2>10
<1>8. back[low] = run[low]
  BY <1>1, <1>7
<1>9. run[low] = sv[j]
  BY DEF Rewinds, low
<1>10. back[low] = sv[j]
  BY <1>8, <1>9
<1> QED
  BY <1>10, Zenon DEF Undone, back, Is, low, m

\* One more entry, which undoes its step.
Extended(run, m, L) == [k \in 0 .. m + 1 |-> IF k = m + 1 THEN L ELSE run[k]]

LEMMA RunExtends ==
    ASSUME NEW hist, NEW lims, NEW sv, NEW L, NEW run, Rewinds(run, hist, lims, sv, L), Len(hist) \in Nat,
           lims \in Seq(Nat), Len(lims) # 0, \A i \in 1 .. Len(lims) : lims[i] \in 0 .. Len(hist),
           NEW hist1, Len(hist1) = Len(hist) + 1, \A i \in 1 .. Len(hist) : hist1[i] = hist[i],
           NEW L1, Undo(hist1[Len(hist) + 1], L1) = L
    PROVE  Rewinds(Extended(run, Len(hist), L1), hist1, lims, sv, L1)
<1> DEFINE m == Len(hist)
           run1 == Extended(run, m, L1)
<1>1. m \in Nat /\ Len(lims) \in Nat /\ lims[1] \in 0 .. m
  <2>1. Len(lims) \in Nat
    BY LenProperties
  <2> QED
    BY <2>1
<1>2. run[m] = L /\ (\A k \in lims[1] + 1 .. m : run[k - 1] = Undo(hist[k], run[k]))
      /\ \A j \in 1 .. Len(lims) : run[lims[j]] = sv[j]
  BY DEF Rewinds
<1>3. run1[m + 1] = L1 /\ \A k \in 0 .. m : run1[k] = run[k]
  BY <1>1 DEF Extended
<1> HIDE DEF run1
<1>4. ASSUME NEW k \in lims[1] + 1 .. m + 1
      PROVE  run1[k - 1] = Undo(hist1[k], run1[k])
  <2>1. CASE k = m + 1
    <3>1. k - 1 = m /\ m \in 0 .. m
      BY <1>1, <2>1
    <3>2. run1[k - 1] = L
      BY <1>2, <1>3, <3>1
    <3> QED
      BY <1>3, <2>1, <3>2
  <2>2. CASE k # m + 1
    <3>1. k \in lims[1] + 1 .. m /\ k \in 1 .. m /\ k - 1 \in 0 .. m /\ k \in 0 .. m
      BY <1>1, <2>2
    <3>2. run1[k] = run[k] /\ run1[k - 1] = run[k - 1] /\ hist1[k] = hist[k]
      BY <1>3, <3>1
    <3> QED
      BY <1>2, <3>1, <3>2
  <2> QED
    BY <2>1, <2>2
<1>5. ASSUME NEW j \in 1 .. Len(lims)
      PROVE  run1[lims[j]] = sv[j]
  <2>1. lims[j] \in 0 .. m
    OBVIOUS
  <2> QED
    BY <1>2, <1>3, <2>1
<1>6. Rewinds(run1, hist1, lims, sv, L1)
  BY <1>3, <1>4, <1>5 DEF Rewinds
<1> QED
  BY <1>6 DEF run1

(***************************************************************************)
(* The loops that still compare applications.                               *)
(***************************************************************************)
Elements(s) == {s[i] : i \in 1 .. Len(s)}

LEMMA ConcatElements ==
    ASSUME NEW S, NEW s \in Seq(S), NEW t \in Seq(S)
    PROVE  s \o t \in Seq(S) /\ Elements(s \o t) = Elements(s) \cup Elements(t)
<1>1. /\ s \o t \in Seq(S) /\ Len(s \o t) = Len(s) + Len(t) /\ Len(s) \in Nat /\ Len(t) \in Nat
      /\ \A i \in 1 .. Len(s) + Len(t) : (s \o t)[i] = IF i <= Len(s) THEN s[i] ELSE t[i - Len(s)]
  BY ConcatProperties, LenProperties
<1>2. ASSUME NEW x \in Elements(s \o t)
      PROVE  x \in Elements(s) \cup Elements(t)
  <2>1. PICK i \in 1 .. Len(s) + Len(t) : x = (s \o t)[i]
    BY <1>1 DEF Elements
  <2>2. CASE i <= Len(s)
    BY <1>1, <2>1, <2>2 DEF Elements
  <2>3. CASE ~(i <= Len(s))
    <3>1. i - Len(s) \in 1 .. Len(t) /\ x = t[i - Len(s)]
      BY <1>1, <2>1, <2>3
    <3> QED
      BY <3>1 DEF Elements
  <2> QED
    BY <2>2, <2>3
<1>3. ASSUME NEW x \in Elements(s)
      PROVE  x \in Elements(s \o t)
  <2>1. PICK i \in 1 .. Len(s) : x = s[i]
    BY DEF Elements
  <2>2. i \in 1 .. Len(s \o t) /\ x = (s \o t)[i]
    BY <1>1, <2>1
  <2> QED
    BY <2>2 DEF Elements
<1>4. ASSUME NEW x \in Elements(t)
      PROVE  x \in Elements(s \o t)
  <2>1. PICK i \in 1 .. Len(t) : x = t[i]
    BY DEF Elements
  <2>2. Len(s) + i \in 1 .. Len(s \o t) /\ ~(Len(s) + i <= Len(s)) /\ (Len(s) + i) - Len(s) = i
    BY <1>1, <2>1
  <2>3. x = (s \o t)[Len(s) + i]
    BY <1>1, <2>1, <2>2
  <2> QED
    BY <2>2, <2>3 DEF Elements
<1> QED
  BY <1>1, <1>2, <1>3, <1>4

LoopOk(reg, l) ==
    \/ l.loop \in {"merge", "uses"} /\ l.terms \in Seq(reg) /\ l.of \in reg /\ l.at \in Nat
    \/ l.loop = "members" /\ l.term \in reg /\ l.root \in reg
    \/ l.loop = "arguments" /\ l.term \in reg /\ l.args \in Seq(reg)
Looping(reg, Q) == \E S : Q \in Seq(S) /\ \A l \in S : LoopOk(reg, l)

LEMMA LoopNone ==
    ASSUME NEW reg
    PROVE  Looping(reg, <<>>)
<1> DEFINE S == {}
<1>1. <<>> \in Seq(S) /\ \A l \in S : LoopOk(reg, l)
  OBVIOUS
<1> HIDE DEF S
<1> QED
  BY <1>1 DEF Looping

LEMMA LoopOne ==
    ASSUME NEW reg, NEW k, LoopOk(reg, k)
    PROVE  Looping(reg, <<k>>)
<1> DEFINE S == {k}
<1>1. <<k>> \in Seq(S) /\ \A l \in S : LoopOk(reg, l)
  OBVIOUS
<1> HIDE DEF S
<1> QED
  BY <1>1 DEF Looping

LEMMA LoopFirst ==
    ASSUME NEW reg, NEW Q, Looping(reg, Q), NEW l, LoopOk(reg, l)
    PROVE  /\ Looping(reg, <<l>> \o Q) /\ Len(<<l>> \o Q) = Len(Q) + 1 /\ Len(Q) \in Nat
           /\ (<<l>> \o Q)[1] = l /\ \A i \in 1 .. Len(Q) : (<<l>> \o Q)[i + 1] = Q[i]
<1>1. PICK S : Q \in Seq(S) /\ \A k \in S : LoopOk(reg, k)
  BY DEF Looping
<1> DEFINE T == S \cup {l}
<1>2. \A k \in T : LoopOk(reg, k)
  BY <1>1
<1>3. Q \in Seq(T) /\ <<l>> \in Seq(T) /\ Len(<<l>>) = 1 /\ <<l>>[1] = l
  <2>1. Q \in [1 .. Len(Q) -> S] /\ Len(Q) \in Nat
    BY <1>1, LenProperties
  <2>2. Q \in [1 .. Len(Q) -> T]
    BY <2>1
  <2> QED
    BY <2>1, <2>2, SeqDef
<1> HIDE DEF T
<1>4. /\ <<l>> \o Q \in Seq(T) /\ Len(<<l>> \o Q) = Len(<<l>>) + Len(Q)
      /\ \A i \in 1 .. Len(<<l>>) + Len(Q) : (<<l>> \o Q)[i] = IF i <= Len(<<l>>) THEN <<l>>[i] ELSE Q[i - Len(<<l>>)]
  BY <1>3, ConcatProperties
<1>5. Len(Q) \in Nat
  BY <1>1, LenProperties
<1>6. \A i \in 1 .. Len(Q) : (<<l>> \o Q)[i + 1] = Q[i]
  BY <1>3, <1>4, <1>5
<1> QED
  BY <1>2, <1>3, <1>4, <1>5, <1>6 DEF Looping

LEMMA LoopRest ==
    ASSUME NEW reg, NEW Q, Looping(reg, Q), Q # <<>>
    PROVE  /\ LoopOk(reg, Head(Q)) /\ Looping(reg, Tail(Q))
           /\ Len(Q) \in Nat /\ Len(Q) >= 1 /\ Len(Tail(Q)) = Len(Q) - 1
           /\ Head(Q) = Q[1] /\ \A i \in 1 .. Len(Q) - 1 : Tail(Q)[i] = Q[i + 1]
<1>1. PICK S : Q \in Seq(S) /\ \A k \in S : LoopOk(reg, k)
  BY DEF Looping
<1>2. /\ Tail(Q) \in Seq(S) /\ Len(Tail(Q)) = Len(Q) - 1 /\ Head(Q) \in S /\ Head(Q) = Q[1]
      /\ \A i \in 1 .. Len(Tail(Q)) : Tail(Q)[i] = Q[i + 1]
  BY <1>1, HeadTailProperties
<1>3. Len(Q) \in Nat /\ Len(Q) # 0
  BY <1>1, LenProperties, EmptySeq
<1> QED
  BY <1>1, <1>2, <1>3 DEF Looping

\* The pairs that loops compare, if no merge ends them: more, when a use list grows.
Awaits(uses, l, p) ==
    /\ l.loop \in {"merge", "uses"}
    /\ \E i \in 1 .. Len(l.terms), j \in 1 .. Len(uses[l.of]) :
         (i > 1 \/ j >= l.at) /\ p = <<l.terms[i], uses[l.of][j]>>
Waiting(reg, uses, Q) == {p \in reg \X reg : \E i \in 1 .. Len(Q) : Awaits(uses, Q[i], p)}

LEMMA WaitingNone ==
    ASSUME NEW reg, NEW uses
    PROVE  Waiting(reg, uses, <<>>) = {}
BY DEF Waiting

LEMMA WaitingFirst ==
    ASSUME NEW reg, NEW uses, NEW Q, Looping(reg, Q), NEW l, LoopOk(reg, l), NEW p
    PROVE  p \in Waiting(reg, uses, <<l>> \o Q)
             <=> p \in reg \X reg /\ (Awaits(uses, l, p) \/ p \in Waiting(reg, uses, Q))
<1> DEFINE R == <<l>> \o Q
<1>1. /\ Len(R) = Len(Q) + 1 /\ Len(Q) \in Nat
      /\ R[1] = l /\ \A i \in 1 .. Len(Q) : R[i + 1] = Q[i]
  BY LoopFirst
<1> HIDE DEF R
<1>2. ASSUME NEW i \in 1 .. Len(R), Awaits(uses, R[i], p)
      PROVE  Awaits(uses, l, p) \/ \E k \in 1 .. Len(Q) : Awaits(uses, Q[k], p)
  <2>1. CASE i = 1
    BY <1>1, <1>2, <2>1
  <2>2. CASE i # 1
    <3>1. i - 1 \in 1 .. Len(Q) /\ (i - 1) + 1 = i
      BY <1>1, <2>2
    <3>2. R[i] = Q[i - 1]
      BY <1>1, <3>1
    <3> QED
      BY <1>2, <3>1, <3>2
  <2> QED
    BY <2>1, <2>2
<1>3. ASSUME Awaits(uses, l, p) \/ \E k \in 1 .. Len(Q) : Awaits(uses, Q[k], p)
      PROVE  \E i \in 1 .. Len(R) : Awaits(uses, R[i], p)
  <2>1. CASE Awaits(uses, l, p)
    <3>1. 1 \in 1 .. Len(R)
      BY <1>1
    <3> QED
      BY <1>1, <2>1, <3>1
  <2>2. CASE \E k \in 1 .. Len(Q) : Awaits(uses, Q[k], p)
    <3>1. PICK k \in 1 .. Len(Q) : Awaits(uses, Q[k], p)
      BY <2>2
    <3>2. k + 1 \in 1 .. Len(R) /\ R[k + 1] = Q[k]
      BY <1>1
    <3> QED
      BY <3>1, <3>2
  <2> QED
    BY <1>3, <2>1, <2>2
<1> QED
  BY <1>2, <1>3 DEF Waiting, R

LEMMA TwoFirst ==
    ASSUME NEW reg, NEW Q, Looping(reg, Q), NEW k, LoopOk(reg, k), NEW l, LoopOk(reg, l)
    PROVE  /\ Looping(reg, <<k, l>> \o Q)
           /\ \A uses, p : p \in Waiting(reg, uses, Q) => p \in Waiting(reg, uses, <<k, l>> \o Q)
<1>1. PICK S : Q \in Seq(S) /\ \A j \in S : LoopOk(reg, j)
  BY DEF Looping
<1> DEFINE T == S \cup {k, l}
<1>2. Q \in Seq(T)
  <2>1. Q \in [1 .. Len(Q) -> S] /\ Len(Q) \in Nat
    BY <1>1, LenProperties
  <2>2. Q \in [1 .. Len(Q) -> T]
    BY <2>1
  <2> QED
    BY <2>1, <2>2, SeqDef
<1>3. k \in T /\ l \in T
  OBVIOUS
<1> HIDE DEF T
<1>4. <<k>> \in Seq(T) /\ <<l>> \in Seq(T) /\ <<k>> \o <<l>> = <<k, l>>
  <2>1. <<k>> \in Seq(T) /\ <<l>> \in Seq(T) /\ <<k, l>> \in Seq(T)
    BY <1>3
  <2>2. /\ <<k>> \o <<l>> \in Seq(T) /\ Len(<<k>> \o <<l>>) = Len(<<k>>) + Len(<<l>>)
        /\ \A i \in 1 .. Len(<<k>>) + Len(<<l>>) :
             (<<k>> \o <<l>>)[i] = IF i <= Len(<<k>>) THEN <<k>>[i] ELSE <<l>>[i - Len(<<k>>)]
    BY <2>1, ConcatProperties
  <2>3. Len(<<k>>) = 1 /\ Len(<<l>>) = 1 /\ Len(<<k, l>>) = 2
    OBVIOUS
  <2>4. \A i \in 1 .. 2 : i = 1 \/ i = 2
    OBVIOUS
  <2>5. Len(<<k>> \o <<l>>) = 2 /\ (<<k>> \o <<l>>)[1] = k /\ (<<k>> \o <<l>>)[2] = l
    BY <2>2, <2>3
  <2>6. \A i \in 1 .. 2 : (<<k>> \o <<l>>)[i] = <<k, l>>[i]
    BY <2>4, <2>5
  <2> DEFINE s == <<k>> \o <<l>>
             t == <<k, l>>
  <2>7. s \in Seq(T) /\ t \in Seq(T) /\ Len(s) = Len(t) /\ \A i \in 1 .. Len(s) : s[i] = t[i]
    BY <2>1, <2>2, <2>3, <2>5, <2>6
  <2> HIDE DEF s, t
  <2>8. s = t
    BY <2>7, SeqEqual
  <2> QED
    BY <2>1, <2>8 DEF s, t
<1>5. (<<k>> \o <<l>>) \o Q = <<k>> \o (<<l>> \o Q)
  BY <1>2, <1>4, ConcatAssociative
<1>6. Looping(reg, <<k>> \o (<<l>> \o Q))
  <2>1. Looping(reg, <<l>> \o Q)
    BY LoopFirst
  <2> DEFINE R == <<l>> \o Q
  <2> HIDE DEF R
  <2>2. Looping(reg, <<k>> \o R)
    BY <2>1, LoopFirst DEF R
  <2> QED
    BY <2>2 DEF R
<1>7. ASSUME NEW uses, NEW p, p \in Waiting(reg, uses, Q)
      PROVE  p \in Waiting(reg, uses, <<k>> \o (<<l>> \o Q))
  <2> DEFINE R == <<l>> \o Q
  <2>1. Looping(reg, R)
    BY LoopFirst
  <2>2. p \in reg \X reg /\ p \in Waiting(reg, uses, R)
    BY <1>7, WaitingFirst DEF Waiting
  <2> HIDE DEF R
  <2>3. p \in Waiting(reg, uses, <<k>> \o R)
    BY <2>1, <2>2, WaitingFirst
  <2> QED
    BY <2>3 DEF R
<1> QED
  BY <1>4, <1>5, <1>6, <1>7

LEMMA WaitingRest ==
    ASSUME NEW reg, NEW uses, NEW Q, Looping(reg, Q), Q # <<>>, NEW p
    PROVE  p \in Waiting(reg, uses, Q)
             <=> p \in reg \X reg /\ (Awaits(uses, Head(Q), p) \/ p \in Waiting(reg, uses, Tail(Q)))
<1> DEFINE R == Tail(Q)
           l == Head(Q)
<1>1. /\ Len(Q) = Len(R) + 1 /\ Len(R) \in Nat
      /\ Q[1] = l /\ \A i \in 1 .. Len(R) : Q[i + 1] = R[i]
  <2>1. /\ Len(Q) \in Nat /\ Len(Q) >= 1 /\ Len(Tail(Q)) = Len(Q) - 1
        /\ Head(Q) = Q[1] /\ \A i \in 1 .. Len(Q) - 1 : Tail(Q)[i] = Q[i + 1]
    BY LoopRest
  <2> QED
    BY <2>1
<1> HIDE DEF R, l
<1>2. ASSUME NEW i \in 1 .. Len(Q), Awaits(uses, Q[i], p)
      PROVE  Awaits(uses, l, p) \/ \E k \in 1 .. Len(R) : Awaits(uses, R[k], p)
  <2>1. CASE i = 1
    BY <1>1, <1>2, <2>1
  <2>2. CASE i # 1
    <3>1. i - 1 \in 1 .. Len(R) /\ (i - 1) + 1 = i
      BY <1>1, <2>2
    <3>2. Q[i] = R[i - 1]
      BY <1>1, <3>1
    <3> QED
      BY <1>2, <3>1, <3>2
  <2> QED
    BY <2>1, <2>2
<1>3. ASSUME Awaits(uses, l, p) \/ \E k \in 1 .. Len(R) : Awaits(uses, R[k], p)
      PROVE  \E i \in 1 .. Len(Q) : Awaits(uses, Q[i], p)
  <2>1. CASE Awaits(uses, l, p)
    <3>1. 1 \in 1 .. Len(Q)
      BY <1>1
    <3> QED
      BY <1>1, <2>1, <3>1
  <2>2. CASE \E k \in 1 .. Len(R) : Awaits(uses, R[k], p)
    <3>1. PICK k \in 1 .. Len(R) : Awaits(uses, R[k], p)
      BY <2>2
    <3>2. k + 1 \in 1 .. Len(Q) /\ Q[k + 1] = R[k]
      BY <1>1
    <3> QED
      BY <3>1, <3>2
  <2> QED
    BY <1>3, <2>1, <2>2
<1> QED
  BY <1>2, <1>3 DEF Waiting, R, l

LEMMA WaitingGrows ==
    ASSUME NEW reg, NEW uses \in [reg -> Seq(reg)], NEW top \in reg, NEW below \in reg, NEW uses1,
           uses1[top] = uses[top] \o uses[below], \A x \in reg : x # top => uses1[x] = uses[x],
           NEW Q, Looping(reg, Q)
    PROVE  Waiting(reg, uses, Q) \subseteq Waiting(reg, uses1, Q)
<1>1. uses[top] \in Seq(reg) /\ uses[below] \in Seq(reg)
  OBVIOUS
<1>2. /\ Len(uses[top] \o uses[below]) = Len(uses[top]) + Len(uses[below])
      /\ Len(uses[top]) \in Nat /\ Len(uses[below]) \in Nat
      /\ \A i \in 1 .. Len(uses[top]) + Len(uses[below]) :
           (uses[top] \o uses[below])[i] = IF i <= Len(uses[top]) THEN uses[top][i] ELSE uses[below][i - Len(uses[top])]
  BY <1>1, ConcatProperties, LenProperties
<1>4. ASSUME NEW x \in reg, NEW j \in 1 .. Len(uses[x])
      PROVE  j \in 1 .. Len(uses1[x]) /\ uses1[x][j] = uses[x][j]
  <2>1. CASE x = top
    BY <1>2, <2>1
  <2>2. CASE x # top
    BY <2>2
  <2> QED
    BY <2>1, <2>2
<1>5. ASSUME NEW l, LoopOk(reg, l), NEW p, Awaits(uses, l, p)
      PROVE  Awaits(uses1, l, p)
  <2>1. l.loop \in {"merge", "uses"} /\ l.of \in reg
    BY <1>5 DEF LoopOk, Awaits
  <2>2. PICK i \in 1 .. Len(l.terms), j \in 1 .. Len(uses[l.of]) :
          (i > 1 \/ j >= l.at) /\ p = <<l.terms[i], uses[l.of][j]>>
    BY <1>5 DEF Awaits
  <2>3. j \in 1 .. Len(uses1[l.of]) /\ uses1[l.of][j] = uses[l.of][j]
    BY <1>4, <2>1
  <2> QED
    BY <2>1, <2>2, <2>3 DEF Awaits
<1>6. PICK S : Q \in Seq(S) /\ \A l \in S : LoopOk(reg, l)
  BY DEF Looping
<1>7. \A i \in 1 .. Len(Q) : LoopOk(reg, Q[i])
  BY <1>6, LenProperties
<1> QED
  BY <1>5, <1>7 DEF Waiting

(***************************************************************************)
(* The invariant of every behaviour, whenever terms are registered.         *)
(***************************************************************************)
TrailTo(a, j) == UNION {a[i] : i \in 1 .. j}
Record(L) == L = [parent |-> L.parent, class |-> L.class, use |-> L.use, edge |-> L.edge, diseqs |-> L.diseqs]

\* Of the equalities of one pair of terms, one is reported.
Heard(kn, rep) == rep \subseteq kn /\ \A e \in kn : \E d \in rep : SamePair(d, e)

Words == IsFiniteSet(registered) /\ Vocabulary(registered, known) /\ Heard(known, reporting)
Now == Good(registered, known, Trail, Here)
Stack ==
    /\ Stacked(history, limits, saved)
    /\ asserted \in Seq(SUBSET Int) /\ Len(asserted) = Len(limits) + 1
    /\ \A i \in 1 .. Len(asserted) : IsFiniteSet(asserted[i])
Back == \A j \in 1 .. Len(limits) :
           Record(saved[j]) /\ Good(registered, known, TrailTo(asserted, j), saved[j])
Reversible == limits # <<>> => \E run : Rewinds(run, history, limits, saved, Here)
Queue == Looping(registered, todo)

Inv == Words /\ Now /\ Stack /\ Back /\ Reversible /\ Queue

LEMMA TrailIsTo ==
    ASSUME NEW a \in Seq(SUBSET Int)
    PROVE  UNION {a[i] : i \in DOMAIN a} = TrailTo(a, Len(a))
BY LenProperties DEF TrailTo

Added(a, b, m, l) == b = [a EXCEPT ![m + 1] = @ \cup {l}]

LEMMA TrailAdds ==
    ASSUME NEW a \in Seq(SUBSET Int), NEW m \in Nat, Len(a) = m + 1, NEW l \in Int,
           \A i \in 1 .. Len(a) : IsFiniteSet(a[i]), NEW b, Added(a, b, m, l)
    PROVE  /\ b \in Seq(SUBSET Int) /\ Len(b) = m + 1
           /\ \A i \in 1 .. Len(b) : IsFiniteSet(b[i])
           /\ TrailTo(b, m + 1) = TrailTo(a, m + 1) \cup {l}
           /\ \A j \in 1 .. m : TrailTo(b, j) = TrailTo(a, j)
<1>1. a \in [1 .. m + 1 -> SUBSET Int] /\ m + 1 \in 1 .. m + 1
  BY LenProperties
<1>2. b \in [1 .. m + 1 -> SUBSET Int]
  BY <1>1 DEF Added
<1>3. b[m + 1] = a[m + 1] \cup {l} /\ \A i \in 1 .. m : b[i] = a[i]
  BY <1>1 DEF Added
<1>4. b \in Seq(SUBSET Int) /\ Len(b) = m + 1
  <2>1. DOMAIN b = 1 .. m + 1
    BY <1>2
  <2>2. b \in Seq(SUBSET Int)
    BY <1>2, SeqDef
  <2> QED
    BY <2>1, <2>2, LenProperties
<1>5. \A i \in 1 .. m + 1 : i \in 1 .. m \/ i = m + 1
  OBVIOUS
<1>6. TrailTo(b, m + 1) = TrailTo(a, m + 1) \cup {l}
  BY <1>1, <1>3, <1>5 DEF TrailTo
<1>7. ASSUME NEW j \in 1 .. m
      PROVE  TrailTo(b, j) = TrailTo(a, j)
  <2>1. \A i \in 1 .. j : b[i] = a[i]
    BY <1>3
  <2> QED
    BY <2>1 DEF TrailTo
<1>8. ASSUME NEW i \in 1 .. m + 1
      PROVE  IsFiniteSet(b[i])
  <2>1. IsFiniteSet(a[i])
    OBVIOUS
  <2>2. IsFiniteSet(a[i] \cup {l})
    BY <2>1, FS_AddElement
  <2> QED
    BY <1>3, <1>5, <2>1, <2>2
<1> QED
  BY <1>4, <1>6, <1>7, <1>8

LEMMA TrailPushes ==
    ASSUME NEW a \in Seq(SUBSET Int), NEW m \in Nat, Len(a) = m + 1,
           \A i \in 1 .. Len(a) : IsFiniteSet(a[i]), NEW b, b = Append(a, {})
    PROVE  /\ b \in Seq(SUBSET Int) /\ Len(b) = m + 2
           /\ \A i \in 1 .. Len(b) : IsFiniteSet(b[i])
           /\ TrailTo(b, m + 2) = TrailTo(a, m + 1)
           /\ \A j \in 1 .. m + 1 : TrailTo(b, j) = TrailTo(a, j)
<1>1. b \in Seq(SUBSET Int) /\ Len(b) = m + 2 /\ b[m + 2] = {} /\ \A i \in 1 .. m + 1 : b[i] = a[i]
  <2>1. {} \in SUBSET Int
    OBVIOUS
  <2>2. /\ b \in Seq(SUBSET Int) /\ Len(b) = Len(a) + 1 /\ b[Len(a) + 1] = {}
        /\ \A i \in 1 .. Len(a) : b[i] = a[i]
    BY <2>1, AppendProperties
  <2>3. Len(a) + 1 = m + 2
    OBVIOUS
  <2> QED
    BY <2>2, <2>3
<1>2. \A i \in 1 .. m + 2 : i \in 1 .. m + 1 \/ i = m + 2
  OBVIOUS
<1>3. \A i \in 1 .. m + 2 : IsFiniteSet(b[i])
  BY <1>1, <1>2, FS_EmptySet
<1>4. ASSUME NEW j \in 1 .. m + 1
      PROVE  TrailTo(b, j) = TrailTo(a, j)
  <2>1. \A i \in 1 .. j : b[i] = a[i]
    BY <1>1
  <2> QED
    BY <2>1 DEF TrailTo
<1>5. TrailTo(b, m + 2) = TrailTo(a, m + 1)
  <2>1. \A i \in 1 .. m + 1 : i \in 1 .. m + 2
    OBVIOUS
  <2> QED
    BY <1>1, <1>2, <2>1 DEF TrailTo
<1> QED
  BY <1>1, <1>3, <1>4, <1>5

LEMMA TrailPops ==
    ASSUME NEW a \in Seq(SUBSET Int), NEW k \in 1 .. Len(a),
           \A i \in 1 .. Len(a) : IsFiniteSet(a[i]), NEW b, b = SubSeq(a, 1, k)
    PROVE  /\ b \in Seq(SUBSET Int) /\ Len(b) = k
           /\ \A i \in 1 .. Len(b) : IsFiniteSet(b[i])
           /\ \A j \in 1 .. k : TrailTo(b, j) = TrailTo(a, j)
<1>1. b \in Seq(SUBSET Int) /\ Len(b) = k /\ \A i \in 1 .. k : b[i] = a[i]
  <2>1. Len(a) \in Nat /\ k \in Int /\ 1 <= k /\ \A i \in 1 .. k : a[i] \in SUBSET Int
    BY LenProperties
  <2>2. /\ b \in Seq(SUBSET Int) /\ Len(b) = IF 1 <= k THEN k - 1 + 1 ELSE 0
        /\ \A i \in 1 .. k - 1 + 1 : b[i] = a[1 + i - 1]
    BY <2>1, SubSeqProperties
  <2> QED
    BY <2>1, <2>2
<1>2. Len(a) \in Nat
  BY LenProperties
<1>3. \A i \in 1 .. k : IsFiniteSet(b[i])
  BY <1>1, <1>2
<1>4. ASSUME NEW j \in 1 .. k
      PROVE  TrailTo(b, j) = TrailTo(a, j)
  <2>1. \A i \in 1 .. j : b[i] = a[i]
    BY <1>1
  <2> QED
    BY <2>1 DEF TrailTo
<1> QED
  BY <1>1, <1>3, <1>4

\* What the code reads of its lists.
LEMMA Reads ==
    ASSUME Inv
    PROVE  /\ \A x \in registered : /\ Find[x] = RootOf(registered, parent, x) /\ Find[x] \in registered
                                    /\ parent[Find[x]] = Find[x]
           /\ class \in [registered -> SUBSET registered] /\ use \in [registered -> Seq(registered)]
           /\ parent \in [registered -> registered]
           /\ \E time, n : Founded(registered, known, Trail, Here, time, n)
           /\ \E time, n : Timed(registered, parent, time, n)
           /\ Trail = TrailTo(asserted, Len(limits) + 1) /\ Len(limits) \in Nat
<1>1. PICK time, n : Founded(registered, known, Trail, Here, time, n)
  BY DEF Inv, Now, Good
<1>2. Here.parent = parent /\ Here.class = class /\ Here.use = use /\ Here.edge = edge
  BY DEF Here
<1>3. Timed(registered, parent, time, n) /\ parent \in [registered -> registered]
  BY <1>1, <1>2 DEF Founded, Timed
<1>4. \A x \in registered : Find[x] = RootOf(registered, parent, x)
  BY <1>3, FindIsRoot
<1>5. \A x \in registered : /\ RootOf(registered, parent, x) \in registered
                            /\ parent[RootOf(registered, parent, x)] = RootOf(registered, parent, x)
  BY <1>3, RootFacts
<1>6. class \in [registered -> SUBSET registered] /\ use \in [registered -> Seq(registered)]
  BY <1>2 DEF Inv, Now, Good, Members
<1>7. asserted \in Seq(SUBSET Int) /\ Len(asserted) = Len(limits) + 1 /\ limits \in Seq(Nat)
  BY DEF Inv, Stack, Stacked
<1>8. Trail = TrailTo(asserted, Len(limits) + 1) /\ Len(limits) \in Nat
  BY <1>7, TrailIsTo, LenProperties DEF Trail
<1> QED
  BY <1>1, <1>3, <1>4, <1>5, <1>6, <1>8

LEMMA InvInit == TracedInit => Inv
<1> SUFFICES ASSUME TracedInit PROVE Inv
  OBVIOUS
<1> USE DEF TracedInit, Init
<1>1. registered = {} /\ known = {} /\ reporting = {} /\ saved = <<>> /\ limits = <<>> /\ history = <<>> /\ todo = <<>>
      /\ asserted = <<{}>> /\ diseqs = <<>>
  OBVIOUS
<1>2. Words
  BY <1>1, FS_EmptySet DEF Words, Vocabulary, Heard
<1>3. asserted \in Seq(SUBSET Int) /\ Len(asserted) = 1 /\ asserted[1] = {} /\ Trail = {}
  BY <1>1 DEF Trail
<1>4. \A f : f = <<>> => f \in [registered -> {}] /\ DOMAIN f = {} /\ f = [x \in DOMAIN f |-> f[x]]
  BY <1>1
<1>5. parent \in [registered -> registered] /\ class \in [registered -> SUBSET registered]
      /\ use \in [registered -> Seq(registered)] /\ DOMAIN edge = {} /\ edge = [x \in DOMAIN edge |-> edge[x]]
  BY <1>1, <1>4
<1>6. Founded(registered, known, Trail, Here, <<>>, 0)
  <2>1. Timed(registered, Here.parent, <<>>, 0)
    BY <1>1, <1>4, <1>5 DEF Timed, Here
  <2> QED
    BY <1>1, <1>5, <2>1 DEF Founded, Here
<1>7. Members(registered, Here)
  BY <1>1, <1>5 DEF Members, Here
<1>8. Literals(registered, known, Trail, Here)
  BY <1>1, <1>3 DEF Literals, Here
<1>9. Now
  BY <1>6, <1>7, <1>8 DEF Now, Good
<1>10. Stack
  <2>1. IsSeq(<<>>) /\ Len(<<>>) = 0 /\ <<>> \in Seq(Nat)
    BY DEF IsSeq
  <2> QED
    BY <1>1, <1>3, <2>1, FS_EmptySet DEF Stack, Stacked
<1>11. Back /\ Reversible
  BY <1>1 DEF Back, Reversible
<1>12. Queue
  <2>1. <<>> \in Seq({})
    OBVIOUS
  <2> QED
    BY <1>1, <2>1 DEF Queue, Looping
<1> QED
  BY <1>2, <1>9, <1>10, <1>11, <1>12 DEF Inv

(***************************************************************************)
(* The steps.                                                               *)
(***************************************************************************)
LEMMA SavedStays ==
    ASSUME Inv, Remember, limits' = limits
    PROVE  saved' = saved
<1>1. IsSeq(saved) /\ Len(saved) = Len(limits) /\ Len(saved) \in Nat
  BY DEF Inv, Stack, Stacked, IsSeq
<1>2. saved' = SubSeq(saved, 1, Len(saved))
  BY <1>1 DEF Remember
<1>3. PICK S : saved \in Seq(S) /\ 0 \in S
  BY <1>1, SeqTyped
<1> QED
  BY <1>2, <1>3, SubSeqFull

\* The merge of the class of t into that of s.
LEMMA JoinStep ==
    ASSUME Inv, NEW s \in registered, NEW t \in registered, Find[s] # Find[t],
           NEW literal \in known \cup {NoLiteral}, NEW reported,
           NEW rest, Looping(registered, rest), Join(s, t, literal, reported, rest),
           UNCHANGED <<registered, known, reporting, limits, diseqs, saved>>,
           literal # NoLiteral => Sides[literal] = <<s, t>> \/ Sides[literal] = <<t, s>>,
           literal = NoLiteral => Congruent(s, t)
    PROVE  /\ Good(registered, known, IF literal = NoLiteral THEN Trail ELSE Trail \cup {literal}, Here')
           /\ Here' = Put(Here, Find[s], Find[t],
                          [to |-> Find[s], literal |-> literal, above |-> s, under |-> t])
           /\ Stacked(history, limits, saved)' /\ Reversible' /\ Queue'
<1> DEFINE top == Find[s]
           below == Find[t]
           e == [to |-> top, literal |-> literal, above |-> s, under |-> t]
           entry == [undo |-> "merge", top |-> top, below |-> below,
                     class |-> class[top], use |-> use[top]]
<1>1. /\ \A x \in registered : Find[x] = RootOf(registered, parent, x) /\ Find[x] \in registered
                               /\ parent[Find[x]] = Find[x]
      /\ class \in [registered -> SUBSET registered] /\ use \in [registered -> Seq(registered)]
      /\ parent \in [registered -> registered]
  BY Reads
<1>2. top \in registered /\ below \in registered /\ top # below /\ parent[top] = top /\ parent[below] = below
  BY <1>1
<1>3. /\ history' = Append(history, entry) /\ parent' = [parent EXCEPT ![below] = top]
      /\ edge' = With(edge, below, e) /\ class' = [class EXCEPT ![top] = @ \cup class[below]]
      /\ use' = [use EXCEPT ![top] = @ \o use[below]]
      /\ todo' = <<MergeLoop(use[below], top)>> \o rest
  BY DEF Join, UsesOf, Edge
<1> HIDE DEF top, below, e
<1>4. Here' = Put(Here, top, below, e)
  BY <1>3 DEF Here, Put, Linked
<1>5. /\ Here.parent = parent /\ Here.class = class /\ Here.use = use /\ Here.edge = edge
      /\ Record(Here)
  BY DEF Here, Record
<1>6. Vocabulary(registered, known) /\ Good(registered, known, Trail, Here)
  BY DEF Inv, Words, Now
<1>7. literal = NoLiteral => CongruentIn(registered, parent, s, t)
  <2> SUFFICES ASSUME literal = NoLiteral
               PROVE  CongruentIn(registered, parent, s, t)
    OBVIOUS
  <2>1. Congruent(s, t) /\ Args(s) \subseteq registered /\ Args(t) \subseteq registered
    BY <1>6 DEF Vocabulary
  <2>2. FunctionOf[s] = FunctionOf[t] /\ Len(ArgsOf[s]) = Len(ArgsOf[t])
    BY <2>1 DEF Congruent
  <2>3. ASSUME NEW i \in DOMAIN ArgsOf[s]
        PROVE  RootOf(registered, parent, ArgsOf[s][i]) = RootOf(registered, parent, ArgsOf[t][i])
    <3>1. Find[ArgsOf[s][i]] = Find[ArgsOf[t][i]]
      BY <2>1 DEF Congruent, Same
    <3>2. DOMAIN ArgsOf[s] = 1 .. Len(ArgsOf[s]) /\ DOMAIN ArgsOf[t] = 1 .. Len(ArgsOf[t])
      BY <1>6, ArgsAreSeqs DEF Vocabulary
    <3>3. ArgsOf[s][i] \in registered /\ ArgsOf[t][i] \in registered
      BY <2>1, <2>2, <3>2 DEF Args
    <3> QED
      BY <1>1, <3>1, <3>3
  <2> QED
    BY <2>2, <2>3 DEF CongruentIn
<1>8. Good(registered, known, IF literal = NoLiteral THEN Trail ELSE Trail \cup {literal}, Here')
  <2>1. RootOf(registered, Here.parent, s) = top /\ RootOf(registered, Here.parent, t) = below
    BY <1>1, <1>5 DEF top, below
  <2>2. RootOf(registered, Here.parent, s) # RootOf(registered, Here.parent, t)
    BY <1>2, <2>1
  <2>3. literal = NoLiteral => CongruentIn(registered, Here.parent, s, t)
    BY <1>5, <1>7
  <2>4. Good(registered, known, IF literal = NoLiteral THEN Trail ELSE Trail \cup {literal},
             Put(Here, RootOf(registered, Here.parent, s), RootOf(registered, Here.parent, t),
                 [to |-> RootOf(registered, Here.parent, s), literal |-> literal, above |-> s, under |-> t]))
    BY ONLY <1>6, <2>2, <2>3, GoodPut, s \in registered, t \in registered, literal \in known \cup {NoLiteral},
            literal # NoLiteral => Sides[literal] = <<s, t>> \/ Sides[literal] = <<t, s>>
  <2> QED
    BY <1>4, <2>1, <2>4 DEF e
<1>9. Undo(entry, Here') = Here
  <2>1. entry = [undo |-> "merge", top |-> top, below |-> below,
                 class |-> Here.class[top], use |-> Here.use[top]]
    BY <1>5
  <2> HIDE DEF entry
  <2> QED
    BY <1>2, <1>4, <1>5, <1>6, <2>1, UndoPut DEF Record
<1> HIDE DEF entry
<1>10. /\ IsSeq(history) /\ IsSeq(saved) /\ limits \in Seq(Nat) /\ Len(saved) = Len(limits)
       /\ \A i \in 1 .. Len(limits) : limits[i] \in 0 .. Len(history)
       /\ \A i, j \in 1 .. Len(limits) : i <= j => limits[i] <= limits[j]
  BY DEF Inv, Stack, Stacked
<1>11. /\ IsSeq(history') /\ Len(history') = Len(history) + 1 /\ Len(history) \in Nat
       /\ \A i \in 1 .. Len(history) : history'[i] = history[i]
       /\ history'[Len(history) + 1] = entry
  BY <1>3, <1>10, SeqAppend
<1>12. Stacked(history, limits, saved)'
  <2>1. \A i \in 1 .. Len(limits) : limits[i] \in 0 .. Len(history')
    BY <1>10, <1>11
  <2> QED
    BY <1>10, <1>11, <2>1 DEF Stacked
<1>13. Reversible'
  <2> SUFFICES ASSUME limits' # <<>>
               PROVE  \E run : Rewinds(run, history', limits', saved', Here')
    BY DEF Reversible
  <2>1. PICK run : Rewinds(run, history, limits, saved, Here)
    BY DEF Inv, Reversible
  <2>2. Rewinds(Extended(run, Len(history), Here'), history', limits', saved', Here')
    <3>1. Len(limits) # 0
      BY <1>10, EmptySeq
    <3> QED
      BY <1>9, <1>10, <1>11, <2>1, <3>1, RunExtends
  <2> QED
    BY <2>2
<1>14. Queue'
  <2>1. use[below] \in Seq(registered) /\ 1 \in Nat
    BY <1>1, <1>2
  <2> DEFINE l == MergeLoop(use[below], top)
  <2>2. LoopOk(registered, l)
    BY <1>2, <2>1 DEF LoopOk, MergeLoop
  <2>3. todo' = <<l>> \o rest
    BY <1>3
  <2> HIDE DEF l
  <2>4. Looping(registered, <<l>> \o rest)
    BY <2>2, LoopFirst
  <2> QED
    BY <2>3, <2>4 DEF Queue
<1> QED
  BY <1>4, <1>8, <1>12, <1>13, <1>14 DEF top, below, e

LEMMA MergeStep ==
    ASSUME Inv, NEW s \in registered, NEW t \in registered, Find[s] # Find[t],
           NEW literal \in known \cup {NoLiteral}, NEW reported,
           NEW rest, Looping(registered, rest), Merge(s, t, literal, reported, rest),
           UNCHANGED <<registered, known, reporting, limits, diseqs>>, Remember,
           literal # NoLiteral => Sides[literal] = <<s, t>>,
           literal = NoLiteral => Congruent(s, t) /\ Congruent(t, s),
           asserted' \in Seq(SUBSET Int), Len(asserted') = Len(limits) + 1,
           \A i \in 1 .. Len(asserted') : IsFiniteSet(asserted'[i]),
           TrailTo(asserted', Len(limits) + 1) = IF literal = NoLiteral THEN Trail ELSE Trail \cup {literal},
           \A j \in 1 .. Len(limits) : TrailTo(asserted', j) = TrailTo(asserted, j)
    PROVE  Inv'
<1>1. saved' = saved
  BY SavedStays
<1>2. /\ Good(registered, known, IF literal = NoLiteral THEN Trail ELSE Trail \cup {literal}, Here')
      /\ Stacked(history, limits, saved)' /\ Reversible' /\ Queue'
  <2>1. CASE Join(s, t, literal, reported, rest)
    BY <1>1, <2>1, JoinStep
  <2>2. CASE Join(t, s, literal, reported, rest)
    BY <1>1, <2>2, JoinStep
  <2> QED
    BY <2>1, <2>2 DEF Merge
<1>3. Trail' = TrailTo(asserted', Len(limits) + 1)
  <2>1. UNION {asserted'[i] : i \in DOMAIN asserted'} = TrailTo(asserted', Len(asserted'))
    BY TrailIsTo
  <2> QED
    BY <2>1 DEF Trail
<1>4. Now'
  BY <1>2, <1>3 DEF Now
<1>5. Words'
  BY DEF Inv, Words
<1>6. Back'
  BY <1>1 DEF Inv, Back
<1>7. Stack'
  BY <1>2 DEF Stack
<1> QED
  BY <1>2, <1>4, <1>5, <1>6, <1>7 DEF Inv

LEMMA AtTheBottom ==
    ASSUME Inv, limits = <<>>, UNCHANGED <<history, limits, saved, asserted>>
    PROVE  Stack' /\ Back' /\ Reversible'
<1>1. Stack'
  BY DEF Inv, Stack
<1>2. Reversible'
  BY DEF Reversible
<1>3. Back'
  <2>1. 1 .. Len(limits') = {}
    OBVIOUS
  <2> QED
    BY <2>1 DEF Back
<1> QED
  BY <1>1, <1>2, <1>3

LEMMA RegisterEqualityStep ==
    ASSUME Inv, NEW e \in Equalities, RegisterEquality(e), Remember
    PROVE  Inv'
<1>1. /\ limits = <<>> /\ e \notin known /\ known' = known \cup {e}
      /\ reporting' = {d \in reporting : ~SamePair(d, e)} \cup {e}
      /\ Sides[e][1] \in registered /\ Sides[e][2] \in registered
      /\ UNCHANGED <<registered, parent, class, use, edge, history, limits, diseqs, props, todo, asserted>>
  <2>1. 1 \in 1 .. 2 /\ 2 \in 1 .. 2
    OBVIOUS
  <2> QED
    BY <2>1 DEF RegisterEquality, lists
<1>2. saved' = saved
  BY <1>1, SavedStays
<1>3. Vocabulary(registered, known \cup {e})
  BY <1>1 DEF Inv, Words, Vocabulary
<1>4. Words'
  <2>1. \A x \in known \cup {e} : Sides[x] = <<Sides[x][1], Sides[x][2]>>
    BY <1>3, EqualitiesArePositive
  <2>2. \A d, x, y \in known \cup {e} : SamePair(d, x) /\ SamePair(d, y) => SamePair(x, y)
    BY <2>1 DEF SamePair
  <2>3. SamePair(e, e)
    BY DEF SamePair
  <2>4. Heard(known \cup {e}, reporting')
    BY <1>1, <2>2, <2>3 DEF Inv, Words, Heard
  <2> QED
    BY <1>1, <1>3, <2>4 DEF Inv, Words
<1>5. Here' = Here /\ Trail' = Trail
  BY <1>1 DEF Here, Trail
<1>6. Now'
  <2>1. Good(registered, known \cup {e}, Trail, Here)
    BY <1>1, <1>3, GoodEquality DEF Inv, Now
  <2> QED
    BY <1>1, <1>5, <2>1 DEF Now
<1>7. Stack' /\ Back' /\ Reversible'
  BY <1>1, <1>2, AtTheBottom
<1>8. Queue'
  BY <1>1 DEF Inv, Queue
<1> QED
  BY <1>4, <1>6, <1>7, <1>8 DEF Inv

LEMMA Repeated ==
    ASSUME NEW n \in Nat, NEW S, NEW t \in S
    PROVE  [i \in 1 .. n |-> t] \in Seq(S)
<1>1. [i \in 1 .. n |-> t] \in [1 .. n -> S]
  OBVIOUS
<1> DEFINE f == [i \in 1 .. n |-> t]
<1> HIDE DEF f
<1>2. f \in Seq(S)
  BY <1>1, SeqDef DEF f
<1> QED
  BY <1>2 DEF f

LEMMA SeqWider ==
    ASSUME NEW S, NEW T, S \subseteq T, NEW s \in Seq(S)
    PROVE  s \in Seq(T)
<1>1. s \in [1 .. Len(s) -> S] /\ Len(s) \in Nat
  BY LenProperties
<1>2. s \in [1 .. Len(s) -> T]
  BY <1>1
<1> QED
  BY <1>1, <1>2, SeqDef

Times(t, s) == [i \in 1 .. Cardinality({i \in DOMAIN ArgsOf[t] : ArgsOf[t][i] = s}) |-> t]

LEMMA TimesTyped ==
    ASSUME NEW t \in Terms, NEW s, NEW S, t \in S
    PROVE  /\ Times(t, s) \in Seq(S)
           /\ \A i \in DOMAIN ArgsOf[t] : ArgsOf[t][i] = s => t \in Elements(Times(t, s))
<1> DEFINE D == {i \in DOMAIN ArgsOf[t] : ArgsOf[t][i] = s}
           n == Cardinality(D)
<1>1. IsFiniteSet(D)
  <2>1. IsFiniteSet(1 .. Len(ArgsOf[t]))
    <3>1. 1 \in Int /\ Len(ArgsOf[t]) \in Int
      BY ArgsAreSeqs
    <3> QED
      BY <3>1, FS_Interval
  <2>2. D \subseteq 1 .. Len(ArgsOf[t])
    BY ArgsAreSeqs
  <2> QED
    BY <2>1, <2>2, FS_Subset
<1>2. n \in Nat
  BY <1>1, FS_CardinalityType
<1>3. Times(t, s) = [i \in 1 .. n |-> t]
  BY DEF Times
<1>4. [i \in 1 .. n |-> t] \in Seq(S)
  <2> HIDE DEF n
  <2> QED
    BY <1>2, Repeated
<1>5. ASSUME NEW i \in DOMAIN ArgsOf[t], ArgsOf[t][i] = s
      PROVE  t \in Elements(Times(t, s))
  <2>1. D # {}
    BY <1>5
  <2>2. n # 0
    <3> HIDE DEF D
    <3> QED
      BY <1>1, <2>1, FS_EmptySet
  <2>3. Len(Times(t, s)) = n
    <3> HIDE DEF n
    <3> QED
      BY <1>2, <1>3
  <2>4. 1 \in 1 .. n /\ Times(t, s)[1] = t
    <3> HIDE DEF n
    <3> QED
      BY <1>2, <1>3, <2>2
  <2> HIDE DEF n
  <2> QED
    BY <2>3, <2>4 DEF Elements
<1> QED
  BY <1>3, <1>4, <1>5

LEMMA RegisterTermStep ==
    ASSUME Inv, NEW t \in Terms, RegisterTerm(t), Remember
    PROVE  Inv'
<1> DEFINE reg1 == registered \cup {t}
           uses == [s \in registered |-> use[s] \o Times(t, s)]
<1>1. /\ limits = <<>> /\ t \notin registered /\ Args(t) \subseteq registered /\ registered' = reg1
      /\ parent' = With(parent, t, t) /\ class' = With(class, t, {t})
      /\ UNCHANGED <<known, reporting, edge, history, limits, diseqs, props, asserted>>
  BY DEF RegisterTerm
<1>2. use' = With(uses, t, <<>>) /\ todo' = <<ArgumentsLoop(t, ArgsOf[t])>>
  BY DEF RegisterTerm, Times
<1>3. saved' = saved
  BY <1>1, SavedStays
<1>4. IsFiniteSet(registered) /\ Vocabulary(registered, known) /\ Heard(known, reporting)
  BY DEF Inv, Words
<1>5. Vocabulary(reg1, known)
  BY <1>1, <1>4 DEF Vocabulary
<1>6. Words'
  <2>1. IsFiniteSet(registered')
    BY <1>1, <1>4, FS_AddElement
  <2>2. Vocabulary(registered, known)'
    BY <1>1, <1>5
  <2>3. Heard(known, reporting)'
    BY <1>1, <1>4 DEF Heard, SamePair
  <2> QED
    BY <2>1, <2>2, <2>3 DEF Words
<1>7. \A x \in registered : Find[x] \in registered
  BY Reads
<1>8. class \in [registered -> SUBSET registered] /\ use \in [registered -> Seq(registered)]
  BY Reads
<1>9. uses \in [registered -> Seq(reg1)]
  <2>1. ASSUME NEW s \in registered
        PROVE  use[s] \o Times(t, s) \in Seq(reg1)
    <3>1. use[s] \in Seq(reg1)
      <4>1. use[s] \in Seq(registered) /\ registered \subseteq reg1
        BY <1>8
      <4> HIDE DEF reg1
      <4> QED
        BY <4>1, SeqWider
    <3>2. Times(t, s) \in Seq(reg1)
      <4> t \in reg1
        OBVIOUS
      <4> HIDE DEF reg1
      <4> QED
        BY TimesTyped
    <3> HIDE DEF reg1
    <3> QED
      BY <3>1, <3>2, ConcatProperties
  <2> HIDE DEF reg1
  <2> QED
    BY <2>1
<1>10. Now'
  <2>1. Here'.parent = With(Here.parent, t, t) /\ Here'.class = With(Here.class, t, {t})
        /\ Here'.use = With(uses, t, <<>>) /\ Here'.edge = Here.edge /\ Here'.diseqs = Here.diseqs
    BY <1>1, <1>2 DEF Here
  <2>2. Good(registered, known, Trail, Here)
    BY DEF Inv, Now
  <2>3. Good(registered \cup {t}, known, Trail, Here')
    <3> HIDE DEF uses
    <3> QED
      BY <1>1, <1>4, <1>9, <2>1, <2>2, GoodTerm
  <2>4. Trail' = Trail
    BY <1>1 DEF Trail
  <2> QED
    BY <1>1, <2>3, <2>4 DEF Now
<1>11. Queue'
  <2>1. ArgsOf[t] \in Seq(reg1)
    <3>1. /\ DOMAIN ArgsOf[t] = 1 .. Len(ArgsOf[t]) /\ Len(ArgsOf[t]) \in Nat
          /\ ArgsOf[t] \in [1 .. Len(ArgsOf[t]) -> Terms]
      BY ArgsAreSeqs
    <3>2. \A i \in 1 .. Len(ArgsOf[t]) : ArgsOf[t][i] \in reg1
      BY <1>1, <3>1 DEF Args
    <3>3. ArgsOf[t] \in [1 .. Len(ArgsOf[t]) -> reg1]
      <4> HIDE DEF reg1
      <4> QED
        BY <3>1, <3>2
    <3> QED
      BY <3>1, <3>3, SeqDef
  <2> DEFINE l == ArgumentsLoop(t, ArgsOf[t])
  <2>2. LoopOk(reg1, l)
    <3> t \in reg1
      OBVIOUS
    <3> HIDE DEF reg1
    <3> QED
      BY <2>1 DEF LoopOk, ArgumentsLoop
  <2> HIDE DEF l, reg1
  <2>4. Looping(reg1, <<l>>)
    BY <2>2, LoopOne
  <2> QED
    BY <1>1, <1>2, <2>4 DEF Queue, l
<1>12. Stack' /\ Back' /\ Reversible'
  BY <1>1, <1>3, AtTheBottom
<1> QED
  BY <1>6, <1>10, <1>11, <1>12 DEF Inv

\* Where a loop is, and what it compares.
LEMMA LoopHere ==
    ASSUME Inv, Comparing, NEW c \in Left(Head(todo))
    PROVE  LET l == Head(todo)
               p == Compared(l, c)
           IN  /\ l.loop \in {"merge", "uses"} /\ l.terms \in Seq(registered) /\ l.of \in registered
               /\ c[1] \in 1 .. Len(l.terms) /\ c[2] \in 1 .. Len(use[l.of]) /\ (c[1] > 1 \/ c[2] >= l.at)
               /\ p[1] \in registered /\ p[2] \in registered /\ Looping(registered, <<Past(l, c)>> \o Tail(todo))
               /\ \/ p = <<l.terms[c[1]], use[l.of][c[2]]>> \/ p = <<use[l.of][c[2]], l.terms[c[1]]>>
<1> DEFINE l == Head(todo)
           p == Compared(l, c)
           a == l.terms[c[1]]
           b == use[l.of][c[2]]
<1>1. todo # <<>> /\ l.loop \in {"merge", "uses"}
  BY DEF Comparing, Ready
<1>2. LoopOk(registered, l) /\ Looping(registered, Tail(todo))
  BY <1>1, LoopRest DEF Inv, Queue
<1>3. l.terms \in Seq(registered) /\ l.of \in registered /\ l.at \in Nat
  <2> HIDE DEF l
  <2> QED
    BY <1>1, <1>2 DEF LoopOk
<1> HIDE DEF l
<1>4. c[1] \in 1 .. Len(l.terms) /\ c[2] \in 1 .. Len(use[l.of]) /\ (c[1] > 1 \/ c[2] >= l.at)
  BY DEF Left, l
<1>5. use[l.of] \in Seq(registered)
  BY <1>3, Reads
<1>6. a \in registered /\ b \in registered
  BY <1>3, <1>4, <1>5, LenProperties
<1>7. (p = <<a, b>> \/ p = <<b, a>>) /\ p[1] \in registered /\ p[2] \in registered
  <2> HIDE DEF a, b
  <2>1. p = <<a, b>> \/ p = <<b, a>>
    BY DEF Compared, a, b
  <2> HIDE DEF p
  <2> QED
    BY <1>6, <2>1
<1> DEFINE next == Past(l, c)
<1>8. LoopOk(registered, next)
  <2>1. Len(l.terms) \in Nat /\ l.terms \in [1 .. Len(l.terms) -> registered]
    BY <1>3, LenProperties
  <2>2. SubSeq(l.terms, c[1], Len(l.terms)) \in Seq(registered)
    <3>1. c[1] \in Int /\ Len(l.terms) \in Int /\ \A i \in c[1] .. Len(l.terms) : l.terms[i] \in registered
      BY <1>4, <2>1
    <3> QED
      BY <3>1, SubSeqProperties
  <2>3. c[2] + 1 \in Nat
    BY <1>4, <1>5
  <2>4. next = [loop |-> l.loop, terms |-> SubSeq(l.terms, c[1], Len(l.terms)), of |-> l.of, at |-> c[2] + 1]
    BY DEF Past
  <2> HIDE DEF next
  <2> QED
    BY <1>1, <1>3, <2>2, <2>3, <2>4 DEF LoopOk
<1>9. Looping(registered, <<next>> \o Tail(todo))
  <2> HIDE DEF next
  <2> QED
    BY <1>2, <1>8, LoopFirst
<1> QED
  BY <1>1, <1>3, <1>4, <1>7, <1>9 DEF l

LEMMA CongruenceStep ==
    ASSUME Inv, NEW c, Congruence(c), Remember
    PROVE  Inv'
<1> DEFINE l == Head(todo)
           s == Compared(l, c)[1]
           t == Compared(l, c)[2]
           rest == <<Past(l, c)>> \o Tail(todo)
<1>2. /\ Comparing /\ c \in Left(l) /\ Mergeable(Compared(l, c))
      /\ Merge(s, t, NoLiteral, props, rest)
      /\ UNCHANGED <<registered, known, reporting, limits, diseqs, asserted>>
  BY DEF Congruence
<1>3. s \in registered /\ t \in registered /\ Looping(registered, rest)
  BY <1>2, LoopHere
<1> HIDE DEF rest
<1>5. Find[s] # Find[t] /\ Congruent(s, t)
  BY <1>2 DEF Mergeable, Same
<1> HIDE DEF s, t, l
<1>6. Congruent(t, s)
  <2>1. registered \subseteq Terms
    BY DEF Inv, Words, Vocabulary
  <2>2. DOMAIN ArgsOf[s] = 1 .. Len(ArgsOf[s]) /\ DOMAIN ArgsOf[t] = 1 .. Len(ArgsOf[t])
    BY <1>3, <2>1, ArgsAreSeqs
  <2> QED
    BY <1>5, <2>2 DEF Congruent, Same
<1>7. asserted \in Seq(SUBSET Int) /\ Len(asserted) = Len(limits) + 1
      /\ \A k \in 1 .. Len(asserted) : IsFiniteSet(asserted[k])
  BY DEF Inv, Stack
<1>8. Trail = TrailTo(asserted, Len(limits) + 1)
  BY Reads
<1>9. NoLiteral \in known \cup {NoLiteral}
  OBVIOUS
<1>11. asserted' = asserted
  BY <1>2
<1> QED
  BY <1>2, <1>3, <1>5, <1>6, <1>7, <1>8, <1>9, <1>11, MergeStep

LEMMA AssertTrail ==
    ASSUME Inv, NEW l \in Int, Asserts(l)
    PROVE  /\ asserted' \in Seq(SUBSET Int) /\ Len(asserted') = Len(limits) + 1
           /\ \A i \in 1 .. Len(asserted') : IsFiniteSet(asserted'[i])
           /\ TrailTo(asserted', Len(limits) + 1) = Trail \cup {l} /\ Trail' = Trail \cup {l}
           /\ \A j \in 1 .. Len(limits) : TrailTo(asserted', j) = TrailTo(asserted, j)
<1>1. asserted \in Seq(SUBSET Int) /\ Len(asserted) = Len(limits) + 1
      /\ \A k \in 1 .. Len(asserted) : IsFiniteSet(asserted[k])
  BY DEF Inv, Stack
<1>2. Trail = TrailTo(asserted, Len(limits) + 1) /\ Len(limits) \in Nat
  BY Reads
<1>3. Added(asserted, asserted', Len(limits), l)
  BY DEF Asserts, Level, Added
<1>4. /\ asserted' \in Seq(SUBSET Int) /\ Len(asserted') = Len(limits) + 1
      /\ \A i \in 1 .. Len(asserted') : IsFiniteSet(asserted'[i])
      /\ TrailTo(asserted', Len(limits) + 1) = TrailTo(asserted, Len(limits) + 1) \cup {l}
      /\ \A j \in 1 .. Len(limits) : TrailTo(asserted', j) = TrailTo(asserted, j)
  BY <1>1, <1>2, <1>3, TrailAdds
<1>5. Trail' = TrailTo(asserted', Len(limits) + 1)
  <2>1. UNION {asserted'[i] : i \in DOMAIN asserted'} = TrailTo(asserted', Len(asserted'))
    BY <1>4, TrailIsTo
  <2> QED
    BY <1>4, <2>1 DEF Trail
<1> QED
  BY <1>2, <1>4, <1>5

LEMMA AssertEqualStep ==
    ASSUME Inv, NEW e \in Equalities, AssertEqual(e), Remember
    PROVE  Inv'
<1>1. /\ e \in known /\ Asserts(e) /\ UNCHANGED <<registered, known, reporting, limits, diseqs>>
  BY DEF AssertEqual, Assertable
<1>2. Vocabulary(registered, known)
  BY DEF Inv, Words
<1>3. e \in Int /\ e # NoLiteral /\ Sides[e] = <<Sides[e][1], Sides[e][2]>>
      /\ Sides[e][1] \in registered /\ Sides[e][2] \in registered
  <2>1. e \in Nat /\ e # NoLiteral /\ Sides[e] = <<Sides[e][1], Sides[e][2]>>
    BY <1>1, <1>2, EqualitiesArePositive
  <2>2. Sides[e][1] \in registered /\ Sides[e][2] \in registered
    BY <1>1, <1>2 DEF Vocabulary
  <2> QED
    BY <2>1, <2>2
<1>4. /\ asserted' \in Seq(SUBSET Int) /\ Len(asserted') = Len(limits) + 1
      /\ \A i \in 1 .. Len(asserted') : IsFiniteSet(asserted'[i])
      /\ TrailTo(asserted', Len(limits) + 1) = Trail \cup {e} /\ Trail' = Trail \cup {e}
      /\ \A j \in 1 .. Len(limits) : TrailTo(asserted', j) = TrailTo(asserted, j)
  BY <1>1, <1>3, AssertTrail
<1>5. CASE Same(Sides[e][1], Sides[e][2])
  <2>1. UNCHANGED <<parent, class, use, edge, history, todo>>
    BY <1>5 DEF AssertEqual, lists
  <2>2. saved' = saved
    BY <1>1, SavedStays
  <2>3. Here' = Here
    BY <1>1, <2>1 DEF Here
  <2>4. RootOf(registered, parent, Sides[e][1]) = RootOf(registered, parent, Sides[e][2])
    BY <1>3, <1>5, Reads DEF Same
  <2>5. Here.parent = parent
    BY DEF Here
  <2>6. Good(registered, known, Trail \cup {e}, Here)
    BY <1>1, <1>2, <2>4, <2>5, GoodAgain DEF Inv, Now
  <2>7. Now'
    BY <1>1, <1>4, <2>3, <2>6 DEF Now
  <2>8. Words' /\ Queue'
    BY <1>1, <2>1 DEF Inv, Words, Queue
  <2>9. Stack' /\ Reversible'
    BY <1>1, <1>4, <2>1, <2>2, <2>3 DEF Inv, Stack, Reversible
  <2>10. Back'
    BY <1>1, <1>4, <2>2 DEF Inv, Back
  <2> QED
    BY <2>7, <2>8, <2>9, <2>10 DEF Inv
<1>6. CASE ~Same(Sides[e][1], Sides[e][2])
  <2>1. Merge(Sides[e][1], Sides[e][2], e, {}, <<>>)
    BY <1>6 DEF AssertEqual
  <2>2. Looping(registered, <<>>)
    BY LoopNone
  <2>3. Find[Sides[e][1]] # Find[Sides[e][2]] /\ e \in known \cup {NoLiteral}
    BY <1>1, <1>6 DEF Same
  <2> QED
    BY <1>1, <1>3, <1>4, <2>1, <2>2, <2>3, MergeStep
<1> QED
  BY <1>5, <1>6

\* The steps that end a loop or begin its next ones.
NextLoops ==
    \/ CompareDone \/ MembersDone \/ NextArgument \/ ArgumentsDone
    \/ \E m \in registered : NextMember(m)

LEMMA TwoFollow ==
    ASSUME Inv, NextArgument \/ \E m \in registered : NextMember(m)
    PROVE  \E k, m : /\ LoopOk(registered, k) /\ LoopOk(registered, m)
                     /\ Loops(<<k, m>> \o Tail(todo)) /\ todo' = <<k, m>> \o Tail(todo)
<1>1. todo # <<>>
  BY DEF NextArgument, NextMember, Ready
<1>2. LoopOk(registered, Head(todo))
  BY <1>1, LoopRest DEF Inv, Queue
<1> DEFINE l == Head(todo)
<1>4. CASE NextArgument
  <2> DEFINE first == MembersLoop(l.term, Find[Head(l.args)], {})
             then == ArgumentsLoop(l.term, Tail(l.args))
  <2>1. l.loop = "arguments" /\ l.args # <<>> /\ Loops(<<first, then>> \o Tail(todo))
    BY <1>4 DEF NextArgument
  <2>2. l.term \in registered /\ l.args \in Seq(registered)
    <3> HIDE DEF l
    <3>1. LoopOk(registered, l)
      BY <1>2 DEF l
    <3> QED
      BY <2>1, <3>1 DEF LoopOk
  <2> HIDE DEF l
  <2>3. Head(l.args) \in registered /\ Tail(l.args) \in Seq(registered)
    BY <2>1, <2>2, HeadTailProperties
  <2>4. Find[Head(l.args)] \in registered
    BY <2>3, Reads
  <2>5. LoopOk(registered, first) /\ LoopOk(registered, then)
    BY <2>2, <2>3, <2>4 DEF LoopOk, MembersLoop, ArgumentsLoop
  <2> HIDE DEF first, then
  <2>6. todo' = <<first, then>> \o Tail(todo)
    BY <2>1 DEF Loops
  <2> QED
    BY <2>1, <2>5, <2>6
<1>5. ASSUME NEW m \in registered, NextMember(m)
      PROVE  \E k, n : /\ LoopOk(registered, k) /\ LoopOk(registered, n)
                       /\ Loops(<<k, n>> \o Tail(todo)) /\ todo' = <<k, n>> \o Tail(todo)
  <2> DEFINE first == UsesLoop(l.term, m)
             then == MembersLoop(l.term, l.root, l.seen \cup {m})
  <2>1. l.loop = "members" /\ Loops(<<first, then>> \o Tail(todo))
    BY <1>5 DEF NextMember
  <2>2. l.term \in registered /\ l.root \in registered
    <3> HIDE DEF l
    <3>1. LoopOk(registered, l)
      BY <1>2 DEF l
    <3> QED
      BY <2>1, <3>1 DEF LoopOk
  <2> HIDE DEF l
  <2>3. <<l.term>> \in Seq(registered) /\ 1 \in Nat
    BY <2>2
  <2>5. LoopOk(registered, first) /\ LoopOk(registered, then)
    BY <2>2, <2>3 DEF LoopOk, MembersLoop, UsesLoop
  <2> HIDE DEF first, then
  <2>6. todo' = <<first, then>> \o Tail(todo)
    BY <2>1 DEF Loops
  <2> QED
    BY <2>1, <2>5, <2>6
<1> QED
  BY <1>4, <1>5

LEMMA LoopsFollow ==
    ASSUME Inv, NextLoops
    PROVE  \E loops : Looping(registered, loops) /\ todo # <<>> /\ Loops(loops)
<1>1. todo # <<>>
  BY DEF NextLoops, CompareDone, MembersDone, NextArgument, ArgumentsDone, NextMember, Comparing, Ready
<1>2. LoopOk(registered, Head(todo)) /\ Looping(registered, Tail(todo))
  BY <1>1, LoopRest DEF Inv, Queue
<1>3. CASE CompareDone \/ MembersDone \/ ArgumentsDone
  <2>1. Loops(Tail(todo))
    BY <1>3 DEF CompareDone, MembersDone, ArgumentsDone
  <2> QED
    BY <1>1, <1>2, <2>1
<1>4. CASE NextArgument \/ \E m \in registered : NextMember(m)
  <2>1. PICK k, m : LoopOk(registered, k) /\ LoopOk(registered, m) /\ Loops(<<k, m>> \o Tail(todo))
    BY <1>4, TwoFollow
  <2>2. Looping(registered, <<k, m>> \o Tail(todo))
    BY <1>2, <2>1, TwoFirst
  <2> QED
    BY <1>1, <2>1, <2>2
<1> QED
  BY <1>3, <1>4 DEF NextLoops

LEMMA NextLoopsStep ==
    ASSUME Inv, NextLoops, Remember
    PROVE  Inv'
<1>1. PICK loops : Looping(registered, loops) /\ Loops(loops)
  BY LoopsFollow
<1>2. todo' = loops /\ UNCHANGED <<registered, known, reporting, parent, class, use, edge, history, limits, diseqs, props, asserted>>
  BY <1>1 DEF Loops, lists
<1>3. saved' = saved
  BY <1>2, SavedStays
<1>4. Here' = Here /\ Trail' = Trail
  BY <1>2 DEF Here, Trail
<1>5. Queue'
  BY <1>1, <1>2 DEF Queue
<1> QED
  BY <1>2, <1>3, <1>4, <1>5 DEF Inv, Words, Now, Stack, Back, Reversible

LEMMA AssertDistinctStep ==
    ASSUME Inv, NEW e \in Equalities, AssertDistinct(e), Remember
    PROVE  Inv'
<1> DEFINE entry == [undo |-> "diseq"]
<1>1. /\ e \in known /\ Asserts(-e) /\ diseqs' = Append(diseqs, e) /\ history' = Append(history, entry)
      /\ UNCHANGED <<registered, known, reporting, parent, class, use, edge, limits, todo>>
  BY DEF AssertDistinct, Assertable, lists
<1>2. Vocabulary(registered, known) /\ Good(registered, known, Trail, Here)
  BY DEF Inv, Words, Now
<1>3. -e \in Int
  <2>1. e \in Nat
    BY <1>1, <1>2, EqualitiesArePositive
  <2> QED
    BY <2>1
<1>4. /\ asserted' \in Seq(SUBSET Int) /\ Len(asserted') = Len(limits) + 1
      /\ \A i \in 1 .. Len(asserted') : IsFiniteSet(asserted'[i])
      /\ Trail' = Trail \cup {-e}
      /\ \A j \in 1 .. Len(limits) : TrailTo(asserted', j) = TrailTo(asserted, j)
  BY <1>1, <1>3, AssertTrail
<1>5. saved' = saved
  BY <1>1, SavedStays
<1>6. /\ Here'.parent = Here.parent /\ Here'.class = Here.class /\ Here'.use = Here.use
      /\ Here'.edge = Here.edge /\ Here'.diseqs = Append(Here.diseqs, e)
  BY <1>1 DEF Here
<1>7. Now'
  <2>1. Good(registered, known, Trail \cup {-e}, Here')
    BY <1>1, <1>2, <1>6, GoodDistinct
  <2> QED
    BY <1>1, <1>4, <2>1 DEF Now
<1>8. Undo(entry, Here') = Here
  <2>1. diseqs \in Seq(known)
    BY <1>2 DEF Good, Literals, Here
  <2>2. Front(diseqs') = diseqs
    BY <1>1, <2>1, FrontAppend
  <2>3. Undo(entry, Here') = [Here' EXCEPT !.diseqs = Front(@)]
    BY DEF Undo
  <2> QED
    BY <1>1, <2>2, <2>3 DEF Here
<1> HIDE DEF entry
<1>9. /\ IsSeq(history) /\ IsSeq(saved) /\ limits \in Seq(Nat) /\ Len(saved) = Len(limits)
      /\ \A i \in 1 .. Len(limits) : limits[i] \in 0 .. Len(history)
      /\ \A i, j \in 1 .. Len(limits) : i <= j => limits[i] <= limits[j]
  BY DEF Inv, Stack, Stacked
<1>10. /\ IsSeq(history') /\ Len(history') = Len(history) + 1 /\ Len(history) \in Nat
       /\ \A i \in 1 .. Len(history) : history'[i] = history[i]
       /\ history'[Len(history) + 1] = entry
  BY <1>1, <1>9, SeqAppend
<1>11. Stack'
  <2>1. \A i \in 1 .. Len(limits) : limits[i] \in 0 .. Len(history')
    BY <1>9, <1>10
  <2>2. Stacked(history', limits', saved')
    BY <1>1, <1>5, <1>9, <1>10, <2>1 DEF Stacked
  <2> QED
    BY <1>1, <1>4, <2>2 DEF Stack
<1>12. Reversible'
  <2> SUFFICES ASSUME limits' # <<>>
               PROVE  \E run : Rewinds(run, history', limits', saved', Here')
    BY DEF Reversible
  <2>1. PICK run : Rewinds(run, history, limits, saved, Here)
    BY <1>1 DEF Inv, Reversible
  <2>2. Rewinds(Extended(run, Len(history), Here'), history', limits', saved', Here')
    <3>1. Len(limits) # 0
      BY <1>1, <1>9, EmptySeq
    <3> QED
      BY <1>1, <1>5, <1>8, <1>9, <1>10, <2>1, <3>1, RunExtends
  <2> QED
    BY <2>2
<1>13. Words' /\ Queue'
  BY <1>1 DEF Inv, Words, Queue
<1>14. Back'
  BY <1>1, <1>4, <1>5 DEF Inv, Back
<1> QED
  BY <1>7, <1>11, <1>12, <1>13, <1>14 DEF Inv

LEMMA PushStep ==
    ASSUME Inv, Push, Remember
    PROVE  Inv'
<1>1. /\ limits' = Append(limits, Len(history)) /\ asserted' = Append(asserted, {})
      /\ UNCHANGED <<registered, known, reporting, parent, class, use, edge, history, diseqs, props, todo>>
  BY DEF Push, lists
<1> DEFINE m == Len(limits)
<1>2. /\ IsSeq(history) /\ IsSeq(saved) /\ limits \in Seq(Nat) /\ Len(saved) = m /\ m \in Nat
      /\ Len(history) \in Nat
      /\ \A i \in 1 .. m : limits[i] \in 0 .. Len(history)
      /\ \A i, j \in 1 .. m : i <= j => limits[i] <= limits[j]
  <2>1. limits \in Seq(Nat)
    BY DEF Inv, Stack, Stacked
  <2> QED
    BY <2>1, LenProperties DEF Inv, Stack, Stacked, IsSeq
<1>3. /\ limits' \in Seq(Nat) /\ Len(limits') = m + 1 /\ limits'[m + 1] = Len(history)
      /\ \A i \in 1 .. m : limits'[i] = limits[i]
  BY <1>1, <1>2, AppendProperties
<1>4. saved' = Append(saved, Here)
  BY <1>2, <1>3 DEF Remember
<1>5. /\ IsSeq(saved') /\ Len(saved') = m + 1 /\ saved'[m + 1] = Here
      /\ \A i \in 1 .. m : saved'[i] = saved[i]
  BY <1>2, <1>4, SeqAppend
<1>6. asserted \in Seq(SUBSET Int) /\ Len(asserted) = m + 1
      /\ \A k \in 1 .. Len(asserted) : IsFiniteSet(asserted[k])
  BY DEF Inv, Stack
<1>7. /\ asserted' \in Seq(SUBSET Int) /\ Len(asserted') = m + 2
      /\ \A i \in 1 .. Len(asserted') : IsFiniteSet(asserted'[i])
      /\ TrailTo(asserted', m + 2) = TrailTo(asserted, m + 1)
      /\ \A j \in 1 .. m + 1 : TrailTo(asserted', j) = TrailTo(asserted, j)
  <2> HIDE DEF m
  <2> QED
    BY <1>1, <1>2, <1>6, TrailPushes
<1>8. Trail = TrailTo(asserted, m + 1)
  BY Reads
<1>9. Trail' = TrailTo(asserted', m + 2)
  <2>1. UNION {asserted'[i] : i \in DOMAIN asserted'} = TrailTo(asserted', Len(asserted'))
    BY <1>7, TrailIsTo
  <2> QED
    BY <1>7, <2>1 DEF Trail
<1>10. Here' = Here
  BY <1>1 DEF Here
<1>11. Now'
  BY <1>1, <1>7, <1>8, <1>9, <1>10 DEF Inv, Now
<1> HIDE DEF m
<1>12. \A i \in 1 .. m + 1 : i \in 1 .. m \/ i = m + 1
  BY <1>2
<1>13. Stack'
  <2>1. ASSUME NEW i \in 1 .. m + 1
        PROVE  limits'[i] \in 0 .. Len(history)
    BY <1>2, <1>3, <1>12
  <2>2. ASSUME NEW i \in 1 .. m + 1, NEW j \in 1 .. m + 1, i <= j
        PROVE  limits'[i] <= limits'[j]
    <3>1. CASE j = m + 1
      <4>1. limits'[j] = Len(history) /\ limits'[i] \in 0 .. Len(history)
        BY <1>3, <2>1, <3>1
      <4> QED
        BY <1>2, <4>1
    <3>2. CASE j # m + 1
      <4>1. i \in 1 .. m /\ j \in 1 .. m
        BY <1>2, <2>2, <3>2
      <4> QED
        BY <1>2, <1>3, <2>2, <4>1
    <3> QED
      BY <3>1, <3>2
  <2>3. Stacked(history', limits', saved')
    BY <1>1, <1>2, <1>3, <1>5, <2>1, <2>2 DEF Stacked
  <2>4. Len(asserted') = Len(limits') + 1
    BY <1>2, <1>3, <1>7
  <2> QED
    BY <1>7, <2>3, <2>4 DEF Stack
<1>14. Back'
  <2>1. ASSUME NEW j \in 1 .. m + 1
        PROVE  Record(saved'[j]) /\ Good(registered, known, TrailTo(asserted', j), saved'[j])
    <3>1. CASE j \in 1 .. m
      <4>1. TrailTo(asserted', j) = TrailTo(asserted, j) /\ saved'[j] = saved[j]
        BY <1>2, <1>5, <1>7, <3>1
      <4> QED
        BY <3>1, <4>1 DEF Inv, Back, m
    <3>2. CASE j = m + 1
      <4>1. TrailTo(asserted', j) = Trail /\ saved'[j] = Here
        BY <1>5, <1>7, <1>8, <3>2
      <4>2. Record(Here) /\ Good(registered, known, Trail, Here)
        BY DEF Inv, Now, Record, Here
      <4> QED
        BY <4>1, <4>2
    <3> QED
      BY <1>12, <3>1, <3>2
  <2> QED
    BY <1>1, <1>3, <2>1 DEF Back
<1>15. Reversible'
  <2>1. CASE limits = <<>>
    <3> DEFINE run == [k \in {Len(history)} |-> Here]
    <3>1. m = 0
      BY <2>1 DEF m
    <3>2. run[Len(history)] = Here
      OBVIOUS
    <3>3. limits'[1] = Len(history) /\ saved'[1] = Here /\ Len(limits') = 1
      BY <1>3, <1>5, <3>1
    <3>4. limits'[1] + 1 .. Len(history) = {}
      BY <1>2, <3>3
    <3>5. \A j \in 1 .. Len(limits') : j = 1
      BY <3>3
    <3> HIDE DEF run
    <3>6. Rewinds(run, history', limits', saved', Here')
      BY <1>1, <1>10, <3>2, <3>3, <3>4, <3>5 DEF Rewinds
    <3> QED
      BY <3>6 DEF Reversible
  <2>2. CASE limits # <<>>
    <3>1. PICK run : Rewinds(run, history, limits, saved, Here)
      BY <2>2 DEF Inv, Reversible
    <3>2. m # 0
      BY <1>2, <2>2, EmptySeq DEF m
    <3>3. limits'[1] = limits[1]
      BY <1>2, <1>3, <3>2
    <3>4. \A j \in 1 .. m : run[limits[j]] = saved[j]
      BY <3>1 DEF Rewinds, m
    <3>5. \A j \in 1 .. Len(limits') : run[limits'[j]] = saved'[j]
      <4>1. run[Len(history)] = Here
        BY <3>1 DEF Rewinds
      <4> QED
        BY <1>3, <1>5, <1>12, <3>4, <4>1
    <3>6. Rewinds(run, history', limits', saved', Here')
      BY <1>1, <1>10, <3>1, <3>3, <3>5 DEF Rewinds
    <3> QED
      BY <3>6 DEF Reversible
  <2> QED
    BY <2>1, <2>2
<1>16. Words' /\ Queue'
  BY <1>1 DEF Inv, Words, Queue
<1> QED
  BY <1>11, <1>13, <1>14, <1>15, <1>16 DEF Inv

\* pop returns to what the lists were at the push.
LEMMA PopReturns ==
    ASSUME Inv, NEW n, Pop(n), Remember
    PROVE  LET j == Len(limits) - n + 1
           IN  /\ n \in 1 .. Len(limits) /\ j \in 1 .. Len(limits) /\ j - 1 \in Nat
               /\ Here' = saved[j] /\ history' = SubSeq(history, 1, limits[j])
               /\ limits' = SubSeq(limits, 1, j - 1) /\ asserted' = SubSeq(asserted, 1, j)
               /\ saved' = SubSeq(saved, 1, j - 1) /\ Len(limits') = j - 1
               /\ UNCHANGED <<registered, known, reporting, props, todo>>
<1> DEFINE j == Len(limits) - n + 1
           undone == Undone(history, limits[j], Here)
<1>1. /\ Stacked(history, limits, saved) /\ limits \in Seq(Nat) /\ Len(limits) \in Nat
      /\ Len(asserted) = Len(limits) + 1
  <2>1. Stacked(history, limits, saved) /\ limits \in Seq(Nat) /\ Len(asserted) = Len(limits) + 1
    BY DEF Inv, Stack, Stacked
  <2> QED
    BY <2>1, LenProperties
<1>2. n \in 1 .. Len(limits)
  BY DEF Pop
<1>3. j \in 1 .. Len(limits) /\ j - 1 \in Nat /\ Len(limits) - n = j - 1 /\ Len(asserted) - n = j
      /\ j - 1 < Len(limits)
  BY <1>1, <1>2
<1>4. /\ parent' = undone.parent /\ class' = undone.class
      /\ use' = undone.use /\ edge' = undone.edge
      /\ diseqs' = undone.diseqs /\ history' = SubSeq(history, 1, limits[j])
  BY Zenon DEF Pop, Undone
<1>5. /\ limits' = SubSeq(limits, 1, Len(limits) - n)
      /\ asserted' = SubSeq(asserted, 1, Len(asserted) - n)
      /\ UNCHANGED <<registered, known, reporting, props, todo>>
  BY DEF Pop
<1>6. undone = saved[j]
  <2>1. limits # <<>>
    BY <1>1, <1>2
  <2>2. PICK run : Rewinds(run, history, limits, saved, Here)
    BY <2>1 DEF Inv, Reversible
  <2> QED
    BY <1>1, <1>3, <2>2, RewindsFrom
<1> HIDE DEF undone, j
<1>7. Here' = saved[j]
  <2>1. Record(saved[j])
    BY <1>3 DEF Inv, Back
  <2> QED
    BY <1>4, <1>6, <2>1 DEF Here, Record
<1>8. limits' = SubSeq(limits, 1, j - 1) /\ asserted' = SubSeq(asserted, 1, j)
  BY <1>3, <1>5
<1>9. Len(limits') = j - 1
  <2>1. 1 \in Int /\ j - 1 \in Int /\ \A i \in 1 .. j - 1 : limits[i] \in Nat
    BY <1>1, <1>3, LenProperties
  <2>2. Len(limits') = IF 1 <= j - 1 THEN (j - 1) - 1 + 1 ELSE 0
    BY <1>8, <2>1, SubSeqProperties
  <2> QED
    BY <1>3, <2>2
<1>10. saved' = SubSeq(saved, 1, j - 1)
  BY <1>1, <1>3, <1>9 DEF Remember
<1> QED
  BY <1>2, <1>3, <1>4, <1>5, <1>7, <1>8, <1>9, <1>10 DEF j

LEMMA PopStep ==
    ASSUME Inv, NEW n, Pop(n), Remember
    PROVE  Inv'
<1> DEFINE j == Len(limits) - n + 1
<1>1. /\ j \in 1 .. Len(limits) /\ j - 1 \in Nat
      /\ Here' = saved[j] /\ history' = SubSeq(history, 1, limits[j])
      /\ limits' = SubSeq(limits, 1, j - 1) /\ asserted' = SubSeq(asserted, 1, j)
      /\ saved' = SubSeq(saved, 1, j - 1) /\ Len(limits') = j - 1
      /\ UNCHANGED <<registered, known, reporting, props, todo>>
  BY PopReturns
<1> HIDE DEF j
<1>2. /\ IsSeq(history) /\ IsSeq(saved) /\ limits \in Seq(Nat) /\ Len(saved) = Len(limits)
      /\ Len(limits) \in Nat
      /\ \A i \in 1 .. Len(limits) : limits[i] \in 0 .. Len(history)
      /\ \A i, k \in 1 .. Len(limits) : i <= k => limits[i] <= limits[k]
  <2>1. limits \in Seq(Nat)
    BY DEF Inv, Stack, Stacked
  <2> QED
    BY <2>1, LenProperties DEF Inv, Stack, Stacked
<1>3. limits[j] \in 0 .. Len(history) /\ j - 1 \in 0 .. Len(saved) /\ Len(history) \in Nat
  BY <1>1, <1>2 DEF IsSeq
<1>4. /\ IsSeq(history') /\ Len(history') = limits[j]
      /\ \A i \in 1 .. limits[j] : history'[i] = history[i]
  BY <1>1, <1>2, <1>3, SeqCut
<1>5. IsSeq(saved') /\ Len(saved') = j - 1 /\ \A i \in 1 .. j - 1 : saved'[i] = saved[i]
  BY <1>1, <1>2, <1>3, SeqCut
<1>6. limits' \in Seq(Nat) /\ \A i \in 1 .. j - 1 : limits'[i] = limits[i]
  <2>1. 1 \in Int /\ j - 1 \in Int /\ \A i \in 1 .. j - 1 : limits[i] \in Nat
    BY <1>1, <1>2, LenProperties
  <2>2. limits' \in Seq(Nat) /\ \A i \in 1 .. (j - 1) - 1 + 1 : limits'[i] = limits[1 + i - 1]
    BY <1>1, <2>1, SubSeqProperties
  <2>3. (j - 1) - 1 + 1 = j - 1 /\ \A i \in 1 .. j - 1 : 1 + i - 1 = i
    BY <1>1
  <2> QED
    BY <2>2, <2>3
<1>7. asserted \in Seq(SUBSET Int) /\ Len(asserted) = Len(limits) + 1
      /\ \A k \in 1 .. Len(asserted) : IsFiniteSet(asserted[k])
  BY DEF Inv, Stack
<1>8. /\ asserted' \in Seq(SUBSET Int) /\ Len(asserted') = j
      /\ \A i \in 1 .. Len(asserted') : IsFiniteSet(asserted'[i])
      /\ \A k \in 1 .. j : TrailTo(asserted', k) = TrailTo(asserted, k)
  <2>1. j \in 1 .. Len(asserted)
    BY <1>1, <1>2, <1>7
  <2> QED
    BY <1>1, <1>7, <2>1, TrailPops
<1>9. Trail' = TrailTo(asserted, j)
  <2>1. UNION {asserted'[i] : i \in DOMAIN asserted'} = TrailTo(asserted', Len(asserted'))
    BY <1>8, TrailIsTo
  <2>2. j \in 1 .. j
    BY <1>1
  <2> QED
    BY <1>8, <2>1, <2>2 DEF Trail
<1>10. Now'
  BY <1>1, <1>9 DEF Inv, Back, Now
<1>11. Stack'
  <2>1. \A i \in 1 .. j - 1 : limits'[i] \in 0 .. limits[j]
    <3>1. \A i \in 1 .. j - 1 : i \in 1 .. Len(limits) /\ i <= j
      BY <1>1, <1>2
    <3>2. \A i \in 1 .. j - 1 : limits[i] \in 0 .. Len(history) /\ limits[i] <= limits[j]
      BY <1>1, <1>2, <3>1
    <3> QED
      BY <1>3, <1>6, <3>2
  <2>2. \A i, k \in 1 .. j - 1 : i <= k => limits'[i] <= limits'[k]
    BY <1>1, <1>2, <1>6
  <2>3. Stacked(history', limits', saved')
    BY <1>1, <1>4, <1>5, <1>6, <2>1, <2>2 DEF Stacked
  <2>4. Len(asserted') = Len(limits') + 1
    BY <1>1, <1>2, <1>8
  <2> QED
    BY <1>8, <2>3, <2>4 DEF Stack
<1>12. Back'
  <2>1. ASSUME NEW k \in 1 .. j - 1
        PROVE  Record(saved'[k]) /\ Good(registered, known, TrailTo(asserted', k), saved'[k])
    <3>1. k \in 1 .. Len(limits) /\ k \in 1 .. j
      BY <1>1, <1>2
    <3> QED
      BY <1>5, <1>8, <3>1 DEF Inv, Back
  <2> QED
    BY <1>1, <2>1 DEF Back
<1>13. Reversible'
  <2> SUFFICES ASSUME limits' # <<>>
               PROVE  \E run : Rewinds(run, history', limits', saved', Here')
    BY DEF Reversible
  <2>1. limits # <<>>
    BY <1>1, <1>2
  <2>2. PICK run : Rewinds(run, history, limits, saved, Here)
    BY <2>1 DEF Inv, Reversible
  <2>3. j - 1 # 0
    BY <1>1, <1>6, EmptySeq
  <2>4. limits'[1] = limits[1] /\ limits[1] \in Nat
    BY <1>1, <1>2, <1>6, <2>3
  <2>5. /\ \A k \in limits[1] + 1 .. Len(history) : run[k - 1] = Undo(history[k], run[k])
        /\ \A k \in 1 .. Len(limits) : run[limits[k]] = saved[k]
    BY <2>2 DEF Rewinds
  <2>6. run[Len(history')] = Here'
    BY <1>1, <1>4, <2>5
  <2>7. ASSUME NEW k \in limits'[1] + 1 .. Len(history')
        PROVE  run[k - 1] = Undo(history'[k], run[k])
    <3>1. k \in limits[1] + 1 .. Len(history) /\ k \in 1 .. limits[j]
      BY <1>3, <1>4, <2>4
    <3> QED
      BY <1>4, <2>5, <3>1
  <2>8. ASSUME NEW k \in 1 .. Len(limits')
        PROVE  run[limits'[k]] = saved'[k]
    <3>1. k \in 1 .. j - 1 /\ k \in 1 .. Len(limits)
      BY <1>1, <1>2
    <3> QED
      BY <1>5, <1>6, <2>5, <3>1
  <2>9. Rewinds(run, history', limits', saved', Here')
    BY <2>6, <2>7, <2>8 DEF Rewinds
  <2> QED
    BY <2>9
<1>14. Words' /\ Queue'
  BY <1>1 DEF Inv, Words, Queue
<1> QED
  BY <1>10, <1>11, <1>12, <1>13, <1>14 DEF Inv

LEMMA InvStep == Inv /\ [LateNext]_tracedVars => Inv'
<1> SUFFICES ASSUME Inv, [LateNext]_tracedVars PROVE Inv'
  OBVIOUS
<1>1. CASE UNCHANGED tracedVars
  BY <1>1 DEF tracedVars, vars, lists, Inv, Words, Now, Stack, Back, Reversible, Queue, Here, Trail
<1>2. CASE LateNext
  <2>1. Remember
    BY <1>2 DEF LateNext
  <2>2. ASSUME NEW t \in Terms, RegisterTerm(t) PROVE Inv'
    BY <2>1, <2>2, RegisterTermStep
  <2>3. ASSUME NEW e \in Equalities, RegisterEquality(e) PROVE Inv'
    BY <2>1, <2>3, RegisterEqualityStep
  <2>4. ASSUME NEW e \in Equalities, AssertEqual(e) PROVE Inv'
    BY <2>1, <2>4, AssertEqualStep
  <2>5. ASSUME NEW e \in Equalities, AssertDistinct(e) PROVE Inv'
    BY <2>1, <2>5, AssertDistinctStep
  <2>6. ASSUME NEW c, Congruence(c) PROVE Inv'
    BY <2>1, <2>6, CongruenceStep
  <2>7. ASSUME NextLoops PROVE Inv'
    BY <2>1, <2>7, NextLoopsStep
  <2>8. ASSUME Push PROVE Inv'
    BY <2>1, <2>8, PushStep
  <2>9. ASSUME NEW n \in 1 .. MaxLevel, Pop(n) PROVE Inv'
    BY <2>1, <2>9, PopStep
  <2> QED
    BY <1>2, <2>2, <2>3, <2>4, <2>5, <2>6, <2>7, <2>8, <2>9 DEF LateNext, Next, NextLoops
<1> QED
  BY <1>1, <1>2

THEOREM Invariance == LateSpec => []Inv
<1>1. TracedInit => Inv
  BY InvInit
<1>2. Inv /\ [LateNext]_tracedVars => Inv'
  BY InvStep
<1> QED
  BY <1>1, <1>2, PTL DEF LateSpec

\* The lists describe one partition of the registered terms.
LEMMA Typed == Inv => TypeOK
<1> SUFFICES ASSUME Inv PROVE TypeOK
  OBVIOUS
<1>1. /\ \A x \in registered : Find[x] = RootOf(registered, parent, x)
      /\ class \in [registered -> SUBSET registered] /\ use \in [registered -> Seq(registered)]
      /\ parent \in [registered -> registered]
  BY Reads
<1>2. PICK time, n : Founded(registered, known, Trail, Here, time, n)
  BY DEF Inv, Now, Good
<1>3. /\ DOMAIN edge = {x \in registered : parent[x] # x}
      /\ \A x \in DOMAIN edge : Sound(registered, known, Trail, parent, time, x, edge[x])
  BY <1>2 DEF Founded, Here
<1>4. \A t \in DOMAIN edge : edge[t].to = parent[t] /\ edge[t].literal \in known \cup {NoLiteral}
  BY <1>3 DEF Sound
<1>5. \A t \in registered : parent[t] = t => class[t] = {s \in registered : RootOf(registered, parent, s) = t}
  BY DEF Inv, Now, Good, Members, Here
<1>6. ASSUME NEW t \in registered, parent[t] = t
      PROVE  class[t] = {s \in registered : Find[s] = t}
  <2>1. class[t] = {s \in registered : RootOf(registered, parent, s) = t}
    BY <1>5, <1>6
  <2>2. {s \in registered : RootOf(registered, parent, s) = t} = {s \in registered : Find[s] = t}
    BY <1>1
  <2> QED
    BY <2>1, <2>2
<1>7. Equal \subseteq known
  BY DEF Equal
<1>8. Len(asserted) = Level /\ \A i \in DOMAIN limits : limits[i] \in 0 .. Len(history)
  <2>1. limits \in Seq(Nat) /\ \A i \in 1 .. Len(limits) : limits[i] \in 0 .. Len(history)
    BY DEF Inv, Stack, Stacked
  <2>2. DOMAIN limits = 1 .. Len(limits)
    BY <2>1, LenProperties
  <2> QED
    BY <2>1, <2>2 DEF Inv, Stack, Level
<1> QED
  BY <1>1, <1>3, <1>4, <1>6, <1>7, <1>8 DEF TypeOK

\* What holds whenever terms are registered, holds when they are registered early.
LEMMA EarlyIsLate == EarlySpec => LateSpec
<1>1. [EarlyNext]_tracedVars => [LateNext]_tracedVars
  BY DEF EarlyNext, LateNext
<1> QED
  BY <1>1, PTL DEF EarlySpec, LateSpec

\* parent, class_list, use_list, parent_edge and the stacks fit together, whenever terms
\* are registered.
THEOREM Types == LateSpec => []TypeOK
<1>1. LateSpec => []Inv
  BY Invariance
<1>2. Inv => TypeOK
  BY Typed
<1> QED
  BY <1>1, <1>2, PTL

\* pop restores the union-find, its lists, its edges and the disequalities exactly.
THEOREM RollbackExact == LateSpec => RollbackIsExact
<1>1. Inv /\ [LateNext]_tracedVars
        => [Len(limits') < Len(limits) => Here' = saved[Len(limits') + 1]]_tracedVars
  <2> SUFFICES ASSUME Inv, LateNext, Len(limits') < Len(limits)
               PROVE  Here' = saved[Len(limits') + 1]
    OBVIOUS
  <2>1. Len(limits) \in Nat
    BY Reads
  <2>2. limits' # limits
    BY <2>1
  <2>3. ~Push
    <3>1. limits \in Seq(Nat) /\ Len(history) \in Nat
      BY DEF Inv, Stack, Stacked, IsSeq
    <3>2. Push => Len(limits') = Len(limits) + 1
      BY <3>1, AppendProperties DEF Push
    <3> QED
      BY <2>1, <3>2
  <2>4. PICK n \in 1 .. MaxLevel : Pop(n)
    BY <2>2, <2>3 DEF LateNext, Next, RegisterTerm, RegisterEquality, AssertEqual, AssertDistinct,
                      Congruence, CompareDone, NextMember, MembersDone, NextArgument, ArgumentsDone, Loops
  <2>5. Remember
    BY DEF LateNext
  <2> DEFINE j == Len(limits) - n + 1
  <2>6. Here' = saved[j] /\ Len(limits') = j - 1 /\ j \in 1 .. Len(limits)
    BY <2>4, <2>5, PopReturns
  <2>7. Len(limits') + 1 = j
    BY <2>1, <2>6
  <2> QED
    BY <2>6, <2>7
<1>2. LateSpec => []Inv
  BY Invariance
<1> QED
  BY <1>1, <1>2, PTL DEF LateSpec, RollbackIsExact

(***************************************************************************)
(* The closure of equalities is the least congruence that holds them.       *)
(***************************************************************************)
Alike(C, s, t) ==
    /\ FunctionOf[s] = FunctionOf[t] /\ Len(ArgsOf[s]) = Len(ArgsOf[t])
    /\ \A i \in DOMAIN ArgsOf[s] : <<ArgsOf[s][i], ArgsOf[t][i]>> \in C

IsCongruence(reg, C) ==
    /\ C \subseteq reg \X reg /\ \A t \in reg : <<t, t>> \in C
    /\ \A s, t \in reg : <<s, t>> \in C => <<t, s>> \in C
    /\ \A s, r, t \in reg : <<s, r>> \in C /\ <<r, t>> \in C => <<s, t>> \in C
    /\ \A s, t \in reg : Alike(C, s, t) => <<s, t>> \in C

All == registered \X registered
Grown(R) == {p \in registered \X registered : Related(R, p[1], p[2])}
Least(R) == {p \in All : \A C \in SUBSET All : R \subseteq C /\ Grown(C) = C => p \in C}

LEMMA GrownGrows ==
    ASSUME NEW R, R \subseteq All, NEW C, R \subseteq C
    PROVE  R \subseteq Grown(R) /\ Grown(R) \subseteq Grown(C) /\ Grown(R) \subseteq All
<1>1. ASSUME NEW p \in R
      PROVE  p \in Grown(R)
  <2>1. p \in All /\ p = <<p[1], p[2]>>
    BY DEF All
  <2>2. Related(R, p[1], p[2])
    BY <2>1 DEF Related
  <2> QED
    BY <2>1, <2>2 DEF Grown, All
<1>2. ASSUME NEW p \in Grown(R)
      PROVE  p \in Grown(C)
  <2>1. p \in All /\ Related(R, p[1], p[2])
    BY DEF Grown, All
  <2>2. Related(C, p[1], p[2])
    BY <2>1 DEF Related
  <2> QED
    BY <2>1, <2>2 DEF Grown, All
<1> QED
  BY <1>1, <1>2 DEF Grown, All

LEMMA LeastFacts ==
    ASSUME NEW R, R \subseteq All
    PROVE  /\ R \subseteq Least(R) /\ Least(R) \subseteq All /\ Grown(Least(R)) = Least(R)
           /\ \A C \in SUBSET All : R \subseteq C /\ Grown(C) = C => Least(R) \subseteq C
<1>1. R \subseteq Least(R) /\ Least(R) \subseteq All
  BY DEF Least
<1>2. \A C \in SUBSET All : R \subseteq C /\ Grown(C) = C => Least(R) \subseteq C
  BY DEF Least
<1>3. ASSUME NEW p \in Grown(Least(R))
      PROVE  p \in Least(R)
  <2>1. p \in All
    BY DEF Grown, All
  <2>2. ASSUME NEW C \in SUBSET All, R \subseteq C, Grown(C) = C
        PROVE  p \in C
    <3>1. Least(R) \subseteq C
      BY <1>2, <2>2
    <3>2. Grown(Least(R)) \subseteq Grown(C)
      BY <1>1, <3>1, GrownGrows
    <3> QED
      BY <2>2, <3>2
  <2> QED
    BY <2>1, <2>2 DEF Least
<1>4. Least(R) \subseteq Grown(Least(R))
  BY <1>1, GrownGrows
<1> QED
  BY <1>1, <1>2, <1>3, <1>4

LEMMA LeastUnfolds ==
    ASSUME NEW R, R \subseteq All
    PROVE  Least(R) = IF Grown(R) = R THEN R ELSE Least(Grown(R))
<1>1. R \subseteq Grown(R) /\ Grown(R) \subseteq All
  BY GrownGrows
<1>2. /\ R \subseteq Least(R) /\ Least(R) \subseteq All /\ Grown(Least(R)) = Least(R)
      /\ \A C \in SUBSET All : R \subseteq C /\ Grown(C) = C => Least(R) \subseteq C
  BY LeastFacts
<1>3. CASE Grown(R) = R
  BY <1>2, <1>3
<1>4. CASE Grown(R) # R
  <2>1. /\ Grown(R) \subseteq Least(Grown(R)) /\ Least(Grown(R)) \subseteq All
        /\ Grown(Least(Grown(R))) = Least(Grown(R))
        /\ \A C \in SUBSET All : Grown(R) \subseteq C /\ Grown(C) = C => Least(Grown(R)) \subseteq C
    BY <1>1, LeastFacts
  <2>2. Least(R) \subseteq Least(Grown(R))
    BY <1>1, <1>2, <2>1
  <2>3. Grown(R) \subseteq Least(R)
    <3>1. Grown(R) \subseteq Grown(Least(R))
      BY <1>2, GrownGrows
    <3> QED
      BY <1>2, <3>1
  <2>4. Least(Grown(R)) \subseteq Least(R)
    BY <1>2, <2>1, <2>3
  <2> QED
    BY <1>4, <2>2, <2>4
<1> QED
  BY <1>3, <1>4

LEMMA ClosureIsLeast ==
    ASSUME IsFiniteSet(registered), NEW E, \A e \in E : Sides[e] \in All
    PROVE  Closure(E) = Least({<<t, t>> : t \in registered} \cup {Sides[e] : e \in E})
<1> DEFINE Start == {<<t, t>> : t \in registered} \cup {Sides[e] : e \in E}
           Is(g) == g = [R \in SUBSET (registered \X registered) |->
                           IF Grown(R) = R THEN R ELSE g[Grown(R)]]
           F == [R \in SUBSET (registered \X registered) |-> Least(R)]
           grow == CHOOSE g : Is(g)
<1>1. Start \subseteq All
  BY DEF All
<1>2. \A R \in SUBSET All : Grown(R) \in SUBSET All
  BY DEF Grown, All
<1>3. Is(F)
  <2>1. ASSUME NEW R \in SUBSET All
        PROVE  F[R] = IF Grown(R) = R THEN R ELSE F[Grown(R)]
    <3>1. Least(R) = IF Grown(R) = R THEN R ELSE Least(Grown(R))
      BY LeastUnfolds
    <3>2. F[R] = Least(R) /\ F[Grown(R)] = Least(Grown(R))
      BY <1>2 DEF All
    <3> HIDE DEF F
    <3> QED
      BY <3>1, <3>2
  <2>2. F = [R \in SUBSET (registered \X registered) |-> F[R]]
    OBVIOUS
  <2> HIDE DEF F
  <2> QED
    BY <2>1, <2>2, Zenon DEF All
<1>4. Is(grow)
  <2> HIDE DEF Is, F
  <2> QED
    BY <1>3, Zenon
<1>5. Closure(E) = grow[Start]
  BY Zenon DEF Closure, Grown
<1> HIDE DEF grow
<1>6. grow = [R \in SUBSET (registered \X registered) |-> IF Grown(R) = R THEN R ELSE grow[Grown(R)]]
  BY <1>4, Zenon
<1> HIDE DEF Is, F
<1>7. \A R \in SUBSET All : grow[R] = IF Grown(R) = R THEN R ELSE grow[Grown(R)]
  BY <1>6, Zenon DEF All
<1>8. IsFiniteSet(All) /\ Cardinality(All) \in Nat
  BY FS_Product, FS_CardinalityType DEF All
<1>9. \A R \in SUBSET All : Cardinality(R) \in Nat /\ Cardinality(R) <= Cardinality(All)
  BY <1>8, FS_Subset, FS_CardinalityType
<1> DEFINE Off == {R \in SUBSET All : grow[R] # Least(R)}
           Gaps == {Cardinality(All) - Cardinality(R) : R \in Off}
<1>10. Off = {}
  <2> SUFFICES ASSUME Off # {} PROVE FALSE
    OBVIOUS
  <2>1. Gaps \subseteq Nat /\ Gaps # {}
    BY <1>8, <1>9
  <2>2. PICK k \in Gaps : \A m \in Gaps : k <= m
    <3> HIDE DEF Gaps
    <3> QED
      BY <2>1, LeastOf
  <2>3. PICK R \in Off : k = Cardinality(All) - Cardinality(R)
    OBVIOUS
  <2>4. R \in SUBSET All /\ grow[R] # Least(R) /\ Grown(R) \in SUBSET All
    BY <1>2, <2>3
  <2>5. Grown(R) # R
    <3> SUFFICES ASSUME Grown(R) = R PROVE FALSE
      OBVIOUS
    <3>1. grow[R] = R /\ Least(R) = R
      <4> HIDE DEF Off, Gaps
      <4> QED
        BY <1>7, <2>4, LeastUnfolds
    <3> QED
      BY <2>4, <3>1
  <2>6. Cardinality(R) < Cardinality(Grown(R))
    <3>1. R \subseteq Grown(R)
      BY <2>4, GrownGrows
    <3>2. IsFiniteSet(Grown(R))
      BY <1>8, <2>4, FS_Subset
    <3>3. Cardinality(R) \in Nat /\ Cardinality(Grown(R)) \in Nat
      <4> HIDE DEF Off, Gaps
      <4> QED
        BY <1>9, <2>4
    <3>4. R \in SUBSET Grown(R)
      BY <3>1
    <3>5. /\ Cardinality(R) <= Cardinality(Grown(R))
          /\ Cardinality(Grown(R)) = Cardinality(R) => Grown(R) = R
      <4> HIDE DEF Grown
      <4> QED
        BY ONLY <3>2, <3>4, FS_Subset
    <3> HIDE DEF Off, Gaps, Grown
    <3> QED
      BY ONLY <2>5, <3>3, <3>5
  <2>7. Grown(R) \notin Off
    <3> SUFFICES ASSUME Grown(R) \in Off PROVE FALSE
      OBVIOUS
    <3>1. Cardinality(All) - Cardinality(Grown(R)) \in Gaps
      OBVIOUS
    <3>2. Cardinality(All) - Cardinality(R) <= Cardinality(All) - Cardinality(Grown(R))
      <4> HIDE DEF Gaps, Off
      <4> QED
        BY <2>2, <2>3, <3>1
    <3> HIDE DEF Gaps, Off
    <3> QED
      BY <1>8, <1>9, <2>4, <2>6, <3>2
  <2>8. grow[Grown(R)] = Least(Grown(R))
    BY <2>4, <2>7
  <2> HIDE DEF Off, Gaps
  <2>9. Least(R) = Least(Grown(R))
    BY <2>4, <2>5, LeastUnfolds
  <2> QED
    BY <1>7, <2>4, <2>5, <2>8, <2>9
<1>11. grow[Start] = Least(Start)
  <2> HIDE DEF Start
  <2> QED
    BY <1>1, <1>10
<1> QED
  BY <1>5, <1>11

\* What the congruence closure of equalities is.
LEMMA ClosureFacts ==
    ASSUME IsFiniteSet(registered), NEW E, \A e \in E : Sides[e] \in All
    PROVE  /\ IsCongruence(registered, Closure(E)) /\ \A e \in E : Sides[e] \in Closure(E)
           /\ \A C : IsCongruence(registered, C) /\ (\A e \in E : Sides[e] \in C) => Closure(E) \subseteq C
<1> DEFINE Start == {<<t, t>> : t \in registered} \cup {Sides[e] : e \in E}
           Cl == Closure(E)
<1>1. Start \subseteq All
  BY DEF All
<1>2. Cl = Least(Start)
  BY ClosureIsLeast
<1>3. (\A t \in registered : <<t, t>> \in Start) /\ \A e \in E : Sides[e] \in Start
  OBVIOUS
<1> HIDE DEF Start, Cl
<1>4. /\ Start \subseteq Cl /\ Cl \subseteq All /\ Grown(Cl) = Cl
      /\ \A C \in SUBSET All : Start \subseteq C /\ Grown(C) = C => Cl \subseteq C
  BY <1>1, <1>2, LeastFacts
<1>5. \A s, t \in registered : Related(Cl, s, t) => <<s, t>> \in Cl
  <2> SUFFICES ASSUME NEW s \in registered, NEW t \in registered, Related(Cl, s, t)
               PROVE  <<s, t>> \in Cl
    OBVIOUS
  <2>1. <<s, t>> \in registered \X registered /\ <<s, t>>[1] = s /\ <<s, t>>[2] = t
    OBVIOUS
  <2>2. <<s, t>> \in Grown(Cl)
    BY <2>1 DEF Grown
  <2> QED
    BY <1>4, <2>2
<1>6. IsCongruence(registered, Cl)
  <2>1. ASSUME NEW s \in registered, NEW t \in registered, <<s, t>> \in Cl
        PROVE  <<t, s>> \in Cl
    BY <1>5, <2>1 DEF Related
  <2>2. ASSUME NEW s \in registered, NEW r \in registered, NEW t \in registered,
               <<s, r>> \in Cl, <<r, t>> \in Cl
        PROVE  <<s, t>> \in Cl
    BY <1>5, <2>2 DEF Related
  <2>3. ASSUME NEW s \in registered, NEW t \in registered, Alike(Cl, s, t)
        PROVE  <<s, t>> \in Cl
    BY <1>5, <2>3 DEF Related, Alike
  <2>4. \A t \in registered : <<t, t>> \in Cl
    BY <1>3, <1>4
  <2>5. Cl \subseteq registered \X registered
    BY <1>4 DEF All
  <2> QED
    BY <2>1, <2>2, <2>3, <2>4, <2>5 DEF IsCongruence
<1>7. ASSUME NEW C, IsCongruence(registered, C), \A e \in E : Sides[e] \in C
      PROVE  Cl \subseteq C
  <2>1. C \in SUBSET All
    BY <1>7 DEF IsCongruence, All
  <2>2. Start \subseteq C
    BY <1>7 DEF Start, IsCongruence
  <2>3. ASSUME NEW p \in Grown(C)
        PROVE  p \in C
    <3>1. PICK s \in registered, t \in registered : p = <<s, t>> /\ Related(C, s, t)
      BY DEF Grown
    <3>2. CASE <<s, t>> \in C
      BY <3>1, <3>2
    <3>3. CASE <<t, s>> \in C
      BY <1>7, <3>1, <3>3 DEF IsCongruence
    <3>4. CASE \E r \in registered : <<s, r>> \in C /\ <<r, t>> \in C
      BY <1>7, <3>1, <3>4 DEF IsCongruence
    <3>5. CASE Alike(C, s, t)
      BY <1>7, <3>1, <3>5 DEF IsCongruence
    <3> QED
      BY <3>1, <3>2, <3>3, <3>4, <3>5 DEF Related, Alike
  <2>4. Grown(C) = C
    <3>1. C \subseteq Grown(C)
      BY <2>1, GrownGrows
    <3> QED
      BY <2>3, <3>1
  <2> QED
    BY <1>4, <2>1, <2>2, <2>4
<1>8. \A e \in E : Sides[e] \in Cl
  BY <1>3, <1>4
<1> QED
  BY <1>6, <1>7, <1>8 DEF Cl

\* A congruence that joins what each edge of the path joins, joins the ends.
LEMMA Chained ==
    ASSUME NEW reg, NEW par, NEW time, NEW n, Timed(reg, par, time, n), NEW C, IsCongruence(reg, C),
           NEW s0 \in reg, NEW t0 \in reg, RootOf(reg, par, s0) = RootOf(reg, par, t0),
           \A x \in Path(reg, par, s0, t0) : <<x, par[x]>> \in C
    PROVE  <<s0, t0>> \in C
<1>1. par \in [reg -> reg] /\ time \in [reg -> Nat] /\ n \in Nat
  BY DEF Timed
<1>2. \A x \in reg : time[x] \in 0 .. n
  BY <1>1 DEF Timed
<1> DEFINE Chain(s, t) == /\ RootOf(reg, par, s) = RootOf(reg, par, t)
                          /\ \A x \in Path(reg, par, s, t) : <<x, par[x]>> \in C
           Off == {p \in reg \X reg : Chain(p[1], p[2]) /\ p \notin C}
           Gaps == {(n - time[p[1]]) + (n - time[p[2]]) : p \in Off}
<1>3. Off = {}
  <2> SUFFICES ASSUME Off # {} PROVE FALSE
    OBVIOUS
  <2>1. Gaps \subseteq Nat /\ Gaps # {}
    <3>1. \A p \in Off : time[p[1]] \in 0 .. n /\ time[p[2]] \in 0 .. n
      BY <1>2
    <3>2. \A p \in Off : (n - time[p[1]]) + (n - time[p[2]]) \in Nat
      BY <1>1, <3>1
    <3> QED
      BY <3>2
  <2>2. PICK k \in Gaps : \A m \in Gaps : k <= m
    <3> HIDE DEF Gaps
    <3> QED
      BY <2>1, LeastOf
  <2>3. PICK p \in Off : k = (n - time[p[1]]) + (n - time[p[2]])
    OBVIOUS
  <2> DEFINE s == p[1]
             t == p[2]
  <2>4. s \in reg /\ t \in reg /\ p = <<s, t>> /\ Chain(s, t) /\ <<s, t>> \notin C
    BY <2>3
  <2>5. \A a, b \in reg : Chain(a, b) /\ time[a] + time[b] > time[s] + time[t] => <<a, b>> \in C
    <3> SUFFICES ASSUME NEW a \in reg, NEW b \in reg, Chain(a, b), time[a] + time[b] > time[s] + time[t],
                        <<a, b>> \notin C
                 PROVE  FALSE
      OBVIOUS
    <3>1. <<a, b>> \in Off
      <4> HIDE DEF Chain
      <4> QED
        OBVIOUS
    <3>2. (n - time[a]) + (n - time[b]) \in Gaps
      <4> HIDE DEF Off
      <4>1. <<a, b>>[1] = a /\ <<a, b>>[2] = b
        OBVIOUS
      <4> QED
        BY <3>1, <4>1
    <3>3. k <= (n - time[a]) + (n - time[b])
      <4> HIDE DEF Gaps
      <4> QED
        BY <2>2, <3>2
    <3>4. time[a] \in 0 .. n /\ time[b] \in 0 .. n /\ time[s] \in 0 .. n /\ time[t] \in 0 .. n
      BY <1>2, <2>4
    <3> HIDE DEF Gaps, Off, Chain, s, t
    <3>5. k = (n - time[s]) + (n - time[t])
      BY <2>3 DEF s, t
    <3> QED
      BY <1>1, <3>3, <3>4, <3>5
  <2> HIDE DEF Off, Gaps, s, t
  <2>6. \A x \in Path(reg, par, s, t) : x \in reg /\ par[x] # x /\ <<x, par[x]>> \in C
    BY <2>4, PathFacts
  <2>7. par[s] \in reg /\ par[t] \in reg
    BY <1>1, <2>4
  <2>8. /\ Up(reg, par, s) = {s} \cup Up(reg, par, par[s])
        /\ Up(reg, par, t) = {t} \cup Up(reg, par, par[t])
    BY <1>1, <2>4, UpUnfolds
  <2>9. s \in Up(reg, par, s) /\ t \in Up(reg, par, t)
    BY <1>1, <2>4, UpFacts
  <2>10. /\ RootOf(reg, par, par[s]) = RootOf(reg, par, s)
         /\ RootOf(reg, par, par[t]) = RootOf(reg, par, t)
    BY <2>4, RootAbove
  <2>11. CASE s \notin Up(reg, par, t)
    <3>1. s \in Path(reg, par, s, t)
      BY <2>9, <2>11 DEF Path
    <3>2. par[s] # s /\ <<s, par[s]>> \in C
      BY <2>6, <3>1
    <3>3. Path(reg, par, par[s], t) \subseteq Path(reg, par, s, t)
      BY <2>8, <2>11 DEF Path
    <3>4. Chain(par[s], t)
      BY <2>4, <2>10, <3>3
    <3>5. time[par[s]] + time[t] > time[s] + time[t]
      <4>1. time[s] < time[par[s]]
        BY <2>4, <3>2 DEF Timed
      <4>2. time[s] \in Nat /\ time[par[s]] \in Nat /\ time[t] \in Nat
        BY <1>1, <2>4, <2>7
      <4> QED
        BY <4>1, <4>2
    <3>6. <<par[s], t>> \in C
      <4> HIDE DEF Chain
      <4> QED
        BY <2>4, <2>5, <2>7, <3>4, <3>5
    <3> QED
      BY <2>4, <2>7, <3>2, <3>6 DEF IsCongruence
  <2>12. CASE t \notin Up(reg, par, s)
    <3>1. t \in Path(reg, par, s, t)
      BY <2>9, <2>12 DEF Path
    <3>2. par[t] # t /\ <<t, par[t]>> \in C
      BY <2>6, <3>1
    <3>3. Path(reg, par, s, par[t]) \subseteq Path(reg, par, s, t)
      BY <2>8, <2>12 DEF Path
    <3>4. Chain(s, par[t])
      BY <2>4, <2>10, <3>3
    <3>5. time[s] + time[par[t]] > time[s] + time[t]
      <4>1. time[t] < time[par[t]]
        BY <2>4, <3>2 DEF Timed
      <4>2. time[s] \in Nat /\ time[par[t]] \in Nat /\ time[t] \in Nat
        BY <1>1, <2>4, <2>7
      <4> QED
        BY <4>1, <4>2
    <3>6. <<s, par[t]>> \in C
      <4> HIDE DEF Chain
      <4> QED
        BY <2>4, <2>5, <2>7, <3>4, <3>5
    <3>7. <<par[t], t>> \in C
      BY <2>4, <2>7, <3>2 DEF IsCongruence
    <3> QED
      BY <2>4, <2>7, <3>6, <3>7 DEF IsCongruence
  <2>13. CASE s \in Up(reg, par, t) /\ t \in Up(reg, par, s)
    <3>1. s = t
      BY <2>4, <2>13, UpOrdered
    <3> QED
      BY <2>4, <3>1 DEF IsCongruence
  <2> QED
    BY <2>11, <2>12, <2>13
<1>4. Chain(s0, t0)
  OBVIOUS
<1>5. <<s0, t0>> \in reg \X reg /\ <<s0, t0>>[1] = s0 /\ <<s0, t0>>[2] = t0
  OBVIOUS
<1> HIDE DEF Chain
<1> QED
  BY <1>3, <1>4, <1>5

(***************************************************************************)
(* Explanations.                                                            *)
(***************************************************************************)
\* What the edge of one term contributes to an explanation h.
ByEdge(h, t) ==
    LET e == edge[t]
    IN  h[<<t, e.under>>] \cup h[<<e.above, e.to>>]
          \cup IF e.literal # NoLiteral THEN {e.literal}
               ELSE UNION {h[<<ArgsOf[e.above][i], ArgsOf[e.under][i]>>] : i \in DOMAIN ArgsOf[e.above]}

Explained(h, p) == UNION {ByEdge(h, t) : t \in Between(p[1], p[2]) \cap DOMAIN edge}

\* What an edge names are registered terms and a known literal.
EdgesNamed ==
    \A t \in DOMAIN edge :
      /\ t \in registered /\ edge[t].under \in registered /\ edge[t].above \in registered
      /\ edge[t].to \in registered /\ edge[t].literal \in known \cup {NoLiteral}
      /\ edge[t].literal = NoLiteral =>
           \A i \in DOMAIN ArgsOf[edge[t].above] :
             ArgsOf[edge[t].above][i] \in registered /\ ArgsOf[edge[t].under][i] \in registered

LEMMA ByEdgeGrows ==
    ASSUME EdgesNamed, NEW g \in [All -> SUBSET known], NEW h \in [All -> SUBSET known],
           \A p \in All : g[p] \subseteq h[p], NEW t \in DOMAIN edge
    PROVE  ByEdge(g, t) \subseteq ByEdge(h, t) /\ ByEdge(g, t) \subseteq known
<1> DEFINE e == edge[t]
<1>1. /\ t \in registered /\ e.under \in registered /\ e.above \in registered
      /\ e.to \in registered /\ e.literal \in known \cup {NoLiteral}
      /\ e.literal = NoLiteral =>
           \A i \in DOMAIN ArgsOf[e.above] :
             ArgsOf[e.above][i] \in registered /\ ArgsOf[e.under][i] \in registered
  BY DEF EdgesNamed
<1> DEFINE Of(f) == f[<<t, e.under>>] \cup f[<<e.above, e.to>>]
           Each(f) == UNION {f[<<ArgsOf[e.above][i], ArgsOf[e.under][i]>>] : i \in DOMAIN ArgsOf[e.above]}
<1>2. /\ ByEdge(g, t) = Of(g) \cup (IF e.literal # NoLiteral THEN {e.literal} ELSE Each(g))
      /\ ByEdge(h, t) = Of(h) \cup (IF e.literal # NoLiteral THEN {e.literal} ELSE Each(h))
  BY Zenon DEF ByEdge
<1>3. Of(g) \subseteq Of(h) /\ Of(g) \subseteq known
  <2>1. <<t, e.under>> \in All /\ <<e.above, e.to>> \in All
    BY <1>1 DEF All
  <2> HIDE DEF e, All
  <2> QED
    BY <2>1
<1>4. ASSUME e.literal = NoLiteral
      PROVE  Each(g) \subseteq Each(h) /\ Each(g) \subseteq known
  <2>1. \A i \in DOMAIN ArgsOf[e.above] : <<ArgsOf[e.above][i], ArgsOf[e.under][i]>> \in All
    BY <1>1, <1>4 DEF All
  <2> HIDE DEF e, All
  <2>2. \A i \in DOMAIN ArgsOf[e.above] :
          /\ g[<<ArgsOf[e.above][i], ArgsOf[e.under][i]>>] \subseteq h[<<ArgsOf[e.above][i], ArgsOf[e.under][i]>>]
          /\ g[<<ArgsOf[e.above][i], ArgsOf[e.under][i]>>] \subseteq known
    BY <2>1
  <2> QED
    BY <2>2
<1> HIDE DEF e, Of, Each
<1>5. CASE e.literal # NoLiteral
  BY <1>1, <1>2, <1>3, <1>5
<1>6. CASE e.literal = NoLiteral
  BY <1>2, <1>3, <1>4, <1>6
<1> QED
  BY <1>5, <1>6

LEMMA ExplainedGrows ==
    ASSUME EdgesNamed, NEW g \in [All -> SUBSET known], NEW h \in [All -> SUBSET known],
           \A p \in All : g[p] \subseteq h[p], NEW p
    PROVE  Explained(g, p) \subseteq Explained(h, p) /\ Explained(g, p) \subseteq known
<1>1. \A t \in Between(p[1], p[2]) \cap DOMAIN edge :
        ByEdge(g, t) \subseteq ByEdge(h, t) /\ ByEdge(g, t) \subseteq known
  BY ByEdgeGrows
<1> QED
  BY <1>1 DEF Explained

\* The recursion has a solution: the least one.
LEMMA ExplanationUnfolds ==
    ASSUME EdgesNamed
    PROVE  \A p \in All : Explanation[p] = Explained(Explanation, p)
<1> DEFINE Is(g) == g = [p \in registered \X registered |-> Explained(g, p)]
           Closed(h) == \A p \in All : Explained(h, p) \subseteq h[p]
           F == [p \in registered \X registered |->
                   {l \in known : \A h \in [All -> SUBSET known] : Closed(h) => l \in h[p]}]
           G == [p \in registered \X registered |-> Explained(F, p)]
<1>1. F \in [All -> SUBSET known] /\ \A p \in All : \A h \in [All -> SUBSET known] : Closed(h) => F[p] \subseteq h[p]
  BY DEF All
<1>2. \A p \in All : \A l \in known : (\A h \in [All -> SUBSET known] : Closed(h) => l \in h[p]) => l \in F[p]
  BY DEF All
<1>3. \A p \in All : G[p] = Explained(F, p)
  BY DEF All
<1> HIDE DEF F
<1>4. \A p \in All : Explained(F, p) \subseteq known
  BY <1>1, ExplainedGrows
<1>5. G \in [All -> SUBSET known]
  BY <1>4 DEF All
<1> HIDE DEF G, Closed
<1>6. ASSUME NEW p \in All
      PROVE  Explained(F, p) \subseteq F[p]
  <2>1. ASSUME NEW h \in [All -> SUBSET known], Closed(h)
        PROVE  Explained(F, p) \subseteq h[p]
    <3>1. \A q \in All : F[q] \subseteq h[q]
      BY <1>1, <2>1
    <3>2. Explained(F, p) \subseteq Explained(h, p)
      BY <1>1, <3>1, ExplainedGrows
    <3>3. Explained(h, p) \subseteq h[p]
      BY <2>1 DEF Closed
    <3> QED
      BY <3>2, <3>3
  <2> QED
    BY <1>2, <1>4, <2>1
<1>7. Closed(G)
  <2>1. ASSUME NEW p \in All
        PROVE  Explained(G, p) \subseteq G[p]
    <3>1. \A q \in All : G[q] \subseteq F[q]
      BY <1>3, <1>6
    <3>2. Explained(G, p) \subseteq Explained(F, p)
      BY <1>1, <1>5, <3>1, ExplainedGrows
    <3> QED
      BY <1>3, <3>2
  <2> QED
    BY <2>1 DEF Closed
<1>8. \A p \in All : F[p] = Explained(F, p)
  <2>1. \A p \in All : F[p] \subseteq G[p]
    BY <1>1, <1>5, <1>7
  <2> QED
    BY <1>3, <1>6, <2>1
<1>9. Is(F)
  <2>1. F = [p \in All |-> F[p]]
    BY <1>1
  <2>2. F = [p \in All |-> Explained(F, p)]
    BY <1>8, <2>1
  <2> QED
    BY <2>2, Zenon DEF All
<1>10. Explanation = CHOOSE g : Is(g)
  BY Zenon DEF Explanation, Explained, ByEdge
<1> HIDE DEF Is
<1>11. Is(Explanation)
  BY <1>9, <1>10, Zenon
<1>12. Explanation = [p \in All |-> Explained(Explanation, p)]
  BY <1>11, Zenon DEF Is, All
<1> QED
  BY <1>12, Zenon

LEMMA EdgesAreNamed ==
    ASSUME Words, NEW time, NEW n, Founded(registered, known, Trail, Here, time, n)
    PROVE  /\ EdgesNamed /\ DOMAIN edge = {x \in registered : parent[x] # x}
           /\ Timed(registered, parent, time, n) /\ \A t \in DOMAIN edge : edge[t].to = parent[t]
<1>1. /\ Timed(registered, parent, time, n) /\ DOMAIN edge = {x \in registered : parent[x] # x}
      /\ \A x \in DOMAIN edge : Sound(registered, known, Trail, parent, time, x, edge[x])
  BY DEF Founded, Here
<1>2. parent \in [registered -> registered]
  BY <1>1 DEF Timed
<1>3. ASSUME NEW t \in DOMAIN edge
      PROVE  /\ t \in registered /\ edge[t].under \in registered /\ edge[t].above \in registered
             /\ edge[t].to = parent[t] /\ edge[t].to \in registered /\ edge[t].literal \in known \cup {NoLiteral}
             /\ edge[t].literal = NoLiteral =>
                  \A i \in DOMAIN ArgsOf[edge[t].above] :
                    ArgsOf[edge[t].above][i] \in registered /\ ArgsOf[edge[t].under][i] \in registered
  <2>1. Sound(registered, known, Trail, parent, time, t, edge[t]) /\ t \in registered
    BY <1>1
  <2>2. parent[t] \in registered
    BY <1>2, <2>1
  <2> QED
    BY <2>1, <2>2 DEF Sound, Rests, Joined
<1> QED
  BY <1>1, <1>3 DEF EdgesNamed

\* What explains that two joined terms are equal: equalities asserted, and every
\* congruence that holds them holds the two terms.
Accounts(s, t) ==
    /\ Explanation[<<s, t>>] \subseteq Equal
    /\ \A C : IsCongruence(registered, C) /\ (\A l \in Explanation[<<s, t>>] : Sides[l] \in C) => <<s, t>> \in C

\* One edge, when the older ones are accounted for.
LEMMA EdgeAccounts ==
    ASSUME Words, NEW time, NEW n, Founded(registered, known, Trail, Here, time, n), NEW x \in DOMAIN edge,
           \A a, b \in registered : Joined(registered, parent, time, time[x], a, b) => Accounts(a, b)
    PROVE  /\ ByEdge(Explanation, x) \subseteq Equal
           /\ \A C : IsCongruence(registered, C) /\ (\A l \in ByEdge(Explanation, x) : Sides[l] \in C)
                => <<x, parent[x]>> \in C
<1> DEFINE e == edge[x]
           Older(a, b) == Joined(registered, parent, time, time[x], a, b)
           Of == Explanation[<<x, e.under>>] \cup Explanation[<<e.above, e.to>>]
           Each == UNION {Explanation[<<ArgsOf[e.above][i], ArgsOf[e.under][i]>>] : i \in DOMAIN ArgsOf[e.above]}
<1>1. Sound(registered, known, Trail, parent, time, x, e)
  BY DEF Founded, Here
<1>2. Vocabulary(registered, known)
  BY DEF Words
<1>3. EdgesNamed
  BY EdgesAreNamed
<1>4. /\ x \in registered /\ e.under \in registered /\ e.above \in registered
      /\ e.to \in registered /\ e.literal \in known \cup {NoLiteral}
      /\ e.literal = NoLiteral =>
           \A i \in DOMAIN ArgsOf[e.above] :
             ArgsOf[e.above][i] \in registered /\ ArgsOf[e.under][i] \in registered
  BY <1>3 DEF EdgesNamed
<1>5. ByEdge(Explanation, x) = Of \cup (IF e.literal # NoLiteral THEN {e.literal} ELSE Each)
  BY Zenon DEF ByEdge
<1>6. e.to = parent[x] /\ Older(x, e.under) /\ Older(e.above, e.to)
  BY <1>1 DEF Sound
<1>7. Rests(registered, Trail, parent, time, time[x], e.above, e.under, e.literal)
  BY <1>1 DEF Sound
<1> HIDE DEF e, Older, Of, Each
<1>8. \A a, b \in registered : Older(a, b) => Accounts(a, b)
  BY DEF Older
<1>9. Accounts(x, e.under) /\ Accounts(e.above, e.to)
  BY <1>4, <1>6, <1>8
<1>10. ASSUME e.literal = NoLiteral, NEW i \in DOMAIN ArgsOf[e.above]
       PROVE  Accounts(ArgsOf[e.above][i], ArgsOf[e.under][i])
  <2>1. Older(ArgsOf[e.above][i], ArgsOf[e.under][i])
    BY <1>7, <1>10 DEF Rests, Older
  <2> QED
    BY <1>4, <1>8, <1>10, <2>1
<1>11. Of \subseteq Equal
  BY <1>9 DEF Of, Accounts
<1>12. ASSUME e.literal = NoLiteral
       PROVE  Each \subseteq Equal
  <2>1. \A i \in DOMAIN ArgsOf[e.above] : Explanation[<<ArgsOf[e.above][i], ArgsOf[e.under][i]>>] \subseteq Equal
    BY <1>10, <1>12 DEF Accounts
  <2> HIDE DEF Equal
  <2> QED
    BY <2>1 DEF Each
<1>13. e.literal # NoLiteral => e.literal \in Equal
  <2>1. e.literal # NoLiteral => e.literal \in Trail /\ e.literal \in known
    BY <1>4, <1>7 DEF Rests
  <2> QED
    BY <2>1 DEF Equal
<1>14. ByEdge(Explanation, x) \subseteq Equal
  BY <1>5, <1>11, <1>12, <1>13
<1>15. ASSUME NEW C, IsCongruence(registered, C), \A l \in ByEdge(Explanation, x) : Sides[l] \in C
       PROVE  <<x, parent[x]>> \in C
  <2>1. \A l \in Of : Sides[l] \in C
    BY <1>5, <1>15
  <2>2. <<x, e.under>> \in C /\ <<e.above, e.to>> \in C
    BY <1>9, <1>15, <2>1 DEF Of, Accounts
  <2>3. <<e.above, e.under>> \in C \/ <<e.under, e.above>> \in C
    <3>1. CASE e.literal # NoLiteral
      <4>1. Sides[e.literal] \in C
        BY <1>5, <1>15, <3>1
      <4>2. Sides[e.literal] = <<e.above, e.under>> \/ Sides[e.literal] = <<e.under, e.above>>
        BY <1>7, <3>1 DEF Rests
      <4> QED
        BY <4>1, <4>2
    <3>2. CASE e.literal = NoLiteral
      <4>1. \A l \in Each : Sides[l] \in C
        BY <1>5, <1>15, <3>2
      <4>2. \A i \in DOMAIN ArgsOf[e.above] : <<ArgsOf[e.above][i], ArgsOf[e.under][i]>> \in C
        <5>1. ASSUME NEW i \in DOMAIN ArgsOf[e.above]
              PROVE  <<ArgsOf[e.above][i], ArgsOf[e.under][i]>> \in C
          <6>1. Accounts(ArgsOf[e.above][i], ArgsOf[e.under][i])
            BY <1>10, <3>2
          <6>2. \A l \in Explanation[<<ArgsOf[e.above][i], ArgsOf[e.under][i]>>] : Sides[l] \in C
            BY <4>1 DEF Each
          <6> QED
            BY <1>15, <6>1, <6>2 DEF Accounts
        <5> QED
          BY <5>1
      <4>3. FunctionOf[e.above] = FunctionOf[e.under] /\ Len(ArgsOf[e.above]) = Len(ArgsOf[e.under])
        BY <1>7, <3>2 DEF Rests
      <4> QED
        BY <1>4, <1>15, <4>2, <4>3 DEF IsCongruence, Alike
    <3> QED
      BY <3>1, <3>2
  <2>4. <<e.under, e.above>> \in C
    BY <1>4, <1>15, <2>3 DEF IsCongruence
  <2>5. <<x, e.above>> \in C
    BY <1>4, <1>15, <2>2, <2>4 DEF IsCongruence
  <2>6. <<x, e.to>> \in C
    BY <1>4, <1>15, <2>2, <2>5 DEF IsCongruence
  <2> QED
    BY <1>6, <2>6
<1> QED
  BY <1>14, <1>15

LEMMA JoinedAccounts ==
    ASSUME Words, NEW time, NEW n, Founded(registered, known, Trail, Here, time, n),
           NEW s0 \in registered, NEW t0 \in registered,
           RootOf(registered, parent, s0) = RootOf(registered, parent, t0)
    PROVE  Accounts(s0, t0)
<1>1. /\ EdgesNamed /\ DOMAIN edge = {x \in registered : parent[x] # x}
      /\ Timed(registered, parent, time, n) /\ \A t \in DOMAIN edge : edge[t].to = parent[t]
  BY EdgesAreNamed
<1>2. \A x \in registered : Above[x] = Up(registered, parent, x)
  BY <1>1, AboveIsUp
<1>3. \A p \in All : Explanation[p] = Explained(Explanation, p)
  BY <1>1, ExplanationUnfolds
<1>4. n \in Nat /\ time \in [registered -> Nat]
  BY <1>1 DEF Timed
<1> DEFINE Older(k, a, b) == Joined(registered, parent, time, k, a, b)
           Off == {k \in Nat : \E a, b \in registered : Older(k, a, b) /\ ~Accounts(a, b)}
<1>5. Off = {}
  <2> SUFFICES ASSUME Off # {} PROVE FALSE
    OBVIOUS
  <2>1. PICK k \in Off : \A m \in Off : k <= m
    <3>1. Off \subseteq Nat
      OBVIOUS
    <3> HIDE DEF Off
    <3> QED
      BY <3>1, LeastOf
  <2>2. PICK s \in registered, t \in registered : Older(k, s, t) /\ ~Accounts(s, t)
    OBVIOUS
  <2>3. k \in Nat
    OBVIOUS
  <2>4. \A m \in Nat : m < k => \A a, b \in registered : Older(m, a, b) => Accounts(a, b)
    <3>1. \A m \in Nat : m < k => m \notin Off
      <4> HIDE DEF Off
      <4> QED
        BY <2>1, <2>3
    <3> HIDE DEF Older
    <3> QED
      BY <3>1
  <2> HIDE DEF Off
  <2>5. /\ RootOf(registered, parent, s) = RootOf(registered, parent, t)
        /\ \A x \in Path(registered, parent, s, t) : time[x] < k
    BY <2>2 DEF Joined
  <2>6. Between(s, t) = Path(registered, parent, s, t)
    BY <1>2 DEF Between, Path
  <2>7. \A x \in Path(registered, parent, s, t) : x \in DOMAIN edge /\ x \in registered
    BY <1>1, <2>5, PathFacts
  <2>8. <<s, t>> \in All /\ <<s, t>>[1] = s /\ <<s, t>>[2] = t
    BY DEF All
  <2>9. Explanation[<<s, t>>] = UNION {ByEdge(Explanation, x) : x \in Path(registered, parent, s, t)}
    <3>1. Between(s, t) \cap DOMAIN edge = Path(registered, parent, s, t)
      BY <2>6, <2>7
    <3>2. Explained(Explanation, <<s, t>>)
            = UNION {ByEdge(Explanation, x) : x \in Between(s, t) \cap DOMAIN edge}
      BY <2>8 DEF Explained
    <3> QED
      BY <1>3, <2>8, <3>1, <3>2
  <2>10. ASSUME NEW x \in Path(registered, parent, s, t)
         PROVE  /\ ByEdge(Explanation, x) \subseteq Equal
                /\ \A C : IsCongruence(registered, C) /\ (\A l \in ByEdge(Explanation, x) : Sides[l] \in C)
                     => <<x, parent[x]>> \in C
    <3>1. time[x] \in Nat /\ time[x] < k /\ x \in DOMAIN edge
      BY <1>4, <2>5, <2>7
    <3>2. \A a, b \in registered : Joined(registered, parent, time, time[x], a, b) => Accounts(a, b)
      BY <2>4, <3>1
    <3> HIDE DEF Older
    <3> QED
      BY <3>1, <3>2, EdgeAccounts
  <2>11. Explanation[<<s, t>>] \subseteq Equal
    BY <2>9, <2>10
  <2>12. ASSUME NEW C, IsCongruence(registered, C), \A l \in Explanation[<<s, t>>] : Sides[l] \in C
         PROVE  <<s, t>> \in C
    <3>1. \A x \in Path(registered, parent, s, t) : <<x, parent[x]>> \in C
      BY <2>9, <2>10, <2>12
    <3> HIDE DEF Older
    <3> QED
      BY <1>1, <2>5, <2>12, <3>1, Chained
  <2> QED
    BY <2>2, <2>11, <2>12 DEF Accounts
<1>6. Older(n, s0, t0)
  BY <1>1, PathFacts DEF Joined
<1> HIDE DEF Older
<1> QED
  BY <1>4, <1>5, <1>6

LEMMA Entailed == Inv => ExplanationsEntail
<1> SUFFICES ASSUME Inv PROVE ExplanationsEntail
  OBVIOUS
<1>1. Words /\ Vocabulary(registered, known) /\ IsFiniteSet(registered) /\ Literals(registered, known, Trail, Here)
  BY DEF Inv, Words, Now, Good
<1>2. \A x \in registered : Find[x] = RootOf(registered, parent, x)
  BY Reads
<1>3. PICK time, n : Founded(registered, known, Trail, Here, time, n)
  BY Reads
<1>4. \A s, t \in registered : Same(s, t) => Accounts(s, t)
  BY <1>1, <1>2, <1>3, JoinedAccounts DEF Same
<1>5. \A e \in known : /\ e \in Nat /\ e # 0 /\ -(-e) = e
                       /\ Sides[e] \in registered \X registered /\ Sides[e] = <<Sides[e][1], Sides[e][2]>>
  BY <1>1, EqualitiesArePositive
<1>6. ASSUME NEW s \in registered, NEW t \in registered, Same(s, t)
      PROVE  Explanation[<<s, t>>] \subseteq Equal /\ <<s, t>> \in Closure(Explanation[<<s, t>>])
  <2> DEFINE E == Explanation[<<s, t>>]
  <2>1. Accounts(s, t)
    BY <1>4, <1>6
  <2>2. E \subseteq Equal
    BY <2>1 DEF Accounts
  <2>3. \A l \in E : Sides[l] \in All
    BY <1>5, <2>2 DEF Equal, All
  <2>4. IsCongruence(registered, Closure(E)) /\ \A l \in E : Sides[l] \in Closure(E)
    <3> HIDE DEF E
    <3> QED
      BY <1>1, <2>3, ClosureFacts
  <2> QED
    BY <2>1, <2>2, <2>4 DEF Accounts
<1>7. \A e \in known : Same(Sides[e][1], Sides[e][2]) => Reasons(e) \subseteq Equal
  <2>1. ASSUME NEW e \in known, Same(Sides[e][1], Sides[e][2])
        PROVE  Reasons(e) \subseteq Equal
    <3>1. Sides[e] = <<Sides[e][1], Sides[e][2]>> /\ Sides[e][1] \in registered /\ Sides[e][2] \in registered
      BY <1>5
    <3>2. Explanation[<<Sides[e][1], Sides[e][2]>>] \subseteq Equal
      BY <1>6, <2>1, <3>1
    <3> QED
      BY <3>1, <3>2 DEF Reasons
  <2> QED
    BY <2>1
<1>8. \A l \in Equal : l \in Trail /\ -(-l) = l
  BY <1>5 DEF Equal
<1>9. ASSUME NEW i \in Violated, NEW l \in ConflictClause(i)
      PROVE  -l \in Trail
  <2>1. i \in DOMAIN diseqs /\ Same(Sides[diseqs[i]][1], Sides[diseqs[i]][2])
    BY DEF Violated
  <2>2. diseqs[i] \in {e \in known : -e \in Trail}
    <3>1. {diseqs[j] : j \in DOMAIN diseqs} = {e \in known : -e \in Trail}
      BY <1>1 DEF Literals, Here
    <3> QED
      BY <2>1, <3>1
  <2>3. Reasons(diseqs[i]) \subseteq Equal
    BY <1>7, <2>1, <2>2
  <2> QED
    BY <1>8, <2>2, <2>3 DEF ConflictClause
<1>10. ASSUME NEW e \in Holding \ Equal, NEW l \in PropagationClause(e) \ {e}
       PROVE  -l \in Trail
  <2>1. e \in known /\ Same(Sides[e][1], Sides[e][2])
    BY DEF Holding
  <2>2. Reasons(e) \subseteq Equal
    BY <1>7, <2>1
  <2> QED
    BY <1>8, <2>2 DEF PropagationClause
<1> QED
  BY <1>6, <1>9, <1>10 DEF ExplanationsEntail

\* Whatever is explained follows from what was asserted, also after a roll back: the
\* clauses that euf.py gives to the SAT solver are consequences of the theory.
THEOREM ExplanationsAlways == LateSpec => []ExplanationsEntail
<1>1. Inv => ExplanationsEntail
  BY Entailed
<1> QED
  BY <1>1, Invariance, PTL

(***************************************************************************)
(* Formulas registered before they are checked: no congruence is missed.    *)
(***************************************************************************)
Covers(reg, L) ==
    \A t \in reg : \A i \in DOMAIN ArgsOf[t] : t \in Elements(L.use[RootOf(reg, L.parent, ArgsOf[t][i])])

\* Congruent applications are in one class, or are one of the pairs W.
Compares(reg, L, W) ==
    \A s, t \in reg : CongruentIn(reg, L.parent, s, t) =>
      RootOf(reg, L.parent, s) = RootOf(reg, L.parent, t) \/ <<s, t>> \in W \/ <<t, s>> \in W

\* With the loops Q to come, no congruence is missed.
Kept(reg, L, Q) == Covers(reg, L) /\ Compares(reg, L, Waiting(reg, L.use, Q))

\* The pairs W after a merge: those of the two use lists, and the old ones but those
\* of the two classes.
Queues(L, top, below, W) ==
    \A a \in Elements(L.use[below]), b \in Elements(L.use[top] \o L.use[below]) : <<a, b>> \in W
Carries(reg, par, top, below, W) ==
    \A s, t \in reg : CongruentIn(reg, par, s, t) =>
      \/ RootOf(reg, par, s) = RootOf(reg, par, t)
      \/ RootOf(reg, par, s) = top /\ RootOf(reg, par, t) = below
      \/ RootOf(reg, par, s) = below /\ RootOf(reg, par, t) = top
      \/ <<s, t>> \in W \/ <<t, s>> \in W

LEMMA PutKept ==
    ASSUME NEW reg, NEW kn, Vocabulary(reg, kn), NEW L, NEW time, NEW n, Timed(reg, L.parent, time, n),
           Members(reg, L), Covers(reg, L),
           NEW top \in reg, NEW below \in reg, L.parent[top] = top, L.parent[below] = below, top # below,
           NEW e, NEW W, Queues(L, top, below, W), Carries(reg, L.parent, top, below, W)
    PROVE  Covers(reg, Put(L, top, below, e)) /\ Compares(reg, Put(L, top, below, e), W)
<1> DEFINE L1 == Put(L, top, below, e)
           par == L.parent
           par1 == Linked(par, below, top)
           use1 == L1.use
<1>1. /\ L1.parent = par1 /\ use1 = [L.use EXCEPT ![top] = @ \o L.use[below]]
  BY DEF Put
<1>2. \A x \in reg : RootOf(reg, par1, x) = IF RootOf(reg, par, x) = below THEN top ELSE RootOf(reg, par, x)
  BY LinkRoot
<1>3. L.use \in [reg -> Seq(reg)] /\ L.use[top] \in Seq(reg) /\ L.use[below] \in Seq(reg)
  BY DEF Members
<1>4. use1[top] = L.use[top] \o L.use[below] /\ \A x \in reg : x # top => use1[x] = L.use[x]
  BY <1>1, <1>3
<1>5. Elements(use1[top]) = Elements(L.use[top]) \cup Elements(L.use[below])
  BY <1>3, <1>4, ConcatElements
<1>6. \A x \in reg : RootOf(reg, par, x) \in reg
  BY RootFacts
<1>7. \A t \in reg : \A i \in DOMAIN ArgsOf[t] :
        ArgsOf[t][i] \in reg /\ t \in Elements(L.use[RootOf(reg, par, ArgsOf[t][i])])
  BY DEF Covers, Vocabulary, Args
<1>8. \A t \in reg : DOMAIN ArgsOf[t] = 1 .. Len(ArgsOf[t])
  BY ArgsAreSeqs DEF Vocabulary
<1> HIDE DEF L1, par, par1, use1
<1>9. Covers(reg, L1)
  <2>1. ASSUME NEW t \in reg, NEW i \in DOMAIN ArgsOf[t]
        PROVE  t \in Elements(use1[RootOf(reg, par1, ArgsOf[t][i])])
    <3> DEFINE a == ArgsOf[t][i]
               r == RootOf(reg, par, a)
    <3>1. a \in reg /\ t \in Elements(L.use[r]) /\ r \in reg
      BY <1>6, <1>7
    <3>2. RootOf(reg, par1, a) = IF r = below THEN top ELSE r
      BY <1>2, <3>1
    <3> HIDE DEF r, a
    <3>3. t \in Elements(use1[RootOf(reg, par1, a)])
      <4>1. CASE r = below
        BY <1>5, <3>1, <3>2, <4>1
      <4>2. CASE r = top
        BY <1>5, <3>1, <3>2, <4>2
      <4>3. CASE r # below /\ r # top
        BY <1>4, <3>1, <3>2, <4>3
      <4> QED
        BY <4>1, <4>2, <4>3
    <3> QED
      BY <3>3 DEF a
  <2> QED
    BY <1>1, <2>1 DEF Covers, use1
<1>10. Compares(reg, L1, W)
  <2>1. ASSUME NEW s \in reg, NEW t \in reg, CongruentIn(reg, par1, s, t)
        PROVE  \/ RootOf(reg, par1, s) = RootOf(reg, par1, t)
               \/ <<s, t>> \in W \/ <<t, s>> \in W
    <3>1. CASE CongruentIn(reg, par, s, t)
      BY <1>2, <3>1 DEF Carries, par
    <3>2. CASE ~CongruentIn(reg, par, s, t)
      <4>1. FunctionOf[s] = FunctionOf[t] /\ Len(ArgsOf[s]) = Len(ArgsOf[t])
            /\ \A i \in DOMAIN ArgsOf[s] : RootOf(reg, par1, ArgsOf[s][i]) = RootOf(reg, par1, ArgsOf[t][i])
        BY <2>1 DEF CongruentIn
      <4>2. PICK i \in DOMAIN ArgsOf[s] : RootOf(reg, par, ArgsOf[s][i]) # RootOf(reg, par, ArgsOf[t][i])
        BY <3>2, <4>1 DEF CongruentIn
      <4>3. i \in DOMAIN ArgsOf[t]
        BY <1>8, <4>1
      <4> DEFINE a == RootOf(reg, par, ArgsOf[s][i])
                 b == RootOf(reg, par, ArgsOf[t][i])
      <4>4. s \in Elements(L.use[a]) /\ t \in Elements(L.use[b])
        BY <1>7, <4>3
      <4>5. (IF a = below THEN top ELSE a) = IF b = below THEN top ELSE b
        BY <1>2, <1>7, <4>1, <4>3
      <4>6. a # b
        BY <4>2
      <4> HIDE DEF a, b
      <4>7. (a = below /\ b = top) \/ (a = top /\ b = below)
        BY <4>5, <4>6
      <4>8. \A y \in Elements(L.use[top]) : y \in Elements(L.use[top] \o L.use[below])
        BY <1>4, <1>5
      <4>9. CASE a = below /\ b = top
        BY <4>4, <4>8, <4>9 DEF Queues
      <4>10. CASE a = top /\ b = below
        BY <4>4, <4>8, <4>10 DEF Queues
      <4> QED
        BY <4>7, <4>9, <4>10
    <3> QED
      BY <3>1, <3>2
  <2> QED
    BY <1>1, <2>1 DEF Compares
<1> QED
  BY <1>9, <1>10 DEF L1

\* The equalities that hold, and those that a merge adds.
HoldingBy(reg, kn, par) == {e \in kn : RootOf(reg, par, Sides[e][1]) = RootOf(reg, par, Sides[e][2])}

MergedBy(kn, classes, top, below) ==
    {e \in kn : \/ Sides[e] \in classes[top] \X classes[below]
                \/ Sides[e] \in classes[below] \X classes[top]}

TwoRoots(reg, L, top, below) ==
    top \in reg /\ below \in reg /\ L.parent[top] = top /\ L.parent[below] = below /\ top # below

Adds(reg, kn, L, top, below) ==
    LET now == HoldingBy(reg, kn, L.parent)
        then == HoldingBy(reg, kn, Linked(L.parent, below, top))
    IN  now \subseteq then /\ MergedBy(kn, L.class, top, below) = then \ now

LEMMA PutHolds ==
    ASSUME NEW reg, NEW kn, Vocabulary(reg, kn), NEW L, NEW time, NEW n, Timed(reg, L.parent, time, n),
           Members(reg, L), NEW top, NEW below, TwoRoots(reg, L, top, below)
    PROVE  Adds(reg, kn, L, top, below)
<1> DEFINE par == L.parent
           par1 == Linked(par, below, top)
           root(x) == RootOf(reg, par, x)
           now == HoldingBy(reg, kn, par)
           then == HoldingBy(reg, kn, par1)
           merged == {e \in kn : \/ Sides[e] \in L.class[top] \X L.class[below]
                                 \/ Sides[e] \in L.class[below] \X L.class[top]}
<1> top \in reg /\ below \in reg /\ L.parent[top] = top /\ L.parent[below] = below /\ top # below
  BY DEF TwoRoots
<1>1. \A x \in reg : RootOf(reg, par1, x) = IF root(x) = below THEN top ELSE root(x)
  BY LinkRoot
<1>2. /\ L.class[top] = {s \in reg : root(s) = top}
      /\ L.class[below] = {s \in reg : root(s) = below}
  BY DEF Members
<1>3. \A e \in kn : Sides[e][1] \in reg /\ Sides[e][2] \in reg /\ Sides[e] = <<Sides[e][1], Sides[e][2]>>
  <2>1. \A e \in kn : Sides[e] \in reg \X reg /\ Sides[e] = <<Sides[e][1], Sides[e][2]>>
    BY EqualitiesArePositive
  <2> QED
    BY <2>1
<1>0. now = HoldingBy(reg, kn, par) /\ then = HoldingBy(reg, kn, par1)
  OBVIOUS
<1> HIDE DEF par, par1, root, now, then
<1>4. now \subseteq then
  BY <1>0, <1>1, <1>3 DEF HoldingBy, root
<1>5. ASSUME NEW e \in kn
      PROVE  e \in merged <=> e \in then \ now
  <2> DEFINE a == Sides[e][1]
             b == Sides[e][2]
  <2>1. a \in reg /\ b \in reg /\ Sides[e] = <<a, b>>
    BY <1>3
  <2> HIDE DEF a, b
  <2>2. e \in merged <=> (root(a) = top /\ root(b) = below) \/ (root(a) = below /\ root(b) = top)
    BY <1>2, <2>1
  <2>3. (e \in now <=> root(a) = root(b)) /\ (e \in then <=> RootOf(reg, par1, a) = RootOf(reg, par1, b))
    BY <1>0 DEF HoldingBy, root, a, b
  <2>4. /\ RootOf(reg, par1, a) = IF root(a) = below THEN top ELSE root(a)
        /\ RootOf(reg, par1, b) = IF root(b) = below THEN top ELSE root(b)
    BY <1>1, <2>1
  <2> HIDE DEF merged
  <2> QED
    BY <2>2, <2>3, <2>4
<1>6. merged = then \ now
  <2>1. merged \subseteq kn /\ then \subseteq kn
    BY <1>0 DEF HoldingBy
  <2> HIDE DEF merged
  <2> QED
    BY <1>5, <2>1
<1>7. MergedBy(kn, L.class, top, below) = merged
  BY DEF MergedBy
<1> HIDE DEF merged
<1> QED
  BY <1>4, <1>6, <1>7 DEF Adds, now, then, par, par1

\* Early: nothing is asserted before everything is registered, no congruence of the
\* classes is missed but by comparisons still to come, and what an assertion reports
\* are the equalities that hold since.
Whole == ~Complete => limits = <<>> /\ Trail = {}
KeptNow == Kept(registered, Here, todo)
BackKept == \A j \in 1 .. Len(limits) : Kept(registered, saved[j], <<>>)
\* An equality holds with the one whose sides are exchanged.
Paired(S, kn) == \A d \in S, e \in kn : SamePair(d, e) => e \in S
ToReport ==
    todo # <<>> /\ Trail # {} =>
      /\ Paired(before, known)
      /\ before \subseteq HoldingBy(registered, known, parent)
      /\ props = (HoldingBy(registered, known, parent) \ before) \cap reporting

NoneMissed == Whole /\ KeptNow /\ BackKept /\ ToReport

\* What a step that asserts, or that completes an assertion, reports.
Reports ==
    Cardinality(Trail') > Cardinality(Trail) \/ (todo # <<>> /\ Trail # {})
      => /\ props' = (HoldingBy(registered', known', parent') \ Held) \cap reporting'
         /\ Paired(Held, known')

LEMMA HoldingPaired ==
    Paired(HoldingBy(registered, known, parent), known)
BY DEF Paired, HoldingBy, SamePair

LEMMA HoldingReads ==
    ASSUME Inv
    PROVE  Holding = HoldingBy(registered, known, parent)
<1>1. \A x \in registered : Find[x] = RootOf(registered, parent, x)
  BY Reads
<1>2. \A e \in known : Sides[e][1] \in registered /\ Sides[e][2] \in registered
  BY DEF Inv, Words, Vocabulary
<1> QED
  BY <1>1, <1>2 DEF Holding, HoldingBy, Same

LEMMA CongruentBoth ==
    ASSUME Inv, NEW s \in registered, NEW t \in registered
    PROVE  /\ Congruent(s, t) <=> CongruentIn(registered, parent, s, t)
           /\ Congruent(t, s) <=> CongruentIn(registered, parent, s, t)
<1>1. \A x \in registered : Find[x] = RootOf(registered, parent, x)
  BY Reads
<1>2. \A x \in registered : DOMAIN ArgsOf[x] = 1 .. Len(ArgsOf[x]) /\ \A i \in DOMAIN ArgsOf[x] : ArgsOf[x][i] \in registered
  <2>1. Vocabulary(registered, known)
    BY DEF Inv, Words
  <2>2. \A x \in registered : x \in Terms /\ \A i \in DOMAIN ArgsOf[x] : ArgsOf[x][i] \in registered
    BY <2>1 DEF Vocabulary, Args
  <2> QED
    BY <2>2, ArgsAreSeqs
<1>3. Len(ArgsOf[s]) = Len(ArgsOf[t]) => DOMAIN ArgsOf[s] = DOMAIN ArgsOf[t]
  BY <1>2
<1> QED
  BY <1>1, <1>2, <1>3 DEF Congruent, CongruentIn, Same

\* Before anything is asserted every term is alone.
LEMMA NothingAsserted ==
    ASSUME Inv, Trail = {}
    PROVE  \A x \in registered : RootOf(registered, parent, x) = x /\ parent[x] = x
<1> DEFINE C == {<<t, t>> : t \in registered}
<1>1. PICK time, n : Founded(registered, known, Trail, Here, time, n)
  BY Reads
<1>2. Timed(registered, parent, time, n)
  BY <1>1 DEF Founded, Here
<1>3. Words /\ Vocabulary(registered, known)
  BY DEF Inv, Words
<1>4. \A s, t : <<s, t>> \in C <=> s \in registered /\ s = t
  OBVIOUS
<1>5. C \subseteq registered \X registered
  OBVIOUS
<1> HIDE DEF C
<1>6. ASSUME NEW s \in registered, NEW t \in registered, Alike(C, s, t)
      PROVE  s = t
  <2>1. ArgsOf[s] \in Seq(Terms) /\ ArgsOf[t] \in Seq(Terms) /\ s \in Terms /\ t \in Terms
    BY <1>3, ArgsAreSeqs DEF Vocabulary
  <2>2. /\ FunctionOf[s] = FunctionOf[t] /\ Len(ArgsOf[s]) = Len(ArgsOf[t])
        /\ \A i \in DOMAIN ArgsOf[s] : ArgsOf[s][i] = ArgsOf[t][i]
    BY <1>4, <1>6 DEF Alike
  <2>3. ArgsOf[s] = ArgsOf[t]
    <3>1. DOMAIN ArgsOf[s] = 1 .. Len(ArgsOf[s])
      BY <2>1, LenProperties
    <3> QED
      BY <2>1, <2>2, <3>1, SeqEqual
  <2> QED
    BY <2>1, <2>2, <2>3, EUFAssumption
<1>7. IsCongruence(registered, C)
  BY <1>4, <1>5, <1>6 DEF IsCongruence
<1>8. ASSUME NEW x \in registered
      PROVE  RootOf(registered, parent, x) = x /\ parent[x] = x
  <2> DEFINE r == RootOf(registered, parent, x)
  <2>1. r \in registered /\ parent[r] = r
    BY <1>2, RootFacts
  <2>2. RootOf(registered, parent, r) = r
    BY <1>2, <2>1, RootAbove
  <2>3. Accounts(x, r)
    BY <1>1, <1>3, <2>1, <2>2, JoinedAccounts
  <2>4. Explanation[<<x, r>>] = {}
    BY <2>3 DEF Accounts, Equal
  <2>5. <<x, r>> \in C
    BY <1>7, <2>3, <2>4 DEF Accounts
  <2>6. x = r
    BY <1>4, <2>5
  <2> QED
    BY <2>1, <2>6
<1> QED
  BY <1>8

LEMMA TrailFinite ==
    ASSUME Inv
    PROVE  IsFiniteSet(Trail) /\ Cardinality(Trail) \in Nat
<1>1. asserted \in Seq(SUBSET Int) /\ \A k \in 1 .. Len(asserted) : IsFiniteSet(asserted[k])
  BY DEF Inv, Stack
<1> DEFINE levels == {asserted[i] : i \in 1 .. Len(asserted)}
<1>2. Len(asserted) \in Nat /\ DOMAIN asserted = 1 .. Len(asserted)
  BY <1>1, LenProperties
<1>3. IsFiniteSet(levels)
  <2>1. asserted \in Surjection(1 .. Len(asserted), levels)
    BY <1>1, <1>2 DEF Surjection
  <2>2. IsFiniteSet(1 .. Len(asserted))
    BY <1>2, FS_Interval
  <2> HIDE DEF levels
  <2> QED
    BY <2>1, <2>2, FS_Surjection
<1>4. \A T \in levels : IsFiniteSet(T)
  BY <1>1
<1>5. Trail = UNION levels
  BY <1>2 DEF Trail
<1> HIDE DEF levels
<1>6. IsFiniteSet(Trail)
  BY <1>3, <1>4, <1>5, FS_UNION
<1> QED
  BY <1>6, FS_CardinalityType

\* The merge of the class of t into that of s misses no congruence that its callers do not.
LEMMA JoinKept ==
    ASSUME Inv, NEW s \in registered, NEW t \in registered, Find[s] # Find[t], NEW literal, NEW reported,
           NEW rest, Looping(registered, rest), Join(s, t, literal, reported, rest),
           UNCHANGED <<registered, known, reporting, diseqs>>,
           Covers(registered, Here), Carries(registered, parent, Find[s], Find[t], Waiting(registered, use, rest))
    PROVE  /\ Kept(registered', Here', todo')
           /\ HoldingBy(registered, known, parent) \subseteq HoldingBy(registered', known', parent')
           /\ props' = reported \cup ((HoldingBy(registered', known', parent') \ HoldingBy(registered, known, parent)) \cap reporting)
<1> DEFINE top == Find[s]
           below == Find[t]
           e == [to |-> top, literal |-> literal, above |-> s, under |-> t]
<1>1. /\ top \in registered /\ below \in registered /\ parent[top] = top /\ parent[below] = below
      /\ top # below /\ use \in [registered -> Seq(registered)]
  BY Reads
<1>2. /\ parent' = [parent EXCEPT ![below] = top]
      /\ edge' = With(edge, below, e) /\ class' = [class EXCEPT ![top] = @ \cup class[below]]
      /\ use' = [use EXCEPT ![top] = @ \o use[below]]
      /\ todo' = <<MergeLoop(use[below], top)>> \o rest
      /\ props' = reported \cup (MergedBy(known, class, top, below) \cap reporting)
  <2>1. /\ parent' = [parent EXCEPT ![below] = top]
        /\ edge' = With(edge, below, e) /\ class' = [class EXCEPT ![top] = @ \cup class[below]]
        /\ use' = [use EXCEPT ![top] = @ \o use[below]]
        /\ todo' = <<MergeLoop(use[below], top)>> \o rest
    BY DEF Join, UsesOf, Edge
  <2>2. props' = Reported(top, below, reported) /\ reporting \subseteq known
    BY DEF Join, Inv, Words, Heard
  <2> HIDE DEF top, below
  <2> QED
    BY <2>1, <2>2 DEF Reported, MergedBy
<1>3. PICK time, n : Founded(registered, known, Trail, Here, time, n)
  BY Reads
<1> HIDE DEF top, below, e
<1>4. Here' = Put(Here, top, below, e) /\ parent' = Linked(parent, below, top)
  BY <1>2 DEF Here, Put, Linked
<1>5. Here.parent = parent /\ Here.class = class /\ Here.use = use
  BY DEF Here
<1>6. Vocabulary(registered, known) /\ Members(registered, Here) /\ Timed(registered, parent, time, n)
  BY <1>3, <1>5 DEF Inv, Words, Now, Good, Founded
<1> DEFINE l == MergeLoop(use[below], top)
           W == Waiting(registered, use', todo')
<1>7. /\ use'[top] = use[top] \o use[below]
      /\ use[below] \in Seq(registered) /\ use[top] \o use[below] \in Seq(registered)
  <2>1. use[below] \in Seq(registered) /\ use[top] \in Seq(registered)
    BY <1>1
  <2> QED
    BY <1>1, <1>2, <2>1, ConcatProperties
<1>8. LoopOk(registered, l)
  <2>1. 1 \in Nat
    OBVIOUS
  <2> QED
    BY <1>1, <1>7, <2>1 DEF LoopOk, MergeLoop
<1>9. \A p : p \in W <=> p \in registered \X registered
                          /\ (Awaits(use', l, p) \/ p \in Waiting(registered, use', rest))
  <2>1. todo' = <<l>> \o rest
    BY <1>2
  <2> HIDE DEF l
  <2> QED
    BY <1>8, <2>1, WaitingFirst
<1>10. Queues(Here, top, below, W)
  <2>1. ASSUME NEW a \in Elements(use[below]), NEW b \in Elements(use'[top])
        PROVE  <<a, b>> \in W
    <3>1. PICK i \in 1 .. Len(use[below]), j \in 1 .. Len(use'[top]) : a = use[below][i] /\ b = use'[top][j]
      BY DEF Elements
    <3>2. a \in registered /\ b \in registered
      BY <1>7, <3>1, LenProperties
    <3>3. j >= 1
      BY <1>7, <3>1
    <3>4. Awaits(use', l, <<a, b>>)
      BY <3>1, <3>3 DEF Awaits, MergeLoop
    <3> HIDE DEF l, W
    <3> QED
      BY <1>9, <3>2, <3>4
  <2> HIDE DEF W
  <2> QED
    BY <1>5, <1>7, <2>1 DEF Queues
<1>11. Waiting(registered, use, rest) \subseteq W
  <2>1. Waiting(registered, use, rest) \subseteq Waiting(registered, use', rest)
    <3>1. use'[top] = use[top] \o use[below] /\ \A x \in registered : x # top => use'[x] = use[x]
      BY <1>1, <1>2
    <3> QED
      BY <1>1, <3>1, WaitingGrows
  <2>2. Waiting(registered, use', rest) \subseteq registered \X registered
    BY DEF Waiting
  <2> HIDE DEF W, l
  <2> QED
    BY <1>9, <2>1, <2>2
<1>12. Carries(registered, Here.parent, top, below, W)
  <2>1. Carries(registered, parent, top, below, Waiting(registered, use, rest))
    BY DEF top, below
  <2> HIDE DEF W
  <2> QED
    BY <1>5, <1>11, <2>1 DEF Carries
<1>13. Kept(registered, Put(Here, top, below, e), todo')
  <2>1. Covers(registered, Put(Here, top, below, e)) /\ Compares(registered, Put(Here, top, below, e), W)
    <3> HIDE DEF W
    <3> QED
      BY <1>1, <1>5, <1>6, <1>10, <1>12, PutKept
  <2>2. Put(Here, top, below, e).use = use'
    BY <1>4 DEF Here
  <2> QED
    BY <2>1, <2>2 DEF Kept
<1>14. /\ HoldingBy(registered, known, parent) \subseteq HoldingBy(registered, known, Linked(parent, below, top))
       /\ MergedBy(known, class, top, below)
            = HoldingBy(registered, known, Linked(parent, below, top)) \ HoldingBy(registered, known, parent)
  <2>1. TwoRoots(registered, Here, top, below)
    BY <1>1, <1>5 DEF TwoRoots
  <2>2. Timed(registered, Here.parent, time, n)
    BY <1>5, <1>6
  <2>3. Adds(registered, known, Here, top, below)
    BY ONLY <1>6, <2>1, <2>2, PutHolds
  <2> QED
    BY <1>5, <2>3 DEF Adds
<1> QED
  BY <1>2, <1>4, <1>13, <1>14

LEMMA MergeKept ==
    ASSUME Inv, NEW s \in registered, NEW t \in registered, Find[s] # Find[t], NEW literal, NEW reported,
           NEW rest, Looping(registered, rest), Merge(s, t, literal, reported, rest),
           UNCHANGED <<registered, known, reporting, diseqs>>,
           Covers(registered, Here), Carries(registered, parent, Find[s], Find[t], Waiting(registered, use, rest))
    PROVE  /\ Kept(registered', Here', todo')
           /\ HoldingBy(registered, known, parent) \subseteq HoldingBy(registered', known', parent')
           /\ props' = reported \cup ((HoldingBy(registered', known', parent') \ HoldingBy(registered, known, parent)) \cap reporting)
<1>1. Carries(registered, parent, Find[t], Find[s], Waiting(registered, use, rest))
  BY DEF Carries
<1>2. CASE Join(s, t, literal, reported, rest)
  BY <1>2, JoinKept
<1>3. CASE Join(t, s, literal, reported, rest)
  BY <1>1, <1>3, JoinKept
<1> QED
  BY <1>2, <1>3 DEF Merge

\* Formulas are complete before anything is asserted, and stay so.
LEMMA WholeStep ==
    ASSUME Inv, Whole, EarlyNext
    PROVE  Whole'
<1> SUFFICES ASSUME ~Complete'
             PROVE  limits' = <<>> /\ Trail' = {}
  BY DEF Whole
<1>1. registered \subseteq Terms /\ known \subseteq Equalities
  BY DEF Inv, Words, Vocabulary
<1>2. UNCHANGED <<registered, known, reporting>>
        \/ (\E t \in Terms : RegisterTerm(t)) \/ (\E e \in Equalities : RegisterEquality(e))
  BY DEF EarlyNext, Next, AssertEqual, AssertDistinct, Congruence, CompareDone, NextMember, MembersDone, NextArgument, ArgumentsDone, Loops,
         Push, Pop
<1>3. ~Complete
  BY <1>1, <1>2 DEF Complete, RegisterTerm, RegisterEquality
<1>4. limits = <<>> /\ Trail = {}
  BY <1>3 DEF Whole
<1>5. UNCHANGED <<limits, asserted>>
  <2>1. CASE ~Ready
    BY <2>1 DEF EarlyNext, Next, RegisterTerm, RegisterEquality, AssertEqual, AssertDistinct, Assertable,
                Congruence, CompareDone, NextMember, MembersDone, NextArgument, ArgumentsDone, Loops, Push, Pop
  <2>2. CASE Ready
    <3>1. <<registered, known>>' # <<registered, known>>
      BY <1>3, <2>2 DEF EarlyNext
    <3> QED
      BY <1>2, <3>1 DEF RegisterTerm, RegisterEquality
  <2> QED
    BY <2>1, <2>2
<1> QED
  BY <1>4, <1>5 DEF Trail

LEMMA NoneInit == TracedInit => NoneMissed
<1> SUFFICES ASSUME TracedInit PROVE NoneMissed
  OBVIOUS
<1>1. registered = {} /\ limits = <<>> /\ todo = <<>> /\ asserted = <<{}>>
  BY DEF TracedInit, Init
<1>2. Trail = {} /\ Len(limits) = 0
  BY <1>1 DEF Trail
<1> QED
  BY <1>1, <1>2 DEF NoneMissed, Whole, KeptNow, BackKept, ToReport, Kept, Covers, Compares

\* A new term is congruent to none, since every term is still alone.
LEMMA RegisterTermKept ==
    ASSUME Inv, KeptNow, Whole, NEW t \in Terms, RegisterTerm(t)
    PROVE  KeptNow' /\ Trail' = {} /\ Trail = {} /\ limits' = <<>> /\ Ready
<1> DEFINE reg1 == registered \cup {t}
           uses == [s \in registered |-> use[s] \o Times(t, s)]
<1>1. /\ Ready /\ limits = <<>> /\ t \notin registered /\ Args(t) \subseteq registered /\ registered' = reg1
      /\ parent' = With(parent, t, t)
      /\ UNCHANGED <<known, reporting, limits, asserted>>
  BY DEF RegisterTerm
<1>2. use' = With(uses, t, <<>>)
  BY DEF RegisterTerm, Times
<1>3. Trail = {}
  <2>1. registered # Terms
    BY <1>1
  <2> QED
    BY <2>1 DEF Whole, Complete
<1>4. \A x \in registered : RootOf(registered, parent, x) = x /\ parent[x] = x
  BY <1>3, NothingAsserted
<1>5. PICK time, n : Timed(registered, parent, time, n)
  BY Reads
<1>6. \A x \in reg1 : RootOf(reg1, parent', x) = x
  <2>1. /\ \A x \in registered : RootOf(registered \cup {t}, With(parent, t, t), x) = RootOf(registered, parent, x)
        /\ RootOf(registered \cup {t}, With(parent, t, t), t) = t
    <3>1. t \notin registered
      BY <1>1
    <3>2. /\ \A x \in registered : RootOf(registered \cup {t}, With(parent, t, t), x) = RootOf(registered, parent, x)
          /\ RootOf(registered \cup {t}, With(parent, t, t), t) = t
          /\ \A k : \A x, y \in registered : Joined(registered, parent, time, k, x, y)
               => Joined(registered \cup {t}, With(parent, t, t), With(time, t, n), k, x, y)
      BY ONLY <1>5, <3>1, NewRoot
    <3> QED
      BY <3>2
  <2> QED
    BY <1>1, <1>4, <2>1
<1>7. Vocabulary(registered, known)
  BY DEF Inv, Words
<1>8. \A x \in reg1 : x \in Terms /\ \A i \in DOMAIN ArgsOf[x] : ArgsOf[x][i] \in registered
  BY <1>1, <1>7 DEF Vocabulary, Args
<1>9. use \in [registered -> Seq(registered)]
  BY Reads
<1>10. \A x \in registered : use'[x] = use[x] \o Times(t, x)
  <2>1. \A x \in registered : With(uses, t, <<>>)[x] = uses[x]
    BY <1>1 DEF With
  <2> QED
    BY <1>2, <2>1
<1>11. \A x \in registered : Elements(use'[x]) = Elements(use[x]) \cup Elements(Times(t, x))
  <2>1. ASSUME NEW x \in registered
        PROVE  Elements(use[x] \o Times(t, x)) = Elements(use[x]) \cup Elements(Times(t, x))
    <3>1. use[x] \in Seq(reg1)
      <4>1. use[x] \in Seq(registered) /\ registered \subseteq reg1
        BY <1>9
      <4> HIDE DEF reg1
      <4> QED
        BY <4>1, SeqWider
    <3>2. Times(t, x) \in Seq(reg1)
      <4> t \in reg1
        OBVIOUS
      <4> HIDE DEF reg1
      <4> QED
        BY TimesTyped
    <3> HIDE DEF reg1
    <3> QED
      BY <3>1, <3>2, ConcatElements
  <2> QED
    BY <1>10, <2>1
<1> HIDE DEF reg1, uses
<1>12. Covers(registered', Here')
  <2>1. ASSUME NEW x \in reg1, NEW i \in DOMAIN ArgsOf[x]
        PROVE  x \in Elements(use'[RootOf(reg1, parent', ArgsOf[x][i])])
    <3> DEFINE a == ArgsOf[x][i]
    <3>1. a \in registered /\ a \in reg1 /\ RootOf(reg1, parent', a) = a
      BY <1>6, <1>8 DEF reg1
    <3>2. x \in Elements(use'[a])
      <4>1. CASE x = t
        <5>1. t \in Elements(Times(t, a))
          <6>1. t \in reg1 /\ i \in DOMAIN ArgsOf[t] /\ ArgsOf[t][i] = a
            BY <4>1 DEF reg1
          <6> HIDE DEF a
          <6> QED
            BY <6>1, TimesTyped
        <5> HIDE DEF a
        <5> QED
          BY <1>11, <3>1, <4>1, <5>1
      <4>2. CASE x # t
        <5>1. x \in registered
          BY <4>2 DEF reg1
        <5>2. x \in Elements(use[RootOf(registered, parent, a)])
          BY <5>1 DEF KeptNow, Kept, Covers, Here
        <5> HIDE DEF a
        <5> QED
          BY <1>4, <1>11, <3>1, <5>2
      <4> QED
        BY <4>1, <4>2
    <3> QED
      BY <3>1, <3>2
  <2> QED
    BY <1>1, <2>1 DEF Covers, Here
<1>13. Compares(registered', Here', Waiting(registered', use', todo'))
  <2>1. ASSUME NEW x \in reg1, NEW y \in reg1, CongruentIn(reg1, parent', x, y)
        PROVE  x = y
    <3>1. ArgsOf[x] \in Seq(Terms) /\ ArgsOf[y] \in Seq(Terms) /\ x \in Terms /\ y \in Terms
      BY <1>8, ArgsAreSeqs
    <3>2. DOMAIN ArgsOf[x] = 1 .. Len(ArgsOf[x]) /\ DOMAIN ArgsOf[y] = 1 .. Len(ArgsOf[y])
      BY <3>1, LenProperties
    <3>3. FunctionOf[x] = FunctionOf[y] /\ Len(ArgsOf[x]) = Len(ArgsOf[y])
          /\ \A i \in DOMAIN ArgsOf[x] : RootOf(reg1, parent', ArgsOf[x][i]) = RootOf(reg1, parent', ArgsOf[y][i])
      BY <2>1 DEF CongruentIn
    <3>4. \A i \in 1 .. Len(ArgsOf[x]) : ArgsOf[x][i] = ArgsOf[y][i]
      <4>1. \A i \in 1 .. Len(ArgsOf[x]) : ArgsOf[x][i] \in reg1 /\ ArgsOf[y][i] \in reg1
        BY <1>8, <3>2, <3>3 DEF reg1
      <4> QED
        BY <1>6, <3>2, <3>3, <4>1
    <3>5. ArgsOf[x] = ArgsOf[y]
      BY <3>1, <3>3, <3>4, SeqEqual
    <3> QED
      BY <3>1, <3>3, <3>5, EUFAssumption
  <2> QED
    BY <1>1, <2>1 DEF Compares, Here
<1>14. Trail' = {}
  BY <1>1, <1>3 DEF Trail
<1> QED
  BY <1>1, <1>3, <1>12, <1>13, <1>14 DEF KeptNow, Kept, Here

LEMMA AssertEqualKept ==
    ASSUME Inv, NoneMissed, NEW e \in Equalities, AssertEqual(e), Remember
    PROVE  KeptNow' /\ ToReport' /\ Reports
<1>1. /\ Ready /\ e \in known /\ Asserts(e) /\ UNCHANGED <<registered, known, reporting, limits, diseqs>>
  BY DEF AssertEqual, Assertable
<1>2. Vocabulary(registered, known)
  BY DEF Inv, Words
<1>3. Sides[e][1] \in registered /\ Sides[e][2] \in registered
  BY <1>1, <1>2 DEF Vocabulary
<1>4. before' = Held /\ Held = HoldingBy(registered, known, parent)
  BY <1>1, HoldingReads DEF Remember, Held
<1>7. Paired(Held, known)
  BY <1>4, HoldingPaired
<1>5. CASE Same(Sides[e][1], Sides[e][2])
  <2>1. props' = {} /\ UNCHANGED <<parent, class, use, edge, history, todo>>
    BY <1>5 DEF AssertEqual, lists
  <2>2. Here' = Here /\ todo' = <<>>
    BY <1>1, <2>1 DEF Here, Ready
  <2>3. KeptNow'
    BY <1>1, <2>1, <2>2 DEF NoneMissed, KeptNow
  <2>4. Reports
    BY <1>1, <1>4, <1>7, <2>1 DEF Reports
  <2> QED
    BY <2>2, <2>3, <2>4 DEF ToReport
<1>6. CASE ~Same(Sides[e][1], Sides[e][2])
  <2>1. Merge(Sides[e][1], Sides[e][2], e, {}, <<>>) /\ Find[Sides[e][1]] # Find[Sides[e][2]]
    BY <1>6 DEF AssertEqual, Same
  <2>2. Looping(registered, <<>>)
    BY LoopNone
  <2>3. Covers(registered, Here) /\ Compares(registered, Here, Waiting(registered, use, <<>>))
    BY <1>1 DEF NoneMissed, KeptNow, Kept, Ready, Here
  <2>4. Carries(registered, parent, Find[Sides[e][1]], Find[Sides[e][2]], Waiting(registered, use, <<>>))
    BY <2>3 DEF Compares, Carries, Here
  <2>5. /\ Kept(registered', Here', todo')
        /\ HoldingBy(registered, known, parent) \subseteq HoldingBy(registered', known', parent')
        /\ props' = {} \cup ((HoldingBy(registered', known', parent') \ HoldingBy(registered, known, parent)) \cap reporting)
    BY <1>1, <1>3, <2>1, <2>2, <2>3, <2>4, MergeKept
  <2>6. KeptNow'
    BY <2>5 DEF KeptNow
  <2> QED
    BY <1>1, <1>4, <1>7, <2>5, <2>6 DEF Reports, ToReport
<1> QED
  BY <1>5, <1>6

\* The comparisons that Congruence skips are of terms that need no merge.
LEMMA CongruenceKept ==
    ASSUME Inv, NoneMissed, NEW c, Congruence(c), Remember
    PROVE  KeptNow' /\ ToReport' /\ Reports
<1> DEFINE l == Head(todo)
           p == Compared(l, c)
           s == p[1]
           t == p[2]
           next == Past(l, c)
           rest == <<Past(l, c)>> \o Tail(todo)
<1>1. /\ Comparing /\ c \in Left(l)
      /\ Mergeable(p) /\ \A d \in Left(l) : Earlier(d, c) => ~Mergeable(Compared(l, d))
      /\ Merge(s, t, NoLiteral, props, rest)
      /\ UNCHANGED <<registered, known, reporting, limits, diseqs, asserted>>
  BY DEF Congruence
<1>2. /\ l.loop \in {"merge", "uses"} /\ l.terms \in Seq(registered) /\ l.of \in registered
      /\ c[1] \in 1 .. Len(l.terms) /\ c[2] \in 1 .. Len(use[l.of]) /\ (c[1] > 1 \/ c[2] >= l.at)
      /\ s \in registered /\ t \in registered /\ Looping(registered, rest)
      /\ \/ p = <<l.terms[c[1]], use[l.of][c[2]]>> \/ p = <<use[l.of][c[2]], l.terms[c[1]]>>
  BY <1>1, LoopHere
<1>3. todo # <<>>
  BY <1>1 DEF Comparing, Ready
<1>4. LoopOk(registered, l) /\ Looping(registered, Tail(todo))
  BY <1>3, LoopRest DEF Inv, Queue
<1>5. Find[s] # Find[t]
  BY <1>1 DEF Mergeable, Same
<1>6. \A x \in registered : Find[x] = RootOf(registered, parent, x)
  BY Reads
<1>7. /\ Len(l.terms) \in Nat /\ l.terms \in [1 .. Len(l.terms) -> registered]
      /\ Len(next.terms) = Len(l.terms) - c[1] + 1
      /\ \A i \in 1 .. Len(l.terms) - c[1] + 1 : next.terms[i] = l.terms[c[1] + i - 1]
      /\ next.loop = l.loop /\ next.of = l.of /\ next.at = c[2] + 1
  <2> HIDE DEF l
  <2>1. Len(l.terms) \in Nat /\ l.terms \in [1 .. Len(l.terms) -> registered]
    BY <1>2, LenProperties
  <2>2. next.terms = SubSeq(l.terms, c[1], Len(l.terms)) /\ next.loop = l.loop /\ next.of = l.of /\ next.at = c[2] + 1
    BY DEF Past
  <2>3. c[1] \in Int /\ Len(l.terms) \in Int /\ c[1] <= Len(l.terms)
        /\ \A k \in c[1] .. Len(l.terms) : l.terms[k] \in registered
    BY <1>2, <2>1
  <2>4. /\ Len(SubSeq(l.terms, c[1], Len(l.terms))) = IF c[1] <= Len(l.terms) THEN Len(l.terms) - c[1] + 1 ELSE 0
        /\ \A i \in 1 .. Len(l.terms) - c[1] + 1 : SubSeq(l.terms, c[1], Len(l.terms))[i] = l.terms[c[1] + i - 1]
    BY <2>3, SubSeqProperties
  <2> QED
    BY <2>1, <2>2, <2>3, <2>4
<1>8. ASSUME NEW a \in registered, NEW b \in registered, Find[a] # Find[b], Congruent(a, b), Congruent(b, a),
             Awaits(use, l, <<a, b>>)
      PROVE  p = <<a, b>> \/ p = <<b, a>> \/ Awaits(use, next, <<a, b>>)
  <2> HIDE DEF l, next, p
  <2>1. PICK i \in 1 .. Len(l.terms), j \in 1 .. Len(use[l.of]) :
          (i > 1 \/ j >= l.at) /\ <<a, b>> = <<l.terms[i], use[l.of][j]>>
    BY <1>8 DEF Awaits
  <2>2. a = l.terms[i] /\ b = use[l.of][j]
    BY <2>1
  <2>3. Len(use[l.of]) \in Nat
    BY <1>2, Reads, LenProperties
  <2>4. <<i, j>> \in Left(l)
    BY <2>1 DEF Left
  <2>5. Mergeable(Compared(l, <<i, j>>))
    <3>1. Compared(l, <<i, j>>) = <<a, b>> \/ Compared(l, <<i, j>>) = <<b, a>>
      BY <2>2 DEF Compared
    <3>2. Mergeable(<<a, b>>) /\ Mergeable(<<b, a>>)
      BY <1>8 DEF Mergeable, Same
    <3> QED
      BY <3>1, <3>2
  <2>6. ~Earlier(<<i, j>>, c)
    BY <1>1, <2>4, <2>5 DEF l
  <2>7. ~(i < c[1] \/ (i = c[1] /\ j < c[2]))
    BY <2>6 DEF Earlier
  <2>8. CASE i = c[1] /\ j = c[2]
    BY <1>2, <2>2, <2>8
  <2>9. CASE i > c[1] \/ (i = c[1] /\ j > c[2])
    <3> DEFINE k == i - c[1] + 1
    <3>1. k \in 1 .. Len(next.terms) /\ c[1] + k - 1 = i /\ (k > 1 \/ j >= c[2] + 1)
      <4>1. /\ i \in 1 .. Len(l.terms) /\ c[1] \in 1 .. Len(l.terms) /\ Len(l.terms) \in Nat
            /\ Len(next.terms) = Len(l.terms) - c[1] + 1
            /\ j \in 1 .. Len(use[l.of]) /\ c[2] \in 1 .. Len(use[l.of])
        BY <1>2, <1>7
      <4> QED
        BY ONLY <2>3, <2>9, <4>1
    <3>2. next.terms[k] = l.terms[i]
      BY <1>7, <3>1
    <3> HIDE DEF k
    <3>3. /\ next.loop \in {"merge", "uses"} /\ j \in 1 .. Len(use[next.of]) /\ (k > 1 \/ j >= next.at)
          /\ <<a, b>> = <<next.terms[k], use[next.of][j]>>
      BY <1>2, <1>7, <2>2, <3>1, <3>2
    <3> QED
      BY <3>1, <3>3 DEF Awaits
  <2> QED
    BY <1>2, <1>7, <2>3, <2>7, <2>8, <2>9
<1>9. LoopOk(registered, next)
  <2>1. rest # <<>> /\ Head(rest) = next
    <3>1. Looping(registered, Tail(todo)) /\ rest = <<next>> \o Tail(todo)
      BY <1>4
    <3> QED
      BY <3>1
  <2> HIDE DEF rest, next
  <2> QED
    BY <1>2, <2>1, LoopRest
<1>10. Covers(registered, Here) /\ Compares(registered, Here, Waiting(registered, use, todo))
  BY DEF NoneMissed, KeptNow, Kept, Here
<1>11. \A a, b \in registered :
         /\ <<a, b>> \in Waiting(registered, use, todo)
              <=> Awaits(use, l, <<a, b>>) \/ <<a, b>> \in Waiting(registered, use, Tail(todo))
         /\ <<a, b>> \in Waiting(registered, use, rest)
              <=> Awaits(use, next, <<a, b>>) \/ <<a, b>> \in Waiting(registered, use, Tail(todo))
  <2>1. ASSUME NEW a \in registered, NEW b \in registered
        PROVE  /\ <<a, b>> \in Waiting(registered, use, todo)
                    <=> Awaits(use, l, <<a, b>>) \/ <<a, b>> \in Waiting(registered, use, Tail(todo))
               /\ <<a, b>> \in Waiting(registered, use, rest)
                    <=> Awaits(use, next, <<a, b>>) \/ <<a, b>> \in Waiting(registered, use, Tail(todo))
    <3> DEFINE q == <<a, b>>
    <3>1. q \in registered \X registered
      OBVIOUS
    <3> HIDE DEF q, l, next
    <3>2. q \in Waiting(registered, use, todo)
            <=> q \in registered \X registered /\ (Awaits(use, l, q) \/ q \in Waiting(registered, use, Tail(todo)))
      BY <1>3, WaitingRest DEF Inv, Queue, l
    <3>3. q \in Waiting(registered, use, <<next>> \o Tail(todo))
            <=> q \in registered \X registered /\ (Awaits(use, next, q) \/ q \in Waiting(registered, use, Tail(todo)))
      BY <1>4, <1>9, WaitingFirst
    <3> QED
      BY <3>1, <3>2, <3>3 DEF q, next
  <2> QED
    BY <2>1
<1> HIDE DEF l, p, s, t, next, rest
<1>12. Carries(registered, parent, Find[s], Find[t], Waiting(registered, use, rest))
  <2>1. ASSUME NEW a \in registered, NEW b \in registered, CongruentIn(registered, parent, a, b),
               Find[a] # Find[b]
        PROVE  \/ Find[a] = Find[s] /\ Find[b] = Find[t]
               \/ Find[a] = Find[t] /\ Find[b] = Find[s]
               \/ <<a, b>> \in Waiting(registered, use, rest) \/ <<b, a>> \in Waiting(registered, use, rest)
    <3>1. Congruent(a, b) /\ Congruent(b, a)
      BY <2>1, CongruentBoth
    <3>2. <<a, b>> \in Waiting(registered, use, todo) \/ <<b, a>> \in Waiting(registered, use, todo)
      BY <1>6, <1>10, <2>1 DEF Compares, Here
    <3>3. p = <<a, b>> \/ p = <<b, a>> => (s = a /\ t = b) \/ (s = b /\ t = a)
      BY DEF s, t
    <3>4. CASE <<a, b>> \in Waiting(registered, use, todo)
      <4>1. CASE Awaits(use, l, <<a, b>>)
        <5>1. p = <<a, b>> \/ p = <<b, a>> \/ Awaits(use, next, <<a, b>>)
          BY <1>8, <2>1, <3>1, <4>1
        <5>2. Awaits(use, next, <<a, b>>) => <<a, b>> \in Waiting(registered, use, rest)
          BY <1>11
        <5> QED
          BY <3>3, <5>1, <5>2
      <4>2. CASE <<a, b>> \in Waiting(registered, use, Tail(todo))
        BY <1>11, <4>2
      <4>3. Awaits(use, l, <<a, b>>) \/ <<a, b>> \in Waiting(registered, use, Tail(todo))
        BY <1>11, <3>4
      <4> QED
        BY <4>1, <4>2, <4>3
    <3>5. CASE <<b, a>> \in Waiting(registered, use, todo)
      <4>1. CASE Awaits(use, l, <<b, a>>)
        <5>1. p = <<b, a>> \/ p = <<a, b>> \/ Awaits(use, next, <<b, a>>)
          BY <1>8, <2>1, <3>1, <4>1
        <5>2. Awaits(use, next, <<b, a>>) => <<b, a>> \in Waiting(registered, use, rest)
          BY <1>11
        <5> QED
          BY <3>3, <5>1, <5>2
      <4>2. CASE <<b, a>> \in Waiting(registered, use, Tail(todo))
        BY <1>11, <4>2
      <4>3. Awaits(use, l, <<b, a>>) \/ <<b, a>> \in Waiting(registered, use, Tail(todo))
        BY <1>11, <3>5
      <4> QED
        BY <4>1, <4>2, <4>3
    <3> QED
      BY <3>2, <3>4, <3>5
  <2> QED
    BY <1>6, <2>1 DEF Carries
<1>13. /\ Kept(registered', Here', todo')
       /\ HoldingBy(registered, known, parent) \subseteq HoldingBy(registered', known', parent')
       /\ props' = props \cup ((HoldingBy(registered', known', parent') \ HoldingBy(registered, known, parent)) \cap reporting)
  BY <1>1, <1>2, <1>5, <1>10, <1>12, MergeKept
<1>14. KeptNow'
  BY <1>13 DEF KeptNow
<1>15. before' = before /\ Held = before /\ Trail' = Trail
  BY <1>1, <1>3 DEF Remember, Held, Ready, Trail
<1>16. ASSUME Trail # {}
       PROVE  /\ Paired(before, known') /\ before \subseteq HoldingBy(registered', known', parent')
              /\ props' = (HoldingBy(registered', known', parent') \ before) \cap reporting
  <2>1. /\ before \subseteq HoldingBy(registered, known, parent)
        /\ props = (HoldingBy(registered, known, parent) \ before) \cap reporting
        /\ Paired(before, known)
    BY <1>3, <1>16 DEF NoneMissed, ToReport
  <2> QED
    BY <1>1, <1>13, <2>1
<1>17. Reports
  <2>1. Cardinality(Trail') > Cardinality(Trail) => Trail # {}
    <3>1. Cardinality(Trail) \in Nat
      BY TrailFinite
    <3> QED
      BY <1>15, <3>1
  <2> QED
    BY <1>1, <1>15, <1>16, <2>1 DEF Reports
<1> QED
  BY <1>1, <1>14, <1>15, <1>16, <1>17 DEF ToReport

\* A loop that ends, or that begins others, leaves no congruence behind.
LEMMA NextLoopsWait ==
    ASSUME Inv, NextLoops, NEW a \in registered, NEW b \in registered, Find[a] # Find[b],
           Congruent(a, b), Congruent(b, a), <<a, b>> \in Waiting(registered, use, todo)
    PROVE  <<a, b>> \in Waiting(registered, use, todo')
<1> DEFINE l == Head(todo)
           p == <<a, b>>
           Q == Tail(todo)
<1>1. todo # <<>>
  BY LoopsFollow
<1>2. LoopOk(registered, l) /\ Looping(registered, Q)
  BY <1>1, LoopRest DEF Inv, Queue
<1>3. p \in registered \X registered
  OBVIOUS
<1>4. Mergeable(<<a, b>>) /\ Mergeable(<<b, a>>)
  BY DEF Mergeable, Same
<1>5. p \in Waiting(registered, use, todo)
  OBVIOUS
<1> HIDE DEF p, Q
<1>6. p \in Waiting(registered, use, todo)
        <=> p \in registered \X registered /\ (Awaits(use, l, p) \/ p \in Waiting(registered, use, Q))
  BY <1>1, WaitingRest DEF Inv, Queue, Q
<1>7. ~Awaits(use, l, p)
  <2>1. CASE ~CompareDone
    BY <2>1 DEF NextLoops, MembersDone, NextArgument, ArgumentsDone, NextMember, Awaits
  <2>2. CASE CompareDone
    <3> SUFFICES ASSUME Awaits(use, l, p)
                 PROVE  FALSE
      OBVIOUS
    <3>1. \A c \in Left(l) : ~Mergeable(Compared(l, c))
      BY <2>2 DEF CompareDone
    <3> HIDE DEF l
    <3>2. PICK i \in 1 .. Len(l.terms), j \in 1 .. Len(use[l.of]) :
            (i > 1 \/ j >= l.at) /\ p = <<l.terms[i], use[l.of][j]>>
      BY DEF Awaits
    <3>3. a = l.terms[i] /\ b = use[l.of][j]
      BY <3>2 DEF p
    <3>4. <<i, j>> \in Left(l)
      BY <3>2 DEF Left
    <3>5. Compared(l, <<i, j>>) = <<a, b>> \/ Compared(l, <<i, j>>) = <<b, a>>
      BY <3>3 DEF Compared
    <3> QED
      BY <1>4, <3>1, <3>4, <3>5
  <2> QED
    BY <2>1, <2>2
<1>8. p \in Waiting(registered, use, Q)
  BY <1>5, <1>6, <1>7
<1>9. CASE CompareDone \/ MembersDone \/ ArgumentsDone
  BY <1>8, <1>9 DEF CompareDone, MembersDone, ArgumentsDone, Loops, Q, p
<1>10. ASSUME NEW k, LoopOk(registered, k), NEW m, LoopOk(registered, m), todo' = <<k, m>> \o Q
       PROVE  p \in Waiting(registered, use, todo')
  BY <1>2, <1>8, <1>10, TwoFirst
<1>11. CASE NextArgument \/ \E m \in registered : NextMember(m)
  <2>1. PICK k, m : LoopOk(registered, k) /\ LoopOk(registered, m) /\ todo' = <<k, m>> \o Q
    BY <1>11, TwoFollow DEF Q
  <2> QED
    BY <1>10, <2>1 DEF p
<1> QED
  BY <1>9, <1>11 DEF NextLoops, p

LEMMA NextLoopsKept ==
    ASSUME Inv, NoneMissed, NextLoops, Remember
    PROVE  KeptNow' /\ ToReport' /\ Reports
<1>1. /\ todo # <<>>
      /\ UNCHANGED <<registered, known, reporting, parent, class, use, edge, diseqs, props, asserted>>
  BY LoopsFollow DEF Loops, lists
<1>2. Here' = Here /\ Trail' = Trail /\ Held = before /\ before' = before
  BY <1>1 DEF Here, Trail, Held, Ready, Remember
<1>3. \A x \in registered : Find[x] = RootOf(registered, parent, x)
  BY Reads
<1>4. Covers(registered, Here) /\ Compares(registered, Here, Waiting(registered, use, todo))
  BY DEF NoneMissed, KeptNow, Kept, Here
<1>5. ASSUME NEW a \in registered, NEW b \in registered, CongruentIn(registered, parent, a, b)
      PROVE  \/ RootOf(registered, parent, a) = RootOf(registered, parent, b)
             \/ <<a, b>> \in Waiting(registered, use, todo') \/ <<b, a>> \in Waiting(registered, use, todo')
  <2>1. Congruent(a, b) /\ Congruent(b, a)
    BY <1>5, CongruentBoth
  <2>2. \/ RootOf(registered, parent, a) = RootOf(registered, parent, b)
        \/ <<a, b>> \in Waiting(registered, use, todo) \/ <<b, a>> \in Waiting(registered, use, todo)
    BY <1>4, <1>5 DEF Compares, Here
  <2>3. CASE Find[a] = Find[b]
    BY <1>3, <2>3
  <2>4. CASE Find[a] # Find[b]
    <3>1. <<a, b>> \in Waiting(registered, use, todo) => <<a, b>> \in Waiting(registered, use, todo')
      BY <2>1, <2>4, NextLoopsWait
    <3>2. <<b, a>> \in Waiting(registered, use, todo) => <<b, a>> \in Waiting(registered, use, todo')
      BY <2>1, <2>4, NextLoopsWait
    <3> QED
      BY <2>2, <3>1, <3>2
  <2> QED
    BY <2>3, <2>4
<1>6. KeptNow'
  <2>1. Compares(registered, Here, Waiting(registered, use, todo'))
    BY <1>5 DEF Compares, Here
  <2> QED
    BY <1>1, <1>2, <1>4, <2>1 DEF KeptNow, Kept, Here
<1>7. Reports
  <2>1. Cardinality(Trail') > Cardinality(Trail) => Trail # {}
    <3>1. Cardinality(Trail) \in Nat
      BY TrailFinite
    <3> QED
      BY <1>2, <3>1
  <2>2. Trail # {} => /\ props' = (HoldingBy(registered', known', parent') \ Held) \cap reporting'
                     /\ Paired(Held, known')
    BY <1>1, <1>2 DEF NoneMissed, ToReport
  <2> QED
    BY <2>1, <2>2 DEF Reports
<1> QED
  BY <1>1, <1>2, <1>6, <1>7 DEF ToReport, NoneMissed

LEMMA AssertDistinctKept ==
    ASSUME Inv, NoneMissed, NEW e \in Equalities, AssertDistinct(e), Remember
    PROVE  KeptNow' /\ ToReport' /\ Reports
<1>1. /\ Ready /\ todo' = todo /\ props' = {} /\ UNCHANGED <<registered, known, reporting, parent, class, use, edge>>
  BY DEF AssertDistinct, Assertable, lists
<1>2. Held = HoldingBy(registered, known, parent)
  BY <1>1, HoldingReads DEF Held
<1>4. Paired(Held, known)
  BY <1>2, HoldingPaired
<1>3. KeptNow'
  BY <1>1 DEF NoneMissed, KeptNow, Kept, Covers, Compares, Here
<1> QED
  BY <1>1, <1>2, <1>3, <1>4 DEF Reports, ToReport, Ready

\* A pop returns to lists that missed nothing.
LEMMA PopKept ==
    ASSUME Inv, NoneMissed, NEW n, Pop(n), Remember
    PROVE  NoneMissed' /\ Reports
<1> DEFINE j == Len(limits) - n + 1
<1>1. /\ j \in 1 .. Len(limits) /\ j - 1 \in Nat
      /\ Here' = saved[j] /\ limits' = SubSeq(limits, 1, j - 1) /\ asserted' = SubSeq(asserted, 1, j)
      /\ saved' = SubSeq(saved, 1, j - 1) /\ Len(limits') = j - 1
      /\ UNCHANGED <<registered, known, reporting, props, todo>>
  BY PopReturns
<1> HIDE DEF j
<1>2. Ready /\ todo = <<>> /\ todo' = <<>>
  BY <1>1 DEF Pop, Ready
<1>3. IsSeq(saved) /\ Len(saved) = Len(limits) /\ Len(limits) \in Nat
  BY Reads DEF Inv, Stack, Stacked
<1>4. \A k \in 1 .. j - 1 : saved'[k] = saved[k] /\ k \in 1 .. Len(limits)
  <2>1. j - 1 \in 0 .. Len(saved)
    BY <1>1, <1>3
  <2>2. \A k \in 1 .. j - 1 : SubSeq(saved, 1, j - 1)[k] = saved[k]
    BY <1>3, <2>1, SeqCut
  <2>3. \A k \in 1 .. j - 1 : k \in 1 .. Len(limits)
    BY <1>1, <1>3
  <2> QED
    BY <1>1, <2>2, <2>3
<1>5. BackKept'
  BY <1>1, <1>4 DEF NoneMissed, BackKept
<1>6. KeptNow'
  BY <1>1, <1>2 DEF NoneMissed, BackKept, KeptNow
<1>7. Trail' \subseteq Trail
  <2>1. asserted \in Seq(SUBSET Int) /\ Len(asserted) = Len(limits) + 1
        /\ \A k \in 1 .. Len(asserted) : IsFiniteSet(asserted[k])
    BY DEF Inv, Stack
  <2>2. j \in 1 .. Len(asserted) /\ j \in 1 .. j /\ j \in Nat
    BY <1>1, <1>3, <2>1
  <2>3. /\ asserted' \in Seq(SUBSET Int) /\ Len(asserted') = j
        /\ \A k \in 1 .. j : TrailTo(asserted', k) = TrailTo(asserted, k)
    BY <1>1, <2>1, <2>2, TrailPops
  <2>4. UNION {asserted'[i] : i \in DOMAIN asserted'} = TrailTo(asserted', j)
    BY <2>3, TrailIsTo
  <2>5. Trail' = TrailTo(asserted, j)
    BY <2>2, <2>3, <2>4 DEF Trail
  <2>6. Trail = TrailTo(asserted, Len(limits) + 1)
    BY Reads
  <2>7. \A i \in 1 .. j : i \in 1 .. Len(limits) + 1
    BY <1>1, <1>3
  <2>8. TrailTo(asserted, j) \subseteq TrailTo(asserted, Len(limits) + 1)
    BY <2>7 DEF TrailTo
  <2> QED
    BY <2>5, <2>6, <2>8
<1>8. Reports
  <2>1. IsFiniteSet(Trail) /\ Cardinality(Trail) \in Nat
    BY TrailFinite
  <2>2. Cardinality(Trail') <= Cardinality(Trail) /\ Cardinality(Trail') \in Nat
    <3>1. Trail' \in SUBSET Trail
      BY <1>7
    <3>2. Cardinality(Trail') <= Cardinality(Trail) /\ IsFiniteSet(Trail')
      BY ONLY <2>1, <3>1, FS_Subset
    <3> QED
      BY <3>2, FS_CardinalityType
  <2>3. ~(Cardinality(Trail') > Cardinality(Trail))
    BY <2>1, <2>2
  <2> QED
    BY <1>2, <2>3 DEF Reports
<1>9. Whole'
  <2>1. ~Complete => limits = <<>>
    BY DEF NoneMissed, Whole
  <2>2. limits # <<>>
    BY <1>1, <1>3
  <2> QED
    BY <1>1, <2>1, <2>2 DEF Whole, Complete
<1> QED
  BY <1>2, <1>5, <1>6, <1>8, <1>9 DEF NoneMissed, ToReport

LEMMA PushKept ==
    ASSUME Inv, NoneMissed, Push, Remember
    PROVE  KeptNow' /\ BackKept' /\ ToReport' /\ Reports
<1>1. /\ Ready /\ limits' = Append(limits, Len(history)) /\ asserted' = Append(asserted, {})
      /\ UNCHANGED <<registered, known, reporting, parent, class, use, edge, history, diseqs, props, todo>>
  BY DEF Push, lists
<1> DEFINE m == Len(limits)
<1>2. /\ IsSeq(saved) /\ limits \in Seq(Nat) /\ Len(saved) = m /\ m \in Nat /\ Len(history) \in Nat
  BY Reads DEF Inv, Stack, Stacked, IsSeq
<1>3. Len(limits') = m + 1
  BY <1>1, <1>2, AppendProperties
<1>4. saved' = Append(saved, Here)
  BY <1>2, <1>3 DEF Remember
<1>5. saved'[m + 1] = Here /\ \A i \in 1 .. m : saved'[i] = saved[i]
  BY <1>2, <1>4, SeqAppend
<1>6. Here' = Here /\ todo = <<>> /\ todo' = <<>>
  BY <1>1 DEF Here, Ready
<1>7. KeptNow'
  BY <1>1, <1>6 DEF NoneMissed, KeptNow
<1>8. BackKept'
  <2>1. ASSUME NEW k \in 1 .. m + 1
        PROVE  Kept(registered, saved'[k], <<>>)
    <3>1. CASE k \in 1 .. m
      BY <1>5, <3>1 DEF NoneMissed, BackKept
    <3>2. CASE k = m + 1
      BY <1>5, <1>6, <3>2 DEF NoneMissed, KeptNow
    <3>3. k \in 1 .. m \/ k = m + 1
      <4> HIDE DEF m
      <4> QED
        BY <1>2
    <3> QED
      BY <3>1, <3>2, <3>3
  <2> QED
    BY <1>1, <1>3, <2>1 DEF BackKept
<1>9. Trail' = Trail
  <2>1. asserted \in Seq(SUBSET Int) /\ Len(asserted) = m + 1
        /\ \A k \in 1 .. Len(asserted) : IsFiniteSet(asserted[k])
    BY DEF Inv, Stack
  <2>2. /\ asserted' \in Seq(SUBSET Int) /\ Len(asserted') = m + 2
        /\ TrailTo(asserted', m + 2) = TrailTo(asserted, m + 1)
    <3> HIDE DEF m
    <3> QED
      BY <1>1, <1>2, <2>1, TrailPushes
  <2>3. UNION {asserted'[i] : i \in DOMAIN asserted'} = TrailTo(asserted', Len(asserted'))
    BY <2>2, TrailIsTo
  <2> QED
    BY <2>2, <2>3, Reads DEF Trail
<1>10. Reports
  <2>1. Cardinality(Trail) \in Nat
    BY TrailFinite
  <2> QED
    BY <1>6, <1>9, <2>1 DEF Reports
<1> QED
  BY <1>6, <1>7, <1>8, <1>10 DEF ToReport

LEMMA BackStays ==
    ASSUME Inv, BackKept, Remember, UNCHANGED <<registered, limits>>
    PROVE  BackKept'
<1>1. saved' = saved
  BY SavedStays
<1> QED
  BY <1>1 DEF BackKept

LEMMA NoneMissedStep ==
    ASSUME Inv, NoneMissed, EarlyNext
    PROVE  NoneMissed' /\ Reports
<1>1. Remember /\ Next
  BY DEF EarlyNext
<1>2. Whole'
  BY WholeStep DEF NoneMissed
<1>3. ASSUME NEW t \in Terms, RegisterTerm(t) PROVE NoneMissed' /\ Reports
  <2>1. KeptNow' /\ Trail' = {} /\ Trail = {} /\ limits' = <<>> /\ Ready
    BY <1>3, RegisterTermKept DEF NoneMissed
  <2>2. Cardinality(Trail) \in Nat
    BY TrailFinite
  <2>3. Reports
    BY <2>1, <2>2 DEF Reports
  <2> QED
    BY <1>2, <2>1, <2>3 DEF NoneMissed, BackKept, ToReport
<1>4. ASSUME NEW e \in Equalities, RegisterEquality(e) PROVE NoneMissed' /\ Reports
  <2>1. /\ Ready /\ UNCHANGED <<registered, parent, class, use, edge, diseqs, limits, asserted, todo>>
    BY <1>4 DEF RegisterEquality, lists
  <2>2. Here' = Here /\ Trail' = Trail /\ todo = <<>>
    BY <2>1 DEF Here, Trail, Ready
  <2>3. BackKept'
    BY <1>1, <2>1, BackStays DEF NoneMissed
  <2>4. KeptNow' /\ ToReport'
    BY <2>1, <2>2 DEF NoneMissed, KeptNow, ToReport
  <2>5. Cardinality(Trail) \in Nat
    BY TrailFinite
  <2>6. Reports
    BY <2>2, <2>5 DEF Reports
  <2> QED
    BY <1>2, <2>3, <2>4, <2>6 DEF NoneMissed
<1>5. ASSUME NEW e \in Equalities, AssertEqual(e) PROVE NoneMissed' /\ Reports
  <2>1. KeptNow' /\ ToReport' /\ Reports
    BY <1>1, <1>5, AssertEqualKept
  <2>2. BackKept'
    BY <1>1, <1>5, BackStays DEF NoneMissed, AssertEqual
  <2> QED
    BY <1>2, <2>1, <2>2 DEF NoneMissed
<1>6. ASSUME NEW e \in Equalities, AssertDistinct(e) PROVE NoneMissed' /\ Reports
  <2>1. KeptNow' /\ ToReport' /\ Reports
    BY <1>1, <1>6, AssertDistinctKept
  <2>2. BackKept'
    BY <1>1, <1>6, BackStays DEF NoneMissed, AssertDistinct
  <2> QED
    BY <1>2, <2>1, <2>2 DEF NoneMissed
<1>7. ASSUME NEW c, Congruence(c) PROVE NoneMissed' /\ Reports
  <2>1. KeptNow' /\ ToReport' /\ Reports
    BY <1>1, <1>7, CongruenceKept
  <2>2. BackKept'
    BY <1>1, <1>7, BackStays DEF NoneMissed, Congruence
  <2> QED
    BY <1>2, <2>1, <2>2 DEF NoneMissed
<1>8. ASSUME NextLoops PROVE NoneMissed' /\ Reports
  <2>1. KeptNow' /\ ToReport' /\ Reports
    BY <1>1, <1>8, NextLoopsKept
  <2>2. UNCHANGED <<registered, limits>>
    BY <1>8, LoopsFollow DEF Loops
  <2>3. BackKept'
    BY <1>1, <2>2, BackStays DEF NoneMissed
  <2> QED
    BY <1>2, <2>1, <2>3 DEF NoneMissed
<1>9. ASSUME Push PROVE NoneMissed' /\ Reports
  BY <1>1, <1>2, <1>9, PushKept DEF NoneMissed
<1>10. ASSUME NEW n \in 1 .. MaxLevel, Pop(n) PROVE NoneMissed' /\ Reports
  BY <1>1, <1>10, PopKept
<1> QED
  BY <1>1, <1>3, <1>4, <1>5, <1>6, <1>7, <1>8, <1>9, <1>10 DEF Next, NextLoops

LEMMA EarlyInvariance == EarlySpec => []Inv /\ []NoneMissed
<1>1. TracedInit => Inv /\ NoneMissed
  BY InvInit, NoneInit
<1>2. Inv /\ NoneMissed /\ [EarlyNext]_tracedVars => Inv' /\ NoneMissed'
  <2> SUFFICES ASSUME Inv, NoneMissed, [EarlyNext]_tracedVars
               PROVE  Inv' /\ NoneMissed'
    OBVIOUS
  <2>1. [LateNext]_tracedVars
    BY DEF EarlyNext, LateNext
  <2>2. Inv'
    BY <2>1, InvStep
  <2>3. CASE EarlyNext
    BY <2>2, <2>3, NoneMissedStep
  <2>4. CASE UNCHANGED tracedVars
    BY <2>2, <2>4 DEF tracedVars, vars, lists, NoneMissed, Whole, Complete, KeptNow, BackKept, ToReport, Trail, Here
  <2> QED
    BY <2>3, <2>4
<1> QED
  BY <1>1, <1>2, PTL DEF EarlySpec

\* With nothing left to compare, the classes are the congruence closure.
LEMMA ExactNow == Inv /\ NoneMissed => ClosureIsExact
<1> SUFFICES ASSUME Inv, NoneMissed, Ready
             PROVE  Closure(Equal) = {p \in registered \X registered : Same(p[1], p[2])}
  BY DEF ClosureIsExact
<1> DEFINE S == {p \in registered \X registered : Same(p[1], p[2])}
<1>1. Words /\ Vocabulary(registered, known) /\ IsFiniteSet(registered) /\ Literals(registered, known, Trail, Here)
  BY DEF Inv, Words, Now, Good
<1>2. \A x \in registered : Find[x] = RootOf(registered, parent, x)
  BY Reads
<1>3. PICK time, n : Founded(registered, known, Trail, Here, time, n)
  BY Reads
<1>4. \A s, t : <<s, t>> \in S <=> s \in registered /\ t \in registered /\ Find[s] = Find[t]
  BY DEF Same
<1>5. S \subseteq registered \X registered
  OBVIOUS
<1>6. \A e \in known : Sides[e] = <<Sides[e][1], Sides[e][2]>> /\ Sides[e] \in registered \X registered
  BY <1>1, EqualitiesArePositive
<1>7. \A e \in Equal : Sides[e] \in All
  BY <1>6 DEF Equal, All
<1>8. /\ IsCongruence(registered, Closure(Equal)) /\ \A e \in Equal : Sides[e] \in Closure(Equal)
      /\ \A C : IsCongruence(registered, C) /\ (\A e \in Equal : Sides[e] \in C) => Closure(Equal) \subseteq C
  BY <1>1, <1>7, ClosureFacts
<1> HIDE DEF S
<1>9. ASSUME NEW p \in S
      PROVE  p \in Closure(Equal)
  <2>1. PICK s \in registered, t \in registered : p = <<s, t>>
    BY <1>5
  <2>2. RootOf(registered, parent, s) = RootOf(registered, parent, t)
    BY <1>2, <1>4, <2>1
  <2>3. Accounts(s, t)
    BY <1>1, <1>3, <2>2, JoinedAccounts
  <2> QED
    BY <1>8, <2>1, <2>3 DEF Accounts
<1>10. IsCongruence(registered, S)
  <2>1. ASSUME NEW s \in registered, NEW t \in registered, Alike(S, s, t)
        PROVE  <<s, t>> \in S
    <3>1. CongruentIn(registered, parent, s, t)
      <4>1. \A i \in DOMAIN ArgsOf[s] : <<ArgsOf[s][i], ArgsOf[t][i]>> \in S
        BY <2>1 DEF Alike
      <4>2. \A i \in DOMAIN ArgsOf[s] :
              RootOf(registered, parent, ArgsOf[s][i]) = RootOf(registered, parent, ArgsOf[t][i])
        BY <1>2, <1>4, <4>1
      <4> QED
        BY <2>1, <4>2 DEF Alike, CongruentIn
    <3>2. Compares(registered, Here, Waiting(registered, use, <<>>))
      BY DEF NoneMissed, KeptNow, Kept, Ready, Here
    <3>3. Waiting(registered, use, <<>>) = {}
      BY WaitingNone
    <3> QED
      BY <1>2, <1>4, <3>1, <3>2, <3>3 DEF Compares, Here
  <2> QED
    BY <1>4, <1>5, <2>1 DEF IsCongruence
<1>11. \A e \in Equal : Sides[e] \in S
  <2>1. ASSUME NEW e \in Equal
        PROVE  Sides[e] \in S
    <3>1. e \in known /\ RootOf(registered, parent, Sides[e][1]) = RootOf(registered, parent, Sides[e][2])
      BY <1>1 DEF Equal, Literals, Here
    <3>2. Sides[e] = <<Sides[e][1], Sides[e][2]>> /\ Sides[e][1] \in registered /\ Sides[e][2] \in registered
      BY <1>6, <3>1
    <3> QED
      BY <1>2, <1>4, <3>1, <3>2
  <2> QED
    BY <2>1
<1>12. Closure(Equal) \subseteq S
  BY <1>8, <1>10, <1>11
<1> QED
  BY <1>9, <1>12 DEF S

\* The classes of euf.py are the congruence closure of the equalities asserted, whenever
\* all merges are done.
THEOREM ClosureAlways == EarlySpec => []ClosureIsExact
<1>1. Inv /\ NoneMissed => ClosureIsExact
  BY ExactNow
<1> QED
  BY <1>1, EarlyInvariance, PTL

\* check reports a conflict exactly when the asserted literals contradict the theory.
THEOREM CheckAlways == EarlySpec => []CheckDecides
<1>1. Inv /\ NoneMissed => CheckDecides
  <2> SUFFICES ASSUME Inv, NoneMissed, Ready
               PROVE  Violated # {} <=> \E e \in known : -e \in Trail /\ Sides[e] \in Closure(Equal)
    BY DEF CheckDecides
  <2>1. Closure(Equal) = {p \in registered \X registered : Same(p[1], p[2])}
    BY ExactNow DEF ClosureIsExact
  <2>2. Vocabulary(registered, known) /\ {diseqs[i] : i \in DOMAIN diseqs} = {e \in known : -e \in Trail}
    BY DEF Inv, Words, Now, Good, Literals, Here
  <2>3. \A e \in known : Sides[e] \in registered \X registered
    BY <2>2, EqualitiesArePositive
  <2>4. \A e \in known : Sides[e] \in Closure(Equal) <=> Same(Sides[e][1], Sides[e][2])
    BY <2>1, <2>3
  <2>5. ASSUME NEW i \in Violated
        PROVE  \E e \in known : -e \in Trail /\ Sides[e] \in Closure(Equal)
    BY <2>2, <2>4 DEF Violated
  <2>6. ASSUME NEW e \in known, -e \in Trail, Sides[e] \in Closure(Equal)
        PROVE  Violated # {}
    <3>1. PICK i \in DOMAIN diseqs : diseqs[i] = e
      BY <2>2, <2>6
    <3> QED
      BY <2>4, <2>6, <3>1 DEF Violated
  <2> QED
    BY <2>5, <2>6
<1> QED
  BY <1>1, EarlyInvariance, PTL

\* The propagations of an assertion are the equalities that it made true, no more and
\* no fewer, but of two equalities with exchanged sides only the one registered last.
THEOREM PropagationsAlways == EarlySpec => PropagationsComplete
<1>1. Inv /\ NoneMissed /\ [EarlyNext]_tracedVars =>
        [Ends => /\ props' = (HoldingBy(registered', known', parent') \ Held) \cap reporting'
                 /\ Paired(Held, known')]_tracedVars
  BY NoneMissedStep DEF Reports, Ready, Ends
<1>2. Inv => Holding = HoldingBy(registered, known, parent)
  BY HoldingReads
<1>3. Inv => \A e \in Holding : \E d \in Holding \cap reporting : SamePair(d, e)
  <2> SUFFICES ASSUME Inv, NEW e \in Holding
               PROVE  \E d \in Holding \cap reporting : SamePair(d, e)
    OBVIOUS
  <2>1. e \in HoldingBy(registered, known, parent) /\ e \in known
    BY <1>2 DEF Holding
  <2>2. PICK d \in reporting : SamePair(d, e) /\ d \in known
    BY <2>1 DEF Inv, Words, Heard
  <2>3. d \in HoldingBy(registered, known, parent)
    BY <2>1, <2>2 DEF SamePair, HoldingBy
  <2> QED
    BY <1>2, <2>2, <2>3
<1>4. Inv' => /\ Holding' = HoldingBy(registered', known', parent')
              /\ \A e \in Holding' : \E d \in Holding' \cap reporting' : SamePair(d, e)
  <2>1. Inv' => /\ (Holding = HoldingBy(registered, known, parent))'
                /\ (\A e \in Holding : \E d \in Holding \cap reporting : SamePair(d, e))'
    BY <1>2, <1>3, PTL
  <2> QED
    BY <2>1 DEF SamePair
<1>5. ASSUME Inv', props' = (Holding' \ Held) \cap reporting', Paired(Held, known'), NEW e \in Holding' \ Held
      PROVE  \E d \in props' : SamePair(d, e)
  <2>1. PICK d \in Holding' \cap reporting' : SamePair(d, e)
    BY <1>4, <1>5
  <2>2. d \notin Held
    BY <1>5, <2>1 DEF Paired, Holding
  <2> QED
    BY <1>5, <2>1, <2>2
<1>6. Inv /\ NoneMissed /\ Inv' /\ [EarlyNext]_tracedVars =>
        [Ends => /\ props' = (Holding' \ Held) \cap reporting'
                 /\ \A e \in Holding' \ Held : \E d \in props' : SamePair(d, e)]_tracedVars
  BY <1>1, <1>4, <1>5
<1> QED
  BY <1>6, EarlyInvariance, PTL DEF EarlySpec, PropagationsComplete

==============================================================================
