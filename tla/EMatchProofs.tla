----------------------------- MODULE EMatchProofs -----------------------------
(***************************************************************************)
(* What a call of the E-matcher finds, for all terms, equalities, rules and  *)
(* budgets: nothing but matches, and all of them unless it was cut.        *)
(***************************************************************************)
EXTENDS EMatch, FiniteSetTheorems, SequenceTheorems, WellFoundedInduction, TLAPS

(***************************************************************************)
(* Recursion over expressions.                                             *)
(***************************************************************************)
\* A set of numbers has a least member.
LEMMA LeastOf ==
    ASSUME NEW S, S \subseteq Nat, S # {}
    PROVE  \E n \in S : \A m \in S : n <= m
<1> DEFINE Less == {ss \in Nat \X Nat : ss[1] < ss[2]}
<1>1. IsWellFoundedOn(Less, Nat)
  BY NatLessThanWellFounded DEF OpToRel
<1>2. PICK n \in S : \A m \in S : ~(<<m, n>> \in Less)
  <2> HIDE DEF Less
  <2> QED
    BY <1>1, WFMin
<1>3. ASSUME NEW m \in S
      PROVE  n <= m
  <2>1. ~(m < n)
    BY <1>2
  <2> QED
    BY <2>1
<1> QED
  BY <1>3

\* A set of expressions has a member none of whose arguments is one.
LEMMA SmallestOf ==
    ASSUME NEW S, S \subseteq Exprs, S # {}
    PROVE  \E e \in S : \A i \in DOMAIN ArgsOf[e] : ArgsOf[e][i] \notin S
<1> DEFINE N == {Size[e] : e \in S}
<1>1. PICK n \in N : \A m \in N : n <= m
  <2>1. N \subseteq Nat /\ N # {}
    BY EMatchAssumption
  <2> HIDE DEF N
  <2> QED
    BY <2>1, LeastOf
<1>2. PICK e \in S : n = Size[e]
  OBVIOUS
<1>3. ASSUME NEW i \in DOMAIN ArgsOf[e], ArgsOf[e][i] \in S
      PROVE  FALSE
  <2>1. Size[ArgsOf[e][i]] < Size[e] /\ Size[ArgsOf[e][i]] \in Nat /\ Size[e] \in Nat
    BY <1>3, EMatchAssumption
  <2>2. Size[e] <= Size[ArgsOf[e][i]]
    BY <1>1, <1>2, <1>3
  <2> QED
    BY <2>1, <2>2
<1> QED
  BY <1>3

\* A monotone step on set-valued functions has a fixed point.
Monotone(G, E, C) ==
    /\ G \in [[E -> SUBSET C] -> [E -> SUBSET C]]
    /\ \A f, g \in [E -> SUBSET C] : (\A e \in E : f[e] \subseteq g[e]) => \A e \in E : G[f][e] \subseteq G[g][e]

LEMMA FixedPoint ==
    ASSUME NEW E, NEW C, NEW G, Monotone(G, E, C)
    PROVE  \E f \in [E -> SUBSET C] : G[f] = f
<1> USE DEF Monotone
<1> DEFINE F == [E -> SUBSET C]
           closed(g) == \A e \in E : G[g][e] \subseteq g[e]
           least == [e \in E |-> {c \in C : \A g \in F : closed(g) => c \in g[e]}]
<1>1. least \in F
  OBVIOUS
<1>2. ASSUME NEW g \in F, closed(g)
      PROVE  \A e \in E : least[e] \subseteq g[e]
  BY <1>2
<1> HIDE DEF least
<1>3. closed(least)
  <2>1. ASSUME NEW e \in E, NEW c \in G[least][e]
        PROVE  c \in least[e]
    <3>1. c \in C
      BY <1>1, <2>1
    <3>2. ASSUME NEW g \in F, closed(g)
          PROVE  c \in g[e]
      <4>1. G[least][e] \subseteq G[g][e]
        BY <1>1, <1>2, <3>2
      <4> QED
        BY <4>1, <2>1, <3>2
    <3> QED
      BY <3>1, <3>2 DEF least
  <2> QED
    BY <2>1
<1>4. G[least] \in F
  BY <1>1
<1>5. closed(G[least])
  BY <1>1, <1>3, <1>4
<1>6. \A e \in E : least[e] \subseteq G[least][e]
  BY <1>2, <1>4, <1>5
<1>7. \A e \in E : least[e] = G[least][e]
  BY <1>3, <1>6
<1>8. least = G[least]
  BY <1>1, <1>4, <1>7
<1> QED
  BY <1>1, <1>8

LEMMA SubtermsUnfold ==
    \A e \in Exprs : Subterms[e] = {e} \cup UNION {Subterms[ArgsOf[e][i]] : i \in DOMAIN ArgsOf[e]}
<1> DEFINE F == [Exprs -> SUBSET Exprs]
           step(f) == [e \in Exprs |-> {e} \cup UNION {f[ArgsOf[e][i]] : i \in DOMAIN ArgsOf[e]}]
           G == [f \in F |-> step(f)]
<1>1. \A e \in Exprs : \A i \in DOMAIN ArgsOf[e] : ArgsOf[e][i] \in Exprs
  BY EMatchAssumption, ElementOfSeq
<1>2. G \in [F -> F]
  BY <1>1
<1>3. ASSUME NEW f \in F, NEW g \in F, \A e \in Exprs : f[e] \subseteq g[e]
      PROVE  \A e \in Exprs : G[f][e] \subseteq G[g][e]
  BY <1>1, <1>3
<1>4. \E f \in F : G[f] = f
  <2>1. Monotone(G, Exprs, Exprs)
    BY <1>2, <1>3 DEF Monotone
  <2> HIDE DEF G
  <2> QED
    BY <2>1, FixedPoint
<1>5. \E f : f = step(f)
  BY <1>4
<1>6. Subterms = step(Subterms)
  BY <1>5, Zenon DEF Subterms
<1> QED
  BY <1>6

LEMMA VariablesOfFacts ==
    /\ \A x \in Variables : VariablesOf(x) = {x}
    /\ \A e \in Exprs : \A i \in DOMAIN ArgsOf[e] : VariablesOf(ArgsOf[e][i]) \subseteq VariablesOf(e)
    /\ \A e \in Exprs \ Variables : VariablesOf(e) = UNION {VariablesOf(ArgsOf[e][i]) : i \in DOMAIN ArgsOf[e]}
<1>1. \A x \in Variables : ArgsOf[x] = <<>> /\ x \in Exprs
  BY EMatchAssumption
<1>2. \A x \in Variables : Subterms[x] = {x}
  <2>1. \A x \in Variables : DOMAIN ArgsOf[x] = {}
    BY <1>1
  <2> QED
    BY <1>1, <2>1, SubtermsUnfold
<1> QED
  BY <1>2, SubtermsUnfold DEF VariablesOf

(***************************************************************************)
(* What an expression denotes.                                             *)
(***************************************************************************)
\* The application y may stand for e, where den says what the arguments denote.
Stands(y, e, den) ==
    Decl[y] = Decl[e] /\ \A i \in DOMAIN ArgsOf[e] : class[ArgsOf[y][i]] \in den[ArgsOf[e][i]]

LEMMA DenotedUnfold ==
    ASSUME NEW theta, NEW e \in Exprs
    PROVE  Denoted(theta)[e] = IF e \in Variables THEN {class[theta[x]] : x \in {e} \cap DOMAIN theta}
                               ELSE {class[y] : y \in {z \in Range(apps) : Stands(z, e, Denoted(theta))}}
<1> DEFINE C == {class[theta[x]] : x \in DOMAIN theta} \cup {class[y] : y \in Range(apps)}
           F == [Exprs -> SUBSET C]
           step(f) == [d \in Exprs |->
              IF d \in Variables THEN {class[theta[x]] : x \in {d} \cap DOMAIN theta}
              ELSE {class[x] : x \in {y \in Range(apps) :
                  /\ Decl[y] = Decl[d]
                  /\ \A i \in DOMAIN ArgsOf[d] : class[ArgsOf[y][i]] \in f[ArgsOf[d][i]]}}]
           G == [f \in F |-> step(f)]
<1>1. \A d \in Exprs : \A i \in DOMAIN ArgsOf[d] : ArgsOf[d][i] \in Exprs
  BY EMatchAssumption, ElementOfSeq
<1>2. G \in [F -> F]
  <2>1. ASSUME NEW f \in F
        PROVE  step(f) \in F
    <3>1. ASSUME NEW d \in Exprs
          PROVE  step(f)[d] \subseteq C
      OBVIOUS
    <3> QED
      BY <3>1
  <2> QED
    BY <2>1
<1>3. ASSUME NEW f \in F, NEW g \in F, \A d \in Exprs : f[d] \subseteq g[d]
      PROVE  \A d \in Exprs : G[f][d] \subseteq G[g][d]
  BY <1>1, <1>3
<1>4. \E f \in F : G[f] = f
  <2>1. Monotone(G, Exprs, C)
    BY <1>2, <1>3 DEF Monotone
  <2> HIDE DEF G, C
  <2> QED
    BY <2>1, FixedPoint
<1>5. \E f : f = step(f)
  BY <1>4
<1>6. Denoted(theta) = step(Denoted(theta))
  BY <1>5, Zenon DEF Denoted
<1> QED
  BY <1>6 DEF Stands

LEMMA DenotedVariable ==
    \A theta : \A x \in Variables :
      Denoted(theta)[x] = IF x \in DOMAIN theta THEN {class[theta[x]]} ELSE {}
<1> TAKE theta
<1> TAKE x \in Variables
<1>1. x \in Exprs
  BY EMatchAssumption
<1>2. Denoted(theta)[x] = {class[theta[z]] : z \in {x} \cap DOMAIN theta}
  BY <1>1, DenotedUnfold
<1> QED
  BY <1>2

LEMMA DenotedApp ==
    \A theta : \A e \in Exprs \ Variables : \A c :
      c \in Denoted(theta)[e] <=> \E y \in Range(apps) : Stands(y, e, Denoted(theta)) /\ class[y] = c
<1> TAKE theta
<1> TAKE e \in Exprs \ Variables
<1>1. Denoted(theta)[e] = {class[y] : y \in {z \in Range(apps) : Stands(z, e, Denoted(theta))}}
  BY DenotedUnfold
<1> QED
  BY <1>1

\* The binding theta says of the variables what base says, and perhaps more.
Extends(theta, base) == \A x \in DOMAIN base : x \in DOMAIN theta /\ theta[x] = base[x]

LEMMA DenotedGrows ==
    ASSUME NEW theta, NEW base, Extends(theta, base)
    PROVE  \A e \in Exprs : Denoted(base)[e] \subseteq Denoted(theta)[e]
<1> DEFINE S == {e \in Exprs : ~(Denoted(base)[e] \subseteq Denoted(theta)[e])}
<1>1. SUFFICES ASSUME S # {} PROVE FALSE
  OBVIOUS
<1>2. PICK e \in S : \A i \in DOMAIN ArgsOf[e] : ArgsOf[e][i] \notin S
  <2> HIDE DEF S
  <2>1. S \subseteq Exprs
    BY DEF S
  <2> QED
    BY <1>1, <2>1, SmallestOf
<1>3. \A i \in DOMAIN ArgsOf[e] : Denoted(base)[ArgsOf[e][i]] \subseteq Denoted(theta)[ArgsOf[e][i]]
  BY <1>2, EMatchAssumption, ElementOfSeq
<1>4. Denoted(base)[e] \subseteq Denoted(theta)[e]
  <2>1. CASE e \in Variables
    BY <2>1, DenotedVariable DEF Extends
  <2>2. CASE e \notin Variables
    <3>1. \A y \in Range(apps) : Stands(y, e, Denoted(base)) => Stands(y, e, Denoted(theta))
      BY <1>3 DEF Stands
    <3> QED
      BY <2>2, <3>1, DenotedApp
  <2> QED
    BY <2>1, <2>2
<1> QED
  BY <1>4

LEMMA DenotedBinds ==
    ASSUME NEW theta
    PROVE  \A e \in Exprs : Denoted(theta)[e] # {} => VariablesOf(e) \subseteq DOMAIN theta
<1> DEFINE S == {e \in Exprs : Denoted(theta)[e] # {} /\ ~(VariablesOf(e) \subseteq DOMAIN theta)}
<1>1. SUFFICES ASSUME S # {} PROVE FALSE
  OBVIOUS
<1>2. PICK e \in S : \A i \in DOMAIN ArgsOf[e] : ArgsOf[e][i] \notin S
  <2> HIDE DEF S
  <2>1. S \subseteq Exprs
    BY DEF S
  <2> QED
    BY <1>1, <2>1, SmallestOf
<1>3. \A i \in DOMAIN ArgsOf[e] :
        Denoted(theta)[ArgsOf[e][i]] # {} => VariablesOf(ArgsOf[e][i]) \subseteq DOMAIN theta
  <2>1. \A i \in DOMAIN ArgsOf[e] : ArgsOf[e][i] \in Exprs
    BY EMatchAssumption, ElementOfSeq
  <2> QED
    BY <1>2, <2>1
<1>5. e \in Exprs /\ Denoted(theta)[e] # {}
  OBVIOUS
<1> HIDE DEF S
<1>4. VariablesOf(e) \subseteq DOMAIN theta
  <2>1. CASE e \in Variables
    <3>1. e \in DOMAIN theta
      BY <1>5, <2>1, DenotedVariable
    <3>2. VariablesOf(e) = {e}
      BY <2>1, VariablesOfFacts
    <3> QED
      BY <3>1, <3>2
  <2>2. CASE e \notin Variables
    <3>1. PICK y \in Range(apps) : Stands(y, e, Denoted(theta))
      BY <1>5, <2>2, DenotedApp
    <3>2. \A i \in DOMAIN ArgsOf[e] : VariablesOf(ArgsOf[e][i]) \subseteq DOMAIN theta
      BY <1>3, <3>1 DEF Stands
    <3> QED
      BY <1>5, <2>2, <3>2, VariablesOfFacts
  <2> QED
    BY <2>1, <2>2
<1> QED
  BY <1>4 DEF S

(***************************************************************************)
(* Frames: what the bindings of a frame have met, and who called it.       *)
(***************************************************************************)
\* The bindings of a search of a pattern.
PatternVars(pattern) == UNION {VariablesOf(pattern[i]) : i \in DOMAIN pattern}
Partial(pattern) == UNION {[D -> Range(apps)] : D \in SUBSET PatternVars(pattern)}

\* The expression at place k of frame F denotes under theta what it has to meet.
Met(F, k, theta) ==
    IF F.outer THEN Denoted(theta)[F.pats[k]] # {}
    ELSE class[F.targets[k]] \in Denoted(theta)[F.pats[k]]

Frames(pattern) ==
    [outer : BOOLEAN, pats : Seq(Exprs), targets : Seq(Range(apps)), place : Nat,
     thetas : Seq(Partial(pattern)), next : Seq(Partial(pattern)), at : Nat]

FrameOK(F, pattern) ==
    /\ F \in Frames(pattern)
    /\ F.at # 0 /\ F.place \in 1 .. Len(F.pats) + 1
    /\ IF F.outer THEN F.pats = pattern /\ F.place \in DOMAIN F.pats
       ELSE Len(F.targets) = Len(F.pats) /\ (F.place \notin DOMAIN F.pats => F.next = <<>>)
    /\ \A k \in DOMAIN F.pats : VariablesOf(F.pats[k]) \subseteq PatternVars(pattern)
    /\ F.thetas = <<>> \/ F.place \notin DOMAIN F.pats \/ F.pats[F.place] \in Variables => F.at = 1
    /\ \A theta \in Range(F.thetas), k \in DOMAIN F.pats : k < F.place => Met(F, k, theta)
    /\ \A theta \in Range(F.next), k \in DOMAIN F.pats : k <= F.place => Met(F, k, theta)

\* The application x may meet the expression at which frame F stands.
MeetsAt(F, x) ==
    Decl[x] = Decl[F.pats[F.place]] /\ (F.outer \/ class[x] = class[F.targets[F.place]])

\* Frame F stands above frame G: it matches the arguments of an application that G considers.
Above(F, G) ==
    IF F.outer THEN G.outer
    ELSE /\ G.place \in DOMAIN G.pats /\ G.pats[G.place] \notin Variables /\ G.thetas # <<>>
         /\ \E x \in Range(apps) : /\ MeetsAt(G, x)
                                    /\ F.pats = ArgsOf[G.pats[G.place]] /\ F.targets = ArgsOf[x]
         /\ \A theta \in Range(F.thetas) \cup Range(F.next) : Extends(theta, Head(G.thetas))

StackOK(st, pattern) ==
    /\ st \in Seq(Frames(pattern)) /\ \A d \in DOMAIN st : FrameOK(st[d], pattern)
    /\ \A d \in DOMAIN st : IF d = Len(st) THEN st[d].outer ELSE Above(st[d], st[d + 1])

\* A sequence of which only members and their order matter.
LEMMA ConsFacts ==
    ASSUME NEW S, NEW st \in Seq(S), NEW F \in S
    PROVE  LET new == <<F>> \o st
           IN  /\ new \in Seq(S) /\ Len(new) = Len(st) + 1 /\ DOMAIN new = 1 .. Len(st) + 1
               /\ new[1] = F /\ \A d \in 1 .. Len(st) : new[d + 1] = st[d]
               /\ new # <<>> /\ Head(new) = F /\ Tail(new) = st
  OBVIOUS

LEMMA TailFacts ==
    ASSUME NEW S, NEW st \in Seq(S), st # <<>>
    PROVE  /\ Head(st) \in S /\ Head(st) = st[1] /\ Tail(st) \in Seq(S) /\ Len(st) \in Nat \ {0}
           /\ Len(Tail(st)) = Len(st) - 1 /\ DOMAIN Tail(st) = 1 .. Len(st) - 1
           /\ \A d \in DOMAIN Tail(st) : Tail(st)[d] = st[d + 1]
           /\ st = <<Head(st)>> \o Tail(st)
  OBVIOUS

LEMMA StackPush ==
    ASSUME NEW pattern, NEW st, StackOK(st, pattern), NEW F, FrameOK(F, pattern),
           IF st = <<>> THEN F.outer ELSE Above(F, st[1])
    PROVE  StackOK(<<F>> \o st, pattern)
<1>1. st \in Seq(Frames(pattern)) /\ F \in Frames(pattern)
  BY DEF StackOK, FrameOK
<1> DEFINE new == <<F>> \o st
<1>2. /\ new \in Seq(Frames(pattern)) /\ Len(new) = Len(st) + 1 /\ DOMAIN new = 1 .. Len(st) + 1
      /\ new[1] = F /\ \A d \in 1 .. Len(st) : new[d + 1] = st[d]
  BY <1>1, ConsFacts
<1>3. Len(st) \in Nat /\ DOMAIN st = 1 .. Len(st)
  BY <1>1
<1> HIDE DEF new
<1>4. ASSUME NEW d \in DOMAIN new
      PROVE  FrameOK(new[d], pattern) /\ IF d = Len(new) THEN new[d].outer ELSE Above(new[d], new[d + 1])
  <2>1. CASE d = 1
    BY <1>1, <1>2, <1>3, <2>1
  <2>2. CASE d # 1
    <3>1. d - 1 \in DOMAIN st /\ new[d] = st[d - 1] /\ (d # Len(new) => new[d + 1] = st[d] /\ d - 1 # Len(st))
      BY <1>2, <1>3, <2>2
    <3> QED
      BY <1>2, <1>3, <3>1 DEF StackOK
  <2> QED
    BY <2>1, <2>2
<1> QED
  BY <1>2, <1>4 DEF StackOK, new

LEMMA StackPop ==
    ASSUME NEW pattern, NEW st, StackOK(st, pattern), st # <<>>
    PROVE  StackOK(Tail(st), pattern)
<1>1. st \in Seq(Frames(pattern))
  BY DEF StackOK
<1> DEFINE new == Tail(st)
<1>2. /\ new \in Seq(Frames(pattern)) /\ Len(st) \in Nat \ {0}
      /\ Len(new) = Len(st) - 1 /\ DOMAIN new = 1 .. Len(st) - 1
      /\ \A d \in DOMAIN new : new[d] = st[d + 1]
  BY <1>1, TailFacts
<1>3. DOMAIN st = 1 .. Len(st)
  BY <1>1
<1> HIDE DEF new
<1>4. ASSUME NEW d \in DOMAIN new
      PROVE  FrameOK(new[d], pattern) /\ IF d = Len(new) THEN new[d].outer ELSE Above(new[d], new[d + 1])
  <2>1. d + 1 \in DOMAIN st /\ new[d] = st[d + 1] /\ (d # Len(new) => new[d + 1] = st[d + 2])
    BY <1>2, <1>3
  <2> QED
    BY <1>2, <1>3, <2>1 DEF StackOK
<1> QED
  BY <1>2, <1>4 DEF StackOK, new

LEMMA StackReplace ==
    ASSUME NEW pattern, NEW st, StackOK(st, pattern), st # <<>>, NEW F, FrameOK(F, pattern),
           IF Tail(st) = <<>> THEN F.outer ELSE Above(F, Tail(st)[1])
    PROVE  StackOK(<<F>> \o Tail(st), pattern)
  BY StackPop, StackPush

LEMMA RangeTail ==
    ASSUME NEW S, NEW s \in Seq(S), s # <<>>
    PROVE  Range(s) = {Head(s)} \cup Range(Tail(s)) /\ Range(s) \subseteq S
<1>1. /\ Head(s) = s[1] /\ DOMAIN s = 1 .. Len(s) /\ Len(s) \in Nat \ {0} /\ DOMAIN Tail(s) = 1 .. Len(s) - 1
      /\ \A d \in DOMAIN Tail(s) : Tail(s)[d] = s[d + 1]
  BY TailFacts
<1>2. \A d \in DOMAIN s : d = 1 \/ (d - 1 \in DOMAIN Tail(s) /\ Tail(s)[d - 1] = s[d])
  BY <1>1
<1> QED
  BY <1>1, <1>2 DEF Range

LEMMA RangeConcat ==
    ASSUME NEW S, NEW s \in Seq(S), NEW t \in Seq(S)
    PROVE  Range(s \o t) = Range(s) \cup Range(t) /\ s \o t \in Seq(S)
<1> DEFINE u == s \o t
<1>1. /\ u \in Seq(S) /\ Len(u) = Len(s) + Len(t) /\ Len(s) \in Nat /\ Len(t) \in Nat
      /\ DOMAIN u = 1 .. Len(s) + Len(t) /\ DOMAIN s = 1 .. Len(s) /\ DOMAIN t = 1 .. Len(t)
      /\ \A d \in 1 .. Len(s) : u[d] = s[d]
      /\ \A d \in 1 .. Len(t) : u[Len(s) + d] = t[d]
  OBVIOUS
<1> HIDE DEF u
<1>2. \A d \in DOMAIN u : d \in DOMAIN s \/ (d - Len(s) \in DOMAIN t /\ u[d] = t[d - Len(s)])
  <2> TAKE d \in DOMAIN u
  <2>1. d \notin DOMAIN s => d - Len(s) \in 1 .. Len(t) /\ Len(s) + (d - Len(s)) = d
    BY <1>1
  <2> QED
    BY <1>1, <2>1
<1>3. \A d \in DOMAIN t : Len(s) + d \in DOMAIN u
  BY <1>1
<1>4. \A d \in DOMAIN s : d \in DOMAIN u
  BY <1>1
<1>5. Range(u) = Range(s) \cup Range(t)
  BY <1>1, <1>2, <1>3, <1>4 DEF Range
<1> QED
  BY <1>1, <1>5 DEF u

LEMMA RangeFew ==
    /\ Range(<<>>) = {}
    /\ \A a : Range(<<a>>) = {a}
  BY DEF Range

(***************************************************************************)
(* What the other steps leave as it is.                                    *)
(***************************************************************************)
LEMMA DenotedSame ==
    ASSUME UNCHANGED <<apps, class>>
    PROVE  \A theta : Denoted(theta)' = Denoted(theta)
  BY SMT DEF Denoted

LEMMA StackSame ==
    ASSUME UNCHANGED <<apps, class>>
    PROVE  \A st, pattern : StackOK(st, pattern)' <=> StackOK(st, pattern)
<1>1. \A F, k, theta : Met(F, k, theta)' <=> Met(F, k, theta)
  BY DenotedSame DEF Met
<1>2. \A pattern : Frames(pattern)' = Frames(pattern)
  BY DEF Frames, Partial
<1>3. \A F, pattern : FrameOK(F, pattern)' <=> FrameOK(F, pattern)
  BY <1>1, <1>2 DEF FrameOK
<1>4. \A F, G : Above(F, G)' <=> Above(F, G)
  BY DEF Above, MeetsAt
<1> QED
  BY <1>2, <1>3, <1>4 DEF StackOK

LEMMA ExtendsFacts ==
    /\ \A theta : Extends(theta, theta)
    /\ \A theta, base, bottom : Extends(theta, base) /\ Extends(base, bottom) => Extends(theta, bottom)
  BY DEF Extends

LEMMA MetGrows ==
    ASSUME NEW pattern, NEW F, FrameOK(F, pattern), NEW k \in DOMAIN F.pats,
           NEW theta, NEW base, Extends(theta, base), Met(F, k, base)
    PROVE  Met(F, k, theta)
<1>1. F.pats[k] \in Exprs
  BY ElementOfSeq DEF FrameOK, Frames
<1>2. Denoted(base)[F.pats[k]] \subseteq Denoted(theta)[F.pats[k]]
  BY <1>1, DenotedGrows
<1> QED
  BY <1>2 DEF Met

\* The loop at the top of a stack may change its bindings into what extends them.
LEMMA SameLoop ==
    ASSUME NEW pattern, NEW st, StackOK(st, pattern), st # <<>>, NEW F, FrameOK(F, pattern),
           F.outer = Head(st).outer, F.pats = Head(st).pats, F.targets = Head(st).targets,
           \A theta \in Range(F.thetas) \cup Range(F.next) :
             \E base \in Range(Head(st).thetas) \cup Range(Head(st).next) : Extends(theta, base)
    PROVE  StackOK(<<F>> \o Tail(st), pattern)
<1>1. /\ st \in Seq(Frames(pattern)) /\ Head(st) = st[1] /\ Len(st) \in Nat \ {0}
      /\ DOMAIN st = 1 .. Len(st) /\ Tail(st) \in Seq(Frames(pattern)) /\ Len(Tail(st)) = Len(st) - 1
      /\ \A d \in DOMAIN Tail(st) : Tail(st)[d] = st[d + 1]
      /\ DOMAIN Tail(st) = 1 .. Len(st) - 1
  <2>1. st \in Seq(Frames(pattern))
    BY DEF StackOK
  <2> QED
    BY <2>1, TailFacts
<1>2. IF 1 = Len(st) THEN st[1].outer ELSE Above(st[1], st[2])
  BY <1>1 DEF StackOK
<1>3. CASE Tail(st) = <<>>
  <2>1. Len(st) = 1
    BY <1>1, <1>3
  <2> QED
    BY <1>1, <1>2, <1>3, <2>1, StackReplace
<1>4. CASE Tail(st) # <<>>
  <2>1. Len(st) # 1 /\ Tail(st)[1] = st[2]
    <3>1. Len(Tail(st)) # 0
      BY <1>1, <1>4, EmptySeq
    <3> QED
      BY <1>1, <3>1
  <2>2. Above(Head(st), st[2])
    BY <1>1, <1>2, <2>1
  <2>3. Above(F, st[2])
    <3>1. ASSUME NEW theta \in Range(F.thetas) \cup Range(F.next), ~F.outer
          PROVE  Extends(theta, Head(st[2].thetas))
      BY <2>2, <3>1, ExtendsFacts DEF Above
    <3> QED
      BY <2>2, <3>1 DEF Above
  <2> QED
    BY <1>4, <2>1, <2>3, StackReplace
<1> QED
  BY <1>3, <1>4

LEMMA PartialFacts ==
    ASSUME NEW pattern
    PROVE  /\ \A theta : theta \in Partial(pattern) <=>
                DOMAIN theta \subseteq PatternVars(pattern) /\ theta \in [DOMAIN theta -> Range(apps)]
           /\ \A theta \in Partial(pattern), x \in PatternVars(pattern), t \in Range(apps) :
                Bind(theta, x, t) \in Partial(pattern)
           /\ \A theta, x, t : x \notin DOMAIN theta => Extends(Bind(theta, x, t), theta)
           /\ \A theta, x, t : x \in DOMAIN Bind(theta, x, t) /\ Bind(theta, x, t)[x] = t
<1>1. \A theta : theta \in Partial(pattern) <=>
        DOMAIN theta \subseteq PatternVars(pattern) /\ theta \in [DOMAIN theta -> Range(apps)]
  BY DEF Partial
<1>2. ASSUME NEW theta \in Partial(pattern), NEW x \in PatternVars(pattern), NEW t \in Range(apps)
      PROVE  Bind(theta, x, t) \in Partial(pattern)
  <2>1. DOMAIN Bind(theta, x, t) = DOMAIN theta \cup {x}
    BY DEF Bind
  <2>2. \A y \in DOMAIN theta : theta[y] \in Range(apps)
    BY <1>1
  <2>3. Bind(theta, x, t) \in [DOMAIN theta \cup {x} -> Range(apps)]
    BY <2>2 DEF Bind
  <2> QED
    BY <1>1, <2>1, <2>3
<1>3. \A theta, x, t : x \notin DOMAIN theta => Extends(Bind(theta, x, t), theta)
  BY DEF Bind, Extends
<1>4. \A theta, x, t : x \in DOMAIN Bind(theta, x, t) /\ Bind(theta, x, t)[x] = t
  BY DEF Bind
<1> QED
  BY <1>1, <1>2, <1>3, <1>4

\* What there is on a stack: the loop at its top, well formed.
LEMMA TopFacts ==
    ASSUME NEW pattern, StackOK(stack, pattern), stack # <<>>
    PROVE  /\ FrameOK(Top, pattern) /\ Top \in Frames(pattern) /\ Top = stack[1]
           /\ stack \in Seq(Frames(pattern)) /\ DOMAIN Top.pats = 1 .. Len(Top.pats)
           /\ \A k \in DOMAIN Top.pats : Top.pats[k] \in Exprs
           /\ ~Top.outer => DOMAIN Top.targets = DOMAIN Top.pats
           /\ ~Top.outer => \A k \in DOMAIN Top.pats : Top.targets[k] \in Range(apps)
<1>1. stack \in Seq(Frames(pattern)) /\ DOMAIN stack = 1 .. Len(stack)
  BY DEF StackOK
<1>2. Top = stack[1] /\ Top \in Frames(pattern) /\ FrameOK(Top, pattern)
  <2>1. Len(stack) \in Nat \ {0} /\ Head(stack) = stack[1]
    BY <1>1, TailFacts
  <2> QED
    BY <1>1, <2>1 DEF StackOK, Top
<1>3. Top.pats \in Seq(Exprs) /\ Top.targets \in Seq(Range(apps))
  BY <1>2 DEF Frames
<1>4. ~Top.outer => Len(Top.targets) = Len(Top.pats)
  BY <1>2 DEF FrameOK
<1> QED
  BY <1>1, <1>2, <1>3, <1>4, ElementOfSeq

LEMMA BindingsNext ==
    ASSUME NEW pattern, NEW F, FrameOK(F, pattern), F.thetas # <<>>
    PROVE  /\ Head(F.thetas) \in Partial(pattern) /\ Tail(F.thetas) \in Seq(Partial(pattern))
           /\ Range(F.thetas) = {Head(F.thetas)} \cup Range(Tail(F.thetas))
           /\ Range(F.thetas) \subseteq Partial(pattern)
           /\ F.next \in Seq(Partial(pattern))
<1>1. F.thetas \in Seq(Partial(pattern)) /\ F.next \in Seq(Partial(pattern))
  BY DEF FrameOK, Frames
<1> HIDE DEF Partial
<1> QED
  BY <1>1, TailFacts, RangeTail

LEMMA StackMatchVariable ==
    ASSUME NEW pattern \in Seq(Exprs \ Variables), StackOK(stack, pattern), MatchVariable
    PROVE  StackOK(stack', pattern)
<1> DEFINE x == Pattern
           t == Top.targets[Top.place]
           made == IF x \notin DOMAIN Theta THEN <<Bind(Theta, x, t)>>
                   ELSE IF Agrees(Theta, x, t) THEN <<Theta>> ELSE <<>>
           F == [Top EXCEPT !.thetas = Tail(@), !.next = @ \o made]
<1>1. /\ stack # <<>> /\ Top.place \in DOMAIN Top.pats /\ Top.thetas # <<>>
      /\ x \in Variables /\ stack' = <<F>> \o Tail(stack) /\ x = Top.pats[Top.place]
  BY DEF MatchVariable, Waiting, Replace, Pattern
<1>2. /\ FrameOK(Top, pattern) /\ Top \in Frames(pattern) /\ DOMAIN Top.pats = 1 .. Len(Top.pats)
      /\ ~Top.outer => \A k \in DOMAIN Top.pats : Top.targets[k] \in Range(apps)
  BY <1>1, TopFacts
<1>3. ~Top.outer
  <2>1. Top.outer => Top.pats = pattern
    BY <1>2 DEF FrameOK
  <2>2. \A k \in DOMAIN pattern : pattern[k] \notin Variables
    BY ElementOfSeq
  <2> QED
    BY <1>1, <2>1, <2>2
<1>4. t \in Range(apps) /\ VariablesOf(x) = {x} /\ x \in PatternVars(pattern)
  <2>1. VariablesOf(x) = {x}
    BY <1>1, VariablesOfFacts
  <2>2. VariablesOf(x) \subseteq PatternVars(pattern)
    BY <1>1, <1>2 DEF FrameOK
  <2> QED
    BY <1>1, <1>2, <1>3, <2>1, <2>2
<1>5. /\ Theta \in Partial(pattern) /\ Tail(Top.thetas) \in Seq(Partial(pattern)) /\ Theta \in Range(Top.thetas)
      /\ Range(Tail(Top.thetas)) \subseteq Range(Top.thetas) /\ Top.next \in Seq(Partial(pattern))
  BY <1>1, <1>2, BindingsNext DEF Theta
<1>6. made \in Seq(Partial(pattern))
  <2>1. Bind(Theta, x, t) \in Partial(pattern)
    BY <1>4, <1>5, PartialFacts
  <2> QED
    BY <1>5, <2>1
<1>7. \A theta \in Range(made) : Extends(theta, Theta) /\ x \in DOMAIN theta /\ class[theta[x]] = class[t]
  <2>1. CASE x \notin DOMAIN Theta
    <3>1. Range(made) = {Bind(Theta, x, t)}
      BY <2>1, RangeFew
    <3> QED
      BY <2>1, <3>1, PartialFacts
  <2>2. CASE x \in DOMAIN Theta /\ Agrees(Theta, x, t)
    <3>1. Range(made) = {Theta}
      BY <2>2, RangeFew
    <3> QED
      BY <2>2, <3>1, ExtendsFacts DEF Agrees
  <2>3. CASE x \in DOMAIN Theta /\ ~Agrees(Theta, x, t)
    BY <2>3, RangeFew
  <2> QED
    BY <2>1, <2>2, <2>3
<1> HIDE DEF made
<1>8. Range(F.next) = Range(Top.next) \cup Range(made) /\ F.next \in Seq(Partial(pattern))
  <2>1. F.next = Top.next \o made
    BY <1>2 DEF Frames
  <2> QED
    BY <1>5, <1>6, <2>1, RangeConcat
<1>9. /\ F.outer = Top.outer /\ F.pats = Top.pats /\ F.targets = Top.targets /\ F.place = Top.place
      /\ F.thetas = Tail(Top.thetas) /\ F.at = Top.at /\ F \in Frames(pattern)
  BY <1>2, <1>5, <1>8 DEF Frames
<1> HIDE DEF F
<1>10. \A k, theta : Met(F, k, theta) <=> Met(Top, k, theta)
  BY <1>9 DEF Met
<1>11. ASSUME NEW theta \in Range(made), NEW k \in DOMAIN Top.pats, k <= Top.place
       PROVE  Met(Top, k, theta)
  <2>1. CASE k < Top.place
    <3>1. Met(Top, k, Theta)
      BY <1>2, <1>5, <2>1 DEF FrameOK
    <3> QED
      BY <1>2, <1>7, <3>1, MetGrows
  <2>2. CASE k = Top.place
    <3> HIDE DEF x, t
    <3>1. Denoted(theta)[x] = {class[theta[x]]}
      <4>1. x \in Variables
        BY <1>1
      <4>2. x \in DOMAIN theta
        BY <1>7
      <4>3. Denoted(theta)[x] = IF x \in DOMAIN theta THEN {class[theta[x]]} ELSE {}
        BY <4>1, DenotedVariable
      <4> QED
        BY <4>2, <4>3
    <3>2. class[theta[x]] = class[t]
      BY <1>7
    <3> QED
      BY <1>1, <1>3, <2>2, <3>1, <3>2 DEF Met, t
  <2>3. k \in Nat /\ Top.place \in Nat
    BY <1>1, <1>2
  <2> QED
    BY <1>11, <2>1, <2>2, <2>3
<1>12. FrameOK(F, pattern)
  <2>1. \A theta \in Range(F.thetas), k \in DOMAIN F.pats : k < F.place => Met(F, k, theta)
    BY <1>2, <1>5, <1>9, <1>10 DEF FrameOK
  <2>2. \A theta \in Range(F.next), k \in DOMAIN F.pats : k <= F.place => Met(F, k, theta)
    BY <1>2, <1>8, <1>9, <1>10, <1>11 DEF FrameOK
  <2> QED
    BY <1>1, <1>2, <1>3, <1>9, <2>1, <2>2 DEF FrameOK
<1>13. \A theta \in Range(F.thetas) \cup Range(F.next) :
         \E base \in Range(Top.thetas) \cup Range(Top.next) : Extends(theta, base)
  BY <1>5, <1>7, <1>8, <1>9, ExtendsFacts
<1> QED
  BY <1>1, <1>9, <1>12, <1>13, SameLoop DEF Top

(***************************************************************************)
(* Types, and where a call is.                                             *)
(***************************************************************************)
RuleType == [vars : SUBSET Variables, body : Exprs, patterns : Patterns]

TypeInv ==
    /\ apps \in Seq(Terms) /\ entering \in Seq(Terms)
    /\ \A t \in Range(apps) : \A i \in DOMAIN ArgsOf[t] : ArgsOf[t][i] \in Range(apps) \cup Range(entering)
    /\ depth \in [DOMAIN depth -> Nat]
    /\ rules \in Seq(RuleType) /\ \A r \in DOMAIN rules : IsFiniteSet(rules[r].vars)

SearchType ==
    [phase : {"running", "done"}, budget : Int, left : Int, used : Int, truncated : BOOLEAN,
     rule : Nat \ {0}, pattern : Nat, new : SUBSET instantiated]

Current == rules[search.rule].patterns[search.pattern]

SearchInv ==
    /\ search = NoSearch \/ search \in SearchType
    /\ search # NoSearch => entering = <<>>
    /\ stack # <<>> => /\ search.phase = "running" /\ search.rule \in DOMAIN rules
                       /\ search.pattern \in DOMAIN rules[search.rule].patterns
    /\ search.phase = "done" => search.truncated \/ search.rule \notin DOMAIN rules
    /\ search # NoSearch =>
         IF search.left = Unlimited THEN ~search.truncated
         ELSE search.left >= 0 /\ search.used + search.left = search.budget /\ (search.truncated => search.left = 0)

StackInv == stack # <<>> => StackOK(stack, Current)

MatchInv == TypeInv /\ SearchInv /\ StackInv

\* While there is a loop, the terms are all there, and its pattern has applications only.
LEMMA RunningFacts ==
    ASSUME TypeInv, SearchInv, stack # <<>>
    PROVE  /\ search \in SearchType /\ search.phase = "running" /\ entering = <<>>
           /\ \A t \in Range(apps) : /\ t \in Exprs \ Variables /\ ArgsOf[t] \in Seq(Range(apps))
                                     /\ DOMAIN ArgsOf[t] = 1 .. Len(ArgsOf[t])
           /\ rules[search.rule] \in RuleType /\ IsFiniteSet(rules[search.rule].vars)
           /\ Current \in Seq(Exprs \ Variables) /\ Current # <<>>
<1>1. stack # <<>> => search.phase = "running" /\ search.phase # NoSearch.phase
  BY DEF SearchInv, NoSearch
<1>2. search # NoSearch /\ search \in SearchType /\ entering = <<>>
  BY <1>1 DEF SearchInv
<1>3. ASSUME NEW t \in Range(apps)
      PROVE  /\ t \in Exprs \ Variables /\ ArgsOf[t] \in Seq(Range(apps))
             /\ DOMAIN ArgsOf[t] = 1 .. Len(ArgsOf[t])
  <2>1. t \in Terms
    BY DEF TypeInv, Range
  <2>2. t \in Exprs \ Variables /\ ArgsOf[t] \in Seq(Exprs)
    BY <2>1, EMatchAssumption
  <2>3. \A i \in DOMAIN ArgsOf[t] : ArgsOf[t][i] \in Range(apps)
    <3>1. Range(entering) = {}
      BY <1>2, RangeFew
    <3> QED
      BY <3>1 DEF TypeInv
  <2> QED
    BY <2>2, <2>3
<1>4. rules[search.rule] \in RuleType /\ IsFiniteSet(rules[search.rule].vars)
  BY ElementOfSeq DEF TypeInv, SearchInv
<1>5. rules[search.rule].patterns \in Seq(Seq(Exprs \ Variables) \ {<<>>})
  BY <1>4 DEF RuleType, Patterns
<1>6. Current \in Seq(Exprs \ Variables) \ {<<>>}
  BY <1>5, ElementOfSeq DEF SearchInv, Current
<1> QED
  BY <1>1, <1>2, <1>3, <1>4, <1>6

LEMMA StackConsider ==
    ASSUME NEW pattern, pattern = Current, StackOK(stack, pattern), TypeInv, SearchInv, Consider
    PROVE  StackOK(stack', pattern)
<1> DEFINE e == Pattern
           x == apps[Top.at]
           F == [Top EXCEPT !.at = @ + 1]
           C == Frame(ArgsOf[e], ArgsOf[x], 1, Theta)
<1>1. /\ stack # <<>> /\ Top.place \in DOMAIN Top.pats /\ Top.thetas # <<>>
      /\ e \notin Variables /\ e = Top.pats[Top.place] /\ Top.at \in DOMAIN apps /\ x \in Range(apps)
      /\ stack' = IF Meets(x) THEN <<C>> \o (<<F>> \o Tail(stack)) ELSE <<F>> \o Tail(stack)
  BY DEF Consider, Waiting, Pattern, Range
<1>2. /\ FrameOK(Top, pattern) /\ Top \in Frames(pattern) /\ DOMAIN Top.pats = 1 .. Len(Top.pats)
      /\ e \in Exprs
  BY <1>1, TopFacts
<1>3. /\ F.outer = Top.outer /\ F.pats = Top.pats /\ F.targets = Top.targets /\ F.place = Top.place
      /\ F.thetas = Top.thetas /\ F.next = Top.next /\ F.at = Top.at + 1 /\ F \in Frames(pattern)
      /\ F.at # 0
  <2>1. Top.at \in Nat /\ Top.at + 1 \in Nat /\ Top.at + 1 # 0
    BY <1>2 DEF Frames
  <2>2. F = [Top EXCEPT !.at = Top.at + 1]
    OBVIOUS
  <2> HIDE DEF F
  <2> QED
    BY <1>2, <2>1, <2>2 DEF Frames
<1> HIDE DEF F
<1>4. \A k, theta : Met(F, k, theta) <=> Met(Top, k, theta)
  BY <1>3 DEF Met
<1>5. FrameOK(F, pattern)
  <2>1. ~(F.thetas = <<>> \/ F.place \notin DOMAIN F.pats \/ F.pats[F.place] \in Variables)
    BY <1>1, <1>3
  <2>2. \A theta \in Range(F.thetas), k \in DOMAIN F.pats : k < F.place => Met(F, k, theta)
    BY <1>2, <1>3, <1>4 DEF FrameOK
  <2>3. \A theta \in Range(F.next), k \in DOMAIN F.pats : k <= F.place => Met(F, k, theta)
    BY <1>2, <1>3, <1>4 DEF FrameOK
  <2> QED
    BY <1>2, <1>3, <2>1, <2>2, <2>3 DEF FrameOK
<1>6. StackOK(<<F>> \o Tail(stack), pattern)
  BY <1>1, <1>3, <1>5, ExtendsFacts, SameLoop DEF Top
<1>7. CASE Meets(x)
  <2>1. x \in Exprs \ Variables /\ ArgsOf[x] \in Seq(Range(apps)) /\ DOMAIN ArgsOf[x] = 1 .. Len(ArgsOf[x])
    BY <1>1, RunningFacts
  <2>2. ArgsOf[e] \in Seq(Exprs) /\ Len(ArgsOf[e]) = Len(ArgsOf[x])
    BY <1>1, <1>2, <1>7, <2>1, EMatchAssumption DEF Meets
  <2>3. /\ Theta \in Partial(pattern) /\ Theta = Head(Top.thetas)
    BY <1>1, <1>2, BindingsNext DEF Theta
  <2>4. /\ C.outer = FALSE /\ C.pats = ArgsOf[e] /\ C.targets = ArgsOf[x] /\ C.place = 1
        /\ C.thetas = <<Theta>> /\ C.next = <<>> /\ C.at = 1
    <3>1. ~(ArgsOf[x] = <<>> /\ ArgsOf[e] # <<>>)
      BY <2>1, <2>2
    <3> QED
      BY <3>1 DEF Frame
  <2>5. C \in Frames(pattern)
    BY <2>1, <2>2, <2>3, <2>4 DEF Frames, Frame
  <2> HIDE DEF C
  <2>6. \A k \in DOMAIN C.pats : VariablesOf(C.pats[k]) \subseteq PatternVars(pattern)
    <3>1. \A k \in DOMAIN ArgsOf[e] : VariablesOf(ArgsOf[e][k]) \subseteq VariablesOf(e)
      BY <1>2, VariablesOfFacts
    <3>2. VariablesOf(e) \subseteq PatternVars(pattern)
      BY <1>1, <1>2 DEF FrameOK
    <3> QED
      BY <2>4, <3>1, <3>2
  <2>7. FrameOK(C, pattern)
    <3>1. C.place \in 1 .. Len(C.pats) + 1 /\ Len(C.targets) = Len(C.pats)
      BY <2>2, <2>4
    <3>2. \A k \in DOMAIN C.pats : ~(k < C.place)
      BY <2>2, <2>4
    <3> QED
      BY <2>4, <2>5, <2>6, <3>1, <3>2, RangeFew DEF FrameOK
  <2>8. Above(C, F)
    <3>1. MeetsAt(F, x)
      BY <1>1, <1>3, <1>7 DEF Meets, MeetsAt
    <3>2. \A theta \in Range(C.thetas) \cup Range(C.next) : Extends(theta, Head(F.thetas))
      BY <1>3, <2>3, <2>4, RangeFew, ExtendsFacts
    <3> QED
      BY <1>1, <1>3, <2>4, <3>1, <3>2 DEF Above
  <2>9. (<<F>> \o Tail(stack)) # <<>> /\ (<<F>> \o Tail(stack))[1] = F
    <3>1. Tail(stack) \in Seq(Frames(pattern))
      BY <1>1, TailFacts DEF StackOK
    <3> QED
      BY <1>3, <3>1, ConsFacts
  <2>10. StackOK(<<C>> \o (<<F>> \o Tail(stack)), pattern)
    BY <1>6, <2>7, <2>8, <2>9, StackPush
  <2> QED
    BY <1>1, <1>7, <2>10
<1> QED
  BY <1>1, <1>6, <1>7

LEMMA StackLeaveLoop ==
    ASSUME NEW pattern, StackOK(stack, pattern), LeaveLoop
    PROVE  StackOK(stack', pattern)
<1> DEFINE F == [Top EXCEPT !.thetas = Tail(@), !.at = 1]
<1>1. /\ stack # <<>> /\ Top.place \in DOMAIN Top.pats /\ Top.thetas # <<>> /\ stack' = <<F>> \o Tail(stack)
  BY DEF LeaveLoop, Waiting, Replace
<1>2. FrameOK(Top, pattern) /\ Top \in Frames(pattern)
  BY <1>1, TopFacts
<1>3. Tail(Top.thetas) \in Seq(Partial(pattern)) /\ Range(Tail(Top.thetas)) \subseteq Range(Top.thetas)
  BY <1>1, <1>2, BindingsNext
<1>4. /\ F.outer = Top.outer /\ F.pats = Top.pats /\ F.targets = Top.targets /\ F.place = Top.place
      /\ F.thetas = Tail(Top.thetas) /\ F.next = Top.next /\ F.at = 1 /\ F \in Frames(pattern)
  BY <1>2, <1>3 DEF Frames
<1> HIDE DEF F
<1>5. \A k, theta : Met(F, k, theta) <=> Met(Top, k, theta)
  BY <1>4 DEF Met
<1>6. FrameOK(F, pattern)
  <2>1. \A theta \in Range(F.thetas), k \in DOMAIN F.pats : k < F.place => Met(F, k, theta)
    BY <1>2, <1>3, <1>4, <1>5 DEF FrameOK
  <2>2. \A theta \in Range(F.next), k \in DOMAIN F.pats : k <= F.place => Met(F, k, theta)
    BY <1>2, <1>4, <1>5 DEF FrameOK
  <2> QED
    BY <1>2, <1>4, <2>1, <2>2 DEF FrameOK
<1>7. \A theta \in Range(F.thetas) \cup Range(F.next) :
         \E base \in Range(Top.thetas) \cup Range(Top.next) : Extends(theta, base)
  BY <1>3, <1>4, ExtendsFacts
<1> QED
  BY <1>1, <1>4, <1>6, <1>7, SameLoop DEF Top

LEMMA StackNextArgument ==
    ASSUME NEW pattern, StackOK(stack, pattern), NextArgument
    PROVE  StackOK(stack', pattern)
<1> DEFINE F == [Top EXCEPT !.place = @ + 1, !.thetas = Top.next, !.next = <<>>]
<1>1. /\ stack # <<>> /\ ~Top.outer /\ Top.place \in DOMAIN Top.pats /\ Top.thetas = <<>>
      /\ stack' = <<F>> \o Tail(stack)
  BY DEF NextArgument, Replace
<1>2. FrameOK(Top, pattern) /\ Top \in Frames(pattern) /\ DOMAIN Top.pats = 1 .. Len(Top.pats)
  BY <1>1, TopFacts
<1>3. /\ F.outer = Top.outer /\ F.pats = Top.pats /\ F.targets = Top.targets /\ F.place = Top.place + 1
      /\ F.thetas = Top.next /\ F.next = <<>> /\ F.at = Top.at /\ F \in Frames(pattern)
  <2>1. Top.place + 1 \in Nat /\ <<>> \in Seq(Partial(pattern))
    BY <1>2 DEF Frames
  <2>2. F = [Top EXCEPT !.place = Top.place + 1, !.thetas = Top.next, !.next = <<>>]
    OBVIOUS
  <2> HIDE DEF F
  <2> QED
    BY <1>2, <2>1, <2>2 DEF Frames
<1> HIDE DEF F
<1>4. \A k, theta : Met(F, k, theta) <=> Met(Top, k, theta)
  BY <1>3 DEF Met
<1>5. Top.place \in Nat /\ Top.place + 1 \in 1 .. Len(Top.pats) + 1 /\ Top.at = 1
  BY <1>1, <1>2 DEF FrameOK, Frames
<1>6. FrameOK(F, pattern)
  <2>1. \A theta \in Range(F.thetas), k \in DOMAIN F.pats : k < F.place => Met(F, k, theta)
    <3>1. \A k \in DOMAIN Top.pats : k < Top.place + 1 => k <= Top.place
      BY <1>2, <1>5
    <3> QED
      BY <1>2, <1>3, <1>4, <3>1 DEF FrameOK
  <2>2. Range(F.next) = {}
    BY <1>3, RangeFew
  <2> QED
    BY <1>1, <1>2, <1>3, <1>5, <2>1, <2>2 DEF FrameOK
<1>7. \A theta \in Range(F.thetas) \cup Range(F.next) :
         \E base \in Range(Top.thetas) \cup Range(Top.next) : Extends(theta, base)
  BY <1>3, RangeFew, ExtendsFacts
<1> QED
  BY <1>1, <1>3, <1>6, <1>7, SameLoop DEF Top

\* Below the arguments of an application is the loop that considers it.
LEMMA BelowFacts ==
    ASSUME NEW pattern, StackOK(stack, pattern), stack # <<>>, ~Top.outer
    PROVE  /\ Tail(stack) # <<>> /\ Head(Tail(stack)) = stack[2] /\ StackOK(Tail(stack), pattern)
           /\ FrameOK(stack[2], pattern) /\ Above(Top, stack[2])
<1>1. /\ stack \in Seq(Frames(pattern)) /\ Top = stack[1] /\ Len(stack) \in Nat \ {0} /\ DOMAIN stack = 1 .. Len(stack)
  <2>1. stack \in Seq(Frames(pattern))
    BY DEF StackOK
  <2> QED
    BY <2>1, TailFacts DEF Top
<1>2. Len(stack) # 1 /\ Above(Top, stack[2])
  BY <1>1 DEF StackOK
<1>3. FrameOK(stack[2], pattern)
  BY <1>1, <1>2 DEF StackOK
<1>4. Tail(stack) # <<>> /\ Head(Tail(stack)) = stack[2]
  BY <1>1, <1>2
<1> QED
  BY <1>2, <1>3, <1>4, StackPop

LEMMA StackReturn ==
    ASSUME NEW pattern, pattern = Current, StackOK(stack, pattern), TypeInv, SearchInv, Return
    PROVE  StackOK(stack', pattern)
<1> DEFINE G == stack[2]
           F == [stack[2] EXCEPT !.next = @ \o Top.thetas]
           e == G.pats[G.place]
<1>1. stack # <<>> /\ Top.place \notin DOMAIN Top.pats /\ stack' = <<F>> \o Tail(Tail(stack))
  BY DEF Return
<1>2. /\ FrameOK(Top, pattern) /\ Top \in Frames(pattern) /\ DOMAIN Top.pats = 1 .. Len(Top.pats)
  BY <1>1, TopFacts
<1>3. ~Top.outer
  BY <1>1, <1>2 DEF FrameOK
<1>4. /\ Tail(stack) # <<>> /\ Head(Tail(stack)) = G /\ StackOK(Tail(stack), pattern)
      /\ FrameOK(G, pattern) /\ Above(Top, G)
  BY <1>1, <1>3, BelowFacts
<1>5. PICK x \in Range(apps) : MeetsAt(G, x) /\ Top.pats = ArgsOf[e] /\ Top.targets = ArgsOf[x]
  BY <1>3, <1>4 DEF Above
<1>6. /\ G.place \in DOMAIN G.pats /\ e \in Exprs \ Variables /\ G.thetas # <<>>
      /\ \A theta \in Range(Top.thetas) : Extends(theta, Head(G.thetas))
  BY <1>3, <1>4, ElementOfSeq DEF Above, FrameOK, Frames
<1>7. G \in Frames(pattern) /\ Top.thetas \in Seq(Partial(pattern)) /\ G.next \in Seq(Partial(pattern))
  BY <1>2, <1>4 DEF FrameOK, Frames
<1>8. G.next \o Top.thetas \in Seq(Partial(pattern)) /\ Range(G.next \o Top.thetas) = Range(G.next) \cup Range(Top.thetas)
  BY <1>7, RangeConcat
<1>9. /\ F.outer = G.outer /\ F.pats = G.pats /\ F.targets = G.targets /\ F.place = G.place
      /\ F.thetas = G.thetas /\ F.next = G.next \o Top.thetas /\ F.at = G.at /\ F \in Frames(pattern)
  BY <1>7, <1>8 DEF Frames
<1> HIDE DEF F
<1>10. \A k, theta : Met(F, k, theta) <=> Met(G, k, theta)
  BY <1>9 DEF Met
<1>11. ASSUME NEW theta \in Range(Top.thetas), NEW k \in DOMAIN G.pats, k <= G.place
       PROVE  Met(G, k, theta)
  <2>1. CASE k < G.place
    <3>1. Head(G.thetas) \in Range(G.thetas)
      BY <1>4, <1>6, BindingsNext
    <3>2. Met(G, k, Head(G.thetas))
      BY <1>4, <2>1, <3>1 DEF FrameOK
    <3> QED
      BY <1>4, <1>6, <3>2, MetGrows
  <2>2. CASE k = G.place
    <3>1. Stands(x, e, Denoted(theta))
      <4>1. \A i \in DOMAIN Top.pats : Met(Top, i, theta)
        <5>1. Top.place \in 1 .. Len(Top.pats) + 1
          BY <1>2 DEF FrameOK
        <5>2. \A i \in DOMAIN Top.pats : i < Top.place
          BY <1>1, <1>2, <5>1
        <5> QED
          BY <1>2, <5>2 DEF FrameOK
      <4>2. \A i \in DOMAIN ArgsOf[e] : class[ArgsOf[x][i]] \in Denoted(theta)[ArgsOf[e][i]]
        BY <1>3, <1>5, <4>1 DEF Met
      <4> QED
        BY <1>5, <4>2 DEF Stands, MeetsAt
    <3>2. class[x] \in Denoted(theta)[e]
      BY <1>6, <3>1, DenotedApp
    <3> QED
      BY <1>5, <2>2, <3>2 DEF Met, MeetsAt
  <2>3. k \in Nat /\ G.place \in Nat
    BY <1>4, <1>6 DEF FrameOK, Frames
  <2> QED
    BY <1>11, <2>1, <2>2, <2>3
<1>12. FrameOK(F, pattern)
  <2>1. \A theta \in Range(F.thetas), k \in DOMAIN F.pats : k < F.place => Met(F, k, theta)
    BY <1>4, <1>9, <1>10 DEF FrameOK
  <2>2. \A theta \in Range(F.next), k \in DOMAIN F.pats : k <= F.place => Met(F, k, theta)
    BY <1>4, <1>8, <1>9, <1>10, <1>11 DEF FrameOK
  <2> QED
    BY <1>4, <1>6, <1>9, <2>1, <2>2 DEF FrameOK
<1>13. \A theta \in Range(F.thetas) \cup Range(F.next) :
         \E base \in Range(G.thetas) \cup Range(G.next) : Extends(theta, base)
  <2>1. Head(G.thetas) \in Range(G.thetas)
    BY <1>4, <1>6, BindingsNext
  <2> QED
    BY <1>6, <1>8, <1>9, <2>1, ExtendsFacts
<1>14. /\ F.outer = Head(Tail(stack)).outer /\ F.pats = Head(Tail(stack)).pats
       /\ F.targets = Head(Tail(stack)).targets
  BY <1>4, <1>9
<1> HIDE DEF G
<1> QED
  BY <1>1, <1>4, <1>12, <1>13, <1>14, SameLoop

LEMMA StackContinue ==
    ASSUME NEW pattern \in Seq(Exprs \ Variables), pattern # <<>>, StackOK(stack, pattern), Continue
    PROVE  StackOK(stack', pattern)
<1> DEFINE theta == Head(Top.next)
           F == [Top EXCEPT !.next = Tail(@)]
           C == Frame(Top.pats, <<>>, Top.place + 1, theta)
<1>1. /\ stack # <<>> /\ Top.outer /\ Top.next # <<>>
      /\ stack' = IF Top.place < Len(Top.pats) THEN <<C>> \o (<<F>> \o Tail(stack)) ELSE <<F>> \o Tail(stack)
  BY DEF Continue
<1>2. /\ FrameOK(Top, pattern) /\ Top \in Frames(pattern) /\ DOMAIN Top.pats = 1 .. Len(Top.pats)
  BY <1>1, TopFacts
<1>3. /\ theta \in Partial(pattern) /\ theta \in Range(Top.next) /\ Tail(Top.next) \in Seq(Partial(pattern))
      /\ Range(Tail(Top.next)) \subseteq Range(Top.next)
  <2>1. Top.next \in Seq(Partial(pattern))
    BY <1>2 DEF Frames
  <2> HIDE DEF Partial
  <2> QED
    BY <1>1, <2>1, RangeTail, TailFacts
<1>4. /\ F.outer = Top.outer /\ F.pats = Top.pats /\ F.targets = Top.targets /\ F.place = Top.place
      /\ F.thetas = Top.thetas /\ F.next = Tail(Top.next) /\ F.at = Top.at /\ F \in Frames(pattern)
  BY <1>2, <1>3 DEF Frames
<1> HIDE DEF F
<1>5. \A k, other : Met(F, k, other) <=> Met(Top, k, other)
  BY <1>4 DEF Met
<1>6. FrameOK(F, pattern)
  <2>1. \A other \in Range(F.thetas), k \in DOMAIN F.pats : k < F.place => Met(F, k, other)
    BY <1>2, <1>4, <1>5 DEF FrameOK
  <2>2. \A other \in Range(F.next), k \in DOMAIN F.pats : k <= F.place => Met(F, k, other)
    BY <1>2, <1>3, <1>4, <1>5 DEF FrameOK
  <2> QED
    BY <1>1, <1>2, <1>4, <2>1, <2>2 DEF FrameOK
<1>7. StackOK(<<F>> \o Tail(stack), pattern)
  <2>1. \A other \in Range(F.thetas) \cup Range(F.next) :
           \E base \in Range(Top.thetas) \cup Range(Top.next) : Extends(other, base)
    BY <1>3, <1>4, ExtendsFacts
  <2> QED
    BY <1>1, <1>4, <1>6, <2>1, SameLoop DEF Top
<1>8. CASE Top.place < Len(Top.pats)
  <2>1. Top.pats = pattern /\ Top.place \in 1 .. Len(pattern) /\ Top.place + 1 \in 1 .. Len(pattern)
    BY <1>1, <1>2, <1>8 DEF FrameOK
  <2>2. /\ C.outer = TRUE /\ C.pats = pattern /\ C.targets = <<>> /\ C.place = Top.place + 1
        /\ C.thetas = <<theta>> /\ C.next = <<>> /\ C.at = 1
    BY <2>1 DEF Frame
  <2>3. C \in Frames(pattern)
    <3>1. pattern \in Seq(Exprs)
      OBVIOUS
    <3> QED
      BY <1>3, <2>1, <2>2, <3>1 DEF Frames, Frame
  <2> HIDE DEF C, theta
  <2>4. \A k, other : Met(C, k, other) <=> Met(Top, k, other)
    BY <1>1, <2>1, <2>2 DEF Met
  <2>5. \A other \in Range(C.thetas), k \in DOMAIN C.pats : k < C.place => Met(C, k, other)
    <3>1. ASSUME NEW k \in DOMAIN C.pats, k < C.place
          PROVE  Met(C, k, theta)
      <4>1. k \in DOMAIN Top.pats /\ k <= Top.place
        BY <2>1, <2>2, <3>1
      <4> QED
        BY <1>2, <1>3, <2>4, <4>1 DEF FrameOK
    <3> QED
      BY <2>2, <3>1, RangeFew
  <2>6. FrameOK(C, pattern)
    <3>1. C.place \in 1 .. Len(C.pats) + 1 /\ C.place \in DOMAIN C.pats
      BY <2>1, <2>2
    <3>2. \A k \in DOMAIN C.pats : VariablesOf(C.pats[k]) \subseteq PatternVars(pattern)
      BY <1>2, <2>1, <2>2 DEF FrameOK
    <3> QED
      BY <2>2, <2>3, <2>5, <3>1, <3>2, RangeFew DEF FrameOK
  <2>7. (<<F>> \o Tail(stack)) # <<>> /\ (<<F>> \o Tail(stack))[1] = F
    <3>1. Tail(stack) \in Seq(Frames(pattern))
      BY <1>1, TailFacts DEF StackOK
    <3> QED
      BY <1>4, <3>1, ConsFacts
  <2>8. StackOK(<<C>> \o (<<F>> \o Tail(stack)), pattern)
    <3>1. Above(C, F)
      BY <1>1, <1>4, <2>2 DEF Above
    <3> QED
      BY <1>7, <2>6, <2>7, <3>1, StackPush
  <2> QED
    BY <1>1, <1>8, <2>8
<1> QED
  BY <1>1, <1>7, <1>8

\* A search begins with the empty binding, at the first expression.
LEMMA StackFirst ==
    ASSUME NEW pattern \in Seq(Exprs \ Variables), pattern # <<>>
    PROVE  StackOK(<<Frame(pattern, <<>>, 1, <<>>)>>, pattern)
<1> DEFINE C == Frame(pattern, <<>>, 1, <<>>)
<1>1. /\ C.outer = TRUE /\ C.pats = pattern /\ C.targets = <<>> /\ C.place = 1
      /\ C.thetas = << <<>> >> /\ C.next = <<>> /\ C.at = 1
  BY DEF Frame
<1>2. C \in Frames(pattern)
  <2>1. <<>> \in Partial(pattern)
    <3>1. DOMAIN <<>> = {} /\ <<>> \in [{} -> Range(apps)]
      OBVIOUS
    <3> QED
      BY <3>1, PartialFacts
  <2>2. pattern \in Seq(Exprs)
    OBVIOUS
  <2> QED
    BY <1>1, <2>1, <2>2 DEF Frames, Frame
<1> HIDE DEF C
<1>3. FrameOK(C, pattern)
  <2>1. \A k \in DOMAIN C.pats : ~(k < C.place)
    BY <1>1
  <2>2. C.place \in 1 .. Len(C.pats) + 1 /\ C.place \in DOMAIN C.pats
    BY <1>1
  <2>3. \A k \in DOMAIN C.pats : VariablesOf(C.pats[k]) \subseteq PatternVars(pattern)
    BY <1>1 DEF PatternVars
  <2> QED
    BY <1>1, <1>2, <2>1, <2>2, <2>3, RangeFew DEF FrameOK
<1>4. <<C>> \in Seq(Frames(pattern)) /\ Len(<<C>>) = 1 /\ DOMAIN <<C>> = {1} /\ <<C>>[1] = C
  BY <1>2
<1>5. StackOK(<<C>>, pattern)
  BY <1>1, <1>3, <1>4 DEF StackOK
<1> QED
  BY <1>5 DEF C

(***************************************************************************)
(* The invariant of the search.                                            *)
(***************************************************************************)
LEMMA LargestOf ==
    ASSUME NEW S, IsFiniteSet(S), S \subseteq Nat
    PROVE  Largest(S) \in Nat /\ \A n \in S : n <= Largest(S)
<1> DEFINE bounded(T) == \E x \in T \cup {0} : \A y \in T : y <= x
           Bad == {T \in SUBSET Nat : IsFiniteSet(T) /\ ~bounded(T)}
           N == {Cardinality(T) : T \in Bad}
<1>1. ASSUME Bad # {}
      PROVE  FALSE
  <2>1. PICK n \in N : \A m \in N : n <= m
    <3>1. N \subseteq Nat /\ N # {}
      BY <1>1, FS_CardinalityType
    <3> HIDE DEF N
    <3> QED
      BY <3>1, LeastOf
  <2>2. PICK T \in Bad : n = Cardinality(T)
    OBVIOUS
  <2>3. PICK x \in T : TRUE
    BY <2>2
  <2>4. /\ IsFiniteSet(T \ {x}) /\ Cardinality(T \ {x}) = Cardinality(T) - 1
        /\ Cardinality(T) \in Nat
    BY <2>3, FS_RemoveElement, FS_CardinalityType
  <2>5. T \ {x} \notin Bad
    <3> HIDE DEF Bad
    <3>1. T \ {x} \in Bad => Cardinality(T \ {x}) \in N
      OBVIOUS
    <3> QED
      BY <2>1, <2>2, <2>4, <3>1
  <2>6. PICK z \in (T \ {x}) \cup {0} : \A y \in T \ {x} : y <= z
    BY <2>4, <2>5
  <2>7. T \subseteq Nat /\ x \in Nat /\ z \in Nat
    BY <2>3, <2>6
  <2>8. bounded(T)
    <3>1. CASE x <= z
      BY <2>3, <2>6, <2>7, <3>1
    <3>2. CASE ~(x <= z)
      BY <2>3, <2>6, <2>7, <3>2
    <3> QED
      BY <3>1, <3>2
  <2> QED
    BY <2>8
<1>2. bounded(S)
  BY <1>1
<1>3. Largest(S) \in S \cup {0} /\ \A y \in S : y <= Largest(S)
  <2> DEFINE P(x) == \A y \in S : y <= x
             largest == CHOOSE x \in S \cup {0} : P(x)
  <2>1. \E x \in S \cup {0} : P(x)
    BY <1>2
  <2> HIDE DEF P
  <2>2. largest \in S \cup {0} /\ P(largest)
    BY <2>1
  <2>3. Largest(S) = largest
    BY DEF Largest, P
  <2> HIDE DEF largest
  <2> QED
    BY <2>2, <2>3 DEF P
<1> HIDE DEF bounded, Bad, N
<1>4. Largest(S) \in Nat
  <2>1. \A x \in S \cup {0} : x \in Nat
    OBVIOUS
  <2> QED
    BY <1>3, <2>1, Zenon
<1> QED
  BY <1>3, <1>4

LEMMA SubtermsFinite == \A e \in Exprs : IsFiniteSet(Subterms[e]) /\ Subterms[e] \subseteq Exprs
<1> DEFINE Good(e) == IsFiniteSet(Subterms[e]) /\ Subterms[e] \subseteq Exprs
           S == {e \in Exprs : ~Good(e)}
<1>1. SUFFICES ASSUME S # {} PROVE FALSE
  OBVIOUS
<1>2. PICK e \in S : \A i \in DOMAIN ArgsOf[e] : ArgsOf[e][i] \notin S
  <2>1. S \subseteq Exprs
    OBVIOUS
  <2> HIDE DEF S
  <2> QED
    BY <1>1, <2>1, SmallestOf
<1>3. /\ e \in Exprs /\ DOMAIN ArgsOf[e] = 1 .. Len(ArgsOf[e]) /\ Len(ArgsOf[e]) \in Nat
      /\ \A i \in DOMAIN ArgsOf[e] : ArgsOf[e][i] \in Exprs
  <2>1. ArgsOf[e] \in Seq(Exprs)
    BY EMatchAssumption
  <2> QED
    BY <2>1, ElementOfSeq
<1>4. \A i \in DOMAIN ArgsOf[e] : Good(ArgsOf[e][i])
  BY <1>2, <1>3
<1> DEFINE D == DOMAIN ArgsOf[e]
           U == {Subterms[ArgsOf[e][i]] : i \in D}
<1>5. IsFiniteSet(D)
  BY <1>3, FS_Interval
<1>6. IsFiniteSet(U)
  <2> DEFINE f == [i \in D |-> Subterms[ArgsOf[e][i]]]
  <2>1. f \in Surjection(D, U)
    BY DEF Surjection
  <2> HIDE DEF f, D, U
  <2> QED
    BY <1>5, <2>1, FS_Surjection
<1>7. IsFiniteSet(UNION U)
  <2>1. \A T \in U : IsFiniteSet(T)
    BY <1>4
  <2> HIDE DEF U
  <2> QED
    BY <1>6, <2>1, FS_UNION
<1>8. Subterms[e] = {e} \cup UNION U
  BY <1>3, SubtermsUnfold
<1>9. IsFiniteSet({e} \cup UNION U)
  BY <1>7, FS_AddElement, FS_Union, FS_Singleton
<1>10. {e} \cup UNION U \subseteq Exprs
  BY <1>3, <1>4
<1> QED
  BY <1>8, <1>9, <1>10

LEMMA NewDepthFacts ==
    ASSUME depth \in [DOMAIN depth -> Nat], NEW theta, IsFiniteSet(DOMAIN theta)
    PROVE  NewDepth(theta) \in Nat /\ \A x \in DOMAIN theta : Depth(theta[x]) < NewDepth(theta)
<1> DEFINE D == DOMAIN theta
           S == {Depth(theta[x]) : x \in D}
           f == [x \in D |-> Depth(theta[x])]
<1>1. S \subseteq Nat
  BY DEF Depth
<1>2. f \in Surjection(D, S)
  BY DEF Surjection
<1>3. IsFiniteSet(S)
  <2> HIDE DEF f, S, D
  <2>1. IsFiniteSet(D)
    BY DEF D
  <2> QED
    BY <1>2, <2>1, FS_Surjection
<1>4. Largest(S) \in Nat /\ \A n \in S : n <= Largest(S)
  <2> HIDE DEF S
  <2> QED
    BY <1>1, <1>3, LargestOf
<1>5. NewDepth(theta) = Largest(S) + 1
  BY DEF NewDepth
<1>6. \A x \in DOMAIN theta : Depth(theta[x]) \in S /\ Depth(theta[x]) \in Nat
  BY DEF Depth
<1> HIDE DEF S
<1> QED
  BY <1>4, <1>5, <1>6

LEMMA NotRunning ==
    ASSUME SearchInv, Idle \/ entering # <<>>
    PROVE  stack = <<>> /\ (entering # <<>> => search = NoSearch)
  BY DEF SearchInv, Idle, NoSearch

LEMMA TypeRegister ==
    ASSUME TypeInv, NEW t \in Terms, NEW d \in Nat, Register(t, d)
    PROVE  TypeInv'
<1>1. entering = <<>> /\ entering' = <<t>> /\ UNCHANGED <<apps, rules>>
  BY DEF Register, Idle
<1>2. depth' \in [DOMAIN depth' -> Nat]
  BY DEF Register, TypeInv
<1>3. \A u \in Range(apps) : \A i \in DOMAIN ArgsOf[u] : ArgsOf[u][i] \in Range(apps)
  BY <1>1, RangeFew DEF TypeInv
<1> QED
  BY <1>1, <1>2, <1>3 DEF TypeInv

LEMMA TypeEnter ==
    ASSUME TypeInv, Enter
    PROVE  TypeInv'
<1> DEFINE t == Head(entering)
<1>1. entering # <<>> /\ UNCHANGED <<depth, rules>>
  BY DEF Enter
<1>2. t \in Terms /\ Tail(entering) \in Seq(Terms) /\ Range(entering) = {t} \cup Range(Tail(entering))
  BY <1>1, TailFacts, RangeTail DEF TypeInv
<1>3. CASE Contains(apps, t)
  <2>1. entering' = Tail(entering) /\ UNCHANGED apps
    BY <1>3 DEF Enter
  <2>2. t \in Range(apps)
    BY <1>3 DEF Contains, TypeInv, Range
  <2> QED
    BY <1>1, <1>2, <2>1, <2>2 DEF TypeInv
<1>4. CASE ~Contains(apps, t)
  <2>1. entering' = ArgsOf[t] \o Tail(entering) /\ apps' = Append(apps, t)
    BY <1>4 DEF Enter
  <2>2. ArgsOf[t] \in Seq(Terms) /\ \A i \in DOMAIN ArgsOf[t] : ArgsOf[t][i] \in Range(ArgsOf[t])
    <3>1. t \in Exprs /\ ArgsOf[t] \in Seq(Exprs) /\ \A i \in DOMAIN ArgsOf[t] : ArgsOf[t][i] \in Terms
      BY <1>2, EMatchAssumption
    <3> QED
      BY <3>1 DEF Range
  <2>3. entering' \in Seq(Terms) /\ Range(entering') = Range(ArgsOf[t]) \cup Range(Tail(entering))
    BY <1>2, <2>1, <2>2, RangeConcat
  <2>4. apps' \in Seq(Terms) /\ Range(apps') = Range(apps) \cup {t}
    <3>1. apps \in Seq(Terms)
      BY DEF TypeInv
    <3>2. Append(apps, t) = apps \o <<t>> /\ <<t>> \in Seq(Terms)
      BY <1>2, <3>1
    <3>3. Range(apps \o <<t>>) = Range(apps) \cup Range(<<t>>) /\ apps \o <<t>> \in Seq(Terms)
      BY <3>1, <3>2, RangeConcat
    <3> HIDE DEF t
    <3> QED
      BY <2>1, <3>2, <3>3, RangeFew
  <2>5. \A u \in Range(apps)' : \A i \in DOMAIN ArgsOf[u] : ArgsOf[u][i] \in Range(apps)' \cup Range(entering)'
    BY <1>2, <2>2, <2>3, <2>4 DEF TypeInv
  <2> QED
    BY <1>1, <2>3, <2>4, <2>5 DEF TypeInv
<1> QED
  BY <1>3, <1>4

LEMMA TypeAddRule ==
    ASSUME TypeInv, NEW rule \in Rules, AddRule(rule)
    PROVE  TypeInv'
<1>1. rule \in RuleType /\ IsFiniteSet(rule.vars)
  BY EMatchAssumption DEF RuleType
<1> DEFINE C == Candidates(rule)
<1>2. PICK order \in SetToSeqs(C) :
        rules' = Append(rules, IF rule.patterns # <<>> THEN rule
                               ELSE [rule EXCEPT !.patterns = [i \in DOMAIN order |-> <<order[i]>>]])
  BY DEF AddRule
<1>3. C \subseteq Exprs \ Variables /\ Cardinality(C) \in Nat
  <2>1. IsFiniteSet(Subterms[rule.body]) /\ Subterms[rule.body] \subseteq Exprs
    BY <1>1, SubtermsFinite DEF RuleType
  <2>2. C \subseteq Subterms[rule.body] /\ C \cap Variables = {}
    BY DEF Candidates
  <2>3. IsFiniteSet(C)
    <3> HIDE DEF C
    <3> QED
      BY <2>1, <2>2, FS_Subset
  <2> QED
    BY <2>1, <2>2, <2>3, FS_CardinalityType
<1>4. order \in [1 .. Cardinality(C) -> C]
  <2> HIDE DEF C
  <2> QED
    BY DEF SetToSeqs
<1> HIDE DEF C
<1> DEFINE patterns == [i \in DOMAIN order |-> <<order[i]>>]
<1>5. patterns \in Patterns
  <2>1. \A i \in 1 .. Cardinality(C) : <<order[i]>> \in Seq(Exprs \ Variables) \ {<<>>}
    BY <1>3, <1>4
  <2> DEFINE S == Seq(Exprs \ Variables) \ {<<>>}
  <2>2. patterns \in [1 .. Cardinality(C) -> S]
    BY <1>4, <2>1
  <2> HIDE DEF S, patterns
  <2>3. patterns \in Seq(S)
    BY <1>3, <2>2
  <2> QED
    BY <2>3 DEF Patterns, S
<1> HIDE DEF patterns
<1>6. PICK new \in RuleType : rules' = Append(rules, new) /\ IsFiniteSet(new.vars)
  <2>1. [rule EXCEPT !.patterns = patterns] \in RuleType /\ [rule EXCEPT !.patterns = patterns].vars = rule.vars
    BY <1>1, <1>5 DEF RuleType
  <2> QED
    BY <1>1, <1>2, <2>1 DEF patterns
<1>7. rules' \in Seq(RuleType) /\ \A r \in DOMAIN rules' : IsFiniteSet(rules'[r].vars)
  <2>1. rules \in Seq(RuleType) /\ \A r \in DOMAIN rules : IsFiniteSet(rules[r].vars)
    BY DEF TypeInv
  <2>2. /\ rules' \in Seq(RuleType) /\ DOMAIN rules' = 1 .. Len(rules) + 1 /\ DOMAIN rules = 1 .. Len(rules)
        /\ Len(rules) \in Nat
        /\ rules'[Len(rules) + 1] = new /\ \A r \in 1 .. Len(rules) : rules'[r] = rules[r]
    BY <1>6, <2>1
  <2>3. \A r \in DOMAIN rules' : r \in DOMAIN rules \/ r = Len(rules) + 1
    BY <2>2
  <2> QED
    BY <1>6, <2>1, <2>2, <2>3
<1> QED
  BY <1>7 DEF TypeInv, AddRule

LEMMA SpendFacts ==
    ASSUME SearchInv, search \in SearchType
    PROVE  /\ Spend(search) \in SearchType
           /\ Spend(search).phase = search.phase /\ Spend(search).budget = search.budget
           /\ Spend(search).rule = search.rule /\ Spend(search).pattern = search.pattern
           /\ IF Spend(search).left = Unlimited THEN ~Spend(search).truncated
              ELSE /\ Spend(search).left >= 0 /\ Spend(search).used + Spend(search).left = Spend(search).budget
                   /\ Spend(search).truncated => Spend(search).left = 0
           /\ search.left = 0 => Spend(search).truncated
           /\ search.left # 0 => Spend(search).truncated = search.truncated
<1>1. search # NoSearch
  BY DEF SearchType, NoSearch
<1>2. CASE search.left = Unlimited
  BY <1>1, <1>2 DEF SearchInv, SearchType, Spend, Unlimited
<1>3. CASE search.left # Unlimited /\ search.left = 0
  <2>1. Spend(search) = [search EXCEPT !.truncated = TRUE]
    BY <1>3 DEF Spend
  <2> QED
    BY <1>1, <1>3, <2>1 DEF SearchInv, SearchType, Unlimited
<1>4. CASE search.left # Unlimited /\ search.left # 0
  <2>1. Spend(search) = [search EXCEPT !.left = search.left - 1, !.used = search.used + 1]
    BY <1>4 DEF Spend
  <2>2. search.left \in Int /\ search.used \in Int /\ search.budget \in Int /\ search.left >= 0
    BY <1>1, <1>4 DEF SearchInv, SearchType
  <2>3. search.left - 1 >= 0 /\ search.used + search.left = search.budget /\ ~search.truncated
    BY <1>1, <1>4, <2>2 DEF SearchInv, SearchType
  <2>4. search.left - 1 \in Int /\ search.used + 1 \in Int /\ (search.used + 1) + (search.left - 1) = search.budget
    BY <2>2, <2>3
  <2>5. Spend(search) \in SearchType
    BY <2>1, <2>4 DEF SearchType
  <2>6. /\ Spend(search).phase = search.phase /\ Spend(search).budget = search.budget
        /\ Spend(search).rule = search.rule /\ Spend(search).pattern = search.pattern
        /\ Spend(search).truncated = search.truncated
        /\ Spend(search).left = search.left - 1 /\ Spend(search).used = search.used + 1
    BY <2>1 DEF SearchType
  <2> QED
    BY <1>4, <2>2, <2>3, <2>4, <2>5, <2>6 DEF Unlimited
<1> QED
  BY <1>2, <1>3, <1>4

\* The steps that lead to a call keep the invariant, and no loop is running before them.
LEMMA RegistrySteps ==
    ASSUME MatchInv,
           \/ \E td \in Registrable : Register(td[1], td[2])
           \/ Enter
           \/ \E eqs \in Equations : SetEquations(eqs)
           \/ \E rule \in Rules : AddRule(rule)
           \/ \E budget \in Budgets : BeginMatch(budget)
    PROVE  MatchInv' /\ UNCHANGED instantiated /\ stack = <<>> /\ stack' = <<>>
<1> USE DEF MatchInv
<1>1. stack = <<>> /\ stack' = <<>> /\ UNCHANGED instantiated
  <2>1. Idle \/ entering # <<>>
    BY DEF Register, Enter, SetEquations, AddRule, BeginMatch
  <2>2. UNCHANGED stack /\ UNCHANGED instantiated
    BY DEF Register, Enter, SetEquations, AddRule, BeginMatch, registry
  <2> QED
    BY <2>1, <2>2, NotRunning
<1>2. StackInv'
  BY <1>1 DEF StackInv
<1>3. TypeInv'
  <2>1. CASE \E td \in Registrable : Register(td[1], td[2])
    BY <2>1, TypeRegister, EMatchAssumption
  <2>2. CASE Enter
    BY <2>2, TypeEnter
  <2>3. CASE \E rule \in Rules : AddRule(rule)
    BY <2>3, TypeAddRule
  <2>4. CASE (\E eqs \in Equations : SetEquations(eqs)) \/ (\E budget \in Budgets : BeginMatch(budget))
    BY <2>4 DEF TypeInv, SetEquations, BeginMatch, registry
  <2> QED
    BY <2>1, <2>2, <2>3, <2>4
<1>4. SearchInv'
  <2>1. CASE \E budget \in Budgets : BeginMatch(budget)
    <3>1. PICK budget \in Budgets : BeginMatch(budget)
      BY <2>1
    <3>2. budget \in Nat \cup {Unlimited} /\ entering' = <<>>
      BY <3>1, EMatchAssumption DEF BeginMatch, Idle, registry
    <3>3. search' = [phase |-> "running", budget |-> budget, left |-> budget, used |-> 0, truncated |-> FALSE,
                     rule |-> 1, pattern |-> 0, new |-> {}]
      BY <3>1 DEF BeginMatch
    <3>4. search' \in SearchType'
      BY <3>2, <3>3 DEF SearchType, Unlimited
    <3> QED
      BY <1>1, <3>2, <3>3, <3>4 DEF SearchInv, Unlimited
  <2>2. CASE Enter
    <3>1. search' = NoSearch
      BY <2>2, NotRunning DEF Enter
    <3> QED
      BY <1>1, <3>1 DEF SearchInv, NoSearch
  <2>3. CASE \/ \E td \in Registrable : Register(td[1], td[2])
             \/ \E eqs \in Equations : SetEquations(eqs)
             \/ \E rule \in Rules : AddRule(rule)
    <3>1. search' = NoSearch
      BY <2>3 DEF Register, SetEquations, AddRule
    <3> QED
      BY <1>1, <3>1 DEF SearchInv, NoSearch
  <2> QED
    BY <2>1, <2>2, <2>3
<1> QED
  BY <1>1, <1>2, <1>3, <1>4

LEMMA MatchKeeps == Match => UNCHANGED <<registry, class, calls>>
  BY DEF Match, MatchVariable, Consider, LeaveLoop, NextArgument, Return, Continue, EndExpression, NextPattern, EndMatch

LEMMA SearchSteps ==
    ASSUME MatchInv, Match
    PROVE  SearchInv'
<1> USE DEF MatchInv
<1>2. CASE MatchVariable \/ NextArgument \/ Return \/ EndExpression \/ (LeaveLoop /\ UNCHANGED search)
  <2>1. stack # <<>> /\ UNCHANGED <<search, rules, entering, instantiated>>
    BY <1>2 DEF MatchVariable, NextArgument, Return, EndExpression, LeaveLoop, Waiting, registry
  <2> QED
    BY <2>1 DEF SearchInv, SearchType
<1>3. CASE Consider \/ (LeaveLoop /\ search' = Spend(search))
  <2>1. stack # <<>> /\ UNCHANGED <<rules, entering, instantiated>> /\ search' = Spend(search)
    BY <1>3 DEF Consider, LeaveLoop, Waiting, registry
  <2>2. search \in SearchType /\ search.phase = "running" /\ entering = <<>>
    BY <2>1, RunningFacts
  <2>3. search' \in SearchType'
    BY <2>1, <2>2, SpendFacts DEF SearchType
  <2>4. search'.phase = "running" /\ search'.rule = search.rule /\ search'.pattern = search.pattern
    BY <2>1, <2>2, SpendFacts
  <2> QED
    BY <2>1, <2>2, <2>3, <2>4, SpendFacts DEF SearchInv
<1>4. CASE Continue
  <2>1. stack # <<>> /\ UNCHANGED <<rules, entering>>
    BY <1>4 DEF Continue, registry
  <2>2. search \in SearchType /\ search.phase = "running" /\ entering = <<>> /\ search # NoSearch
    BY <2>1, RunningFacts DEF SearchType, NoSearch
  <2>3. CASE UNCHANGED <<instantiated, search>>
    BY <2>1, <2>2, <2>3 DEF SearchInv, SearchType
  <2>4. CASE ~UNCHANGED <<instantiated, search>>
    <3>1. PICK inst : instantiated' = instantiated \cup {inst} /\ search' = [search EXCEPT !.new = @ \cup {inst}]
      BY <1>4, <2>4 DEF Continue
    <3>2. /\ search'.phase = search.phase /\ search'.rule = search.rule /\ search'.pattern = search.pattern
          /\ search'.left = search.left /\ search'.used = search.used /\ search'.budget = search.budget
          /\ search'.truncated = search.truncated
      BY <2>2, <3>1 DEF SearchType
    <3>3. search' \in SearchType'
      BY <2>2, <3>1 DEF SearchType
    <3> QED
      BY <2>1, <2>2, <3>2, <3>3 DEF SearchInv
  <2> QED
    BY <2>3, <2>4
<1>5. CASE NextPattern
  <2>1. /\ search.phase = "running" /\ stack = <<>> /\ search.rule \in DOMAIN rules
        /\ UNCHANGED <<rules, entering, instantiated>>
    BY <1>5 DEF NextPattern, registry
  <2>2. search \in SearchType /\ entering = <<>> /\ search # NoSearch
    BY <2>1 DEF SearchInv, NoSearch
  <2>3. CASE search.pattern < Len(rules[search.rule].patterns)
    <3>1. search' = [search EXCEPT !.pattern = search.pattern + 1]
      BY <1>5, <2>3 DEF NextPattern
    <3>2. search.pattern + 1 \in DOMAIN rules[search.rule].patterns
      <4>1. rules[search.rule] \in RuleType
        BY <2>1, ElementOfSeq DEF TypeInv
      <4>2. rules[search.rule].patterns \in Seq(Seq(Exprs \ Variables) \ {<<>>})
        BY <4>1 DEF RuleType, Patterns
      <4>3. search.pattern \in Nat
        BY <2>2 DEF SearchType
      <4> QED
        BY <2>3, <4>2, <4>3
    <3>3. /\ search'.phase = search.phase /\ search'.rule = search.rule /\ search'.pattern = search.pattern + 1
          /\ search'.left = search.left /\ search'.used = search.used /\ search'.budget = search.budget
          /\ search'.truncated = search.truncated /\ search' \in SearchType'
      BY <2>1, <2>2, <3>1 DEF SearchType
    <3> QED
      BY <2>1, <2>2, <3>2, <3>3 DEF SearchInv
  <2>4. CASE ~(search.pattern < Len(rules[search.rule].patterns))
    <3>1. search' = [search EXCEPT !.rule = search.rule + 1, !.pattern = 0] /\ stack' = <<>>
      BY <1>5, <2>1, <2>4 DEF NextPattern
    <3>2. search.rule + 1 \in Nat \ {0}
      BY <2>2 DEF SearchType
    <3>3. /\ search'.phase = search.phase
          /\ search'.left = search.left /\ search'.used = search.used /\ search'.budget = search.budget
          /\ search'.truncated = search.truncated /\ search' \in SearchType'
      BY <2>1, <2>2, <3>1, <3>2 DEF SearchType
    <3> QED
      BY <2>1, <2>2, <3>1, <3>3 DEF SearchInv
  <2> QED
    BY <2>3, <2>4
<1>6. CASE EndMatch
  <2>1. /\ search.phase = "running" /\ stack = <<>> /\ (search.truncated \/ search.rule \notin DOMAIN rules)
        /\ UNCHANGED <<rules, entering, instantiated, stack>> /\ search' = [search EXCEPT !.phase = "done"]
    BY <1>6 DEF EndMatch, registry
  <2>2. search \in SearchType /\ entering = <<>> /\ search # NoSearch
    BY <2>1 DEF SearchInv, NoSearch
  <2>3. /\ search'.phase = "done" /\ search'.rule = search.rule
        /\ search'.left = search.left /\ search'.used = search.used /\ search'.budget = search.budget
        /\ search'.truncated = search.truncated /\ search' \in SearchType'
    BY <2>1, <2>2 DEF SearchType
  <2> QED
    BY <2>1, <2>2, <2>3 DEF SearchInv
<1>7. LeaveLoop => search' = Spend(search) \/ UNCHANGED search
  BY DEF LeaveLoop
<1> QED
  BY <1>2, <1>3, <1>4, <1>5, <1>6, <1>7 DEF Match

LEMMA StackSteps ==
    ASSUME MatchInv, Match
    PROVE  StackInv'
<1> USE DEF MatchInv
<1>1. UNCHANGED <<apps, class, rules>> /\ \A st, pattern : StackOK(st, pattern)' <=> StackOK(st, pattern)
  BY MatchKeeps, StackSame DEF registry
<1>2. CASE stack # <<>>
  <2>1. StackOK(stack, Current) /\ Current \in Seq(Exprs \ Variables) /\ Current # <<>> /\ search \in SearchType
    BY <1>2, RunningFacts DEF StackInv
  <2>2. StackOK(stack', Current) \/ stack' = <<>>
    <3>1. CASE EndExpression
      BY <1>2, <2>1, <3>1, StackPop DEF EndExpression
    <3>2. ~NextPattern /\ ~EndMatch
      BY <1>2 DEF NextPattern, EndMatch
    <3>3. CASE MatchVariable
      BY <2>1, <3>3, StackMatchVariable
    <3>4. CASE Consider
      BY <2>1, <3>4, StackConsider
    <3>5. CASE LeaveLoop
      BY <2>1, <3>5, StackLeaveLoop
    <3>6. CASE NextArgument
      BY <2>1, <3>6, StackNextArgument
    <3>7. CASE Return
      BY <2>1, <3>7, StackReturn
    <3>8. CASE Continue
      BY <2>1, <3>8, StackContinue
    <3> QED
      BY <3>1, <3>2, <3>3, <3>4, <3>5, <3>6, <3>7, <3>8 DEF Match
  <2>3. search'.rule = search.rule /\ search'.pattern = search.pattern
    <3>1. search' = search \/ search' = Spend(search) \/ \E new : search' = [search EXCEPT !.new = new]
      BY <1>2 DEF Match, MatchVariable, Consider, LeaveLoop, NextArgument, Return, Continue, EndExpression,
                  NextPattern, EndMatch
    <3> QED
      BY <2>1, <3>1, SpendFacts DEF SearchType
  <2>4. Current' = Current
    BY <1>1, <2>3 DEF Current
  <2> QED
    BY <1>1, <2>2, <2>4 DEF StackInv
<1>3. CASE stack = <<>>
  <2>1. NextPattern \/ EndMatch
    BY <1>3 DEF Match, MatchVariable, Consider, LeaveLoop, NextArgument, Return, Continue, EndExpression, Waiting
  <2>2. CASE stack' # <<>>
    <3> DEFINE patterns == rules[search.rule].patterns
    <3>1. /\ search.phase = "running" /\ search.rule \in DOMAIN rules /\ search.pattern < Len(patterns)
          /\ search' = [search EXCEPT !.pattern = @ + 1]
          /\ stack' = <<Frame(patterns[search.pattern + 1], <<>>, 1, <<>>)>>
      BY <1>3, <2>1, <2>2 DEF NextPattern, EndMatch
    <3>2. search \in SearchType
      BY <3>1 DEF SearchInv, NoSearch
    <3>3. Current' = patterns[search.pattern + 1]
      <4>1. search'.rule = search.rule /\ search'.pattern = search.pattern + 1
        BY <3>1, <3>2 DEF SearchType
      <4> QED
        BY <1>1, <4>1 DEF Current
    <3>4. patterns[search.pattern + 1] \in Seq(Exprs \ Variables) \ {<<>>}
      <4>1. rules[search.rule] \in RuleType
        BY <3>1, ElementOfSeq DEF TypeInv
      <4>2. patterns \in Seq(Seq(Exprs \ Variables) \ {<<>>})
        BY <4>1 DEF RuleType, Patterns
      <4>3. search.pattern \in Nat /\ search.pattern + 1 \in 1 .. Len(patterns)
        BY <3>1, <3>2, <4>2 DEF SearchType
      <4> QED
        BY <4>2, <4>3, ElementOfSeq
    <3> HIDE DEF patterns
    <3>5. StackOK(stack', Current')
      BY <3>1, <3>3, <3>4, StackFirst
    <3> QED
      BY <1>1, <3>5 DEF StackInv
  <2> QED
    BY <2>2 DEF StackInv
<1> QED
  BY <1>2, <1>3

\* The types, the books and the stack of loops of a call, for any terms, rules and budgets.
THEOREM MatchTypes == Spec => []MatchInv
<1>1. Init => MatchInv
  <2> SUFFICES ASSUME Init PROVE MatchInv
    OBVIOUS
  <2>1. TypeInv
    BY RangeFew DEF Init, TypeInv
  <2> QED
    BY <2>1 DEF Init, MatchInv, SearchInv, StackInv, NoSearch
<1>2. MatchInv /\ [Next]_vars => MatchInv'
  <2> SUFFICES ASSUME MatchInv, [Next]_vars PROVE MatchInv'
    OBVIOUS
  <2>1. CASE Match
    <3>1. TypeInv'
      BY <2>1, MatchKeeps DEF MatchInv, TypeInv, registry
    <3> QED
      BY <2>1, <3>1, SearchSteps, StackSteps DEF MatchInv
  <2>2. CASE UNCHANGED vars
    <3>1. StackInv'
      BY <2>2, StackSame DEF MatchInv, StackInv, vars, registry, Current
    <3> QED
      BY <2>2, <3>1 DEF MatchInv, TypeInv, SearchInv, SearchType, vars, registry
  <2> QED
    BY <2>1, <2>2, RegistrySteps DEF Next
<1> QED
  BY <1>1, <1>2, PTL DEF Spec

(***************************************************************************)
(* Soundness: a binding that is handed on at the last expression fits.       *)
(***************************************************************************)
\* What a binding that comes out of the last expression is.
LEMMA FoundFacts ==
    ASSUME MatchInv, Continue, Top.place >= Len(Top.pats), NEW theta, theta = Head(Top.next)
    PROVE  /\ Top.pats = Current /\ theta \in Partial(Current) /\ theta \in Range(Top.next)
           /\ \A k \in DOMAIN Current : Met(Top, k, theta) /\ Current[k] \in Exprs
           /\ Fits(Current, theta) /\ PatternVars(Current) \subseteq DOMAIN theta
<1>1. /\ stack # <<>> /\ Top.outer /\ Top.next # <<>>
      /\ FrameOK(Top, Current) /\ Top \in Frames(Current) /\ DOMAIN Top.pats = 1 .. Len(Top.pats)
      /\ \A k \in DOMAIN Top.pats : Top.pats[k] \in Exprs
  BY TopFacts DEF MatchInv, StackInv, Continue
<1>2. Top.pats = Current /\ Top.place \in DOMAIN Top.pats
  BY <1>1 DEF FrameOK
<1>3. theta \in Partial(Current) /\ theta \in Range(Top.next)
  <2>1. Top.next \in Seq(Partial(Current))
    BY <1>1 DEF Frames
  <2> HIDE DEF Partial
  <2> QED
    BY <1>1, <2>1, RangeTail, TailFacts
<1>4. \A k \in DOMAIN Current : Met(Top, k, theta)
  <2>1. \A k \in DOMAIN Top.pats : k <= Top.place
    BY <1>1, <1>2
  <2> QED
    BY <1>1, <1>2, <1>3, <2>1 DEF FrameOK
<1>5. Fits(Current, theta)
  BY <1>1, <1>2, <1>4 DEF Fits, Met
<1>6. PatternVars(Current) \subseteq DOMAIN theta
  BY <1>1, <1>2, <1>5, DenotedBinds DEF Fits, PatternVars
<1> QED
  BY <1>1, <1>2, <1>3, <1>4, <1>5, <1>6

\* A call, cut or not, produces only what fits one of the rule's patterns and is not too deep.
THEOREM MatchesOnly == Spec => OnlyMatches
<1>1. ASSUME MatchInv, [Next]_vars, NEW inst \in instantiated' \ instantiated
      PROVE  /\ inst[2] \in Bindings(inst[1])
             /\ \A x \in DOMAIN inst[2] : Depth(inst[2][x]) < MaxDepth
             /\ \E r \in DOMAIN rules : /\ rules[r] = inst[1]
                                        /\ \E i \in DOMAIN rules[r].patterns : Fits(rules[r].patterns[i], inst[2])
  <2>1. Continue
    <3>1. ~UNCHANGED instantiated
      BY <1>1
    <3>2. Match
      BY <1>1, <3>1, RegistrySteps DEF Next, vars
    <3> QED
      BY <3>1, <3>2 DEF Match, MatchVariable, Consider, LeaveLoop, NextArgument, Return, EndExpression,
                        NextPattern, EndMatch
  <2> DEFINE theta == Head(Top.next)
             rule == rules[search.rule]
  <2>2. /\ Top.place >= Len(Top.pats) /\ inst = <<rule, theta>> /\ Yields(rule, theta)
    <3>1. ~(Top.place < Len(Top.pats)) /\ instantiated' = instantiated \cup {<<rule, theta>>}
          /\ Yields(rule, theta)
      BY <1>1, <2>1 DEF Continue
    <3>2. stack # <<>>
      BY <2>1 DEF Continue
    <3>3. Top.place \in Nat /\ Len(Top.pats) \in Nat
      <4>1. Top \in Frames(Current)
        BY <1>1, <3>2, TopFacts DEF MatchInv, StackInv
      <4> QED
        BY <4>1 DEF Frames
    <3> QED
      BY <1>1, <3>1, <3>3
  <2>3. theta \in Partial(Current) /\ Fits(Current, theta)
    BY <1>1, <2>1, <2>2, FoundFacts
  <2>4. /\ search.rule \in DOMAIN rules /\ search.pattern \in DOMAIN rule.patterns
        /\ IsFiniteSet(rule.vars)
    BY <1>1, <2>1, RunningFacts DEF MatchInv, SearchInv, Continue
  <2>5. DOMAIN theta = rule.vars /\ NewDepth(theta) <= MaxDepth
    BY <2>2 DEF Yields
  <2>6. theta \in Bindings(rule)
    BY <2>3, <2>5, PartialFacts DEF Bindings
  <2>7. \A x \in DOMAIN theta : Depth(theta[x]) < MaxDepth
    <3>1. NewDepth(theta) \in Nat /\ \A x \in DOMAIN theta : Depth(theta[x]) < NewDepth(theta)
      BY <1>1, <2>4, <2>5, NewDepthFacts DEF MatchInv, TypeInv
    <3>2. \A x \in DOMAIN theta : Depth(theta[x]) \in Nat
      BY <1>1 DEF MatchInv, TypeInv, Depth
    <3>3. MaxDepth \in Nat
      BY EMatchAssumption
    <3> QED
      BY <2>5, <3>1, <3>2, <3>3
  <2>8. Fits(rule.patterns[search.pattern], theta)
    BY <2>3 DEF Current
  <2> HIDE DEF theta, rule
  <2> QED
    BY <2>2, <2>4, <2>6, <2>7, <2>8 DEF rule
<1>2. MatchInv /\ [Next]_vars =>
        \A inst \in instantiated' \ instantiated :
             /\ inst[2] \in Bindings(inst[1])
             /\ \A x \in DOMAIN inst[2] : Depth(inst[2][x]) < MaxDepth
             /\ \E r \in DOMAIN rules : /\ rules[r] = inst[1]
                                        /\ \E i \in DOMAIN rules[r].patterns : Fits(rules[r].patterns[i], inst[2])
  BY <1>1
<1> QED
  BY <1>2, MatchTypes, PTL DEF Spec, OnlyMatches

(***************************************************************************)
(* Completeness: a binding that fits is an instance already, or some loop    *)
(* on the stack will come to it.                                           *)
(***************************************************************************)
\* The expressions after the one at which frame F stands, under the binding theta.
Rest(F, theta) == \A k \in DOMAIN F.pats : k > F.place => Met(F, k, theta)

\* Frame F has a part of the binding theta in hand, and has not passed the way to the rest of it.
Pending(F, theta) ==
    \/ (\E part \in Range(F.next) : Alike(part, theta)) /\ Rest(F, theta)
    \/ /\ F.thetas # <<>>
       /\ \/ /\ \E part \in Range(Tail(F.thetas)) : Alike(part, theta)
             /\ \A k \in DOMAIN F.pats : k >= F.place => Met(F, k, theta)
          \/ /\ Alike(Head(F.thetas), theta) /\ Rest(F, theta)
             /\ F.place \in DOMAIN F.pats =>
                  IF F.pats[F.place] \in Variables THEN Met(F, F.place, theta)
                  ELSE \E m \in DOMAIN apps : /\ m >= F.at /\ MeetsAt(F, apps[m])
                                              /\ Stands(apps[m], F.pats[F.place], Denoted(theta))

Alive(st, theta) ==
    \E d \in DOMAIN st : Pending(st[d], theta) /\ \A c \in DOMAIN st : c > d => Rest(st[c], theta)

\* The calls' patterns that the search has been through, or is in.
Progress ==
    search.phase = "running" /\ ~search.truncated =>
      \A r \in DOMAIN rules : \A i \in DOMAIN rules[r].patterns :
        Covers(rules[r].patterns[i], rules[r]) =>
          \A theta \in Bindings(rules[r]) : Fits(rules[r].patterns[i], theta) =>
            /\ r < search.rule => Matched(rules[r], theta)
            /\ r = search.rule /\ i < search.pattern => Matched(rules[r], theta)
            /\ r = search.rule /\ i = search.pattern => Matched(rules[r], theta) \/ Alive(stack, theta)

RestAll(st, theta) == \A c \in DOMAIN st : Rest(st[c], theta)

LEMMA AliveCons ==
    ASSUME NEW S, NEW st \in Seq(S), NEW F \in S, NEW theta
    PROVE  /\ Alive(<<F>> \o st, theta) <=> (Pending(F, theta) /\ RestAll(st, theta)) \/ Alive(st, theta)
           /\ RestAll(<<F>> \o st, theta) <=> Rest(F, theta) /\ RestAll(st, theta)
<1> DEFINE new == <<F>> \o st
<1>1. /\ DOMAIN new = 1 .. Len(st) + 1 /\ new[1] = F /\ \A d \in 1 .. Len(st) : new[d + 1] = st[d]
      /\ Len(st) \in Nat /\ DOMAIN st = 1 .. Len(st)
  BY ConsFacts
<1> HIDE DEF new
<1>2. \A c \in DOMAIN new : c = 1 \/ (c - 1 \in DOMAIN st /\ new[c] = st[c - 1] /\ (c - 1) + 1 = c)
  BY <1>1
<1>3. \A c \in DOMAIN st : c + 1 \in DOMAIN new /\ new[c + 1] = st[c] /\ c + 1 > 1
  BY <1>1
<1>4. RestAll(new, theta) <=> Rest(F, theta) /\ RestAll(st, theta)
  <2>1. 1 \in DOMAIN new
    BY <1>1
  <2> QED
    BY <1>1, <1>2, <1>3, <2>1 DEF RestAll
<1>5. ASSUME Alive(new, theta)
      PROVE  (Pending(F, theta) /\ RestAll(st, theta)) \/ Alive(st, theta)
  <2>1. PICK d \in DOMAIN new : Pending(new[d], theta) /\ \A c \in DOMAIN new : c > d => Rest(new[c], theta)
    BY <1>5 DEF Alive
  <2>2. CASE d = 1
    BY <1>1, <1>3, <2>1, <2>2 DEF RestAll
  <2>3. CASE d # 1
    <3>1. d - 1 \in DOMAIN st /\ new[d] = st[d - 1]
      BY <1>2, <2>3
    <3>2. \A c \in DOMAIN st : c > d - 1 => Rest(st[c], theta)
      <4> TAKE c \in DOMAIN st
      <4> HAVE c > d - 1
      <4>1. c + 1 > d
        BY <1>1
      <4> QED
        BY <1>3, <2>1, <4>1
    <3> QED
      BY <2>1, <3>1, <3>2 DEF Alive
  <2> QED
    BY <2>2, <2>3
<1>6. ASSUME Pending(F, theta) /\ RestAll(st, theta)
      PROVE  Alive(new, theta)
  <2>1. 1 \in DOMAIN new
    BY <1>1
  <2>2. \A c \in DOMAIN new : c > 1 => Rest(new[c], theta)
    BY <1>2, <1>6 DEF RestAll
  <2> QED
    BY <1>1, <1>6, <2>1, <2>2 DEF Alive
<1>7. ASSUME Alive(st, theta)
      PROVE  Alive(new, theta)
  <2>1. PICK d \in DOMAIN st : Pending(st[d], theta) /\ \A c \in DOMAIN st : c > d => Rest(st[c], theta)
    BY <1>7 DEF Alive
  <2>2. d + 1 \in DOMAIN new /\ new[d + 1] = st[d]
    BY <1>3
  <2>3. \A c \in DOMAIN new : c > d + 1 => Rest(new[c], theta)
    <3> TAKE c \in DOMAIN new
    <3> HAVE c > d + 1
    <3>1. c # 1 /\ c - 1 > d
      BY <1>1
    <3> QED
      BY <1>2, <2>1, <3>1
  <2> QED
    BY <2>1, <2>2, <2>3 DEF Alive
<1> QED
  BY <1>4, <1>5, <1>6, <1>7 DEF new

\* A fresh loop comes to everything that fits from its place on.
LEMMA Fresh ==
    ASSUME NEW pattern, NEW F, FrameOK(F, pattern), NEW theta,
           apps \in Seq(Terms), F.thetas # <<>>, Alike(Head(F.thetas), theta), F.at = 1,
           \A k \in DOMAIN F.pats : k >= F.place => Met(F, k, theta)
    PROVE  Pending(F, theta)
<1>1. /\ F \in Frames(pattern) /\ F.place \in Nat /\ DOMAIN F.pats = 1 .. Len(F.pats)
      /\ \A k \in DOMAIN F.pats : F.pats[k] \in Exprs
  <2>1. F \in Frames(pattern)
    BY DEF FrameOK
  <2>2. F.pats \in Seq(Exprs) /\ F.place \in Nat
    BY <2>1 DEF Frames
  <2> QED
    BY <2>1, <2>2, ElementOfSeq
<1>2. Rest(F, theta)
  BY <1>1 DEF Rest
<1>3. ASSUME F.place \in DOMAIN F.pats, F.pats[F.place] \notin Variables
      PROVE  \E m \in DOMAIN apps : /\ m >= F.at /\ MeetsAt(F, apps[m])
                                    /\ Stands(apps[m], F.pats[F.place], Denoted(theta))
  <2> DEFINE e == F.pats[F.place]
  <2>1. Met(F, F.place, theta) /\ e \in Exprs \ Variables
    BY <1>1, <1>3
  <2>2. \E y \in Range(apps) : Stands(y, e, Denoted(theta)) /\ (F.outer \/ class[y] = class[F.targets[F.place]])
    <3>1. CASE F.outer
      <4>1. \E c : c \in Denoted(theta)[e]
        BY <2>1, <3>1 DEF Met
      <4> QED
        BY <2>1, <3>1, <4>1, DenotedApp
    <3>2. CASE ~F.outer
      <4>1. class[F.targets[F.place]] \in Denoted(theta)[e]
        BY <2>1, <3>2 DEF Met
      <4> HIDE DEF e
      <4> QED
        BY <2>1, <4>1, DenotedApp
    <3> QED
      BY <3>1, <3>2
  <2>3. PICK m \in DOMAIN apps : Stands(apps[m], e, Denoted(theta)) /\ (F.outer \/ class[apps[m]] = class[F.targets[F.place]])
    BY <2>2 DEF Range
  <2>4. MeetsAt(F, apps[m])
    BY <2>3 DEF MeetsAt, Stands
  <2>5. m >= F.at
    <3>1. m \in Nat \ {0}
      OBVIOUS
    <3> QED
      BY <3>1
  <2> QED
    BY <2>3, <2>4, <2>5
<1>4. F.place \in DOMAIN F.pats => Met(F, F.place, theta)
  BY <1>1
<1> QED
  BY <1>2, <1>3, <1>4 DEF Pending

\* What is alive in a stack is at its top or below it.
LEMMA AliveTop ==
    ASSUME NEW pattern, StackOK(stack, pattern), stack # <<>>, NEW theta
    PROVE  /\ Alive(stack, theta) <=> (Pending(Top, theta) /\ RestAll(Tail(stack), theta)) \/ Alive(Tail(stack), theta)
           /\ \A F : /\ Alive(<<F>> \o Tail(stack), theta) <=>
                          (Pending(F, theta) /\ RestAll(Tail(stack), theta)) \/ Alive(Tail(stack), theta)
                     /\ RestAll(<<F>> \o Tail(stack), theta) <=> Rest(F, theta) /\ RestAll(Tail(stack), theta)
           /\ \A C, F : Alive(<<C>> \o (<<F>> \o Tail(stack)), theta) <=>
                          \/ Pending(C, theta) /\ Rest(F, theta) /\ RestAll(Tail(stack), theta)
                          \/ Pending(F, theta) /\ RestAll(Tail(stack), theta)
                          \/ Alive(Tail(stack), theta)
<1>1. stack = <<Top>> \o Tail(stack) /\ Tail(stack) \in Seq(Frames(pattern)) /\ Top \in Frames(pattern)
  BY TailFacts DEF StackOK, Top
<1>2. ASSUME NEW F
      PROVE  /\ Alive(<<F>> \o Tail(stack), theta) <=>
                  (Pending(F, theta) /\ RestAll(Tail(stack), theta)) \/ Alive(Tail(stack), theta)
             /\ RestAll(<<F>> \o Tail(stack), theta) <=> Rest(F, theta) /\ RestAll(Tail(stack), theta)
  <2> DEFINE S == Frames(pattern) \cup {F}
  <2>1. Tail(stack) \in Seq(S) /\ F \in S
    BY <1>1
  <2> HIDE DEF S
  <2> QED
    BY <2>1, AliveCons
<1>3. ASSUME NEW C, NEW F
      PROVE  Alive(<<C>> \o (<<F>> \o Tail(stack)), theta) <=>
               \/ Pending(C, theta) /\ Rest(F, theta) /\ RestAll(Tail(stack), theta)
               \/ Pending(F, theta) /\ RestAll(Tail(stack), theta)
               \/ Alive(Tail(stack), theta)
  <2> DEFINE S == Frames(pattern) \cup {F, C}
  <2>1. (<<F>> \o Tail(stack)) \in Seq(S) /\ C \in S
    BY <1>1
  <2> HIDE DEF S
  <2>2. Alive(<<C>> \o (<<F>> \o Tail(stack)), theta) <=>
          (Pending(C, theta) /\ RestAll(<<F>> \o Tail(stack), theta)) \/ Alive(<<F>> \o Tail(stack), theta)
    BY <2>1, AliveCons
  <2> QED
    BY <1>2, <2>2
<1>4. Alive(stack, theta) <=> (Pending(Top, theta) /\ RestAll(Tail(stack), theta)) \/ Alive(Tail(stack), theta)
  BY <1>1, <1>2
<1> QED
  BY <1>2, <1>3, <1>4

\* The bindings after the head of a loop are pending at its next round.
LEMMA PendingShift ==
    ASSUME NEW pattern, NEW F, FrameOK(F, pattern), NEW G, FrameOK(G, pattern), NEW theta, apps \in Seq(Terms),
           G.outer = F.outer, G.pats = F.pats, G.targets = F.targets, G.place = F.place,
           F.thetas # <<>>, G.thetas = Tail(F.thetas), G.at = 1,
           \E part \in Range(Tail(F.thetas)) : Alike(part, theta),
           \A k \in DOMAIN F.pats : k >= F.place => Met(F, k, theta)
    PROVE  Pending(G, theta)
<1>1. \A k \in DOMAIN G.pats : k >= G.place => Met(G, k, theta)
  BY DEF Met
<1>2. PICK part \in Range(G.thetas) : Alike(part, theta)
  OBVIOUS
<1>3. G.thetas # <<>>
  BY <1>2, RangeFew
<1>4. part = Head(G.thetas) \/ part \in Range(Tail(G.thetas))
  BY <1>2, <1>3, BindingsNext
<1>5. CASE part = Head(G.thetas)
  BY <1>1, <1>2, <1>3, <1>5, Fresh
<1>6. CASE part \in Range(Tail(G.thetas))
  BY <1>1, <1>2, <1>3, <1>6 DEF Pending
<1> QED
  BY <1>4, <1>5, <1>6

LEMMA AliveMatchVariable ==
    ASSUME NEW pattern \in Seq(Exprs \ Variables), StackOK(stack, pattern), apps \in Seq(Terms), MatchVariable,
           NEW theta, Alive(stack, theta)
    PROVE  Alive(stack', theta)
<1> DEFINE x == Pattern
           t == Top.targets[Top.place]
           made == IF x \notin DOMAIN Theta THEN <<Bind(Theta, x, t)>>
                   ELSE IF Agrees(Theta, x, t) THEN <<Theta>> ELSE <<>>
           F == [Top EXCEPT !.thetas = Tail(@), !.next = @ \o made]
<1>1. /\ stack # <<>> /\ Top.place \in DOMAIN Top.pats /\ Top.thetas # <<>>
      /\ x \in Variables /\ stack' = <<F>> \o Tail(stack) /\ x = Top.pats[Top.place]
  BY DEF MatchVariable, Waiting, Replace, Pattern
<1>2. /\ FrameOK(Top, pattern) /\ Top \in Frames(pattern) /\ Top.place \in Nat /\ DOMAIN Top.pats \subseteq Nat
  <2>1. FrameOK(Top, pattern) /\ Top \in Frames(pattern)
    BY <1>1, TopFacts
  <2>2. Top.place \in Nat /\ Top.pats \in Seq(Exprs)
    BY <2>1 DEF Frames
  <2> QED
    BY <2>1, <2>2
<1>3. ~Top.outer
  <2>1. Top.outer => Top.pats = pattern
    BY <1>2 DEF FrameOK
  <2>2. \A k \in DOMAIN pattern : pattern[k] \notin Variables
    BY ElementOfSeq
  <2> QED
    BY <1>1, <2>1, <2>2
<1>4. /\ F.outer = Top.outer /\ F.pats = Top.pats /\ F.targets = Top.targets /\ F.place = Top.place
      /\ F.thetas = Tail(Top.thetas) /\ F.at = Top.at /\ F.next = Top.next \o made
  BY <1>2 DEF Frames
<1>5. FrameOK(F, pattern) /\ F \in Frames(pattern)
  <2>1. StackOK(<<F>> \o Tail(stack), pattern)
    BY <1>1, StackMatchVariable
  <2>2. Tail(stack) \in Seq(Frames(pattern))
    BY <1>1, TailFacts DEF StackOK
  <2>3. (<<F>> \o Tail(stack))[1] = F /\ 1 \in DOMAIN (<<F>> \o Tail(stack))
    BY <2>2
  <2> HIDE DEF F
  <2> QED
    BY <2>1, <2>3 DEF StackOK
<1>6. Top.at = 1
  BY <1>1, <1>2 DEF FrameOK
<1>7. Range(F.next) = Range(Top.next) \cup Range(made)
  <2>1. Top.next \in Seq(Partial(pattern)) /\ Theta \in Partial(pattern)
    BY <1>1, <1>2, BindingsNext DEF Theta
  <2> DEFINE S == Partial(pattern) \cup {Bind(Theta, x, t)}
  <2>2. Theta \in S /\ Bind(Theta, x, t) \in S /\ Top.next \in Seq(S)
    BY <2>1
  <2> HIDE DEF S
  <2>4. made \in Seq(S) /\ Top.next \in Seq(S)
    BY <2>2
  <2> HIDE DEF made, F
  <2> QED
    BY <1>4, <2>4, RangeConcat
<1>8. ASSUME Alike(Theta, theta), Met(Top, Top.place, theta)
      PROVE  \E part \in Range(made) : Alike(part, theta)
  <2>1. class[t] \in Denoted(theta)[x]
    BY <1>1, <1>3, <1>8 DEF Met
  <2>2. Denoted(theta)[x] = IF x \in DOMAIN theta THEN {class[theta[x]]} ELSE {}
    <3> HIDE DEF x
    <3> QED
      BY <1>1, DenotedVariable
  <2>3. class[t] = class[theta[x]]
    BY <2>1, <2>2
  <2>4. CASE x \notin DOMAIN Theta
    <3>1. Alike(Bind(Theta, x, t), theta)
      BY <1>8, <2>3, <2>4 DEF Alike, Bind
    <3>2. Range(made) = {Bind(Theta, x, t)}
      BY <2>4, RangeFew
    <3> QED
      BY <3>1, <3>2
  <2>5. CASE x \in DOMAIN Theta
    <3>1. Agrees(Theta, x, t)
      BY <1>8, <2>3, <2>5 DEF Alike, Agrees
    <3>2. Range(made) = {Theta}
      BY <2>5, <3>1, RangeFew
    <3> QED
      BY <1>8, <3>2
  <2> QED
    BY <2>4, <2>5
<1> HIDE DEF made, F, x, t
<1>9. Rest(Top, theta) => Rest(F, theta)
  BY <1>4 DEF Rest, Met
<1>10. ASSUME Pending(Top, theta)
       PROVE  Pending(F, theta)
  <2>1. CASE (\E part \in Range(Top.next) : Alike(part, theta)) /\ Rest(Top, theta)
    BY <1>7, <1>9, <2>1 DEF Pending
  <2>2. CASE /\ \E part \in Range(Tail(Top.thetas)) : Alike(part, theta)
             /\ \A k \in DOMAIN Top.pats : k >= Top.place => Met(Top, k, theta)
    BY <1>1, <1>2, <1>4, <1>5, <1>6, <2>2, PendingShift
  <2>3. CASE /\ Alike(Theta, theta) /\ Rest(Top, theta) /\ Met(Top, Top.place, theta)
    BY <1>7, <1>8, <1>9, <2>3 DEF Pending
  <2> QED
    BY <1>1, <1>10, <2>1, <2>2, <2>3 DEF Pending, Theta
<1> QED
  BY <1>1, <1>10, AliveTop

\* The loop left at the top of the stack is well formed.
LEMMA NewTop ==
    ASSUME NEW pattern, NEW F, NEW st, st \in Seq(Frames(pattern)), StackOK(<<F>> \o st, pattern)
    PROVE  FrameOK(F, pattern)
<1> DEFINE new == <<F>> \o st
<1>1. new[1] = F /\ 1 \in DOMAIN new
  OBVIOUS
<1> HIDE DEF new
<1> QED
  BY <1>1 DEF StackOK, new

LEMMA AliveConsider ==
    ASSUME NEW pattern, pattern = Current, StackOK(stack, pattern), TypeInv, SearchInv, Consider,
           NEW theta, Alive(stack, theta)
    PROVE  Alive(stack', theta)
<1> DEFINE e == Pattern
           x == apps[Top.at]
           F == [Top EXCEPT !.at = @ + 1]
           C == Frame(ArgsOf[e], ArgsOf[x], 1, Theta)
<1>1. /\ stack # <<>> /\ Top.place \in DOMAIN Top.pats /\ Top.thetas # <<>>
      /\ e \notin Variables /\ e = Top.pats[Top.place] /\ Top.at \in DOMAIN apps /\ x \in Range(apps)
      /\ stack' = IF Meets(x) THEN <<C>> \o (<<F>> \o Tail(stack)) ELSE <<F>> \o Tail(stack)
  BY DEF Consider, Waiting, Pattern, Range
<1>2. FrameOK(Top, pattern) /\ Top \in Frames(pattern) /\ e \in Exprs /\ apps \in Seq(Terms)
  BY <1>1, TopFacts DEF TypeInv
<1>3. /\ F.outer = Top.outer /\ F.pats = Top.pats /\ F.targets = Top.targets /\ F.place = Top.place
      /\ F.thetas = Top.thetas /\ F.next = Top.next /\ F.at = Top.at + 1
  BY <1>2 DEF Frames
<1>4. stack \in Seq(Frames(pattern)) /\ Tail(stack) \in Seq(Frames(pattern))
  BY <1>1, TailFacts DEF StackOK
<1>5. ASSUME Meets(x)
      PROVE  FrameOK(C, pattern)
  <2>1. StackOK(<<C>> \o (<<F>> \o Tail(stack)), pattern)
    BY <1>1, <1>5, StackConsider
  <2>2. F \in Frames(pattern)
    <3>1. Top.at + 1 \in Nat
      BY <1>2 DEF Frames
    <3>2. F = [Top EXCEPT !.at = Top.at + 1]
      OBVIOUS
    <3> HIDE DEF F
    <3> QED
      BY <1>2, <3>1, <3>2 DEF Frames
  <2> HIDE DEF F, C
  <2>3. (<<F>> \o Tail(stack)) \in Seq(Frames(pattern))
    BY <1>4, <2>2
  <2> QED
    BY <2>1, <2>3, NewTop
<1>6. /\ C.pats = ArgsOf[e] /\ C.targets = ArgsOf[x] /\ C.place = 1
      /\ C.thetas = <<Theta>> /\ C.next = <<>> /\ C.at = 1
  BY DEF Frame
<1>7. Meets(x) => C.outer = FALSE
  <2>1. ASSUME Meets(x), ArgsOf[x] = <<>> /\ ArgsOf[e] # <<>>
        PROVE  FALSE
    <3>1. x \in Exprs \ Variables
      BY <1>1, RunningFacts
    <3>2. Len(ArgsOf[x]) = Len(ArgsOf[e]) /\ ArgsOf[e] \in Seq(Exprs)
      BY <1>1, <1>2, <2>1, <3>1, EMatchAssumption DEF Meets
    <3> QED
      BY <2>1, <3>2
  <2> QED
    BY <2>1 DEF Frame
<1>8. Rest(Top, theta) => Rest(F, theta)
  BY <1>3 DEF Rest, Met
<1> HIDE DEF C, F
<1>9. ASSUME Alike(Theta, theta), Rest(Top, theta), Meets(x), Stands(x, e, Denoted(theta))
      PROVE  Pending(C, theta)
  <2>1. \A k \in DOMAIN C.pats : Met(C, k, theta)
    BY <1>6, <1>7, <1>9 DEF Stands, Met
  <2>2. C.thetas # <<>> /\ Head(C.thetas) = Theta
    BY <1>6
  <2> QED
    BY <1>2, <1>5, <1>6, <1>9, <2>1, <2>2, Fresh
<1>10. ASSUME Pending(Top, theta)
       PROVE  Pending(F, theta) \/ (Meets(x) /\ Pending(C, theta) /\ Rest(F, theta))
  <2>1. CASE (\E part \in Range(Top.next) : Alike(part, theta)) /\ Rest(Top, theta)
    BY <1>3, <1>8, <2>1 DEF Pending
  <2>2. CASE /\ \E part \in Range(Tail(Top.thetas)) : Alike(part, theta)
             /\ \A k \in DOMAIN Top.pats : k >= Top.place => Met(Top, k, theta)
    <3>1. \A k \in DOMAIN F.pats : k >= F.place => Met(F, k, theta)
      BY <1>3, <2>2 DEF Met
    <3> QED
      BY <1>1, <1>3, <2>2, <3>1 DEF Pending
  <2>3. CASE /\ Alike(Head(Top.thetas), theta) /\ Rest(Top, theta)
             /\ \E m \in DOMAIN apps : /\ m >= Top.at /\ MeetsAt(Top, apps[m])
                                       /\ Stands(apps[m], e, Denoted(theta))
    <3>1. PICK m \in DOMAIN apps : /\ m >= Top.at /\ MeetsAt(Top, apps[m])
                                   /\ Stands(apps[m], e, Denoted(theta))
      BY <2>3
    <3>2. Top.at \in Nat /\ m \in Nat
      BY <1>2 DEF Frames
    <3>3. CASE m = Top.at
      <4>1. Meets(x)
        BY <1>1, <3>1, <3>3 DEF Meets, MeetsAt
      <4> QED
        BY <1>8, <1>9, <2>3, <3>1, <3>3, <4>1 DEF Theta
    <3>4. CASE m # Top.at
      <4>1. m >= F.at
        BY <1>3, <3>1, <3>2, <3>4
      <4>2. MeetsAt(F, apps[m]) /\ Stands(apps[m], F.pats[F.place], Denoted(theta))
        BY <1>1, <1>3, <3>1 DEF MeetsAt
      <4>3. F.pats[F.place] \notin Variables /\ Alike(Head(F.thetas), theta) /\ F.thetas # <<>>
        BY <1>1, <1>3, <2>3
      <4> QED
        BY <1>8, <2>3, <4>1, <4>2, <4>3 DEF Pending
    <3> QED
      BY <3>3, <3>4
  <2> QED
    BY <1>1, <1>10, <2>1, <2>2, <2>3 DEF Pending
<1> QED
  BY <1>1, <1>8, <1>10, AliveTop

LEMMA AliveLeaveLoop ==
    ASSUME NEW pattern, StackOK(stack, pattern), TypeInv, SearchInv, LeaveLoop, ~search'.truncated,
           NEW theta, Alive(stack, theta)
    PROVE  Alive(stack', theta)
<1> DEFINE F == [Top EXCEPT !.thetas = Tail(@), !.at = 1]
<1>1. /\ stack # <<>> /\ Top.place \in DOMAIN Top.pats /\ Top.thetas # <<>> /\ Top.pats[Top.place] \notin Variables
      /\ stack' = <<F>> \o Tail(stack)
  BY DEF LeaveLoop, Waiting, Replace, Pattern
<1>2. FrameOK(Top, pattern) /\ Top \in Frames(pattern) /\ apps \in Seq(Terms)
  BY <1>1, TopFacts DEF TypeInv
<1>3. Top.at \notin DOMAIN apps
  <2>1. search \in SearchType
    BY <1>1, RunningFacts
  <2>2. search.left = 0 /\ search' = Spend(search) => search'.truncated
    BY <2>1, SpendFacts
  <2> QED
    BY <2>2 DEF LeaveLoop
<1>4. /\ F.outer = Top.outer /\ F.pats = Top.pats /\ F.targets = Top.targets /\ F.place = Top.place
      /\ F.thetas = Tail(Top.thetas) /\ F.next = Top.next /\ F.at = 1
  BY <1>2 DEF Frames
<1> HIDE DEF F
<1>5. FrameOK(F, pattern)
  <2>1. StackOK(<<F>> \o Tail(stack), pattern)
    BY <1>1, StackLeaveLoop
  <2>2. Tail(stack) \in Seq(Frames(pattern))
    BY <1>1, TailFacts DEF StackOK
  <2> QED
    BY <2>1, <2>2, NewTop
<1>6. ASSUME Pending(Top, theta)
      PROVE  Pending(F, theta)
  <2>1. CASE (\E part \in Range(Top.next) : Alike(part, theta)) /\ Rest(Top, theta)
    <3>1. Rest(F, theta)
      BY <1>4, <2>1 DEF Rest, Met
    <3> QED
      BY <1>4, <2>1, <3>1 DEF Pending
  <2>2. CASE /\ \E part \in Range(Tail(Top.thetas)) : Alike(part, theta)
             /\ \A k \in DOMAIN Top.pats : k >= Top.place => Met(Top, k, theta)
    BY <1>1, <1>2, <1>4, <1>5, <2>2, PendingShift
  <2>3. ~ \E m \in DOMAIN apps : m >= Top.at
    <3>1. Top.at \in Nat /\ Top.at # 0 /\ DOMAIN apps = 1 .. Len(apps) /\ Len(apps) \in Nat
      BY <1>2 DEF FrameOK, Frames
    <3> QED
      BY <1>3, <3>1
  <2> QED
    BY <1>1, <1>6, <2>1, <2>2, <2>3 DEF Pending
<1> QED
  BY <1>1, <1>6, AliveTop

LEMMA AliveNextArgument ==
    ASSUME NEW pattern, StackOK(stack, pattern), apps \in Seq(Terms), NextArgument,
           NEW theta, Alive(stack, theta)
    PROVE  Alive(stack', theta)
<1> DEFINE F == [Top EXCEPT !.place = @ + 1, !.thetas = Top.next, !.next = <<>>]
<1>1. /\ stack # <<>> /\ ~Top.outer /\ Top.place \in DOMAIN Top.pats /\ Top.thetas = <<>>
      /\ stack' = <<F>> \o Tail(stack)
  BY DEF NextArgument, Replace
<1>2. FrameOK(Top, pattern) /\ Top \in Frames(pattern) /\ DOMAIN Top.pats = 1 .. Len(Top.pats)
  BY <1>1, TopFacts
<1>3. /\ F.outer = Top.outer /\ F.pats = Top.pats /\ F.targets = Top.targets /\ F.place = Top.place + 1
      /\ F.thetas = Top.next /\ F.next = <<>> /\ F.at = Top.at
  BY <1>2 DEF Frames
<1> HIDE DEF F
<1>4. FrameOK(F, pattern) /\ F.at = 1 /\ Top.place \in Nat
  <2>1. StackOK(<<F>> \o Tail(stack), pattern)
    BY <1>1, StackNextArgument
  <2>2. Tail(stack) \in Seq(Frames(pattern))
    BY <1>1, TailFacts DEF StackOK
  <2>3. Top.at = 1 /\ Top.place \in Nat
    BY <1>1, <1>2 DEF FrameOK, Frames
  <2> QED
    BY <1>3, <2>1, <2>2, <2>3, NewTop
<1>5. ASSUME Pending(Top, theta)
      PROVE  Pending(F, theta)
  <2>1. PICK part \in Range(Top.next) : Alike(part, theta) /\ Rest(Top, theta)
    BY <1>1, <1>5 DEF Pending
  <2>2. \A k \in DOMAIN F.pats : k >= F.place => Met(F, k, theta)
    <3> TAKE k \in DOMAIN F.pats
    <3> HAVE k >= F.place
    <3>1. k > Top.place /\ k \in DOMAIN Top.pats
      BY <1>2, <1>3, <1>4
    <3>2. Met(Top, k, theta)
      BY <2>1, <3>1 DEF Rest
    <3> QED
      BY <1>3, <3>2 DEF Met
  <2>3. F.thetas # <<>>
    BY <1>3, <2>1, RangeFew
  <2>4. part = Head(F.thetas) \/ part \in Range(Tail(F.thetas))
    BY <1>3, <1>4, <2>1, <2>3, BindingsNext
  <2>5. CASE part = Head(F.thetas)
    BY <1>4, <2>1, <2>2, <2>3, <2>5, Fresh
  <2>6. CASE part \in Range(Tail(F.thetas))
    BY <2>1, <2>2, <2>3, <2>6 DEF Pending
  <2> QED
    BY <2>4, <2>5, <2>6
<1> QED
  BY <1>1, <1>5, AliveTop

LEMMA AliveReturn ==
    ASSUME NEW pattern, pattern = Current, StackOK(stack, pattern), TypeInv, SearchInv, Return,
           NEW theta, Alive(stack, theta)
    PROVE  Alive(stack', theta)
<1> DEFINE G == stack[2]
           F == [stack[2] EXCEPT !.next = @ \o Top.thetas]
           st == Tail(Tail(stack))
<1>1. stack # <<>> /\ Top.place \notin DOMAIN Top.pats /\ stack' = <<F>> \o st
  BY DEF Return
<1>2. FrameOK(Top, pattern) /\ Top \in Frames(pattern) /\ ~Top.outer /\ Top.next = <<>>
  BY <1>1, TopFacts DEF FrameOK
<1>3. /\ Tail(stack) # <<>> /\ Head(Tail(stack)) = G /\ FrameOK(G, pattern)
      /\ Tail(stack) \in Seq(Frames(pattern))
  <2>1. stack \in Seq(Frames(pattern))
    BY DEF StackOK
  <2> QED
    BY <1>1, <1>2, <2>1, BelowFacts, TailFacts
<1>4. Tail(stack) = <<G>> \o st /\ st \in Seq(Frames(pattern)) /\ G \in Frames(pattern)
  <2> HIDE DEF G
  <2> QED
    BY <1>3, TailFacts
<1>5. Top.thetas \in Seq(Partial(pattern)) /\ G.next \in Seq(Partial(pattern))
  BY <1>2, <1>4 DEF Frames
<1>6. /\ F.outer = G.outer /\ F.pats = G.pats /\ F.targets = G.targets /\ F.place = G.place
      /\ F.thetas = G.thetas /\ F.next = G.next \o Top.thetas /\ F.at = G.at
  BY <1>4 DEF Frames
<1>7. F \in Frames(pattern) /\ Range(F.next) = Range(G.next) \cup Range(Top.thetas)
  <2>1. G.next \o Top.thetas \in Seq(Partial(pattern)) /\ Range(G.next \o Top.thetas) = Range(G.next) \cup Range(Top.thetas)
    BY <1>5, RangeConcat
  <2> QED
    BY <1>4, <1>6, <2>1 DEF Frames
<1> HIDE DEF F, st, G
<1>8. (Rest(G, theta) => Rest(F, theta)) /\ (Pending(G, theta) => Pending(F, theta))
  <2>1. \A k, other : Met(F, k, other) <=> Met(G, k, other)
    BY <1>6 DEF Met
  <2>2. Rest(G, theta) => Rest(F, theta)
    BY <1>6, <2>1 DEF Rest
  <2>3. \A x : MeetsAt(F, x) <=> MeetsAt(G, x)
    BY <1>6 DEF MeetsAt
  <2>4. CASE (\E part \in Range(G.next) : Alike(part, theta)) /\ Rest(G, theta)
    BY <1>7, <2>2, <2>4 DEF Pending
  <2>5. CASE ~((\E part \in Range(G.next) : Alike(part, theta)) /\ Rest(G, theta))
    BY <1>6, <2>1, <2>2, <2>3, <2>5 DEF Pending
  <2> QED
    BY <2>2, <2>4, <2>5
<1>9. Pending(Top, theta) => \E part \in Range(Top.thetas) : Alike(part, theta)
  <2>1. Top.thetas # <<>> => Head(Top.thetas) \in Range(Top.thetas) /\ Range(Tail(Top.thetas)) \subseteq Range(Top.thetas)
    BY <1>2, BindingsNext
  <2> QED
    BY <1>2, <2>1, RangeFew DEF Pending
<1>10. Pending(Top, theta) /\ Rest(G, theta) => Pending(F, theta)
  BY <1>7, <1>8, <1>9 DEF Pending
<1>11. \/ Pending(Top, theta) /\ RestAll(Tail(stack), theta)
       \/ Alive(Tail(stack), theta)
  BY <1>1, AliveTop
<1>12. /\ Alive(Tail(stack), theta) <=> (Pending(G, theta) /\ RestAll(st, theta)) \/ Alive(st, theta)
       /\ RestAll(Tail(stack), theta) <=> Rest(G, theta) /\ RestAll(st, theta)
  BY <1>4, AliveCons
<1>13. Alive(<<F>> \o st, theta) <=> (Pending(F, theta) /\ RestAll(st, theta)) \/ Alive(st, theta)
  BY <1>4, <1>7, AliveCons
<1> QED
  BY <1>1, <1>8, <1>10, <1>11, <1>12, <1>13

LEMMA AliveContinue ==
    ASSUME NEW pattern \in Seq(Exprs \ Variables), pattern # <<>>, StackOK(stack, pattern), apps \in Seq(Terms),
           Continue, NEW theta, Alive(stack, theta), Fits(pattern, theta)
    PROVE  \/ Alive(stack', theta)
           \/ Top.place >= Len(Top.pats) /\ Alike(Head(Top.next), theta)
<1> DEFINE part == Head(Top.next)
           F == [Top EXCEPT !.next = Tail(@)]
           C == Frame(Top.pats, <<>>, Top.place + 1, part)
<1>1. /\ stack # <<>> /\ Top.outer /\ Top.next # <<>>
      /\ stack' = IF Top.place < Len(Top.pats) THEN <<C>> \o (<<F>> \o Tail(stack)) ELSE <<F>> \o Tail(stack)
  BY DEF Continue
<1>2. /\ FrameOK(Top, pattern) /\ Top \in Frames(pattern) /\ Top.pats = pattern
      /\ Top.place \in Nat /\ Len(pattern) \in Nat /\ Tail(stack) \in Seq(Frames(pattern))
  <2>1. FrameOK(Top, pattern) /\ Top \in Frames(pattern) /\ Tail(stack) \in Seq(Frames(pattern))
    BY <1>1, TopFacts, TailFacts
  <2>2. Top.place \in Nat
    BY <2>1 DEF Frames
  <2>3. Top.pats = pattern
    BY <1>1, <2>1 DEF FrameOK
  <2> QED
    BY <2>1, <2>2, <2>3
<1>3. /\ F.outer = Top.outer /\ F.pats = Top.pats /\ F.targets = Top.targets /\ F.place = Top.place
      /\ F.thetas = Top.thetas /\ F.next = Tail(Top.next) /\ F.at = Top.at
  BY <1>2 DEF Frames
<1>4. /\ C.outer = TRUE /\ C.pats = pattern /\ C.targets = <<>> /\ C.place = Top.place + 1
      /\ C.thetas = <<part>> /\ C.next = <<>> /\ C.at = 1
  BY <1>2 DEF Frame
<1>5. Range(Top.next) = {part} \cup Range(F.next) /\ F \in Frames(pattern)
  <2>1. Top.next \in Seq(Partial(pattern))
    BY <1>2 DEF Frames
  <2>2. Tail(Top.next) \in Seq(Partial(pattern))
    BY <1>1, <2>1
  <2>3. F \in Frames(pattern)
    BY <1>2, <2>2 DEF Frames
  <2> HIDE DEF Partial, F
  <2> QED
    BY <1>1, <1>3, <2>1, <2>3, RangeTail
<1> HIDE DEF F, part
<1>6. ASSUME Top.place < Len(Top.pats)
      PROVE  FrameOK(C, pattern)
  <2>1. StackOK(<<C>> \o (<<F>> \o Tail(stack)), pattern)
    BY <1>1, <1>6, StackContinue
  <2> HIDE DEF C
  <2>2. (<<F>> \o Tail(stack)) \in Seq(Frames(pattern))
    BY <1>2, <1>5
  <2> QED
    BY <2>1, <2>2, NewTop
<1> HIDE DEF C
<1>7. \A k \in DOMAIN pattern : Met(Top, k, theta) /\ Met(F, k, theta) /\ Met(C, k, theta)
  BY <1>1, <1>2, <1>3, <1>4 DEF Fits, Met
<1>8. Rest(F, theta)
  BY <1>2, <1>3, <1>7 DEF Rest
<1>9. ASSUME Alike(part, theta), Top.place < Len(Top.pats)
      PROVE  Pending(C, theta)
  <2>1. C.thetas # <<>> /\ Head(C.thetas) = part
    BY <1>4
  <2> QED
    BY <1>4, <1>6, <1>7, <1>9, <2>1, Fresh
<1>10. ASSUME Pending(Top, theta), ~Alike(part, theta)
       PROVE  Pending(F, theta)
  <2>1. CASE (\E other \in Range(Top.next) : Alike(other, theta)) /\ Rest(Top, theta)
    BY <1>5, <1>8, <1>10, <2>1 DEF Pending
  <2>2. CASE ~((\E other \in Range(Top.next) : Alike(other, theta)) /\ Rest(Top, theta))
    <3>1. \A x : MeetsAt(F, x) <=> MeetsAt(Top, x)
      BY <1>3 DEF MeetsAt
    <3> QED
      BY <1>2, <1>3, <1>7, <1>8, <1>10, <2>2, <3>1 DEF Pending
  <2> QED
    BY <2>1, <2>2
<1>11. CASE ~Alike(part, theta)
  BY <1>1, <1>8, <1>10, <1>11, AliveTop
<1>12. CASE Alike(part, theta) /\ Top.place < Len(Top.pats)
  BY <1>1, <1>8, <1>9, <1>12, AliveTop
<1>13. CASE Alike(part, theta) /\ ~(Top.place < Len(Top.pats))
  BY <1>2, <1>13 DEF part
<1> QED
  BY <1>11, <1>12, <1>13

LEMMA AliveSame ==
    ASSUME UNCHANGED <<apps, class>>
    PROVE  /\ \A st, theta : Alive(st, theta)' <=> Alive(st, theta)
           /\ \A pattern, theta : Fits(pattern, theta)' <=> Fits(pattern, theta)
           /\ \A rule : Bindings(rule)' = Bindings(rule)
           /\ \A theta, other : Alike(theta, other)' <=> Alike(theta, other)
<1>1. \A F, k, theta : Met(F, k, theta)' <=> Met(F, k, theta)
  BY DenotedSame DEF Met
<1>2. \A theta, other : Alike(theta, other)' <=> Alike(theta, other)
  BY DEF Alike
<1>3. \A F, theta : Rest(F, theta)' <=> Rest(F, theta)
  BY <1>1 DEF Rest
<1>4. \A F, x : MeetsAt(F, x)' <=> MeetsAt(F, x)
  BY DEF MeetsAt
<1>5. \A y, e, theta : Stands(y, e, Denoted(theta))' <=> Stands(y, e, Denoted(theta))
  BY DenotedSame DEF Stands
<1>6. \A F, theta : Pending(F, theta)' <=> Pending(F, theta)
  BY <1>1, <1>2, <1>3, <1>4, <1>5 DEF Pending
<1>7. \A pattern, theta : Fits(pattern, theta)' <=> Fits(pattern, theta)
  BY DenotedSame DEF Fits
<1> QED
  BY <1>2, <1>3, <1>6, <1>7 DEF Alive, Bindings

\* What is matched stays so during a call.
LEMMA MatchedKept ==
    ASSUME Match
    PROVE  \A rule, theta : Matched(rule, theta) => Matched(rule, theta)'
<1>1. UNCHANGED <<apps, class, depth>>
  BY MatchKeeps DEF registry
<1>2. instantiated \subseteq instantiated'
  BY DEF Match, MatchVariable, Consider, LeaveLoop, NextArgument, Return, Continue, EndExpression, NextPattern, EndMatch
<1>3. \A theta : NewDepth(theta)' = NewDepth(theta)
  BY <1>1 DEF NewDepth, Depth
<1> QED
  BY <1>1, <1>2, <1>3, AliveSame DEF Matched

\* A step of a call that is not cut loses nothing.
LEMMA AliveStep ==
    ASSUME MatchInv, Match, stack # <<>>, ~search'.truncated, NEW rule, rule = rules[search.rule],
           Covers(Current, rule), NEW theta \in Bindings(rule), Fits(Current, theta), Alive(stack, theta)
    PROVE  Alive(stack', theta) \/ Matched(rule, theta)'
<1> USE DEF MatchInv
<1>1. /\ StackOK(stack, Current) /\ Current \in Seq(Exprs \ Variables) /\ Current # <<>> /\ apps \in Seq(Terms)
      /\ IsFiniteSet(rule.vars)
  BY RunningFacts DEF StackInv, TypeInv
<1>2. CASE EndExpression
  <2>1. ~Pending(Top, theta)
    BY <1>2, RangeFew DEF EndExpression, Pending
  <2>2. Alive(Tail(stack), theta)
    BY <1>1, <2>1, AliveTop
  <2> QED
    BY <1>2, <2>2 DEF EndExpression
<1>3. ~NextPattern /\ ~EndMatch
  BY DEF NextPattern, EndMatch
<1>4. CASE MatchVariable
  BY <1>1, <1>4, AliveMatchVariable
<1>5. CASE Consider
  BY <1>1, <1>5, AliveConsider
<1>6. CASE LeaveLoop
  BY <1>1, <1>6, AliveLeaveLoop
<1>7. CASE NextArgument
  BY <1>1, <1>7, AliveNextArgument
<1>8. CASE Return
  BY <1>1, <1>8, AliveReturn
<1>9. CASE Continue
  <2>3. PICK part : part = Head(Top.next)
    OBVIOUS
  <2>1. CASE Alive(stack', theta)
    BY <2>1
  <2>2. CASE Top.place >= Len(Top.pats) /\ Alike(part, theta)
    <3>1. /\ part \in Partial(Current) /\ PatternVars(Current) \subseteq DOMAIN part
      BY <1>9, <2>2, <2>3, FoundFacts
    <3>2. DOMAIN part = rule.vars
      BY <3>1, PartialFacts DEF Covers, PatternVars
    <3>3. part \in Bindings(rule)
      BY <3>1, <3>2, PartialFacts DEF Bindings
    <3>4. Alike(theta, part)
      BY <2>2, <3>2 DEF Alike, Bindings
    <3>5. NewDepth(part) \in Nat /\ MaxDepth \in Nat
      BY <1>1, <3>2, NewDepthFacts, EMatchAssumption DEF TypeInv
    <3>6. <<rule, part>> \in instantiated' \/ NewDepth(part) > MaxDepth
      <4>1. ~(Top.place < Len(Top.pats))
        <5>1. Top.place \in Nat /\ Len(Top.pats) \in Nat
          <6>1. Top \in Frames(Current)
            BY <1>1, TopFacts
          <6> QED
            BY <6>1 DEF Frames
        <5> QED
          BY <2>2, <5>1
      <4>2. Yields(rule, part) => <<rule, part>> \in instantiated'
        BY <1>9, <2>3, <4>1 DEF Continue
      <4> QED
        BY <3>2, <3>5, <4>2 DEF Yields
    <3>7. /\ part \in Bindings(rule)' /\ Alike(theta, part)' /\ NewDepth(part)' = NewDepth(part)
      <4>1. UNCHANGED <<apps, class, depth>>
        BY MatchKeeps DEF registry
      <4>2. NewDepth(part)' = NewDepth(part)
        BY <4>1 DEF NewDepth, Depth
      <4> QED
        BY <3>3, <3>4, <4>1, <4>2, AliveSame
    <3> QED
      BY <3>6, <3>7 DEF Matched
  <2> QED
    BY <1>1, <1>9, <2>1, <2>2, <2>3, AliveContinue
<1> QED
  BY <1>2, <1>3, <1>4, <1>5, <1>6, <1>7, <1>8, <1>9 DEF Match

(***************************************************************************)
(* A call that was not cut has found everything.                           *)
(***************************************************************************)
\* A step of a call leaves the rules and what fits them as they are.
LEMMA ProgressKept ==
    ASSUME MatchInv, Match
    PROVE  /\ \A pattern, theta : Fits(pattern, theta)' <=> Fits(pattern, theta)
           /\ \A rule : Bindings(rule)' = Bindings(rule)
           /\ \A st, theta : Alive(st, theta)' <=> Alive(st, theta)
           /\ UNCHANGED rules /\ UNCHANGED apps
  BY MatchKeeps, AliveSame DEF registry

LEMMA LoopProgress ==
    ASSUME MatchInv, Progress, Match, stack # <<>>
    PROVE  Progress' /\ search'.phase = "running"
<1>1. search \in SearchType /\ search.phase = "running"
  BY RunningFacts DEF MatchInv
<1>2. /\ search'.phase = search.phase /\ search'.rule = search.rule /\ search'.pattern = search.pattern
      /\ ~search'.truncated => ~search.truncated
  <2>1. search' = search \/ search' = Spend(search) \/ \E new : search' = [search EXCEPT !.new = new]
    BY DEF Match, MatchVariable, Consider, LeaveLoop, NextArgument, Return, Continue, EndExpression,
           NextPattern, EndMatch
  <2>2. search.left \in Int
    BY <1>1 DEF SearchType
  <2>3. CASE search' = Spend(search)
    BY <1>1, <2>2, <2>3, SpendFacts DEF MatchInv
  <2>4. CASE search' = search \/ \E new : search' = [search EXCEPT !.new = new]
    BY <1>1, <2>4 DEF SearchType
  <2> QED
    BY <2>1, <2>3, <2>4
<1>3. SUFFICES ASSUME ~search'.truncated,
                      NEW r \in DOMAIN rules, NEW i \in DOMAIN rules[r].patterns,
                      Covers(rules[r].patterns[i], rules[r]),
                      NEW theta \in Bindings(rules[r]), Fits(rules[r].patterns[i], theta)
               PROVE  /\ r < search.rule => Matched(rules[r], theta)'
                      /\ r = search.rule /\ i < search.pattern => Matched(rules[r], theta)'
                      /\ r = search.rule /\ i = search.pattern => Matched(rules[r], theta)' \/ Alive(stack, theta)'
  BY <1>1, <1>2, ProgressKept DEF Progress
<1>4. /\ r < search.rule => Matched(rules[r], theta)
      /\ r = search.rule /\ i < search.pattern => Matched(rules[r], theta)
      /\ r = search.rule /\ i = search.pattern => Matched(rules[r], theta) \/ Alive(stack, theta)
  BY <1>1, <1>2, <1>3 DEF Progress
<1>5. PICK rule : rule = rules[r]
  OBVIOUS
<1>6. Matched(rules[r], theta)' = Matched(rule, theta)'
  BY <1>5, ProgressKept DEF Matched
<1>7. Matched(rules[r], theta) => Matched(rules[r], theta)'
  BY <1>5, <1>6, MatchedKept
<1>8. ASSUME r = search.rule, i = search.pattern, Alive(stack, theta)
      PROVE  Matched(rules[r], theta)' \/ Alive(stack, theta)'
  <2>1. Alive(stack', theta) \/ Matched(rule, theta)'
    BY <1>3, <1>5, <1>8, AliveStep DEF Current
  <2> QED
    BY <1>6, <2>1, ProgressKept
<1> QED
  BY <1>4, <1>7, <1>8

\* With no loop on the stack, the search is through with its pattern.
LEMMA NothingAlive ==
    ASSUME Progress, stack = <<>>, search.phase = "running", ~search.truncated
    PROVE  \A r \in DOMAIN rules : \A i \in DOMAIN rules[r].patterns :
             Covers(rules[r].patterns[i], rules[r]) =>
               \A theta \in Bindings(rules[r]) : Fits(rules[r].patterns[i], theta) =>
                 ((r < search.rule \/ (r = search.rule /\ (i < search.pattern \/ i = search.pattern)))
                   => Matched(rules[r], theta))
<1>1. \A theta : ~Alive(stack, theta)
  BY DEF Alive
<1> QED
  BY <1>1 DEF Progress

\* The empty binding is alive at the beginning of a pattern.
LEMMA FirstAlive ==
    ASSUME NEW pattern \in Seq(Exprs \ Variables), pattern # <<>>, apps \in Seq(Terms),
           NEW theta, Fits(pattern, theta)
    PROVE  Alive(<<Frame(pattern, <<>>, 1, <<>>)>>, theta)
<1> DEFINE C == Frame(pattern, <<>>, 1, <<>>)
<1>1. /\ C.outer = TRUE /\ C.pats = pattern /\ C.thetas = << <<>> >> /\ C.at = 1 /\ C.place = 1
  BY DEF Frame
<1>2. <<C>> \in Seq({C}) /\ DOMAIN <<C>> = {1} /\ <<C>>[1] = C
  OBVIOUS
<1>3. StackOK(<<C>>, pattern)
  BY StackFirst
<1> HIDE DEF C
<1>4. FrameOK(C, pattern)
  BY <1>2, <1>3 DEF StackOK
<1>5. Pending(C, theta)
  <2>1. \A k \in DOMAIN C.pats : Met(C, k, theta)
    BY <1>1 DEF Fits, Met
  <2>2. C.thetas # <<>> /\ Head(C.thetas) = <<>>
    BY <1>1
  <2>3. Alike(<<>>, theta)
    BY DEF Alike
  <2> QED
    BY <1>1, <1>4, <2>1, <2>2, <2>3, Fresh
<1>6. Alive(<<C>>, theta)
  <2>1. \A c \in DOMAIN <<C>> : ~(c > 1)
    BY <1>2
  <2> QED
    BY <1>2, <1>5, <2>1 DEF Alive
<1> QED
  BY <1>6 DEF C

LEMMA PatternProgress ==
    ASSUME MatchInv, Progress, NextPattern
    PROVE  Progress' /\ search'.phase = "running"
<1>1. /\ search.phase = "running" /\ stack = <<>> /\ ~search.truncated /\ search.rule \in DOMAIN rules
  BY DEF NextPattern
<1>2. Match /\ search \in SearchType /\ rules[search.rule] \in RuleType /\ apps \in Seq(Terms)
  <2>1. rules[search.rule] \in RuleType
    BY <1>1, ElementOfSeq DEF MatchInv, TypeInv
  <2> QED
    BY <1>1, <2>1 DEF MatchInv, SearchInv, TypeInv, NoSearch, Match
<1>3. search.rule \in Nat /\ search.pattern \in Nat
  BY <1>2 DEF SearchType
<1> DEFINE patterns == rules[search.rule].patterns
<1>4. patterns \in Seq(Seq(Exprs \ Variables) \ {<<>>})
  BY <1>2 DEF RuleType, Patterns
<1>5. CASE search.pattern < Len(patterns)
  <2>1. /\ search' = [search EXCEPT !.pattern = search.pattern + 1]
        /\ stack' = <<Frame(patterns[search.pattern + 1], <<>>, 1, <<>>)>>
    BY <1>5 DEF NextPattern
  <2>2. search'.phase = "running" /\ search'.rule = search.rule /\ search'.pattern = search.pattern + 1
    BY <1>1, <1>2, <2>1 DEF SearchType
  <2>3. SUFFICES ASSUME NEW r \in DOMAIN rules, NEW i \in DOMAIN rules[r].patterns,
                        Covers(rules[r].patterns[i], rules[r]),
                        NEW theta \in Bindings(rules[r]), Fits(rules[r].patterns[i], theta)
                 PROVE  /\ r < search.rule => Matched(rules[r], theta)'
                        /\ r = search.rule /\ i < search.pattern + 1 => Matched(rules[r], theta)'
                        /\ r = search.rule /\ i = search.pattern + 1 => Alive(stack, theta)'
    BY <1>2, <2>2, ProgressKept DEF Progress
  <2>4. Matched(rules[r], theta) => Matched(rules[r], theta)'
    <3>1. PICK rule : rule = rules[r]
      OBVIOUS
    <3>2. Matched(rules[r], theta)' = Matched(rule, theta)'
      BY <1>2, <3>1, ProgressKept DEF Matched
    <3> QED
      BY <1>2, <3>1, <3>2, MatchedKept
  <2>5. r = search.rule /\ i < search.pattern + 1 => i < search.pattern \/ i = search.pattern
    <3>1. r = search.rule => i \in Nat
      BY <1>4
    <3> QED
      BY <1>3, <3>1
  <2>6. ASSUME r = search.rule, i = search.pattern + 1
        PROVE  Alive(stack, theta)'
    <3>1. patterns[i] \in Seq(Exprs \ Variables) \ {<<>>}
      BY <1>4, <2>6, ElementOfSeq
    <3>2. Alive(stack', theta)
      BY <1>2, <2>1, <2>3, <2>6, <3>1, FirstAlive
    <3> QED
      BY <1>2, <3>2, ProgressKept
  <2> QED
    BY <1>1, <2>3, <2>4, <2>5, <2>6, NothingAlive
<1>6. CASE ~(search.pattern < Len(patterns))
  <2>1. search' = [search EXCEPT !.rule = search.rule + 1, !.pattern = 0]
    BY <1>6 DEF NextPattern
  <2>2. search'.phase = "running" /\ search'.rule = search.rule + 1 /\ search'.pattern = 0
    BY <1>1, <1>2, <2>1 DEF SearchType
  <2>3. SUFFICES ASSUME NEW r \in DOMAIN rules, NEW i \in DOMAIN rules[r].patterns,
                        Covers(rules[r].patterns[i], rules[r]),
                        NEW theta \in Bindings(rules[r]), Fits(rules[r].patterns[i], theta)
                 PROVE  /\ r < search.rule + 1 => Matched(rules[r], theta)'
                        /\ ~(i < 0) /\ i # 0
    BY <1>2, <2>2, ProgressKept DEF Progress
  <2>4. Matched(rules[r], theta) => Matched(rules[r], theta)'
    <3>1. PICK rule : rule = rules[r]
      OBVIOUS
    <3>2. Matched(rules[r], theta)' = Matched(rule, theta)'
      BY <1>2, <3>1, ProgressKept DEF Matched
    <3> QED
      BY <1>2, <3>1, <3>2, MatchedKept
  <2>5. i \in Nat /\ i > 0 /\ r \in Nat
    <3>1. rules[r] \in RuleType /\ rules \in Seq(RuleType)
      BY ElementOfSeq DEF MatchInv, TypeInv
    <3>2. rules[r].patterns \in Seq(Seq(Exprs \ Variables) \ {<<>>})
      BY <3>1 DEF RuleType, Patterns
    <3> QED
      BY <3>1, <3>2
  <2>6. r < search.rule + 1 => r < search.rule \/ (r = search.rule /\ (i < search.pattern \/ i = search.pattern))
    <3>1. r = search.rule => i <= Len(patterns) /\ Len(patterns) \in Nat
      BY <1>4
    <3> QED
      BY <1>3, <1>6, <2>5, <3>1
  <2> QED
    BY <1>1, <2>3, <2>4, <2>5, <2>6, NothingAlive
<1> QED
  BY <1>5, <1>6

LEMMA EndSaturated ==
    ASSUME MatchInv, Progress, EndMatch
    PROVE  Saturated' /\ search'.phase = "done"
<1>1. /\ search.phase = "running" /\ stack = <<>> /\ (search.truncated \/ search.rule \notin DOMAIN rules)
      /\ search' = [search EXCEPT !.phase = "done"] /\ UNCHANGED <<registry, class, instantiated, calls>>
  BY DEF EndMatch
<1>2. Match /\ search \in SearchType /\ search # NoSearch
  BY <1>1 DEF MatchInv, SearchInv, NoSearch, Match
<1>3. /\ search'.phase = "done" /\ search'.truncated = search.truncated
      /\ search'.used = search.used /\ search'.budget = search.budget
  BY <1>1, <1>2 DEF SearchType
<1>4. search.truncated => search.used = search.budget
  <2>1. search.used \in Int /\ search.left \in Int /\ search.budget \in Int
    BY <1>2 DEF SearchType
  <2> QED
    BY <1>2, <2>1 DEF MatchInv, SearchInv
<1>5. ASSUME ~search.truncated,
             NEW r \in DOMAIN rules, NEW i \in DOMAIN rules[r].patterns, Covers(rules[r].patterns[i], rules[r]),
             NEW theta \in Bindings(rules[r]), Fits(rules[r].patterns[i], theta)
      PROVE  Matched(rules[r], theta)'
  <2>1. r < search.rule
    <3>1. rules \in Seq(RuleType) /\ search.rule \in Nat \ {0}
      BY <1>2 DEF MatchInv, TypeInv, SearchType
    <3> QED
      BY <1>1, <1>5, <3>1
  <2>2. Matched(rules[r], theta)
    BY <1>1, <1>5, <2>1, NothingAlive
  <2>3. PICK rule : rule = rules[r]
    OBVIOUS
  <2>4. Matched(rules[r], theta)' = Matched(rule, theta)'
    BY <1>2, <2>3, ProgressKept DEF Matched
  <2> QED
    BY <1>2, <2>2, <2>3, <2>4, MatchedKept
<1> QED
  BY <1>2, <1>3, <1>4, <1>5, ProgressKept DEF Saturated

\* A call that was not cut has found everything, and only a spent budget cuts one.
THEOREM SaturatedAlways == Spec => []Saturated
<1> DEFINE Inv == Progress /\ Saturated
<1>1. Init => Inv
  BY DEF Init, NoSearch, Progress, Saturated
<1>2. MatchInv /\ Inv /\ [Next]_vars => Inv'
  <2> SUFFICES ASSUME MatchInv, Inv, [Next]_vars PROVE Inv'
    OBVIOUS
  <2>1. CASE UNCHANGED vars
    <3>1. UNCHANGED <<apps, class, depth, rules, stack, search, instantiated>>
      BY <2>1 DEF vars, registry
    <3>2. \A rule, theta : Matched(rule, theta)' <=> Matched(rule, theta)
      <4>1. \A theta : NewDepth(theta)' = NewDepth(theta)
        BY <3>1 DEF NewDepth, Depth
      <4> QED
        BY <3>1, <4>1, AliveSame DEF Matched
    <3> QED
      BY <3>1, <3>2, AliveSame DEF Progress, Saturated
  <2>2. CASE Match
    <3>1. CASE stack # <<>>
      BY <2>2, <3>1, LoopProgress DEF Saturated
    <3>2. CASE NextPattern
      BY <3>2, PatternProgress DEF Saturated
    <3>3. CASE EndMatch
      BY <3>3, EndSaturated DEF Progress
    <3> QED
      BY <2>2, <3>1, <3>2, <3>3
      DEF Match, MatchVariable, Consider, LeaveLoop, NextArgument, Return, Continue, EndExpression, Waiting
  <2>3. CASE \/ \E td \in Registrable : Register(td[1], td[2])
             \/ Enter
             \/ \E eqs \in Equations : SetEquations(eqs)
             \/ \E rule \in Rules : AddRule(rule)
    <3>1. search' = NoSearch
      BY <2>3, NotRunning DEF Register, Enter, SetEquations, AddRule, MatchInv
    <3> QED
      BY <3>1 DEF NoSearch, Progress, Saturated
  <2>4. CASE \E budget \in Budgets : BeginMatch(budget)
    <3>1. search'.phase = "running" /\ search'.rule = 1 /\ search'.pattern = 0 /\ UNCHANGED rules
      BY <2>4 DEF BeginMatch, registry
    <3>2. \A r \in DOMAIN rules : ~(r < 1) /\ \A i \in DOMAIN rules[r].patterns : ~(i < 0) /\ i # 0
      <4> TAKE r \in DOMAIN rules
      <4>1. rules[r] \in RuleType /\ rules \in Seq(RuleType)
        BY ElementOfSeq DEF MatchInv, TypeInv
      <4>2. rules[r].patterns \in Seq(Seq(Exprs \ Variables) \ {<<>>})
        BY <4>1 DEF RuleType, Patterns
      <4> QED
        BY <4>1, <4>2
    <3> QED
      BY <3>1, <3>2 DEF Progress, Saturated
  <2> QED
    BY <2>1, <2>2, <2>3, <2>4 DEF Next
<1> QED
  BY <1>1, <1>2, MatchTypes, PTL DEF Spec

===============================================================================
