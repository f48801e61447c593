------------------------------ MODULE TacticProofs ------------------------------
(* What becomes of a formula on its way to the solvers (solver/tactic).  The clauses of   *)
(* the encoder never ask for more than the formulas, and never for less where no formula   *)
(* shares a definition that was eliminated.  Before that, the skolemizer keeps what the    *)
(* formulas say, where no universal quantifier is in a negative place, no two formulas     *)
(* share an existential variable and none binds a universal variable of its own scope.     *)
EXTENDS EncoderSharing, Skolemizer, NaturalsInduction, WellFoundedInduction, FiniteSetTheorems, SequenceTheorems, TLAPS

Literals == Exprs \X BOOLEAN

\* Literals are literals, and so are their negations.
LEMMA LitTyped == \A e \in Exprs : Lit(e) \in Literals
<1> SUFFICES ASSUME NEW e \in Exprs PROVE Lit(e) \in Literals
  OBVIOUS
<1>1. CASE e[1] = "not"
  <2>1. e[2] \in Exprs
    BY <1>1, ExprsAssumption DEF Args
  <2> QED
    BY <1>1, <2>1 DEF Lit, Literals
<1>2. CASE e[1] # "not"
  BY <1>2 DEF Lit, Literals
<1> QED
  BY <1>1, <1>2

LEMMA NegatedTyped == \A l \in Literals : Negated(l) \in Literals
  BY DEF Literals, Negated

\* A literal is true exactly when the expression it stands for is.
LEMMA LitMeans ==
    ASSUME NEW val \in Valuations, NEW e \in Exprs
    PROVE  IsTrue(val, Lit(e)) <=> val[e]
<1>1. val \in [Exprs -> BOOLEAN] /\ Respects(val, e)
  BY ValuationsAssumption
<1>2. CASE e[1] = "not"
  <2>1. e[2] \in Exprs
    BY <1>2, ExprsAssumption DEF Args
  <2>2. e # True /\ e # False
    BY <1>2 DEF True, False
  <2>3. val[e] = ~val[e[2]]
    BY <1>1, <1>2, <2>2 DEF Respects
  <2>4. Lit(e) = <<e[2], FALSE>>
    BY <1>2 DEF Lit
  <2>5. Lit(e)[1] = e[2] /\ Lit(e)[2] = FALSE
    BY <2>4
  <2>6. IsTrue(val, Lit(e)) <=> val[e[2]] = FALSE
    BY <2>5, Zenon DEF IsTrue
  <2>7. val[e[2]] \in BOOLEAN /\ val[e] \in BOOLEAN
    BY <1>1, <2>1
  <2> QED
    BY <2>3, <2>6, <2>7
<1>3. CASE e[1] # "not"
  <2>1. IsTrue(val, Lit(e)) <=> val[e] = TRUE
    BY <1>3 DEF Lit, IsTrue
  <2>2. val[e] \in BOOLEAN
    BY <1>1
  <2> QED
    BY <2>1, <2>2
<1> QED
  BY <1>2, <1>3

\* A literal and its negation are never both true, and one of them is.
LEMMA NegatedMeans ==
    ASSUME NEW val \in Valuations, NEW l \in Literals
    PROVE  IsTrue(val, Negated(l)) <=> ~IsTrue(val, l)
<1>1. val \in [Exprs -> BOOLEAN]
  BY ValuationsAssumption
<1>2. l[1] \in Exprs /\ l[2] \in BOOLEAN
  BY DEF Literals
<1> QED
  BY <1>1, <1>2 DEF Negated, IsTrue

\* The clauses of a definition are literals over the expressions.
LEMMA DefinitionTyped == \A e \in Exprs : Definition(e) \subseteq SUBSET Literals
<1> SUFFICES ASSUME NEW e \in Exprs PROVE Definition(e) \subseteq SUBSET Literals
  OBVIOUS
<1>1. <<e, TRUE>> \in Literals /\ <<e, FALSE>> \in Literals
  BY DEF Literals
<1>2. CASE e[1] \in {"and", "or"} /\ e # True /\ e # False
  <2>1. \A a \in e[2] : a \in Exprs
    BY <1>2, ExprsAssumption DEF Args
  <2>2. \A a \in e[2] : Lit(a) \in Literals /\ Negated(Lit(a)) \in Literals
    BY <2>1, LitTyped, NegatedTyped
  <2>3. CASE e[1] = "and"
    <3>1. Definition(e) = {{<<e, FALSE>>, Lit(a)} : a \in e[2]}
                            \cup {{<<e, TRUE>>} \cup {Negated(Lit(a)) : a \in e[2]}}
      BY <1>2, <2>3 DEF Definition
    <3>2. \A a \in e[2] : {<<e, FALSE>>, Lit(a)} \subseteq Literals
      BY <1>1, <2>2
    <3>3. {<<e, TRUE>>} \cup {Negated(Lit(a)) : a \in e[2]} \subseteq Literals
      BY <1>1, <2>2
    <3>4. \A c \in Definition(e) : \/ \E a \in e[2] : c = {<<e, FALSE>>, Lit(a)}
                                  \/ c = {<<e, TRUE>>} \cup {Negated(Lit(a)) : a \in e[2]}
      BY <3>1, Zenon
    <3>5. ASSUME NEW c \in Definition(e)
          PROVE  c \subseteq Literals
      <4>1. CASE \E a \in e[2] : c = {<<e, FALSE>>, Lit(a)}
        BY <3>2, <4>1
      <4>2. CASE c = {<<e, TRUE>>} \cup {Negated(Lit(a)) : a \in e[2]}
        BY <3>3, <4>2, Zenon
      <4> QED
        BY <3>4, <4>1, <4>2
    <3> QED
      BY <3>5
  <2>4. CASE e[1] = "or"
    <3>1. Definition(e) = {{<<e, TRUE>>, Negated(Lit(a))} : a \in e[2]}
                            \cup {{<<e, FALSE>>} \cup {Lit(a) : a \in e[2]}}
      BY <1>2, <2>4 DEF Definition
    <3>2. \A a \in e[2] : {<<e, TRUE>>, Negated(Lit(a))} \subseteq Literals
      BY <1>1, <2>2
    <3>3. {<<e, FALSE>>} \cup {Lit(a) : a \in e[2]} \subseteq Literals
      BY <1>1, <2>2
    <3>4. \A c \in Definition(e) : \/ \E a \in e[2] : c = {<<e, TRUE>>, Negated(Lit(a))}
                                  \/ c = {<<e, FALSE>>} \cup {Lit(a) : a \in e[2]}
      BY <3>1, Zenon
    <3>5. ASSUME NEW c \in Definition(e)
          PROVE  c \subseteq Literals
      <4>1. CASE \E a \in e[2] : c = {<<e, TRUE>>, Negated(Lit(a))}
        BY <3>2, <4>1
      <4>2. CASE c = {<<e, FALSE>>} \cup {Lit(a) : a \in e[2]}
        BY <3>3, <4>2, Zenon
      <4> QED
        BY <3>4, <4>1, <4>2
    <3> QED
      BY <3>5
  <2> QED
    BY <1>2, <2>3, <2>4
<1>3. CASE e[1] \notin {"and", "or"} \/ e = True \/ e = False
  <2>1. CASE e = True
    <3>1. Definition(e) = {{<<e, TRUE>>}}
      BY <2>1 DEF Definition, True, False
    <3> QED
      BY <1>1, <3>1
  <2>2. CASE e = False
    <3>1. Definition(e) = {{<<e, FALSE>>}}
      BY <2>2 DEF Definition, True, False
    <3> QED
      BY <1>1, <3>1
  <2>3. CASE e # True /\ e # False /\ e[1] \notin {"and", "or"}
    BY <2>3 DEF Definition
  <2> QED
    BY <1>3, <2>1, <2>2, <2>3
<1> QED
  BY <1>2, <1>3

\* Every clause of a definition is true in every valuation.
LEMMA DefinitionHolds ==
    ASSUME NEW val \in Valuations, NEW e \in Exprs
    PROVE  Satisfies(val, Definition(e))
<1>1. val \in [Exprs -> BOOLEAN] /\ Respects(val, e)
  BY ValuationsAssumption
<1>2. IsTrue(val, <<e, TRUE>>) <=> val[e]
  BY <1>1 DEF IsTrue
<1>3. IsTrue(val, <<e, FALSE>>) <=> ~val[e]
  BY <1>1 DEF IsTrue
<1>4. CASE e = True
  <2>1. Definition(e) = {{<<e, TRUE>>}}
    BY <1>4 DEF Definition, True, False
  <2>2. val[e]
    BY <1>1, <1>4 DEF Respects, True, False
  <2> QED
    BY <1>2, <2>1, <2>2 DEF Satisfies
<1>5. CASE e = False
  <2>1. e # True
    BY <1>5 DEF True, False
  <2>2. Definition(e) = {{<<e, FALSE>>}}
    BY <1>5, <2>1 DEF Definition, True, False
  <2>3. ~val[e]
    BY <1>1, <1>5, <2>1 DEF Respects, True, False
  <2> QED
    BY <1>3, <2>2, <2>3 DEF Satisfies
<1>6. CASE e # True /\ e # False /\ e[1] \in {"and", "or"}
  <2>1. \A a \in e[2] : a \in Exprs
    BY <1>6, ExprsAssumption DEF Args
  <2>2. \A a \in e[2] : /\ IsTrue(val, Lit(a)) <=> val[a]
                        /\ IsTrue(val, Negated(Lit(a))) <=> ~val[a]
    BY <2>1, LitTyped, LitMeans, NegatedMeans
  <2>3. CASE e[1] = "and"
    <3>1. val[e] = \A a \in e[2] : val[a]
      BY <1>1, <1>6, <2>3 DEF Respects
    <3>2. Definition(e) = {{<<e, FALSE>>, Lit(a)} : a \in e[2]}
                            \cup {{<<e, TRUE>>} \cup {Negated(Lit(a)) : a \in e[2]}}
      BY <1>6, <2>3 DEF Definition
    <3>3. \A a \in e[2] : \E l \in {<<e, FALSE>>, Lit(a)} : IsTrue(val, l)
      BY <1>3, <2>2, <3>1
    <3>4. \E l \in {<<e, TRUE>>} \cup {Negated(Lit(a)) : a \in e[2]} : IsTrue(val, l)
      BY <1>2, <2>2, <3>1
    <3> QED
      BY <3>2, <3>3, <3>4 DEF Satisfies
  <2>4. CASE e[1] = "or"
    <3>1. val[e] = \E a \in e[2] : val[a]
      BY <1>1, <1>6, <2>4 DEF Respects
    <3>2. Definition(e) = {{<<e, TRUE>>, Negated(Lit(a))} : a \in e[2]}
                            \cup {{<<e, FALSE>>} \cup {Lit(a) : a \in e[2]}}
      BY <1>6, <2>4 DEF Definition
    <3>3. \A a \in e[2] : \E l \in {<<e, TRUE>>, Negated(Lit(a))} : IsTrue(val, l)
      BY <1>2, <2>2, <3>1
    <3>4. \E l \in {<<e, FALSE>>} \cup {Lit(a) : a \in e[2]} : IsTrue(val, l)
      BY <1>3, <2>2, <3>1
    <3> QED
      BY <3>2, <3>3, <3>4 DEF Satisfies
  <2> QED
    BY <1>6, <2>3, <2>4
<1>7. CASE e # True /\ e # False /\ e[1] \notin {"and", "or"}
  BY <1>7 DEF Definition, Satisfies
<1> QED
  BY <1>4, <1>5, <1>6, <1>7

\* What Encode hands to the preprocessor is typed, and true if the clause of the root is.
LEMMA EncodeHolds ==
    ASSUME NEW e \in Exprs, NEW root \in SUBSET SUBSET Literals, Encode(e, root),
           encoded \subseteq Exprs
    PROVE  /\ work' \subseteq SUBSET Literals
           /\ encoded' \subseteq Exprs /\ protected' \subseteq Exprs
           /\ changed' \in BOOLEAN /\ phase' = "units"
           /\ \A val \in Valuations : Satisfies(val, root) => Satisfies(val, work')
<1>1. New(e) \subseteq Exprs
  BY DEF New
<1>2. \A c \in work' : c \in root \/ \E d \in New(e) : c \in Definition(d)
  <2> DEFINE Defs == UNION {Definition(d) : d \in New(e)}
  <2>1. work' = Defs \cup root
    BY DEF Encode
  <2>2. \A c : c \in Defs => \E d \in New(e) : c \in Definition(d)
    BY Zenon
  <2> HIDE DEF Defs
  <2> QED
    BY <2>1, <2>2
<1>3. ASSUME NEW c \in work'
      PROVE  c \subseteq Literals
  <2>1. CASE c \in root
    BY <2>1
  <2>2. ASSUME NEW d \in New(e), c \in Definition(d)
        PROVE  c \subseteq Literals
    <3>1. Definition(d) \subseteq SUBSET Literals
      BY <1>1, DefinitionTyped
    <3> QED
      BY <2>2, <3>1
  <2> QED
    BY <1>2, <2>1, <2>2
<1>4. ASSUME NEW val \in Valuations, Satisfies(val, root)
      PROVE  Satisfies(val, work')
  <2> SUFFICES ASSUME NEW c \in work'
               PROVE  \E l \in c : IsTrue(val, l)
    BY DEF Satisfies
  <2>1. CASE c \in root
    BY <1>4, <2>1 DEF Satisfies
  <2>2. ASSUME NEW d \in New(e), c \in Definition(d)
        PROVE  \E l \in c : IsTrue(val, l)
    <3>1. Satisfies(val, Definition(d))
      BY <1>1, DefinitionHolds
    <3> QED
      BY <2>2, <3>1 DEF Satisfies
  <2> QED
    BY <1>2, <2>1, <2>2
<1> QED
  BY <1>1, <1>3, <1>4 DEF Encode

\* Removing the literals that the unit clauses refute keeps true clauses true.
LEMMA ReducedHolds ==
    ASSUME NEW val \in Valuations, work \subseteq SUBSET Literals, Satisfies(val, work)
    PROVE  /\ Satisfies(val, Reduced(Units))
           /\ {} \notin Reduced(Units)
           /\ \A l \in Units : Negated(l) \notin Units
<1>1. ASSUME NEW l \in Units
      PROVE  l \in Literals /\ IsTrue(val, l)
  <2>1. l \in UNION work /\ {l} \in work
    BY DEF Units
  <2>2. \E k \in {l} : IsTrue(val, k)
    BY <2>1 DEF Satisfies
  <2> QED
    BY <2>1, <2>2
<1>2. ASSUME NEW l \in Units
      PROVE  ~IsTrue(val, Negated(l))
  BY <1>1, NegatedMeans
<1>3. ASSUME NEW d \in Reduced(Units)
      PROVE  \E l \in d : IsTrue(val, l)
  <2>1. PICK c \in work : d = c \ {Negated(l) : l \in Units}
    BY DEF Reduced
  <2>2. PICK l \in c : IsTrue(val, l)
    BY <2>1 DEF Satisfies
  <2>3. l \notin {Negated(k) : k \in Units}
    BY <1>2, <2>2
  <2> QED
    BY <2>1, <2>2, <2>3
<1>4. Satisfies(val, Reduced(Units))
  BY <1>3 DEF Satisfies
<1>5. {} \notin Reduced(Units)
  BY <1>3
<1>6. \A l \in Units : Negated(l) \notin Units
  BY <1>1, <1>2
<1> QED
  BY <1>4, <1>5, <1>6

\* The type invariant and the property are inductive together.
Inv == TypeOK /\ NothingForbidden

LEMMA InvInit == Init => Inv
<1> SUFFICES ASSUME Init PROVE Inv
  OBVIOUS
<1>1. TypeOK
  BY DEF Init, TypeOK
<1>2. NothingForbidden
  BY DEF Init, NothingForbidden, Satisfies
<1> QED
  BY <1>1, <1>2 DEF Inv

LEMMA InvNext == Inv /\ [Next]_vars => Inv'
<1> SUFFICES ASSUME Inv, [Next]_vars
             PROVE  Inv'
  OBVIOUS
<1> USE DEF Inv
<1>0. /\ work \subseteq SUBSET Literals /\ clauses \subseteq SUBSET Literals
      /\ encoded \subseteq Exprs /\ protected \subseteq Exprs
      /\ added \subseteq Formulas /\ assumed \subseteq Assumable /\ assumings \in Nat
      /\ changed \in BOOLEAN /\ Formulas \subseteq Exprs /\ Assumable \subseteq Exprs
  BY ExprsAssumption DEF TypeOK, Literals
<1>1. ASSUME NEW f \in Formulas, AddFormula(f)
      PROVE  Inv'
  <2>1. {{Lit(f)}} \in SUBSET SUBSET Literals
    BY <1>0, LitTyped
  <2>2. Encode(f, {{Lit(f)}})
    BY <1>1 DEF AddFormula
  <2>3. added' = added \cup {f} /\ assumed' = {} /\ assumings' = assumings /\ clauses' = clauses
    BY <1>1 DEF AddFormula
  <2>4. /\ work' \subseteq SUBSET Literals
        /\ encoded' \subseteq Exprs /\ protected' \subseteq Exprs
        /\ changed' \in BOOLEAN /\ phase' = "units"
        /\ \A val \in Valuations : Satisfies(val, {{Lit(f)}}) => Satisfies(val, work')
    BY <1>0, <2>1, <2>2, EncodeHolds
  <2>5. TypeOK'
    BY <1>0, <2>3, <2>4 DEF TypeOK, Literals
  <2>6. ASSUME NEW val \in Valuations, \A g \in added' : val[g]
        PROVE  Satisfies(val, clauses') /\ Satisfies(val, work')
    <3>1. IsTrue(val, Lit(f))
      BY <1>0, <2>3, <2>6, LitMeans
    <3>2. Satisfies(val, {{Lit(f)}})
      BY <3>1 DEF Satisfies
    <3>3. Satisfies(val, clauses')
      BY <2>3, <2>6 DEF NothingForbidden
    <3> QED
      BY <2>4, <3>2, <3>3
  <2> QED
    BY <2>5, <2>6 DEF NothingForbidden
<1>2. ASSUME NEW f \in Assumable, Assume(f)
      PROVE  Inv'
  <2>1. Encode(f, {})
    BY <1>2 DEF Assume
  <2>2. added' = added /\ assumed' = assumed \cup {f} /\ assumings' = assumings + 1 /\ clauses' = clauses
    BY <1>2 DEF Assume
  <2>3. /\ work' \subseteq SUBSET Literals
        /\ encoded' \subseteq Exprs /\ protected' \subseteq Exprs
        /\ changed' \in BOOLEAN /\ phase' = "units"
        /\ \A val \in Valuations : Satisfies(val, {}) => Satisfies(val, work')
    BY <1>0, <2>1, EncodeHolds
  <2>4. TypeOK'
    BY <1>0, <2>2, <2>3 DEF TypeOK, Literals
  <2>5. ASSUME NEW val \in Valuations, \A g \in added' : val[g]
        PROVE  Satisfies(val, clauses') /\ Satisfies(val, work')
    BY <2>2, <2>3, <2>5 DEF NothingForbidden, Satisfies
  <2> QED
    BY <2>4, <2>5 DEF NothingForbidden
<1>3. ASSUME ApplyUnits
      PROVE  Inv'
  <2>1. /\ work' \in {Reduced(Units), {{}}}
        /\ work' = {{}} => {} \in Reduced(Units) \/ \E l \in Units : Negated(l) \in Units
        /\ changed' \in BOOLEAN /\ phase' \in {"assert", "pure"}
        /\ UNCHANGED <<added, assumed, assumings, encoded, clauses, protected>>
    BY <1>3 DEF ApplyUnits
  <2>2. Reduced(Units) \subseteq SUBSET Literals
    BY <1>0 DEF Reduced
  <2>3. TypeOK'
    BY <1>0, <2>1, <2>2 DEF TypeOK, Literals
  <2>4. ASSUME NEW val \in Valuations, \A g \in added' : val[g]
        PROVE  Satisfies(val, clauses') /\ Satisfies(val, work')
    <3>1. Satisfies(val, clauses) /\ Satisfies(val, work)
      BY <2>1, <2>4 DEF NothingForbidden
    <3>2. /\ Satisfies(val, Reduced(Units)) /\ {} \notin Reduced(Units)
          /\ \A l \in Units : Negated(l) \notin Units
      BY <1>0, <3>1, ReducedHolds
    <3> QED
      BY <2>1, <3>1, <3>2
  <2> QED
    BY <2>3, <2>4 DEF NothingForbidden
<1>4. ASSUME ApplyPure
      PROVE  Inv'
  <2>1. /\ work' \subseteq work
        /\ phase' \in {"units", "assert"}
        /\ UNCHANGED <<added, assumed, assumings, encoded, clauses, protected, changed>>
    BY <1>4 DEF ApplyPure
  <2>2. TypeOK'
    BY <1>0, <2>1 DEF TypeOK, Literals
  <2> QED
    BY <2>1, <2>2 DEF NothingForbidden, Satisfies
<1>5. ASSUME Assert
      PROVE  Inv'
  <2>1. /\ clauses' = clauses \cup work /\ work' = {} /\ phase' = "idle"
        /\ UNCHANGED <<added, assumed, assumings, encoded, protected, changed>>
    BY <1>5 DEF Assert
  <2>2. TypeOK'
    BY <1>0, <2>1 DEF TypeOK, Literals
  <2> QED
    BY <2>1, <2>2 DEF NothingForbidden, Satisfies
<1>6. ASSUME EndCheck \/ UNCHANGED vars
      PROVE  Inv'
  <2>1. /\ assumed' \subseteq assumed
        /\ UNCHANGED <<added, assumings, encoded, clauses, work, protected, changed, phase>>
    BY <1>6 DEF EndCheck, vars
  <2>2. TypeOK'
    BY <2>1 DEF TypeOK
  <2> QED
    BY <2>1, <2>2 DEF NothingForbidden
<1> QED
  BY <1>1, <1>2, <1>3, <1>4, <1>5, <1>6 DEF Next, Preprocess

\* The encoder and the preprocessor keep their clauses and variables well formed, whatever
\* is added and assumed.
THEOREM TypeCorrect == Spec => []TypeOK
  BY InvInit, InvNext, PTL DEF Spec, Inv

\* No clause is ever stronger than the formulas added: for all expressions, valuations and
\* orders of additions and checks.
THEOREM EncodingSound == Spec => []NothingForbidden
  BY InvInit, InvNext, PTL DEF Spec, Inv

(***************************************************************************)
(* The parts of an expression.                                             *)
(***************************************************************************)
LEMMA LeastOf ==
    ASSUME NEW S, S \subseteq Nat, S # {}
    PROVE  \E n \in S : \A m \in S : n <= m
<1> DEFINE Less == {ss \in Nat \X Nat : ss[1] < ss[2]}
<1>1. IsWellFoundedOn(Less, Nat)
  BY NatLessThanWellFounded DEF OpToRel
<1>2. PICK n \in S : \A m \in S : ~(<<m, n>> \in Less)
  <2> HIDE DEF Less
  <2> QED
    BY <1>1, WFMin
<1>3. ASSUME NEW m \in S
      PROVE  n <= m
  <2>1. ~(m < n)
    BY <1>2
  <2> QED
    BY <2>1
<1> QED
  BY <1>3

\* The smallest expression of a set: its arguments are not in the set.
LEMMA SmallestOf ==
    ASSUME NEW S, S \subseteq Exprs, S # {}
    PROVE  \E e \in S : \A a \in Args(e) : a \in Exprs /\ a \notin S
<1> DEFINE Sizes == {Size[e] : e \in S}
<1>1. Sizes \subseteq Nat /\ Sizes # {}
  BY SizeAssumption
<1>2. PICK n \in Sizes : \A m \in Sizes : n <= m
  <2> HIDE DEF Sizes
  <2> QED
    BY <1>1, LeastOf
<1>3. PICK e \in S : n = Size[e]
  BY <1>2
<1>4. ASSUME NEW a \in Args(e)
      PROVE  a \in Exprs /\ a \notin S
  <2>1. a \in Exprs /\ Size[a] < Size[e] /\ Size[a] \in Nat /\ Size[e] \in Nat
    BY ExprsAssumption, SizeAssumption
  <2>2. a \in S => n <= Size[a]
    BY <1>2
  <2> QED
    BY <1>3, <2>1, <2>2
<1> QED
  BY <1>4

\* Sets that hold the arguments of what they hold, and the smallest one with e in it.
Holding(S) == \A x \in S : Args(x) \subseteq S
Closure(e) == {d \in Exprs : \A S \in SUBSET Exprs : e \in S /\ Holding(S) => d \in S}

LEMMA ClosureHolds ==
    ASSUME NEW e \in Exprs
    PROVE  /\ Closure(e) \in SUBSET Exprs
           /\ e \in Closure(e)
           /\ Holding(Closure(e))
<1>1. ASSUME NEW x \in Closure(e), NEW a \in Args(x)
      PROVE  a \in Closure(e)
  <2>1. a \in Exprs
    BY ExprsAssumption DEF Closure
  <2>2. ASSUME NEW S \in SUBSET Exprs, e \in S, Holding(S)
        PROVE  a \in S
    BY <1>1, <2>2 DEF Closure, Holding
  <2> QED
    BY <2>1, <2>2 DEF Closure
<1> QED
  BY <1>1 DEF Closure, Holding

LEMMA ClosureUnfolds ==
    ASSUME NEW e \in Exprs
    PROVE  Closure(e) = {e} \cup UNION {Closure(a) : a \in Args(e)}
<1> DEFINE U == {e} \cup UNION {Closure(a) : a \in Args(e)}
<1>1. Args(e) \subseteq Exprs
  BY ExprsAssumption
<1>2. \A a \in Args(e) : Closure(a) \in SUBSET Exprs /\ a \in Closure(a) /\ Holding(Closure(a))
  BY <1>1, ClosureHolds
<1>3. \A d : d \in U <=> d = e \/ \E a \in Args(e) : d \in Closure(a)
  BY Zenon
<1> HIDE DEF U
<1>4. U \in SUBSET Exprs
  BY <1>2, <1>3
<1>5. Holding(U)
  BY <1>2, <1>3 DEF Holding
<1>6. Closure(e) \subseteq U
  BY <1>3, <1>4, <1>5 DEF Closure
<1>7. ASSUME NEW a \in Args(e)
      PROVE  Closure(a) \subseteq Closure(e)
  <2>1. a \in Closure(e) /\ Holding(Closure(e)) /\ Closure(e) \in SUBSET Exprs
    BY ClosureHolds DEF Holding
  <2> QED
    BY <2>1 DEF Closure
<1>8. U \subseteq Closure(e)
  BY <1>3, <1>7, ClosureHolds
<1> QED
  BY <1>6, <1>8 DEF U

\* The recursive definition of the parts of an expression has a solution.
LEMMA PartsUnfold == \A e \in Exprs : Parts[e] = {e} \cup UNION {Parts[a] : a \in Args(e)}
<1> DEFINE Is(g) == g = [e \in Exprs |-> {e} \cup UNION {g[a] : a \in Args(e)}]
           F == [e \in Exprs |-> Closure(e)]
<1>1. Is(F)
  <2>1. ASSUME NEW e \in Exprs
        PROVE  F[e] = {e} \cup UNION {F[a] : a \in Args(e)}
    <3>1. \A a \in Args(e) : F[a] = Closure(a)
      BY ExprsAssumption
    <3>2. {F[a] : a \in Args(e)} = {Closure(a) : a \in Args(e)}
      BY <3>1, Zenon
    <3> QED
      BY <3>2, ClosureUnfolds
  <2>2. F = [e \in Exprs |-> F[e]]
    OBVIOUS
  <2> HIDE DEF F
  <2> QED
    BY <2>1, <2>2, Zenon
<1>2. Parts = CHOOSE g : Is(g)
  BY DEF Parts
<1> HIDE DEF Is, F
<1>3. Is(Parts)
  BY <1>1, <1>2
<1>4. Parts = [e \in Exprs |-> {e} \cup UNION {Parts[a] : a \in Args(e)}]
  BY <1>3, Zenon DEF Is
<1> QED
  BY <1>4, Zenon

\* The parts of an expression hold the expression and the arguments of what they hold.
LEMMA PartsHold == \A e \in Exprs : /\ e \in Parts[e] /\ Parts[e] \subseteq Exprs
                                    /\ Holding(Parts[e])
<1> DEFINE Good(e) == e \in Parts[e] /\ Parts[e] \subseteq Exprs /\ Holding(Parts[e])
           S == {e \in Exprs : ~Good(e)}
<1>1. SUFFICES ASSUME S # {} PROVE FALSE
  OBVIOUS
<1>2. PICK e \in S : \A a \in Args(e) : a \in Exprs /\ a \notin S
  <2>1. S \subseteq Exprs
    OBVIOUS
  <2> HIDE DEF S
  <2> QED
    BY <1>1, <2>1, SmallestOf
<1>3. e \in Exprs /\ ~Good(e)
  OBVIOUS
<1>4. \A a \in Args(e) : Good(a)
  BY <1>2
<1>5. \A d : d \in Parts[e] <=> d = e \/ \E a \in Args(e) : d \in Parts[a]
  <2>1. Parts[e] = {e} \cup UNION {Parts[a] : a \in Args(e)}
    BY <1>3, PartsUnfold
  <2> QED
    BY <2>1, Zenon
<1> HIDE DEF S
<1>6. Good(e)
  BY <1>2, <1>3, <1>4, <1>5 DEF Holding
<1> QED
  BY <1>3, <1>6

\* No part of what is not a constant is a constant.
LEMMA PartsPlain == \A e \in Exprs : e \notin {True, False} => Parts[e] \cap {True, False} = {}
<1> DEFINE S == {e \in Exprs : e \notin {True, False} /\ Parts[e] \cap {True, False} # {}}
<1>1. SUFFICES ASSUME S # {} PROVE FALSE
  OBVIOUS
<1>2. PICK e \in S : \A a \in Args(e) : a \in Exprs /\ a \notin S
  <2>1. S \subseteq Exprs
    OBVIOUS
  <2> HIDE DEF S
  <2> QED
    BY <1>1, <2>1, SmallestOf
<1>3. e \in Exprs /\ e \notin {True, False} /\ Parts[e] \cap {True, False} # {}
  OBVIOUS
<1>4. \A a \in Args(e) : a \notin {True, False}
  BY <1>3, SimplifiedAssumption DEF Args
<1>5. \A a \in Args(e) : Parts[a] \cap {True, False} = {}
  BY <1>2, <1>4
<1>6. Parts[e] = {e} \cup UNION {Parts[a] : a \in Args(e)}
  BY <1>3, PartsUnfold
<1> HIDE DEF S
<1>7. \A d : d \in Parts[e] => d = e \/ \E a \in Args(e) : d \in Parts[a]
  BY <1>6, Zenon
<1> QED
  BY <1>3, <1>5, <1>7

\* The variable of a literal.
LEMMA LitVar ==
    ASSUME NEW e \in Exprs
    PROVE  /\ Lit(e)[1] \in Exprs /\ Lit(e)[2] \in BOOLEAN
           /\ Lit(e)[1] = e \/ Lit(e)[1] \in Args(e)
           /\ Lit(e)[1][1] # "not"
           /\ Lit(e)[1] = e \/ e[1] = "not"
           /\ Size[Lit(e)[1]] <= Size[e]
<1>0. Size[e] \in Nat
  BY SizeAssumption
<1>1. CASE e[1] = "not"
  <2>1. e # True /\ e # False
    BY <1>1 DEF True, False
  <2>2. e[2][1] # "not"
    BY <1>1, <2>1, SimplifiedAssumption
  <2>3. Lit(e)[1] = e[2] /\ Args(e) = {e[2]}
    BY <1>1 DEF Lit, Args
  <2>4. e[2] \in Exprs /\ Size[e[2]] < Size[e]
    BY <2>3, ExprsAssumption, SizeAssumption
  <2>5. Size[e[2]] \in Nat
    BY <2>4, SizeAssumption
  <2>6. Lit(e)[2] \in BOOLEAN
    BY <1>1 DEF Lit
  <2>7. Lit(e)[1] \in Args(e)
    BY <2>3
  <2> QED
    BY <1>0, <1>1, <2>2, <2>3, <2>4, <2>5, <2>6, <2>7
<1>2. CASE e[1] # "not"
  BY <1>0, <1>2 DEF Lit
<1> QED
  BY <1>1, <1>2

\* The variables of a definition are those of the expression and of its arguments.
LEMMA DefinitionVars ==
    ASSUME NEW d \in Exprs, NEW c \in Definition(d), NEW l \in c
    PROVE  l[1] = d \/ \E a \in Args(d) : l[1] = Lit(a)[1]
<1>1. CASE d = True \/ d = False
  <2>1. CASE d = True
    <3>1. Definition(d) = {{<<d, TRUE>>}}
      BY <2>1 DEF Definition, True, False
    <3>2. l = <<d, TRUE>>
      BY <3>1
    <3> QED
      BY <3>2
  <2>2. CASE d = False
    <3>1. Definition(d) = {{<<d, FALSE>>}}
      BY <2>2 DEF Definition, True, False
    <3>2. l = <<d, FALSE>>
      BY <3>1
    <3> QED
      BY <3>2
  <2> QED
    BY <1>1, <2>1, <2>2
<1>2. CASE d # True /\ d # False /\ d[1] \in {"and", "or"}
  <2>0. Args(d) = d[2]
    BY <1>2 DEF Args
  <2>1. \A a \in d[2] : Negated(Lit(a))[1] = Lit(a)[1]
    BY DEF Negated
  <2>2. CASE d[1] = "and"
    <3>1. Definition(d) = {{<<d, FALSE>>, Lit(a)} : a \in d[2]}
                            \cup {{<<d, TRUE>>} \cup {Negated(Lit(a)) : a \in d[2]}}
      BY <1>2, <2>2 DEF Definition
    <3>2. \/ \E a \in d[2] : c = {<<d, FALSE>>, Lit(a)}
          \/ c = {<<d, TRUE>>} \cup {Negated(Lit(a)) : a \in d[2]}
      BY <3>1, Zenon
    <3>3. \/ l = <<d, FALSE>> \/ l = <<d, TRUE>>
          \/ \E a \in d[2] : l = Lit(a) \/ l = Negated(Lit(a))
      BY <3>2
    <3>4. <<d, FALSE>>[1] = d /\ <<d, TRUE>>[1] = d
      OBVIOUS
    <3> QED
      BY <2>0, <2>1, <3>3, <3>4, Zenon
  <2>3. CASE d[1] = "or"
    <3>1. Definition(d) = {{<<d, TRUE>>, Negated(Lit(a))} : a \in d[2]}
                            \cup {{<<d, FALSE>>} \cup {Lit(a) : a \in d[2]}}
      BY <1>2, <2>3 DEF Definition
    <3>2. \/ \E a \in d[2] : c = {<<d, TRUE>>, Negated(Lit(a))}
          \/ c = {<<d, FALSE>>} \cup {Lit(a) : a \in d[2]}
      BY <3>1, Zenon
    <3>3. \/ l = <<d, FALSE>> \/ l = <<d, TRUE>>
          \/ \E a \in d[2] : l = Lit(a) \/ l = Negated(Lit(a))
      BY <3>2
    <3>4. <<d, FALSE>>[1] = d /\ <<d, TRUE>>[1] = d
      OBVIOUS
    <3> QED
      BY <2>0, <2>1, <3>3, <3>4, Zenon
  <2> QED
    BY <1>2, <2>2, <2>3
<1>3. CASE d # True /\ d # False /\ d[1] \notin {"and", "or"}
  BY <1>3 DEF Definition
<1> QED
  BY <1>1, <1>2, <1>3

\* They are parts of what the expression is a part of.
LEMMA DefinitionWithin ==
    ASSUME NEW e \in Exprs, NEW d \in Parts[e], NEW c \in Definition(d), NEW l \in c,
           d[1] # "not"
    PROVE  l[1] \in Parts[e] /\ l[1][1] # "not"
<1>1. Parts[e] \subseteq Exprs /\ Holding(Parts[e])
  BY PartsHold
<1>2. d \in Exprs
  BY <1>1
<1>3. l[1] = d \/ \E a \in Args(d) : l[1] = Lit(a)[1]
  BY <1>2, DefinitionVars
<1>4. ASSUME NEW a \in Args(d), l[1] = Lit(a)[1]
      PROVE  l[1] \in Parts[e] /\ l[1][1] # "not"
  <2>1. a \in Parts[e] /\ a \in Exprs
    BY <1>1 DEF Holding
  <2>2. Lit(a)[1] = a \/ Lit(a)[1] \in Args(a)
    BY <2>1, LitVar
  <2>3. Args(a) \subseteq Parts[e]
    BY <1>1, <2>1 DEF Holding
  <2>4. Lit(a)[1][1] # "not"
    BY <2>1, LitVar
  <2> QED
    BY <1>4, <2>1, <2>2, <2>3, <2>4
<1> QED
  BY <1>3, <1>4

\* A junction is defined by clauses of two literals or more, with its variable in both signs.
LEMMA DefinitionForm ==
    ASSUME NEW d \in Exprs, d \notin {True, False}
    PROVE  /\ \A c \in Definition(d) : \A l : c # {l}
           /\ d[1] \in {"and", "or"} => \A b \in BOOLEAN : <<d, b>> \in UNION Definition(d)
<1>1. CASE d[1] \notin {"and", "or"}
  BY <1>1 DEF Definition
<1>2. CASE d[1] \in {"and", "or"}
  <2>0. Args(d) = d[2]
    BY <1>2 DEF Args
  <2>1. PICK a0 \in d[2] : TRUE
    BY <1>2, SimplifiedAssumption
  <2>2. \A a \in d[2] : Lit(a)[1] # d
    <3>1. ASSUME NEW a \in d[2] PROVE Lit(a)[1] # d
      <4>1. a \in Exprs /\ Size[a] < Size[d]
        BY <2>0, ExprsAssumption, SizeAssumption
      <4>2. Size[Lit(a)[1]] <= Size[a]
        BY <4>1, LitVar
      <4>3. Lit(a)[1] \in Exprs
        BY <4>1, LitVar
      <4>4. Size[a] \in Nat /\ Size[d] \in Nat /\ Size[Lit(a)[1]] \in Nat
        BY <4>1, <4>3, SizeAssumption
      <4> QED
        BY <4>1, <4>2, <4>4
    <3> QED
      BY <3>1
  <2>3. \A a \in d[2] : Negated(Lit(a))[1] # d
    BY <2>2 DEF Negated
  <2>4. CASE d[1] = "and"
    <3>1. Definition(d) = {{<<d, FALSE>>, Lit(a)} : a \in d[2]}
                            \cup {{<<d, TRUE>>} \cup {Negated(Lit(a)) : a \in d[2]}}
      BY <1>2, <2>4 DEF Definition
    <3>2. \A c \in Definition(d) :
            \/ \E a \in d[2] : c = {<<d, FALSE>>, Lit(a)}
            \/ c = {<<d, TRUE>>} \cup {Negated(Lit(a)) : a \in d[2]}
      BY <3>1, Zenon
    <3>3. ASSUME NEW c \in Definition(d), NEW l
          PROVE  c # {l}
      <4>1. \E a \in d[2] : \E b \in BOOLEAN : <<d, b>> \in c /\ (Lit(a) \in c \/ Negated(Lit(a)) \in c)
        BY <2>1, <3>2
      <4>2. \E b \in BOOLEAN : <<d, b>> \in c
        BY <4>1
      <4>3. \E k \in c : k[1] # d
        BY <2>2, <2>3, <4>1
      <4> QED
        BY <4>2, <4>3
    <3>4. {<<d, FALSE>>, Lit(a0)} \in Definition(d)
          /\ {<<d, TRUE>>} \cup {Negated(Lit(a)) : a \in d[2]} \in Definition(d)
      BY <2>1, <3>1
    <3> QED
      BY <3>3, <3>4
  <2>5. CASE d[1] = "or"
    <3>1. Definition(d) = {{<<d, TRUE>>, Negated(Lit(a))} : a \in d[2]}
                            \cup {{<<d, FALSE>>} \cup {Lit(a) : a \in d[2]}}
      BY <1>2, <2>5 DEF Definition
    <3>2. \A c \in Definition(d) :
            \/ \E a \in d[2] : c = {<<d, TRUE>>, Negated(Lit(a))}
            \/ c = {<<d, FALSE>>} \cup {Lit(a) : a \in d[2]}
      BY <3>1, Zenon
    <3>3. ASSUME NEW c \in Definition(d), NEW l
          PROVE  c # {l}
      <4>1. \E a \in d[2] : \E b \in BOOLEAN : <<d, b>> \in c /\ (Lit(a) \in c \/ Negated(Lit(a)) \in c)
        BY <2>1, <3>2
      <4>2. \E b \in BOOLEAN : <<d, b>> \in c
        BY <4>1
      <4>3. \E k \in c : k[1] # d
        BY <2>2, <2>3, <4>1
      <4> QED
        BY <4>2, <4>3
    <3>4. {<<d, TRUE>>, Negated(Lit(a0))} \in Definition(d)
          /\ {<<d, FALSE>>} \cup {Lit(a) : a \in d[2]} \in Definition(d)
      BY <2>1, <3>1
    <3> QED
      BY <3>3, <3>4
  <2> QED
    BY <1>2, <2>4, <2>5
<1> QED
  BY <1>1, <1>2

(***************************************************************************)
(* The invariant of the callers that share no eliminated definition.        *)
(***************************************************************************)
\* Every variable of a clause has one of vs.
Within(cs, vs) == \A c \in cs : \A l \in c : l[1] \in vs

\* What is encoded has its arguments encoded, and is no negation.
Closed == \A e \in encoded : e[1] # "not" /\ \A a \in Args(e) : Lit(a)[1] \in encoded

Structure ==
    /\ Within(clauses, encoded) /\ Within(work, encoded)
    /\ lost \subseteq encoded /\ AtomsOf(lost) = {}
    /\ phase = "idle" => work = {}
    /\ phase # "idle" => Within(clauses, protected) /\ AtomsOf(encoded) \subseteq protected
    /\ \A f \in added \cup assumed : Lit(f)[1] \in encoded
    /\ \A f \in assumed : Lit(f)[1] \notin lost

\* Nothing is eliminated while an assumption is encoded: each new definition has both
\* signs of its variable, and no clause of one literal.
Quiet == phase # "idle" /\ assumed # {} => Units = {} /\ Pure = {}

\* An assignment of the clauses becomes one of every definition by changing what was lost.
Repairs(m, w) ==
    /\ \A e \in Exprs \ lost : w[e] = m[e]
    /\ \A d \in encoded : Satisfies(w, Definition(d))
    /\ \A f \in added : IsTrue(w, Lit(f))
Repairable ==
    \A m \in [Exprs -> BOOLEAN] :
      Satisfies(m, clauses) /\ Satisfies(m, work) => \E w \in [Exprs -> BOOLEAN] : Repairs(m, w)

KeptInv == Inv /\ lost \subseteq Exprs /\ Closed /\ Structure /\ Quiet /\ Repairable

\* Assignments that agree on the variables of clauses satisfy the same clauses.
LEMMA Agree ==
    ASSUME NEW cs, NEW vs, Within(cs, vs), NEW m, NEW w, \A e \in vs : w[e] = m[e],
           Satisfies(m, cs)
    PROVE  Satisfies(w, cs)
BY DEF Within, Satisfies, IsTrue

\* The variable of a part of e, and of its literal, is encoded with e.
LEMMA EncodedParts ==
    ASSUME NEW e \in Exprs, NEW d \in Parts[e], d[1] # "not"
    PROVE  d \in encoded \cup New(e)
<1>1. d \in Exprs
  BY PartsHold
<1> QED
  BY <1>1 DEF New

LEMMA LitParts ==
    ASSUME NEW e \in Exprs, NEW d \in Parts[e]
    PROVE  Lit(d)[1] \in Parts[e] /\ Lit(d)[1] \in encoded \cup New(e)
<1>1. d \in Exprs /\ Holding(Parts[e])
  BY PartsHold
<1>2. Lit(d)[1] \in Parts[e]
  BY <1>1, LitVar DEF Holding
<1>3. Lit(d)[1][1] # "not"
  BY <1>1, LitVar
<1> QED
  BY <1>2, <1>3, EncodedParts

\* The clauses that the encoding of e yields.
LEMMA EncodeWork ==
    ASSUME NEW e, NEW root, Encode(e, root), NEW c \in work'
    PROVE  c \in root \/ \E d \in New(e) : c \in Definition(d)
<1> DEFINE Defs == UNION {Definition(d) : d \in New(e)}
<1>1. work' = Defs \cup root
  BY DEF Encode
<1>2. \A x : x \in Defs => \E d \in New(e) : x \in Definition(d)
  BY Zenon
<1> HIDE DEF Defs
<1> QED
  BY <1>1, <1>2

LEMMA EncodeCovers ==
    ASSUME NEW e, NEW root, Encode(e, root)
    PROVE  root \subseteq work' /\ \A d \in New(e) : Definition(d) \subseteq work'
<1> DEFINE Defs == UNION {Definition(d) : d \in New(e)}
<1>1. work' = Defs \cup root
  BY DEF Encode
<1>2. \A d \in New(e) : Definition(d) \subseteq Defs
  BY Zenon
<1> HIDE DEF Defs
<1> QED
  BY <1>1, <1>2

\* The root and the definitions of new expressions are about what is encoded.
LEMMA EncodeWithin ==
    ASSUME NEW f \in Exprs, NEW root \in SUBSET {{Lit(f)}}, Encode(f, root)
    PROVE  Within(work', encoded') /\ encoded' = encoded \cup New(f)
<1>1. encoded' = encoded \cup New(f)
  BY DEF Encode
<1>2. ASSUME NEW c \in work', NEW l \in c
      PROVE  l[1] \in encoded'
  <2>1. CASE c \in root
    <3>1. f \in Parts[f]
      BY PartsHold
    <3>2. l = Lit(f)
      BY <1>2, <2>1
    <3> QED
      BY <1>1, <3>1, <3>2, LitParts
  <2>2. ASSUME NEW d \in New(f), c \in Definition(d)
        PROVE  l[1] \in encoded'
    <3>1. d \in Parts[f] /\ d[1] # "not"
      BY DEF New
    <3>2. l[1] \in Parts[f] /\ l[1][1] # "not"
      BY <1>2, <2>2, <3>1, DefinitionWithin
    <3> QED
      BY <1>1, <3>2, EncodedParts
  <2> QED
    BY <2>1, <2>2, EncodeWork
<1> QED
  BY <1>1, <1>2 DEF Within

LEMMA EncodeClosed ==
    ASSUME NEW f \in Exprs, NEW root, Encode(f, root), Closed
    PROVE  Closed'
<1>1. encoded' = encoded \cup New(f)
  BY DEF Encode
<1>2. ASSUME NEW e \in New(f)
      PROVE  e[1] # "not" /\ \A a \in Args(e) : Lit(a)[1] \in encoded'
  <2>1. e \in Parts[f] /\ e[1] # "not"
    BY DEF New
  <2>2. \A a \in Args(e) : a \in Parts[f]
    BY <2>1, PartsHold DEF Holding
  <2> QED
    BY <1>1, <2>1, <2>2, LitParts
<1> QED
  BY <1>1, <1>2 DEF Closed

\* Encoding what shares no eliminated definition keeps the clauses repairable.
LEMMA EncodeRepairable ==
    ASSUME NEW f \in Exprs, NEW root \in SUBSET {{Lit(f)}}, Encode(f, root), ~Shares(f),
           Repairable, work = {}, clauses' = clauses, lost' = lost, lost \subseteq Exprs,
           added' = added \/ (added' = added \cup {f} /\ root = {{Lit(f)}})
    PROVE  Repairable'
<1> SUFFICES ASSUME NEW m \in [Exprs -> BOOLEAN], Satisfies(m, clauses), Satisfies(m, work')
             PROVE  \E w \in [Exprs -> BOOLEAN] :
                      /\ \A e \in Exprs \ lost : w[e] = m[e]
                      /\ \A d \in encoded' : Satisfies(w, Definition(d))
                      /\ \A g \in added' : IsTrue(w, Lit(g))
  BY DEF Repairable, Repairs
<1>1. Satisfies(m, work)
  BY DEF Satisfies
<1>2. PICK w \in [Exprs -> BOOLEAN] : Repairs(m, w)
  BY <1>1 DEF Repairable
<1>3. \A e \in Parts[f] : w[e] = m[e]
  <2>1. Parts[f] \subseteq Exprs \ lost
    BY PartsHold DEF Shares
  <2> QED
    BY <1>2, <2>1 DEF Repairs
<1>4. ASSUME NEW d \in New(f)
      PROVE  Satisfies(w, Definition(d))
  <2>1. d \in Parts[f] /\ d[1] # "not"
    BY DEF New
  <2>2. Within(Definition(d), Parts[f])
    BY <2>1, DefinitionWithin DEF Within
  <2>3. Satisfies(m, Definition(d))
    BY EncodeCovers DEF Satisfies
  <2> QED
    BY <1>3, <2>2, <2>3, Agree
<1>5. encoded' = encoded \cup New(f)
  BY DEF Encode
<1>6. ASSUME NEW g \in added'
      PROVE  IsTrue(w, Lit(g))
  <2>1. CASE g \in added
    BY <1>2, <2>1 DEF Repairs
  <2>2. CASE g \notin added
    <3>1. g = f /\ root = {{Lit(f)}}
      BY <2>2
    <3>2. {Lit(f)} \in work'
      BY <3>1, EncodeCovers
    <3>3. IsTrue(m, Lit(f))
      BY <3>2 DEF Satisfies
    <3>4. Lit(f)[1] \in Parts[f]
      BY LitParts, PartsHold
    <3> QED
      BY <1>3, <3>1, <3>3, <3>4 DEF IsTrue
  <2> QED
    BY <2>1, <2>2
<1> QED
  BY <1>2, <1>4, <1>5, <1>6 DEF Repairs

\* Encoding an assumption gives the preprocessor nothing to eliminate.
LEMMA EncodeQuiet ==
    ASSUME NEW f \in Exprs, f \notin {True, False}, Encode(f, {})
    PROVE  Units' = {} /\ Pure' = {}
<1>1. Parts[f] \cap {True, False} = {} /\ Parts[f] \subseteq Exprs
  BY PartsPlain, PartsHold
<1>2. ASSUME NEW c \in work'
      PROVE  \A l : c # {l}
  <2>1. PICK d \in New(f) : c \in Definition(d)
    BY EncodeWork
  <2>2. d \in Exprs /\ d \notin {True, False}
    BY <1>1 DEF New
  <2> QED
    BY <2>1, <2>2, DefinitionForm
<1>3. Units' = {}
  BY <1>2 DEF Units
<1>4. ASSUME NEW l \in UNION work', l[1] \notin protected'
      PROVE  Negated(l) \in UNION work'
  <2>1. PICK c \in work' : l \in c
    OBVIOUS
  <2>2. PICK d \in New(f) : c \in Definition(d)
    BY EncodeWork
  <2>3. d \in Parts[f] /\ d[1] # "not"
    BY DEF New
  <2>4. l[1] \in Parts[f] /\ l[1][1] # "not"
    BY <2>1, <2>2, <2>3, DefinitionWithin
  <2>5. l[1] \in encoded \cup New(f)
    BY <2>4, EncodedParts
  <2>6. protected' = encoded \cup {x \in New(f) : x[1] = "atom"}
    BY DEF Encode
  <2>7. l[1] \in New(f) /\ l[1][1] # "atom"
    BY <1>4, <2>5, <2>6
  <2>8. l[1] \in Exprs /\ l[1] \notin {True, False}
    BY <1>1, <2>4
  <2>9. l[1][1] \in {"and", "or"}
    BY <2>4, <2>7, <2>8, SimplifiedAssumption
  <2>10. \A b \in BOOLEAN : <<l[1], b>> \in UNION Definition(l[1])
    BY <2>8, <2>9, DefinitionForm
  <2>11. Negated(l) \in UNION Definition(l[1])
    BY <2>10 DEF Negated
  <2>12. Definition(l[1]) \subseteq work'
    BY <2>7, EncodeCovers
  <2> QED
    BY <2>11, <2>12
<1>5. Pure' = {}
  BY <1>4 DEF Pure
<1> QED
  BY <1>3, <1>5

LEMMA KeptInitial == KeptInit => KeptInv
<1> SUFFICES ASSUME KeptInit PROVE KeptInv
  OBVIOUS
<1>1. Init /\ lost = {}
  BY DEF KeptInit
<1>2. Inv
  BY <1>1, InvInit
<1>3. Closed /\ Structure /\ Quiet
  BY <1>1 DEF Init, Closed, Structure, Quiet, Within, AtomsOf
<1>4. \A m \in [Exprs -> BOOLEAN] : Repairs(m, m)
  BY <1>1 DEF Init, Repairs
<1> QED
  BY <1>1, <1>2, <1>3, <1>4 DEF KeptInv, Repairable

\* What Encode does to the parts of the invariant about the variables.
LEMMA EncodeStructure ==
    ASSUME NEW f \in Exprs, NEW root \in SUBSET {{Lit(f)}}, Encode(f, root), ~Shares(f),
           Closed, Structure, phase = "idle", clauses' = clauses, lost' = lost,
           lost \subseteq Exprs,
           added' \cup assumed' \subseteq added \cup assumed \cup {f},
           assumed' \subseteq assumed \cup {f}
    PROVE  Closed' /\ Structure'
<1>1. Within(work', encoded') /\ encoded' = encoded \cup New(f)
  BY EncodeWithin
<1>2. protected' = encoded \cup {d \in New(f) : d[1] = "atom"} /\ phase' = "units"
  BY DEF Encode
<1>3. Closed'
  BY EncodeClosed
<1>4. Within(clauses', encoded') /\ Within(clauses', protected')
  BY <1>1, <1>2 DEF Structure, Within
<1>5. AtomsOf(encoded') \subseteq protected'
  BY <1>1, <1>2 DEF AtomsOf
<1>6. lost' \subseteq encoded' /\ AtomsOf(lost') = {}
  BY <1>1 DEF Structure
<1>7. Lit(f)[1] \in encoded' /\ Lit(f)[1] \notin lost
  <2>1. f \in Parts[f]
    BY PartsHold
  <2>2. Lit(f)[1] \in Parts[f] /\ Lit(f)[1] \in encoded \cup New(f)
    BY <2>1, LitParts
  <2> QED
    BY <1>1, <2>2 DEF Shares
<1>8. \A g \in added' \cup assumed' : Lit(g)[1] \in encoded'
  BY <1>1, <1>7 DEF Structure
<1>9. \A g \in assumed' : Lit(g)[1] \notin lost'
  BY <1>7 DEF Structure
<1> QED
  BY <1>1, <1>2, <1>3, <1>4, <1>5, <1>6, <1>8, <1>9 DEF Structure

LEMMA KeptAdd ==
    ASSUME KeptInv, Inv', NEW f \in Formulas, ~Shares(f), AddFormula(f), lost' = lost
    PROVE  KeptInv'
<1>1. /\ phase = "idle" /\ added' = added \cup {f} /\ assumed' = {} /\ clauses' = clauses
      /\ Encode(f, {{Lit(f)}})
  BY DEF AddFormula
<1>2. f \in Exprs /\ {{Lit(f)}} \in SUBSET {{Lit(f)}}
  BY ExprsAssumption
<1>3. work = {} /\ lost \subseteq Exprs /\ Closed /\ Structure /\ Repairable
  BY <1>1 DEF KeptInv, Structure
<1>4. Closed' /\ Structure'
  BY <1>1, <1>2, <1>3, EncodeStructure
<1>5. Repairable'
  BY <1>1, <1>2, <1>3, EncodeRepairable
<1>6. Quiet'
  BY <1>1 DEF Quiet
<1> QED
  BY <1>3, <1>4, <1>5, <1>6 DEF KeptInv

LEMMA KeptAssume ==
    ASSUME KeptInv, Inv', NEW f \in Assumable \ {True, False}, ~Shares(f), Assume(f), lost' = lost
    PROVE  KeptInv'
<1>1. /\ phase = "idle" /\ added' = added /\ assumed' = assumed \cup {f} /\ clauses' = clauses
      /\ Encode(f, {})
  BY DEF Assume
<1>2. f \in Exprs /\ {} \in SUBSET {{Lit(f)}}
  BY ExprsAssumption
<1>3. work = {} /\ lost \subseteq Exprs /\ Closed /\ Structure /\ Repairable
  BY <1>1 DEF KeptInv, Structure
<1>4. Closed' /\ Structure'
  BY <1>1, <1>2, <1>3, EncodeStructure
<1>5. Repairable'
  BY <1>1, <1>2, <1>3, EncodeRepairable
<1>6. Quiet'
  BY <1>1, <1>2, EncodeQuiet DEF Quiet
<1> QED
  BY <1>3, <1>4, <1>5, <1>6 DEF KeptInv

\* What the reduced clauses ask is what the clauses ask: the unit clauses stay.
LEMMA ReducedAsks ==
    ASSUME NEW m \in [Exprs -> BOOLEAN], work \subseteq SUBSET Literals,
           Satisfies(m, Reduced(Units)), \A l \in Units : Negated(l) \notin Units
    PROVE  Satisfies(m, work)
<1> DEFINE negs == {Negated(l) : l \in Units}
<1>1. \A c \in work : c \cap Units = {} \/ Cardinality(c) = 1 => c \ negs \in Reduced(Units)
  BY DEF Reduced
<1>2. \A l \in Units : IsTrue(m, l)
  <2>1. ASSUME NEW l \in Units
        PROVE  IsTrue(m, l)
    <3>1. {l} \in work /\ l \in Literals
      BY DEF Units
    <3>2. Cardinality({l}) = 1
      BY FS_Singleton
    <3>3. {l} \ negs \in Reduced(Units)
      BY <1>1, <3>1, <3>2
    <3> HIDE DEF negs
    <3> QED
      BY <3>3 DEF Satisfies
  <2> QED
    BY <2>1
<1>3. ASSUME NEW c \in work
      PROVE  \E l \in c : IsTrue(m, l)
  <2>1. CASE c \cap Units # {}
    BY <1>2, <2>1
  <2>2. CASE c \cap Units = {}
    <3>1. c \ negs \in Reduced(Units)
      BY <1>1, <2>2
    <3> HIDE DEF negs
    <3> QED
      BY <3>1 DEF Satisfies
  <2> QED
    BY <2>1, <2>2
<1> QED
  BY <1>3 DEF Satisfies

LEMMA KeptUnits ==
    ASSUME KeptInv, Inv', ApplyUnits, lost' = lost
    PROVE  KeptInv'
<1> DEFINE contradiction == {} \in Reduced(Units) \/ \E l \in Units : Negated(l) \in Units
<1>1. /\ work' = IF contradiction THEN {{}} ELSE Reduced(Units)
      /\ phase = "units" /\ phase' = IF contradiction THEN "assert" ELSE "pure"
      /\ UNCHANGED <<added, assumed, assumings, encoded, clauses, protected>>
  BY DEF ApplyUnits
<1>2. work \subseteq SUBSET Literals /\ lost \subseteq Exprs
  BY DEF KeptInv, Inv, TypeOK, Literals
<1>3. \A c \in work' : c = {} \/ \E d \in work : c \subseteq d
  BY <1>1 DEF Reduced
<1>4. Closed' /\ Structure'
  <2>1. Within(work', encoded)
    BY <1>3 DEF KeptInv, Structure, Within
  <2>2. phase' # "idle"
    BY <1>1
  <2> QED
    BY <1>1, <2>1, <2>2 DEF KeptInv, Structure, Closed
<1>5. Quiet'
  <2> SUFFICES ASSUME assumed # {} PROVE Units' = {} /\ Pure' = {}
    BY <1>1 DEF Quiet
  <2>1. Units = {} /\ Pure = {}
    BY <1>1 DEF KeptInv, Quiet
  <2>2. Reduced(Units) = work
    BY <2>1 DEF Reduced
  <2>3. CASE ~contradiction
    <3>1. work' = work /\ protected' = protected
      BY <1>1, <2>2, <2>3
    <3> QED
      BY <2>1, <3>1 DEF Units, Pure
  <2>4. CASE contradiction
    <3>1. work' = {{}}
      BY <1>1, <2>4
    <3> QED
      BY <3>1 DEF Units, Pure
  <2> QED
    BY <2>3, <2>4
<1>6. Repairable'
  <2> SUFFICES ASSUME NEW m \in [Exprs -> BOOLEAN], Satisfies(m, clauses), Satisfies(m, work')
               PROVE  \E w \in [Exprs -> BOOLEAN] : Repairs(m, w)
    BY <1>1 DEF Repairable, Repairs
  <2>1. ~contradiction
    BY <1>1 DEF Satisfies
  <2>2. Satisfies(m, work)
    BY <1>1, <1>2, <2>1, ReducedAsks
  <2> QED
    BY <2>2 DEF KeptInv, Repairable
<1> QED
  BY <1>2, <1>4, <1>5, <1>6 DEF KeptInv

\* The clauses without the pure literals are satisfied by making these true.
LEMMA PureAsks ==
    ASSUME NEW m \in [Exprs -> BOOLEAN], NEW n \in [Exprs -> BOOLEAN], work \subseteq SUBSET Literals,
           \A l \in Pure : n[l[1]] = l[2],
           \A e \in Exprs : (\A l \in Pure : l[1] # e) => n[e] = m[e],
           Satisfies(m, {c \in work : c \cap Pure = {}})
    PROVE  Satisfies(n, work)
<1> SUFFICES ASSUME NEW c \in work
             PROVE  \E l \in c : IsTrue(n, l)
  BY DEF Satisfies
<1>1. CASE c \cap Pure # {}
  BY <1>1 DEF IsTrue
<1>2. CASE c \cap Pure = {}
  <2>1. PICK l \in c : IsTrue(m, l)
    BY <1>2 DEF Satisfies
  <2>2. l \in Literals /\ l \in UNION work
    OBVIOUS
  <2>3. \A k \in Pure : k[1] # l[1]
    <3> SUFFICES ASSUME NEW k \in Pure, k[1] = l[1]
                 PROVE  FALSE
      OBVIOUS
    <3>1. k \in Literals /\ k \in UNION work /\ Negated(k) \notin UNION work
      BY DEF Pure
    <3>2. l = k \/ l = Negated(k)
      <4>1. l[2] \in BOOLEAN /\ k[2] \in BOOLEAN /\ l = <<l[1], l[2]>> /\ k = <<k[1], k[2]>>
        BY <2>2, <3>1 DEF Literals
      <4>2. l[2] = k[2] \/ l[2] = ~k[2]
        BY <4>1
      <4>3. Negated(k) = <<k[1], ~k[2]>>
        BY DEF Negated
      <4> QED
        BY <4>1, <4>2, <4>3
    <3> QED
      BY <1>2, <2>2, <3>1, <3>2
  <2>4. l[1] \in Exprs
    BY <2>2 DEF Literals
  <2>5. n[l[1]] = m[l[1]]
    BY <2>3, <2>4
  <2> QED
    BY <2>1, <2>5 DEF IsTrue
<1> QED
  BY <1>1, <1>2

LEMMA KeptPure ==
    ASSUME KeptInv, Inv', ApplyPure, lost' = lost \cup {l[1] : l \in Pure}
    PROVE  KeptInv'
<1>1. /\ phase = "pure" /\ work' = {c \in work : c \cap Pure = {}}
      /\ phase' \in {"units", "assert"}
      /\ UNCHANGED <<added, assumed, assumings, encoded, clauses, protected, changed>>
  BY DEF ApplyPure
<1>2. work \subseteq SUBSET Literals /\ lost \subseteq Exprs
  BY DEF KeptInv, Inv, TypeOK, Literals
<1>3. \A l \in Pure : /\ l \in Literals /\ l[1] \in Exprs /\ l[2] \in BOOLEAN
                      /\ l \in UNION work /\ Negated(l) \notin UNION work /\ l[1] \notin protected
  BY <1>2 DEF Pure, Literals
<1>4. \A l \in Pure : l[1] \in encoded /\ l[1][1] # "atom"
  <2>1. Within(work, encoded) /\ AtomsOf(encoded) \subseteq protected
    BY <1>1 DEF KeptInv, Structure
  <2>2. \A l \in UNION work : l[1] \in encoded
    BY <2>1 DEF Within
  <2> QED
    BY <1>3, <2>1, <2>2 DEF AtomsOf
<1>5. assumed # {} => Pure = {} /\ Units = {}
  BY <1>1 DEF KeptInv, Quiet
<1>6. Closed' /\ Structure'
  <2>1. lost' \subseteq encoded /\ AtomsOf(lost') = {}
    BY <1>4 DEF KeptInv, Structure, AtomsOf
  <2>2. Within(work', encoded)
    BY <1>1 DEF KeptInv, Structure, Within
  <2>3. \A f \in assumed : Lit(f)[1] \notin lost'
    BY <1>5 DEF KeptInv, Structure
  <2>4. phase' # "idle" /\ phase # "idle"
    BY <1>1
  <2> QED
    BY <1>1, <2>1, <2>2, <2>3, <2>4 DEF KeptInv, Structure, Closed
<1>7. Quiet'
  <2> SUFFICES ASSUME assumed # {} PROVE Units' = {} /\ Pure' = {}
    BY <1>1 DEF Quiet
  <2>1. work' = work /\ protected' = protected
    BY <1>1, <1>5
  <2> QED
    BY <1>5, <2>1 DEF Units, Pure
<1>8. ASSUME NEW m \in [Exprs -> BOOLEAN], Satisfies(m, clauses), Satisfies(m, work')
      PROVE  \E w \in [Exprs -> BOOLEAN] :
               /\ \A e \in Exprs \ lost' : w[e] = m[e]
               /\ \A d \in encoded : Satisfies(w, Definition(d))
               /\ \A f \in added : IsTrue(w, Lit(f))
  <2> DEFINE n == [e \in Exprs |-> IF \E l \in Pure : l[1] = e THEN CHOOSE b \in BOOLEAN : <<e, b>> \in Pure
                                                           ELSE m[e]]
  <2>1. \A e \in Exprs : (\A l \in Pure : l[1] # e) => n[e] = m[e]
    OBVIOUS
  <2>2. n \in [Exprs -> BOOLEAN]
    <3> SUFFICES ASSUME NEW e \in Exprs
                 PROVE  n[e] \in BOOLEAN
      BY Zenon
    <3>1. CASE \E l \in Pure : l[1] = e
      <4>1. PICK l \in Pure : l[1] = e
        BY <3>1
      <4>2. l = <<e, l[2]>> /\ l[2] \in BOOLEAN
        BY <1>3, <4>1 DEF Literals
      <4>3. \E b \in BOOLEAN : <<e, b>> \in Pure
        BY <4>2
      <4> QED
        BY <3>1, <4>3
    <3>2. CASE ~\E l \in Pure : l[1] = e
      BY <3>2
    <3> QED
      BY <3>1, <3>2
  <2>3. ASSUME NEW l \in Pure
        PROVE  n[l[1]] = l[2]
    <3>1. n[l[1]] = CHOOSE b \in BOOLEAN : <<l[1], b>> \in Pure
      BY <1>3
    <3>2. l = <<l[1], l[2]>> /\ l[2] \in BOOLEAN
      BY <1>3 DEF Literals
    <3>3. ASSUME NEW b \in BOOLEAN, <<l[1], b>> \in Pure
          PROVE  b = l[2]
      <4>1. <<l[1], b>> # Negated(l)
        BY <1>3, <3>3
      <4>2. b # ~l[2]
        BY <4>1 DEF Negated
      <4> QED
        BY <3>2, <4>2
    <3>4. (CHOOSE b \in BOOLEAN : <<l[1], b>> \in Pure) \in {b \in BOOLEAN : <<l[1], b>> \in Pure}
      BY <3>2
    <3> QED
      BY <3>1, <3>3, <3>4
  <2> HIDE DEF n
  <2>4. Satisfies(n, work)
    BY <1>1, <1>2, <1>8, <2>1, <2>2, <2>3, PureAsks
  <2>5. Satisfies(n, clauses)
    <3>1. Within(clauses, protected \cap Exprs)
      <4>1. Within(clauses, protected)
        BY <1>1 DEF KeptInv, Structure
      <4>2. clauses \subseteq SUBSET Literals
        BY DEF KeptInv, Inv, TypeOK, Literals
      <4> QED
        BY <4>1, <4>2 DEF Within, Literals
    <3>2. \A e \in protected \cap Exprs : n[e] = m[e]
      BY <1>3, <2>1
    <3> QED
      BY <1>8, <3>1, <3>2, Agree
  <2>6. PICK w \in [Exprs -> BOOLEAN] : Repairs(n, w)
    BY <2>2, <2>4, <2>5 DEF KeptInv, Repairable
  <2>7. ASSUME NEW e \in Exprs \ lost'
        PROVE  w[e] = m[e]
    <3>1. e \notin lost /\ \A l \in Pure : l[1] # e
      OBVIOUS
    <3> QED
      BY <2>1, <2>6, <3>1 DEF Repairs
  <2> QED
    BY <2>6, <2>7 DEF Repairs
<1>9. Repairable'
  BY <1>1, <1>8 DEF Repairable, Repairs
<1>10. lost' \subseteq Exprs
  BY <1>2, <1>3
<1> QED
  BY <1>6, <1>7, <1>9, <1>10 DEF KeptInv

LEMMA KeptAssert ==
    ASSUME KeptInv, Inv', Assert, lost' = lost
    PROVE  KeptInv'
<1>1. /\ clauses' = clauses \cup work /\ work' = {} /\ phase' = "idle"
      /\ UNCHANGED <<added, assumed, assumings, encoded, protected, changed>>
  BY DEF Assert
<1>2. Closed' /\ Structure' /\ Quiet'
  <2>1. Within(clauses', encoded) /\ Within(work', encoded)
    BY <1>1 DEF KeptInv, Structure, Within
  <2> QED
    BY <1>1, <2>1 DEF KeptInv, Structure, Closed, Quiet
<1>3. ASSUME NEW m \in [Exprs -> BOOLEAN], Satisfies(m, clauses')
      PROVE  Satisfies(m, clauses) /\ Satisfies(m, work)
  BY <1>1, <1>3 DEF Satisfies
<1>4. Repairable'
  BY <1>1, <1>3 DEF KeptInv, Repairable, Repairs
<1> QED
  BY <1>2, <1>4 DEF KeptInv

LEMMA KeptStutter ==
    ASSUME KeptInv, Inv', EndCheck \/ UNCHANGED vars, lost' = lost
    PROVE  KeptInv'
<1>1. /\ assumed' \subseteq assumed
      /\ UNCHANGED <<added, assumings, encoded, clauses, work, protected, changed, phase>>
  BY DEF EndCheck, vars
<1>2. Closed' /\ Structure'
  BY <1>1 DEF KeptInv, Closed, Structure
<1>3. Quiet'
  BY <1>1 DEF KeptInv, Quiet, Units, Pure
<1>4. Repairable'
  BY <1>1 DEF KeptInv, Repairable, Repairs
<1> QED
  BY <1>2, <1>3, <1>4 DEF KeptInv

LEMMA KeptNextInv == KeptInv /\ [KeptNext]_keptVars => KeptInv'
<1> SUFFICES ASSUME KeptInv, [KeptNext]_keptVars
             PROVE  KeptInv'
  OBVIOUS
<1>1. [Next]_vars
  BY DEF KeptNext, Next, keptVars, vars
<1>2. Inv'
  BY <1>1, InvNext DEF KeptInv
<1>3. CASE UNCHANGED keptVars
  <2>1. UNCHANGED vars /\ lost' = lost
    BY <1>3 DEF keptVars
  <2> QED
    BY <1>2, <2>1, KeptStutter
<1>4. CASE KeptNext
  <2>1. lost' = lost \cup (IF phase = "pure" THEN {l[1] : l \in Pure} ELSE {})
    BY <1>4 DEF KeptNext, Lose
  <2>2. phase # "pure" => lost' = lost
    BY <2>1
  <2>3. ASSUME NEW f \in Formulas, ~Shares(f), AddFormula(f)
        PROVE  KeptInv'
    <3>1. phase = "idle"
      BY <2>3 DEF AddFormula
    <3> QED
      BY <1>2, <2>2, <2>3, <3>1, KeptAdd
  <2>4. ASSUME NEW f \in Assumable \ {True, False}, ~Shares(f), Assume(f)
        PROVE  KeptInv'
    <3>1. phase = "idle"
      BY <2>4 DEF Assume
    <3> QED
      BY <1>2, <2>2, <2>4, <3>1, KeptAssume
  <2>5. ASSUME EndCheck
        PROVE  KeptInv'
    <3>1. phase = "idle"
      BY <2>5 DEF EndCheck
    <3> QED
      BY <1>2, <2>2, <2>5, <3>1, KeptStutter
  <2>6. ASSUME ApplyUnits
        PROVE  KeptInv'
    <3>1. phase = "units"
      BY <2>6 DEF ApplyUnits
    <3> QED
      BY <1>2, <2>2, <2>6, <3>1, KeptUnits
  <2>7. ASSUME ApplyPure
        PROVE  KeptInv'
    <3>1. phase = "pure"
      BY <2>7 DEF ApplyPure
    <3> QED
      BY <1>2, <2>1, <2>7, <3>1, KeptPure
  <2>8. ASSUME Assert
        PROVE  KeptInv'
    <3>1. phase = "assert"
      BY <2>8 DEF Assert
    <3> QED
      BY <1>2, <2>2, <2>8, <3>1, KeptAssert
  <2> QED
    BY <1>4, <2>3, <2>4, <2>5, <2>6, <2>7, <2>8 DEF KeptNext, Preprocess
<1> QED
  BY <1>3, <1>4

\* An assignment of the clauses of a definition gives the expression its meaning.
LEMMA DefinitionAsks ==
    ASSUME NEW w \in [Exprs -> BOOLEAN], NEW d \in Exprs, Satisfies(w, Definition(d))
    PROVE  /\ d = True => w[d]
           /\ d = False => ~w[d]
           /\ d \notin {True, False} /\ d[1] = "and" => (w[d] <=> \A a \in d[2] : IsTrue(w, Lit(a)))
           /\ d \notin {True, False} /\ d[1] = "or" => (w[d] <=> \E a \in d[2] : IsTrue(w, Lit(a)))
<1>1. /\ IsTrue(w, <<d, TRUE>>) <=> w[d]
      /\ IsTrue(w, <<d, FALSE>>) <=> ~w[d]
  BY DEF IsTrue
<1>2. ASSUME d = True
      PROVE  w[d]
  <2>1. Definition(d) = {{<<d, TRUE>>}}
    BY <1>2 DEF Definition, True, False
  <2> QED
    BY <1>1, <2>1 DEF Satisfies
<1>3. ASSUME d = False
      PROVE  ~w[d]
  <2>1. Definition(d) = {{<<d, FALSE>>}}
    BY <1>3 DEF Definition, True, False
  <2> QED
    BY <1>1, <2>1 DEF Satisfies
<1>4. ASSUME d[1] \in {"and", "or"}, NEW a \in d[2]
      PROVE  IsTrue(w, Negated(Lit(a))) <=> ~IsTrue(w, Lit(a))
  <2>1. a \in Exprs
    BY <1>4, ExprsAssumption DEF Args
  <2>2. Lit(a)[1] \in Exprs /\ Lit(a)[2] \in BOOLEAN
    BY <2>1, LitVar
  <2>3. w[Lit(a)[1]] \in BOOLEAN
    BY <2>2
  <2> QED
    BY <2>2, <2>3 DEF IsTrue, Negated
<1>5. ASSUME d \notin {True, False}, d[1] = "and"
      PROVE  w[d] <=> \A a \in d[2] : IsTrue(w, Lit(a))
  <2>1. Definition(d) = {{<<d, FALSE>>, Lit(a)} : a \in d[2]}
                          \cup {{<<d, TRUE>>} \cup {Negated(Lit(a)) : a \in d[2]}}
    BY <1>5 DEF Definition
  <2>2. \A a \in d[2] : \E l \in {<<d, FALSE>>, Lit(a)} : IsTrue(w, l)
    <3>1. \A a \in d[2] : {<<d, FALSE>>, Lit(a)} \in Definition(d)
      BY <2>1, Zenon
    <3> QED
      BY <3>1 DEF Satisfies
  <2>3. \E l \in {<<d, TRUE>>} \cup {Negated(Lit(a)) : a \in d[2]} : IsTrue(w, l)
    BY <2>1 DEF Satisfies
  <2>4. w[d] \/ \E a \in d[2] : IsTrue(w, Negated(Lit(a)))
    BY <1>1, <2>3
  <2>5. \A a \in d[2] : ~w[d] \/ IsTrue(w, Lit(a))
    BY <1>1, <2>2
  <2> QED
    BY <1>4, <1>5, <2>4, <2>5
<1>6. ASSUME d \notin {True, False}, d[1] = "or"
      PROVE  w[d] <=> \E a \in d[2] : IsTrue(w, Lit(a))
  <2>1. Definition(d) = {{<<d, TRUE>>, Negated(Lit(a))} : a \in d[2]}
                          \cup {{<<d, FALSE>>} \cup {Lit(a) : a \in d[2]}}
    BY <1>6 DEF Definition
  <2>2. \A a \in d[2] : \E l \in {<<d, TRUE>>, Negated(Lit(a))} : IsTrue(w, l)
    <3>1. \A a \in d[2] : {<<d, TRUE>>, Negated(Lit(a))} \in Definition(d)
      BY <2>1, Zenon
    <3> QED
      BY <3>1 DEF Satisfies
  <2>3. \E l \in {<<d, FALSE>>} \cup {Lit(a) : a \in d[2]} : IsTrue(w, l)
    BY <2>1 DEF Satisfies
  <2>4. ~w[d] \/ \E a \in d[2] : IsTrue(w, Lit(a))
    BY <1>1, <2>3
  <2>5. \A a \in d[2] : w[d] \/ IsTrue(w, Negated(Lit(a)))
    BY <1>1, <2>2
  <2> QED
    BY <1>4, <1>6, <2>4, <2>5
<1> QED
  BY <1>2, <1>3, <1>5, <1>6

\* What satisfies every definition is the valuation with the same atoms.
LEMMA DefinitionsDecide ==
    ASSUME Closed, NEW w \in [Exprs -> BOOLEAN], \A d \in encoded : Satisfies(w, Definition(d)),
           NEW val \in Valuations, \A e \in AtomsOf(Exprs) : val[e] <=> w[e], encoded \subseteq Exprs
    PROVE  \A e \in Exprs : Lit(e)[1] \in encoded => (IsTrue(w, Lit(e)) <=> val[e])
<1> DEFINE S == {e \in Exprs : Lit(e)[1] \in encoded /\ ~(IsTrue(w, Lit(e)) <=> val[e])}
<1>1. SUFFICES ASSUME S # {} PROVE FALSE
  OBVIOUS
<1>2. PICK e \in S : \A a \in Args(e) : a \in Exprs /\ a \notin S
  <2>1. S \subseteq Exprs
    OBVIOUS
  <2> HIDE DEF S
  <2> QED
    BY <1>1, <2>1, SmallestOf
<1>3. e \in Exprs /\ Lit(e)[1] \in encoded /\ ~(IsTrue(w, Lit(e)) <=> val[e])
  OBVIOUS
<1>4. \A a \in Args(e) : a \in Exprs /\ (Lit(a)[1] \in encoded => (IsTrue(w, Lit(a)) <=> val[a]))
  BY <1>2
<1> HIDE DEF S
<1>5. val \in [Exprs -> BOOLEAN] /\ Respects(val, e)
  BY <1>3, ValuationsAssumption
<1>6. val[e] \in BOOLEAN /\ w[e] \in BOOLEAN
  BY <1>3, <1>5
<1>7. CASE e[1] = "not"
  <2>1. e # True /\ e # False
    BY <1>7 DEF True, False
  <2>2. e[2][1] # "not"
    BY <1>3, <1>7, <2>1, SimplifiedAssumption
  <2>3. Args(e) = {e[2]} /\ Lit(e) = <<e[2], FALSE>> /\ Lit(e[2]) = <<e[2], TRUE>>
    BY <1>7, <2>2 DEF Args, Lit
  <2>4. Lit(e)[1] = e[2] /\ Lit(e[2])[1] = e[2]
    BY <2>3
  <2>5. IsTrue(w, Lit(e[2])) <=> val[e[2]]
    BY <1>3, <1>4, <2>3, <2>4
  <2>6. val[e] = ~val[e[2]]
    BY <1>5, <1>7, <2>1 DEF Respects
  <2>7. e[2] \in Exprs
    BY <1>4, <2>3
  <2>8. w[e[2]] \in BOOLEAN /\ val[e[2]] \in BOOLEAN
    BY <1>5, <2>7
  <2>9. IsTrue(w, Lit(e)) <=> ~IsTrue(w, Lit(e[2]))
    <3>1. IsTrue(w, <<e[2], FALSE>>) <=> ~IsTrue(w, <<e[2], TRUE>>)
      BY <2>8 DEF IsTrue
    <3> QED
      BY <2>3, <3>1, Zenon
  <2> QED
    BY <1>3, <2>5, <2>6, <2>8, <2>9
<1>8. CASE e[1] # "not"
  <2>1. Lit(e) = <<e, TRUE>> /\ Lit(e)[1] = e
    BY <1>8 DEF Lit
  <2>2. e \in encoded /\ Satisfies(w, Definition(e))
    BY <1>3, <2>1
  <2>3. IsTrue(w, Lit(e)) <=> w[e]
    <3>1. IsTrue(w, <<e, TRUE>>) <=> w[e]
      BY <1>6 DEF IsTrue
    <3> QED
      BY <2>1, <3>1, Zenon
  <2>4. \A a \in Args(e) : IsTrue(w, Lit(a)) <=> val[a]
    BY <1>4, <2>2 DEF Closed
  <2>5. CASE e = True
    <3>1. val[e]
      BY <1>5, <2>5 DEF Respects, True, False
    <3> QED
      BY <1>3, <2>2, <2>3, <2>5, <3>1, DefinitionAsks
  <2>6. CASE e = False
    <3>1. e # True
      BY <2>6 DEF True, False
    <3>2. ~val[e]
      BY <1>5, <2>6, <3>1 DEF Respects, True, False
    <3> QED
      BY <1>3, <2>2, <2>3, <2>6, <3>2, DefinitionAsks
  <2>7. CASE e \notin {True, False} /\ e[1] = "and"
    <3>1. val[e] = \A a \in e[2] : val[a]
      BY <1>5, <2>7 DEF Respects
    <3>2. w[e] <=> \A a \in e[2] : IsTrue(w, Lit(a))
      BY <1>3, <2>2, <2>7, DefinitionAsks
    <3>3. Args(e) = e[2]
      BY <2>7 DEF Args
    <3> QED
      BY <1>3, <2>3, <2>4, <3>1, <3>2, <3>3
  <2>8. CASE e \notin {True, False} /\ e[1] = "or"
    <3>1. val[e] = \E a \in e[2] : val[a]
      BY <1>5, <2>8 DEF Respects
    <3>2. w[e] <=> \E a \in e[2] : IsTrue(w, Lit(a))
      BY <1>3, <2>2, <2>8, DefinitionAsks
    <3>3. Args(e) = e[2]
      BY <2>8 DEF Args
    <3> QED
      BY <1>3, <2>3, <2>4, <3>1, <3>2, <3>3
  <2>9. CASE e \notin {True, False} /\ e[1] \notin {"and", "or"}
    <3>1. e[1] = "atom"
      BY <1>3, <1>8, <2>9, SimplifiedAssumption
    <3>2. val[e] <=> w[e]
      BY <1>3, <3>1 DEF AtomsOf
    <3> QED
      BY <1>3, <1>6, <2>3, <3>2
  <2> QED
    BY <2>5, <2>6, <2>7, <2>8, <2>9
<1> QED
  BY <1>7, <1>8

LEMMA KeptAdmits == KeptInv => NothingAdmitted
<1> SUFFICES ASSUME KeptInv, phase = "idle", NEW m \in Assignments
             PROVE  \E val \in Valuations :
                      /\ \A e \in encoded : e[1] = "atom" => val[e] = m[e]
                      /\ \A f \in added \cup assumed : val[f]
  BY DEF NothingAdmitted
<1>1. /\ encoded \subseteq Exprs /\ clauses \subseteq SUBSET Literals /\ added \subseteq Exprs
      /\ assumed \subseteq Exprs /\ lost \subseteq Exprs
  BY ExprsAssumption DEF KeptInv, Inv, TypeOK, Literals
<1>2. PICK s \in SUBSET encoded : m = [e \in encoded |-> e \in s]
  BY DEF Assignments
<1>3. Satisfies(m, clauses) /\ \A f \in assumed : IsTrue(m, Lit(f))
  BY DEF Assignments
<1> DEFINE full == [e \in Exprs |-> e \in s]
<1>4. full \in [Exprs -> BOOLEAN] /\ \A e \in encoded : full[e] = m[e]
  BY <1>1, <1>2
<1> HIDE DEF full
<1>5. Satisfies(full, clauses) /\ Satisfies(full, work)
  <2>1. Within(clauses, encoded) /\ work = {}
    BY DEF KeptInv, Structure
  <2>2. Satisfies(full, clauses)
    BY <1>3, <1>4, <2>1, Agree
  <2> QED
    BY <2>1, <2>2 DEF Satisfies
<1>6. PICK w \in [Exprs -> BOOLEAN] : Repairs(full, w)
  BY <1>4, <1>5 DEF KeptInv, Repairable
<1> DEFINE t == {e \in AtomsOf(Exprs) : w[e]}
<1>7. PICK val \in Valuations : \A e \in AtomsOf(Exprs) : val[e] = (e \in t)
  <2>1. t \in SUBSET AtomsOf(Exprs)
    OBVIOUS
  <2> HIDE DEF t
  <2> QED
    BY <2>1, IndependentAssumption
<1>8. \A e \in AtomsOf(Exprs) : val[e] <=> w[e]
  <2>1. \A e \in AtomsOf(Exprs) : e \in t <=> w[e]
    OBVIOUS
  <2> QED
    BY <1>7, <2>1, Zenon
<1>9. \A e \in Exprs : Lit(e)[1] \in encoded => (IsTrue(w, Lit(e)) <=> val[e])
  BY <1>1, <1>6, <1>8, DefinitionsDecide DEF KeptInv, Repairs
<1>10. ASSUME NEW e \in encoded, e[1] = "atom"
       PROVE  val[e] = m[e]
  <2>1. e \notin lost /\ e \in Exprs /\ e \in AtomsOf(Exprs)
    BY <1>1, <1>10 DEF KeptInv, Structure, AtomsOf
  <2>2. w[e] = full[e]
    BY <1>6, <2>1 DEF Repairs
  <2>3. val[e] <=> m[e]
    BY <1>4, <1>8, <2>1, <2>2
  <2>4. m[e] \in BOOLEAN /\ val[e] \in BOOLEAN
    <3>1. full[e] \in BOOLEAN
      BY <1>4, <2>1
    <3> QED
      BY <1>4, <2>1, <3>1, ValuationsAssumption
  <2> QED
    BY <2>3, <2>4
<1>11. ASSUME NEW f \in added \cup assumed
       PROVE  val[f]
  <2>1. f \in Exprs /\ Lit(f)[1] \in encoded
    BY <1>1 DEF KeptInv, Structure
  <2>2. CASE f \in added
    <3>1. IsTrue(w, Lit(f))
      BY <1>6, <2>2 DEF Repairs
    <3> QED
      BY <1>9, <2>1, <3>1
  <2>3. CASE f \in assumed
    <3>1. Lit(f)[1] \notin lost /\ Lit(f)[1] \in Exprs
      BY <1>1, <2>1, <2>3 DEF KeptInv, Structure
    <3>2. w[Lit(f)[1]] = m[Lit(f)[1]]
      BY <1>4, <1>6, <2>1, <3>1 DEF Repairs
    <3>3. IsTrue(w, Lit(f))
      BY <1>3, <2>3, <3>2 DEF IsTrue
    <3> QED
      BY <1>9, <2>1, <3>3
  <2> QED
    BY <2>2, <2>3
<1> QED
  BY <1>10, <1>11

\* Where no formula shares a definition that the preprocessor eliminated, the clauses never
\* ask for less than the formulas: an assignment of them that makes the assumed literals true
\* is, on the atoms, a valuation of every formula added and assumed, after any sequence of
\* additions and checks.
THEOREM SatMeansModels == KeptSpec => []NothingAdmitted
<1>1. KeptInit => KeptInv
  BY KeptInitial
<1>2. KeptInv /\ [KeptNext]_keptVars => KeptInv'
  BY KeptNextInv
<1>3. KeptInv => NothingAdmitted
  BY KeptAdmits
<1> QED
  BY <1>1, <1>2, <1>3, PTL DEF KeptSpec

(***************************************************************************)
(* The skolemizer.                                                         *)
(***************************************************************************)
\* An operand is a node, below the node that it belongs to, and of no other.
LEMMA OperandFacts ==
    ASSUME NEW n \in Nodes, NEW i \in DOMAIN Operands[n]
    PROVE  /\ Operands[n][i] \in Nodes /\ Operands[n][i] \notin Roots
           /\ Height[Operands[n][i]] < Height[n] /\ Place[Operands[n][i]] = <<n, i>>
<1>1. Operands[n] \in Seq(Nodes)
  BY SkolemizerAssumption
<1>2. Operands[n][i] \in Nodes
  BY <1>1
<1> QED
  BY <1>2, SkolemizerAssumption

\* An operand belongs to one node, in one position.
LEMMA OperandOnce ==
    ASSUME NEW m \in Nodes, NEW i \in DOMAIN Operands[m], NEW n \in Nodes, NEW j \in DOMAIN Operands[n],
           Operands[m][i] = Operands[n][j]
    PROVE  m = n /\ i = j
<1>1. Place[Operands[m][i]] = <<m, i>> /\ Place[Operands[n][j]] = <<n, j>>
  BY OperandFacts
<1> QED
  BY <1>1

\* How many operands a node has.
LEMMA OperandCount ==
    ASSUME NEW n \in Nodes
    PROVE  /\ Operands[n] \in Seq(Nodes)
           /\ Connective[n] = "atom" => DOMAIN Operands[n] = {}
           /\ Connective[n] \in {"not"} \cup Quantifiers => DOMAIN Operands[n] = {1}
           /\ Connective[n] = "implies" => DOMAIN Operands[n] = {1, 2}
<1>1. Operands[n] \in Seq(Nodes) /\ DOMAIN Operands[n] = 1 .. Len(Operands[n])
  BY SkolemizerAssumption
<1>2. Connective[n] = "atom" => DOMAIN Operands[n] = {}
  BY SkolemizerAssumption
<1>3. Connective[n] \in {"not"} \cup Quantifiers => DOMAIN Operands[n] = {1}
  <2>1. 1 .. 1 = {1}
    OBVIOUS
  <2>2. Connective[n] \in {"not"} \cup Quantifiers => Len(Operands[n]) = 1
    BY SkolemizerAssumption
  <2> QED
    BY <1>1, <2>1, <2>2
<1>4. Connective[n] = "implies" => DOMAIN Operands[n] = {1, 2}
  <2>1. 1 .. 2 = {1, 2}
    OBVIOUS
  <2>2. Connective[n] = "implies" => Len(Operands[n]) = 2
    BY SkolemizerAssumption
  <2> QED
    BY <1>1, <2>1, <2>2
<1> QED
  BY <1>1, <1>2, <1>3, <1>4

\* A set of nodes has a lowest one: none of its operands is in the set.
LEMMA LowestOf ==
    ASSUME NEW S, S \subseteq Nodes, S # {}
    PROVE  \E n \in S : \A i \in DOMAIN Operands[n] : Operands[n][i] \notin S
<1> DEFINE Heights == {Height[n] : n \in S}
<1>1. Heights \subseteq Nat /\ Heights # {}
  BY SkolemizerAssumption
<1>2. PICK h \in Heights : \A m \in Heights : h <= m
  <2> HIDE DEF Heights
  <2> QED
    BY <1>1, LeastOf
<1>3. PICK n \in S : h = Height[n]
  BY <1>2
<1>4. ASSUME NEW i \in DOMAIN Operands[n], Operands[n][i] \in S
      PROVE  FALSE
  <2>1. Height[Operands[n][i]] < Height[n] /\ Height[Operands[n][i]] \in Nat /\ Height[n] \in Nat
    BY OperandFacts, SkolemizerAssumption
  <2>2. h <= Height[Operands[n][i]]
    BY <1>2, <1>4
  <2> QED
    BY <1>3, <2>1, <2>2
<1> QED
  BY <1>4

(***************************************************************************)
(* Meaning is defined by recursion over the nodes.  For an operator map that *)
(* is closed under operands and uses those there are, the definition has    *)
(* exactly one solution.                                                   *)
(***************************************************************************)
Readable(op) ==
    /\ DOMAIN op \subseteq Nodes
    /\ \A n \in DOMAIN op :
         /\ \A i \in DOMAIN Operands[n] : Operands[n][i] \in DOMAIN op
         /\ op[n] \in {"operand", "not", "implies", "forall", "exists"} => 1 \in DOMAIN Operands[n]
         /\ op[n] = "implies" => 2 \in DOMAIN Operands[n]

\* What a node means depends on nothing but what its operands mean.
LEMMA MeantSame ==
    ASSUME NEW op, NEW literal, NEW g, NEW h, NEW n \in DOMAIN op, Readable(op),
           \A i \in DOMAIN Operands[n] : g[Operands[n][i]] = h[Operands[n][i]]
    PROVE  Meant(op, literal, g, n) = Meant(op, literal, h, n)
<1>1. {g[Operands[n][i]] : i \in DOMAIN Operands[n]} = {h[Operands[n][i]] : i \in DOMAIN Operands[n]}
  OBVIOUS
<1>2. CASE op[n] \in {"operand", "not", "forall", "exists"}
  <2>1. g[Operands[n][1]] = h[Operands[n][1]]
    BY <1>2 DEF Readable
  <2> QED
    BY <1>2, <2>1, Zenon DEF Meant
<1>3. CASE op[n] = "implies"
  <2>1. g[Operands[n][1]] = h[Operands[n][1]] /\ g[Operands[n][2]] = h[Operands[n][2]]
    BY <1>3 DEF Readable
  <2>2. Meant(op, literal, g, n) = (Env \ g[Operands[n][1]]) \cup g[Operands[n][2]]
    BY <1>3, Zenon DEF Meant
  <2>3. Meant(op, literal, h, n) = (Env \ h[Operands[n][1]]) \cup h[Operands[n][2]]
    BY <1>3, Zenon DEF Meant
  <2> QED
    BY <2>1, <2>2, <2>3, Zenon
<1>4. CASE op[n] \notin {"operand", "not", "implies", "forall", "exists"}
  BY <1>1, <1>4, Zenon DEF Meant
<1> QED
  BY <1>2, <1>3, <1>4

Solves(op, literal, g, k) ==
    \A m \in DOMAIN op : Height[m] < k => g[m] = Meant(op, literal, g, m)

\* Two solutions up to a height agree below it.
LEMMA SolutionsAgree ==
    ASSUME NEW op, NEW literal, Readable(op), NEW k \in Nat, NEW g, NEW h,
           Solves(op, literal, g, k), Solves(op, literal, h, k), NEW n \in DOMAIN op, Height[n] < k
    PROVE  g[n] = h[n]
<1> DEFINE S == {m \in DOMAIN op : Height[m] < k /\ g[m] # h[m]}
<1>1. SUFFICES ASSUME S # {} PROVE FALSE
  OBVIOUS
<1>2. S \subseteq Nodes
  BY DEF Readable
<1>3. PICK m \in S : \A i \in DOMAIN Operands[m] : Operands[m][i] \notin S
  <2> HIDE DEF S
  <2> QED
    BY <1>1, <1>2, LowestOf
<1>4. ASSUME NEW i \in DOMAIN Operands[m]
      PROVE  g[Operands[m][i]] = h[Operands[m][i]]
  <2>1. m \in Nodes /\ Operands[m][i] \in DOMAIN op
    BY <1>2 DEF Readable
  <2>2. Height[Operands[m][i]] < Height[m] /\ Operands[m][i] \in Nodes
    BY <2>1, OperandFacts
  <2>3. Height[Operands[m][i]] \in Nat /\ Height[m] \in Nat
    BY <2>1, <2>2, SkolemizerAssumption
  <2>4. Height[Operands[m][i]] < k
    BY <2>2, <2>3
  <2> QED
    BY <1>3, <2>1, <2>4
<1>5. Meant(op, literal, g, m) = Meant(op, literal, h, m)
  BY <1>4, MeantSame, Zenon
<1> QED
  BY <1>5 DEF Solves

\* There is a solution up to every height.
LEMMA SolutionsExist ==
    ASSUME NEW op, NEW literal, Readable(op), NEW k \in Nat
    PROVE  \E g : Solves(op, literal, g, k)
<1> DEFINE S == {j \in Nat : ~ \E g : Solves(op, literal, g, j)}
<1>1. SUFFICES ASSUME S # {} PROVE FALSE
  OBVIOUS
<1>2. PICK j \in S : \A i \in S : j <= i
  <2> S \subseteq Nat
    OBVIOUS
  <2> HIDE DEF S
  <2> QED
    BY <1>1, LeastOf
<1>3. ASSUME NEW m \in DOMAIN op
      PROVE  Height[m] \in Nat
  BY SkolemizerAssumption DEF Readable
<1>4. j # 0
  <2>1. Solves(op, literal, <<>>, 0)
    BY <1>3 DEF Solves
  <2> QED
    BY <2>1
<1>5. j - 1 \in Nat /\ j - 1 \notin S
  BY <1>2, <1>4
<1>6. PICK g : Solves(op, literal, g, j - 1)
  BY <1>5
<1> DEFINE h == [m \in DOMAIN op |-> Meant(op, literal, g, m)]
<1>7. ASSUME NEW m \in DOMAIN op, Height[m] < j
      PROVE  h[m] = Meant(op, literal, h, m)
  <2>1. ASSUME NEW i \in DOMAIN Operands[m]
        PROVE  g[Operands[m][i]] = h[Operands[m][i]]
    <3>1. m \in Nodes /\ Operands[m][i] \in DOMAIN op
      BY DEF Readable
    <3>2. Height[Operands[m][i]] < Height[m]
      BY <3>1, OperandFacts
    <3>3. Height[Operands[m][i]] < j - 1
      BY <1>3, <1>7, <3>1, <3>2
    <3>4. g[Operands[m][i]] = Meant(op, literal, g, Operands[m][i])
      BY <1>6, <3>1, <3>3 DEF Solves
    <3> QED
      BY <3>1, <3>4
  <2> HIDE DEF h
  <2>2. Meant(op, literal, g, m) = Meant(op, literal, h, m)
    BY <2>1, MeantSame, Zenon
  <2>3. h[m] = Meant(op, literal, g, m)
    BY DEF h
  <2> QED
    BY <2>2, <2>3
<1>8. Solves(op, literal, h, j)
  BY <1>7 DEF Solves
<1> QED
  BY <1>2, <1>8

\* What a node means is what its operator makes of what its operands mean.
LEMMA MeaningUnfold ==
    ASSUME NEW op, NEW literal, Readable(op), NEW n \in DOMAIN op
    PROVE  Meaning(op, literal)[n] = Meant(op, literal, Meaning(op, literal), n)
<1> DEFINE Is(g) == g = [m \in DOMAIN op |-> Meant(op, literal, g, m)]
           At(m) == CHOOSE g : Solves(op, literal, g, Height[m] + 1)
           F == [m \in DOMAIN op |-> At(m)[m]]
<1>1. ASSUME NEW m \in DOMAIN op
      PROVE  m \in Nodes /\ Height[m] \in Nat /\ Solves(op, literal, At(m), Height[m] + 1)
  <2>1. m \in Nodes /\ Height[m] + 1 \in Nat /\ Height[m] \in Nat
    BY SkolemizerAssumption DEF Readable
  <2> QED
    BY <2>1, SolutionsExist
<1>2. ASSUME NEW m \in DOMAIN op
      PROVE  F[m] = Meant(op, literal, F, m)
  <2>1. m \in Nodes /\ Height[m] \in Nat
    BY <1>1
  <2>2. Solves(op, literal, At(m), Height[m] + 1)
    BY <1>1
  <2>3. ASSUME NEW i \in DOMAIN Operands[m]
        PROVE  At(m)[Operands[m][i]] = F[Operands[m][i]]
    <3> DEFINE p == Operands[m][i]
    <3>1. p \in DOMAIN op
      BY DEF Readable
    <3>2. Height[p] < Height[m] /\ Height[p] \in Nat
      BY <1>1, <2>1, <3>1, OperandFacts
    <3>3. Solves(op, literal, At(p), Height[p] + 1)
      BY <1>1, <3>1
    <3>4. Height[p] < Height[p] + 1 /\ Height[p] + 1 \in Nat
      BY <3>2
    <3>5. Solves(op, literal, At(m), Height[p] + 1)
      <4> HIDE DEF At, p
      <4>1. ASSUME NEW q \in DOMAIN op, Height[q] < Height[p] + 1
            PROVE  Height[q] < Height[m] + 1
        BY <1>1, <2>1, <3>2, <4>1
      <4> QED
        BY <2>2, <4>1 DEF Solves
    <3>6. At(m)[p] = At(p)[p]
      <4> HIDE DEF At, p
      <4> QED
        BY <3>1, <3>3, <3>4, <3>5, SolutionsAgree
    <3> QED
      BY <3>1, <3>6
  <2> HIDE DEF At
  <2>4. At(m)[m] = Meant(op, literal, At(m), m)
    BY <2>1, <2>2 DEF Solves
  <2>5. F[m] = At(m)[m]
    OBVIOUS
  <2> HIDE DEF F
  <2>6. Meant(op, literal, At(m), m) = Meant(op, literal, F, m)
    BY <2>3, MeantSame, Zenon
  <2> QED
    BY <2>4, <2>5, <2>6
<1>3. F = [m \in DOMAIN op |-> F[m]]
  OBVIOUS
<1> HIDE DEF F
<1>4. Is(F)
  BY <1>2, <1>3, Zenon
<1>5. Meaning(op, literal) = CHOOSE g : Is(g)
  BY DEF Meaning
<1> HIDE DEF Is
<1>6. Is(Meaning(op, literal))
  BY <1>4, <1>5
<1>7. Meaning(op, literal) = [m \in DOMAIN op |-> Meant(op, literal, Meaning(op, literal), m)]
  BY <1>6, Zenon DEF Is
<1> QED
  BY <1>7, Zenon

(***************************************************************************)
(* What the walk keeps: the types of what it holds with each node, and its   *)
(* order.  A node is on the stack or visited and never twice, and its        *)
(* operands are met when it is visited and not before.                      *)
(***************************************************************************)
AllTerms == [symbol : Nat \X Variables \X Nat, args : Seq(Variables)]
Thetas == UNION {[S -> AllTerms] : S \in SUBSET Variables}
Entries == [formula : assertions, positive : BOOLEAN, univ : Seq(Variables), theta : Thetas]

WalkTypes ==
    /\ assertions \subseteq Roots /\ IsFiniteSet(assertions)
    /\ counter \in Nat /\ stack \in Seq(Nodes)
    /\ DOMAIN entry \subseteq Nodes /\ \A n \in DOMAIN entry : entry[n] \in Entries

WalkOrder ==
    /\ DOMAIN entry = Range(stack) \cup DOMAIN result
    /\ \A i \in DOMAIN stack : stack[i] \notin DOMAIN result
    /\ \A i, j \in DOMAIN stack : stack[i] = stack[j] => i = j
    /\ \A n \in DOMAIN result : \A i \in DOMAIN Operands[n] : Operands[n][i] \in DOMAIN entry
    /\ \A n \in Nodes : \A i \in DOMAIN Operands[n] : Operands[n][i] \in DOMAIN entry => n \in DOMAIN result
    /\ \A f \in Roots : f \in DOMAIN entry <=> f \in assertions
    /\ \A f \in assertions : entry[f] = Start(f)

\* The operands of a node in reverse order on top of a stack, of which none holds what the other does.
LEMMA PushedFacts ==
    ASSUME NEW args \in Seq(Nodes), NEW rest \in Seq(Nodes),
           \A i, j \in DOMAIN args : args[i] = args[j] => i = j,
           \A i, j \in DOMAIN rest : rest[i] = rest[j] => i = j,
           \A i \in DOMAIN args : \A j \in DOMAIN rest : args[i] # rest[j],
           NEW pushed, pushed = [i \in DOMAIN args |-> args[Len(args) + 1 - i]] \o rest
    PROVE  /\ pushed \in Seq(Nodes)
           /\ Range(pushed) = Range(args) \cup Range(rest)
           /\ \A i, j \in DOMAIN pushed : pushed[i] = pushed[j] => i = j
<1> DEFINE back == [i \in DOMAIN args |-> args[Len(args) + 1 - i]]
<1>1. Len(args) \in Nat /\ DOMAIN args = 1 .. Len(args) /\ Len(rest) \in Nat /\ DOMAIN rest = 1 .. Len(rest)
  OBVIOUS
<1>2. ASSUME NEW i \in DOMAIN args
      PROVE  Len(args) + 1 - i \in DOMAIN args /\ back[i] = args[Len(args) + 1 - i] /\ args[Len(args) + 1 - i] \in Nodes
  <2>1. Len(args) + 1 - i \in 1 .. Len(args)
    BY <1>1
  <2> QED
    BY <1>1, <2>1
<1>3. back \in [1 .. Len(args) -> Nodes]
  BY <1>1, <1>2
<1>4. back \in Seq(Nodes) /\ Len(back) = Len(args) /\ DOMAIN back = DOMAIN args
  BY <1>1, <1>3
<1>5. ASSUME NEW i \in DOMAIN args, NEW j \in DOMAIN args, back[i] = back[j]
      PROVE  i = j
  <2>1. PICK a : a = Len(args) + 1 - i
    OBVIOUS
  <2>2. PICK b : b = Len(args) + 1 - j
    OBVIOUS
  <2>3. a \in DOMAIN args /\ b \in DOMAIN args /\ args[a] = args[b]
    BY <1>2, <1>5, <2>1, <2>2
  <2>4. a = b
    BY <2>3
  <2> QED
    BY <1>1, <2>1, <2>2, <2>4
<1>6. ASSUME NEW i \in DOMAIN args
      PROVE  \E j \in DOMAIN args : back[j] = args[i]
  <2>1. PICK j : j = Len(args) + 1 - i
    OBVIOUS
  <2>2. j \in DOMAIN args /\ Len(args) + 1 - j = i
    BY <1>1, <2>1
  <2> QED
    BY <1>2, <2>2
<1>7. \A i \in DOMAIN args : \E k \in DOMAIN args : back[i] = args[k]
  BY <1>2
<1> HIDE DEF back
<1>8. pushed = back \o rest
  BY DEF back
<1>9. pushed \in Seq(Nodes) /\ Len(pushed) = Len(back) + Len(rest) /\ DOMAIN pushed = 1 .. Len(pushed)
  <2>1. pushed \in Seq(Nodes)
    BY <1>4, <1>8, ConcatProperties
  <2>2. Len(pushed) = Len(back) + Len(rest)
    BY <1>4, <1>8, ConcatProperties
  <2> QED
    BY <2>1, <2>2
<1>10. ASSUME NEW i \in DOMAIN pushed
       PROVE  \/ i \in DOMAIN back /\ pushed[i] = back[i]
              \/ i - Len(back) \in DOMAIN rest /\ pushed[i] = rest[i - Len(back)]
  BY <1>1, <1>4, <1>8, <1>9
<1>11. \A i \in DOMAIN back : i \in DOMAIN pushed /\ pushed[i] = back[i]
  BY <1>1, <1>4, <1>8, <1>9
<1>12. \A i \in DOMAIN rest : i + Len(back) \in DOMAIN pushed /\ pushed[i + Len(back)] = rest[i]
  BY <1>1, <1>4, <1>8, <1>9
<1>13. Range(pushed) = Range(args) \cup Range(rest)
  <2>1. ASSUME NEW i \in DOMAIN pushed
        PROVE  pushed[i] \in Range(args) \cup Range(rest)
    BY <1>4, <1>7, <1>10 DEF Range
  <2>2. ASSUME NEW i \in DOMAIN args
        PROVE  args[i] \in Range(pushed)
    <3>1. PICK j \in DOMAIN args : back[j] = args[i]
      BY <1>6
    <3>2. j \in DOMAIN pushed /\ pushed[j] = args[i]
      BY <1>4, <1>11, <3>1
    <3> QED
      BY <3>2, Zenon DEF Range
  <2>3. ASSUME NEW i \in DOMAIN rest
        PROVE  rest[i] \in Range(pushed)
    BY <1>12 DEF Range
  <2>4. /\ \A x \in Range(pushed) : x \in Range(args) \cup Range(rest)
        /\ \A x \in Range(args) : x \in Range(pushed)
        /\ \A x \in Range(rest) : x \in Range(pushed)
    BY <2>1, <2>2, <2>3, Zenon DEF Range
  <2> QED
    BY <2>4
<1>14. ASSUME NEW i \in DOMAIN pushed, NEW j \in DOMAIN pushed, pushed[i] = pushed[j]
       PROVE  i = j
  <2>1. CASE i \in DOMAIN back /\ pushed[i] = back[i] /\ j \in DOMAIN back /\ pushed[j] = back[j]
    BY <1>4, <1>5, <1>14, <2>1
  <2>2. CASE i \in DOMAIN back /\ pushed[i] = back[i] /\ j - Len(back) \in DOMAIN rest /\ pushed[j] = rest[j - Len(back)]
    BY <1>4, <1>7, <1>14, <2>2
  <2>3. CASE j \in DOMAIN back /\ pushed[j] = back[j] /\ i - Len(back) \in DOMAIN rest /\ pushed[i] = rest[i - Len(back)]
    BY <1>4, <1>7, <1>14, <2>3
  <2>4. CASE /\ i - Len(back) \in DOMAIN rest /\ pushed[i] = rest[i - Len(back)]
             /\ j - Len(back) \in DOMAIN rest /\ pushed[j] = rest[j - Len(back)]
    <3>1. i - Len(back) = j - Len(back)
      BY <1>14, <2>4
    <3> QED
      BY <1>4, <1>9, <3>1
  <2> QED
    BY <1>10, <2>1, <2>2, <2>3, <2>4
<1> QED
  BY <1>9, <1>13, <1>14

\* The node on top is a new one, and what is below it is a stack of others.
LEMMA HeadFacts ==
    ASSUME WalkTypes, WalkOrder, stack # <<>>
    PROVE  /\ Head(stack) \in Nodes /\ Head(stack) \in DOMAIN entry /\ Head(stack) \notin DOMAIN result
           /\ Tail(stack) \in Seq(Nodes)
           /\ Range(stack) = Range(Tail(stack)) \cup {Head(stack)}
           /\ \A i \in DOMAIN Tail(stack) : Tail(stack)[i] # Head(stack) /\ Tail(stack)[i] \in DOMAIN entry
           /\ \A i, j \in DOMAIN Tail(stack) : Tail(stack)[i] = Tail(stack)[j] => i = j
<1> DEFINE rest == Tail(stack)
<1>1. stack \in Seq(Nodes) /\ Len(stack) \in Nat /\ Len(stack) > 0 /\ DOMAIN stack = 1 .. Len(stack)
  BY DEF WalkTypes
<1>2. 1 \in DOMAIN stack /\ Head(stack) = stack[1]
  BY <1>1
<1>3. rest \in Seq(Nodes) /\ Len(rest) = Len(stack) - 1 /\ DOMAIN rest = 1 .. Len(rest)
  BY <1>1
<1>4. ASSUME NEW i \in DOMAIN rest
      PROVE  i + 1 \in DOMAIN stack /\ rest[i] = stack[i + 1] /\ i + 1 # 1 /\ i \in Int
  BY <1>1, <1>3
<1>5. ASSUME NEW i \in DOMAIN stack, i # 1
      PROVE  \E j \in DOMAIN rest : stack[i] = rest[j]
  <2>1. i - 1 \in DOMAIN rest /\ rest[i - 1] = stack[i]
    BY <1>1, <1>3, <1>5
  <2> QED
    BY <2>1
<1>6. Head(stack) \in Nodes /\ Head(stack) \notin DOMAIN result
  BY <1>1, <1>2 DEF WalkOrder
<1>7. \A i \in DOMAIN stack : stack[i] \in DOMAIN entry
  BY DEF WalkOrder, Range
<1> HIDE DEF rest
<1>8. ASSUME NEW i \in DOMAIN rest
      PROVE  rest[i] # Head(stack) /\ rest[i] \in DOMAIN entry
  <2>1. stack[i + 1] # stack[1]
    BY <1>2, <1>4, Zenon DEF WalkOrder
  <2> QED
    BY <1>2, <1>4, <1>7, <2>1
<1>9. ASSUME NEW i \in DOMAIN rest, NEW j \in DOMAIN rest, rest[i] = rest[j]
      PROVE  i = j
  <2>1. i + 1 = j + 1
    BY <1>4, <1>9, Zenon DEF WalkOrder
  <2> QED
    BY <1>4, <2>1
<1>10. Range(stack) = Range(rest) \cup {Head(stack)}
  <2>1. \A i \in DOMAIN rest : rest[i] \in Range(stack)
    BY <1>4, Zenon DEF Range
  <2>2. \A i \in DOMAIN stack : stack[i] \in Range(rest) \cup {Head(stack)}
    BY <1>2, <1>5 DEF Range
  <2>3. /\ \A x \in Range(rest) : x \in Range(stack)
        /\ \A x \in Range(stack) : x \in Range(rest) \cup {Head(stack)}
    BY <2>1, <2>2, Zenon DEF Range
  <2>4. Head(stack) \in Range(stack)
    BY <1>2, Zenon DEF Range
  <2> QED
    BY <2>3, <2>4
<1> QED
  BY <1>2, <1>3, <1>6, <1>7, <1>8, <1>9, <1>10 DEF rest

\* A visit leaves what was there and adds the operands of the node.
LEMMA BecomesFacts ==
    ASSUME WalkTypes, WalkOrder, stack # <<>>, NEW op, NEW oe, Becomes(op, oe), NEW n, n = Head(stack)
    PROVE  /\ n \in Nodes /\ n \in DOMAIN entry /\ n \notin DOMAIN result
           /\ assertions' = assertions
           /\ DOMAIN result' = DOMAIN result \cup {n} /\ result'[n] = op
           /\ \A m \in DOMAIN result : result'[m] = result[m]
           /\ DOMAIN entry' = DOMAIN entry \cup Range(Operands[n])
           /\ \A m \in DOMAIN entry : entry'[m] = entry[m]
           /\ \A i \in DOMAIN Operands[n] : /\ Operands[n][i] \notin DOMAIN entry
                                            /\ entry'[Operands[n][i]] = oe[Operands[n][i]]
           /\ stack' \in Seq(Nodes)
           /\ Range(stack') = Range(Operands[n]) \cup Range(Tail(stack))
           /\ \A i, j \in DOMAIN stack' : stack'[i] = stack'[j] => i = j
<1>1. /\ n \in Nodes /\ n \in DOMAIN entry /\ n \notin DOMAIN result
      /\ Tail(stack) \in Seq(Nodes)
      /\ \A i \in DOMAIN Tail(stack) : Tail(stack)[i] \in DOMAIN entry
      /\ \A i, j \in DOMAIN Tail(stack) : Tail(stack)[i] = Tail(stack)[j] => i = j
  BY HeadFacts
<1>2. /\ result' = [m \in DOMAIN result \cup {n} |-> IF m = n THEN op ELSE result[m]]
      /\ stack' = [i \in DOMAIN Operands[n] |-> Operands[n][Len(Operands[n]) + 1 - i]] \o Tail(stack)
      /\ entry' = [m \in DOMAIN entry \cup Range(Operands[n]) |-> IF m \in Range(Operands[n]) THEN oe[m] ELSE entry[m]]
      /\ assertions' = assertions
  BY DEF Becomes
<1>3. \A i \in DOMAIN Operands[n] : Operands[n][i] \notin DOMAIN entry
  BY <1>1 DEF WalkOrder
<1>4. \A m \in Range(Operands[n]) : m \notin DOMAIN entry
  BY <1>3, Zenon DEF Range
<1>5. \A i \in DOMAIN Operands[n] : Operands[n][i] \in Range(Operands[n])
  BY Zenon DEF Range
<1>6. DOMAIN result' = DOMAIN result \cup {n} /\ result'[n] = op /\ \A m \in DOMAIN result : result'[m] = result[m]
  BY <1>1, <1>2
<1>7. /\ DOMAIN entry' = DOMAIN entry \cup Range(Operands[n])
      /\ \A m \in DOMAIN entry : entry'[m] = entry[m]
      /\ \A i \in DOMAIN Operands[n] : entry'[Operands[n][i]] = oe[Operands[n][i]]
  BY <1>2, <1>4, <1>5
<1>8. \A i, j \in DOMAIN Operands[n] : Operands[n][i] = Operands[n][j] => i = j
  BY <1>1, OperandOnce
<1>9. \A i \in DOMAIN Operands[n] : \A j \in DOMAIN Tail(stack) : Operands[n][i] # Tail(stack)[j]
  BY <1>1, <1>3
<1>10. Operands[n] \in Seq(Nodes)
  BY <1>1, OperandCount
<1>11. /\ stack' \in Seq(Nodes)
       /\ Range(stack') = Range(Operands[n]) \cup Range(Tail(stack))
       /\ \A i, j \in DOMAIN stack' : stack'[i] = stack'[j] => i = j
  <2>1. PICK args : args = Operands[n]
    OBVIOUS
  <2>2. PICK rest : rest = Tail(stack)
    OBVIOUS
  <2>3. /\ args \in Seq(Nodes) /\ rest \in Seq(Nodes)
        /\ \A i, j \in DOMAIN args : args[i] = args[j] => i = j
        /\ \A i, j \in DOMAIN rest : rest[i] = rest[j] => i = j
        /\ \A i \in DOMAIN args : \A j \in DOMAIN rest : args[i] # rest[j]
        /\ stack' = [i \in DOMAIN args |-> args[Len(args) + 1 - i]] \o rest
    BY <1>1, <1>2, <1>8, <1>9, <1>10, <2>1, <2>2
  <2>4. /\ stack' \in Seq(Nodes)
        /\ Range(stack') = Range(args) \cup Range(rest)
        /\ \A i, j \in DOMAIN stack' : stack'[i] = stack'[j] => i = j
    BY <2>3, PushedFacts
  <2> QED
    BY <2>1, <2>2, <2>4
<1> QED
  BY <1>1, <1>2, <1>3, <1>6, <1>7, <1>11

\* A visit keeps the order of the walk.
LEMMA BecomesOrder ==
    ASSUME WalkTypes, WalkOrder, stack # <<>>, NEW op, NEW oe, Becomes(op, oe)
    PROVE  WalkOrder'
<1>0. PICK n : n = Head(stack)
  OBVIOUS
<1>1. /\ n \in Nodes /\ n \in DOMAIN entry /\ n \notin DOMAIN result
      /\ assertions' = assertions
      /\ DOMAIN result' = DOMAIN result \cup {n}
      /\ DOMAIN entry' = DOMAIN entry \cup Range(Operands[n])
      /\ \A m \in DOMAIN entry : entry'[m] = entry[m]
      /\ \A i \in DOMAIN Operands[n] : Operands[n][i] \notin DOMAIN entry
      /\ stack' \in Seq(Nodes)
      /\ Range(stack') = Range(Operands[n]) \cup Range(Tail(stack))
      /\ \A i, j \in DOMAIN stack' : stack'[i] = stack'[j] => i = j
  BY <1>0, BecomesFacts
<1>2. /\ Range(stack) = Range(Tail(stack)) \cup {n}
      /\ \A i \in DOMAIN Tail(stack) : Tail(stack)[i] # n
  BY <1>0, HeadFacts
<1>3. \A m \in Range(Tail(stack)) : m # n /\ m \in Range(stack)
  <2>1. \A m \in Range(Tail(stack)) : m # n
    BY <1>2, Zenon DEF Range
  <2> QED
    BY <1>2, <2>1
<1>4. \A m \in Range(Operands[n]) : m \notin DOMAIN entry
  BY <1>1 DEF Range
<1>5. \A m \in Range(stack) : m \notin DOMAIN result
  <2>1. \A i \in DOMAIN stack : stack[i] \notin DOMAIN result
    BY DEF WalkOrder
  <2> QED
    BY <2>1, Zenon DEF Range
<1>6. DOMAIN entry = Range(stack) \cup DOMAIN result
  BY DEF WalkOrder
<1>7. DOMAIN entry' = Range(stack') \cup DOMAIN result'
  BY <1>1, <1>2, <1>6
<1>8. \A m \in Range(stack') : m \notin DOMAIN result'
  BY <1>1, <1>3, <1>4, <1>5, <1>6
<1>9. \A i \in DOMAIN stack' : stack'[i] \notin DOMAIN result'
  BY <1>8, Zenon DEF Range
<1>10. ASSUME NEW m \in DOMAIN result', NEW i \in DOMAIN Operands[m]
       PROVE  Operands[m][i] \in DOMAIN entry'
  <2>1. CASE m = n
    <3>1. Operands[n][i] \in Range(Operands[n])
      BY <1>10, <2>1, Zenon DEF Range
    <3> QED
      BY <1>1, <2>1, <3>1
  <2>2. CASE m \in DOMAIN result
    BY <1>1, <2>2 DEF WalkOrder
  <2> QED
    BY <1>1, <2>1, <2>2
<1>11. ASSUME NEW m \in Nodes, NEW i \in DOMAIN Operands[m], Operands[m][i] \in DOMAIN entry'
       PROVE  m \in DOMAIN result'
  <2>1. CASE Operands[m][i] \in DOMAIN entry
    BY <1>1, <2>1 DEF WalkOrder
  <2>2. CASE Operands[m][i] \in Range(Operands[n])
    <3>1. PICK j \in DOMAIN Operands[n] : Operands[m][i] = Operands[n][j]
      BY <2>2, Zenon DEF Range
    <3>2. m = n
      BY <1>1, <3>1, OperandOnce
    <3> QED
      BY <1>1, <3>2
  <2> QED
    BY <1>1, <1>11, <2>1, <2>2
<1>12. ASSUME NEW f \in Roots
       PROVE  f \in DOMAIN entry' <=> f \in assertions'
  <2>1. f \notin Range(Operands[n])
    <3>1. \A i \in DOMAIN Operands[n] : Operands[n][i] \notin Roots
      BY <1>1, OperandFacts
    <3> QED
      BY <3>1, Zenon DEF Range
  <2>2. f \in DOMAIN entry <=> f \in assertions
    BY DEF WalkOrder
  <2> QED
    BY <1>1, <2>1, <2>2
<1>13. ASSUME NEW f \in assertions'
       PROVE  entry'[f] = Start(f)
  <2>1. f \in assertions /\ f \in Roots
    BY <1>1, <1>13 DEF WalkTypes
  <2>2. f \in DOMAIN entry /\ entry[f] = Start(f)
    BY <2>1 DEF WalkOrder
  <2> QED
    BY <1>1, <2>2
<1> QED
  BY <1>1, <1>7, <1>9, <1>10, <1>11, <1>12, <1>13 DEF WalkOrder

\* A visit keeps the types, given operand entries of the type.
LEMMA BecomesTypes ==
    ASSUME WalkTypes, WalkOrder, stack # <<>>, NEW op, NEW oe, Becomes(op, oe), counter' \in Nat,
           \A i \in DOMAIN Operands[Head(stack)] : oe[Operands[Head(stack)][i]] \in Entries
    PROVE  WalkTypes'
<1>0. PICK n : n = Head(stack)
  OBVIOUS
<1>1. /\ n \in Nodes
      /\ assertions' = assertions
      /\ DOMAIN entry' = DOMAIN entry \cup Range(Operands[n])
      /\ \A m \in DOMAIN entry : entry'[m] = entry[m]
      /\ \A i \in DOMAIN Operands[n] : entry'[Operands[n][i]] = oe[Operands[n][i]]
      /\ stack' \in Seq(Nodes)
  <2>1. n \in Nodes /\ assertions' = assertions
    BY <1>0, BecomesFacts
  <2>2. stack' \in Seq(Nodes)
    BY <1>0, BecomesFacts
  <2>3. DOMAIN entry' = DOMAIN entry \cup Range(Operands[n])
    BY <1>0, BecomesFacts
  <2>4. \A m \in DOMAIN entry : entry'[m] = entry[m]
    BY <1>0, BecomesFacts
  <2>5. \A i \in DOMAIN Operands[n] : entry'[Operands[n][i]] = oe[Operands[n][i]]
    BY <1>0 DEF Becomes, Range
  <2> QED
    BY <2>1, <2>2, <2>3, <2>4, <2>5
<1>2. \A i \in DOMAIN Operands[n] : Operands[n][i] \in Nodes /\ entry'[Operands[n][i]] \in Entries
  BY <1>0, <1>1, OperandFacts
<1>3. \A m \in Range(Operands[n]) : m \in Nodes /\ entry'[m] \in Entries
  BY <1>2, Zenon DEF Range
<1>4. \A m \in DOMAIN entry' : m \in Nodes /\ entry'[m] \in Entries
  BY <1>1, <1>3 DEF WalkTypes
<1>5. Entries' = Entries
  BY <1>1 DEF Entries, Thetas, AllTerms
<1>6. DOMAIN entry' \subseteq Nodes /\ \A m \in DOMAIN entry' : entry'[m] \in Entries'
  BY <1>4, <1>5
<1>7. assertions' \subseteq Roots /\ IsFiniteSet(assertions')
  BY <1>1 DEF WalkTypes
<1> QED
  BY <1>1, <1>6, <1>7 DEF WalkTypes

\* A substitution stays one without a variable, and with a new term.
LEMMA ThetaFacts ==
    ASSUME NEW theta \in Thetas, NEW v \in Variables, NEW term \in AllTerms
    PROVE  /\ DOMAIN theta \subseteq Variables
           /\ \A x \in DOMAIN theta : theta[x] \in AllTerms
           /\ [x \in DOMAIN theta \ {v} |-> theta[x]] \in Thetas
           /\ [x \in DOMAIN theta \cup {v} |-> IF x = v THEN term ELSE theta[x]] \in Thetas
<1>1. PICK S \in SUBSET Variables : theta \in [S -> AllTerms]
  BY DEF Thetas
<1>2. DOMAIN theta = S /\ \A x \in S : theta[x] \in AllTerms
  BY <1>1
<1>3. ASSUME NEW T \in SUBSET Variables, NEW g \in [T -> AllTerms]
      PROVE  g \in Thetas
  BY DEF Thetas
<1>4. [x \in S \ {v} |-> theta[x]] \in [S \ {v} -> AllTerms]
  BY <1>2
<1>5. [x \in S \cup {v} |-> IF x = v THEN term ELSE theta[x]] \in [S \cup {v} -> AllTerms]
  BY <1>2
<1>6. S \ {v} \in SUBSET Variables /\ S \cup {v} \in SUBSET Variables
  OBVIOUS
<1> QED
  BY <1>2, <1>3, <1>4, <1>5, <1>6

\* What an entry holds, and how it may change.
LEMMA EntryFacts ==
    ASSUME NEW e \in Entries
    PROVE  /\ e.formula \in assertions /\ e.positive \in BOOLEAN /\ e.univ \in Seq(Variables) /\ e.theta \in Thetas
           /\ [e EXCEPT !.positive = ~e.positive] \in Entries
           /\ \A univ \in Seq(Variables), theta \in Thetas : [e EXCEPT !.univ = univ, !.theta = theta] \in Entries
           /\ \A theta \in Thetas : [e EXCEPT !.positive = TRUE, !.theta = theta] \in Entries
BY DEF Entries

\* What the operands of the node on top are visited with.
TurnedEntry(n, m) ==
    IF Connective[n] = "implies" /\ m = Operands[n][1]
    THEN [entry[n] EXCEPT !.positive = ~entry[n].positive]
    ELSE entry[n]
WithoutBound(n) == [x \in DOMAIN entry[n].theta \ {Binds[n]} |-> entry[n].theta[x]]
UniversalEntry(n) == [entry[n] EXCEPT !.univ = Append(entry[n].univ, Binds[n]), !.theta = WithoutBound(n)]
WithTerm(n, k) ==
    [x \in DOMAIN entry[n].theta \cup {Binds[n]} |->
       IF x = Binds[n] THEN SkolemTerm(k, Binds[n], entry[n].univ) ELSE entry[n].theta[x]]
ExistentialEntry(n, k) == [entry[n] EXCEPT !.positive = TRUE, !.theta = WithTerm(n, k)]

\* Operands are visited with entries.
LEMMA OperandEntries ==
    ASSUME WalkTypes, NEW n \in DOMAIN entry
    PROVE  /\ n \in Nodes /\ entry[n] \in Entries
           /\ [entry[n] EXCEPT !.positive = ~entry[n].positive] \in Entries
           /\ \A m : TurnedEntry(n, m) \in Entries
           /\ UniversalEntry(n) \in Entries
           /\ \A k \in Nat : ExistentialEntry(n, k) \in Entries /\ SkolemTerm(k, Binds[n], entry[n].univ) \in AllTerms
<1>1. n \in Nodes /\ entry[n] \in Entries /\ Binds[n] \in Variables
  BY SkolemizerAssumption DEF WalkTypes
<1>2. entry[n].univ \in Seq(Variables) /\ entry[n].theta \in Thetas /\ Append(entry[n].univ, Binds[n]) \in Seq(Variables)
  <2>1. entry[n].univ \in Seq(Variables) /\ entry[n].theta \in Thetas
    BY <1>1, EntryFacts
  <2> QED
    BY <1>1, <2>1, AppendProperties
<1>3. ASSUME NEW k \in Nat
      PROVE  SkolemTerm(k, Binds[n], entry[n].univ) \in AllTerms
  BY <1>1, <1>2 DEF SkolemTerm, AllTerms
<1>4. WithoutBound(n) \in Thetas
  <2>1. SkolemTerm(0, Binds[n], entry[n].univ) \in AllTerms
    BY <1>3
  <2> QED
    BY <1>1, <1>2, <2>1, ThetaFacts DEF WithoutBound
<1>5. ASSUME NEW k \in Nat
      PROVE  WithTerm(n, k) \in Thetas
  BY <1>1, <1>2, <1>3, ThetaFacts DEF WithTerm
<1>6. UniversalEntry(n) \in Entries
  BY <1>1, <1>2, <1>4, EntryFacts DEF UniversalEntry
<1>7. ASSUME NEW k \in Nat
      PROVE  ExistentialEntry(n, k) \in Entries
  BY <1>1, <1>5, EntryFacts DEF ExistentialEntry
<1>8. [entry[n] EXCEPT !.positive = ~entry[n].positive] \in Entries
  BY <1>1, EntryFacts
<1>9. \A m : TurnedEntry(n, m) \in Entries
  BY <1>1, <1>8 DEF TurnedEntry
<1> QED
  BY <1>1, <1>3, <1>6, <1>7, <1>8, <1>9

\* Every visit keeps types and order.
LEMMA VisitWalks ==
    ASSUME WalkTypes, WalkOrder, Visit
    PROVE  WalkTypes' /\ WalkOrder'
<1>1. stack # <<>>
  BY DEF Visit, VisitAtom, VisitNot, VisitJunction, VisitUniversal, VisitExistential
<1>2. PICK n : n = Head(stack)
  OBVIOUS
<1>3. n \in Nodes /\ n \in DOMAIN entry
  BY <1>1, <1>2, HeadFacts
<1>4. \A i \in DOMAIN Operands[n] : Operands[n][i] \in Nodes
  BY <1>3, OperandFacts
<1>5. ASSUME NEW op, NEW oe, Becomes(op, oe), counter' \in Nat,
             \A i \in DOMAIN Operands[n] : oe[Operands[n][i]] \in Entries
      PROVE  WalkTypes' /\ WalkOrder'
  BY <1>1, <1>2, <1>5, BecomesTypes, BecomesOrder
<1>6. counter \in Nat /\ counter + 1 \in Nat
  BY DEF WalkTypes
<1>7. CASE VisitAtom
  <2>1. Becomes("literal", <<>>) /\ counter' = counter /\ Connective[n] = "atom"
    BY <1>2, <1>7 DEF VisitAtom
  <2>2. DOMAIN Operands[n] = {}
    BY <1>3, <2>1, OperandCount
  <2> QED
    BY <1>5, <1>6, <2>1, <2>2
<1>8. CASE VisitNot
  <2> DEFINE oe == [m \in Nodes |-> [entry[n] EXCEPT !.positive = ~entry[n].positive]]
  <2>1. Becomes("operand", oe) /\ counter' = counter
    BY <1>2, <1>8 DEF VisitNot
  <2>2. \A i \in DOMAIN Operands[n] : oe[Operands[n][i]] \in Entries
    BY <1>3, <1>4, OperandEntries
  <2> HIDE DEF oe
  <2> QED
    BY <1>5, <1>6, <2>1, <2>2
<1>9. CASE VisitJunction
  <2> DEFINE oe == [m \in Nodes |-> TurnedEntry(n, m)]
             op == IF (Connective[n] = "and") = entry[n].positive THEN "and" ELSE "or"
  <2>1. Becomes(op, oe) /\ counter' = counter
    BY <1>2, <1>9 DEF VisitJunction, TurnedEntry
  <2>2. \A i \in DOMAIN Operands[n] : oe[Operands[n][i]] \in Entries
    BY <1>3, <1>4, OperandEntries
  <2> HIDE DEF oe, op
  <2> QED
    BY <1>5, <1>6, <2>1, <2>2
<1>10. CASE VisitUniversal
  <2> DEFINE oe == [m \in Nodes |-> UniversalEntry(n)]
  <2>1. Becomes("forall", oe) /\ counter' = counter
    BY <1>2, <1>10 DEF VisitUniversal, UniversalEntry, WithoutBound
  <2>2. \A i \in DOMAIN Operands[n] : oe[Operands[n][i]] \in Entries
    BY <1>3, <1>4, OperandEntries
  <2> HIDE DEF oe
  <2> QED
    BY <1>5, <1>6, <2>1, <2>2
<1>11. CASE VisitExistential
  <2> DEFINE oe == [m \in Nodes |-> ExistentialEntry(n, counter + 1)]
  <2>1. Becomes("operand", oe) /\ counter' = counter + 1
    BY <1>2, <1>11 DEF VisitExistential, ExistentialEntry, WithTerm
  <2>2. \A i \in DOMAIN Operands[n] : oe[Operands[n][i]] \in Entries
    BY <1>3, <1>4, <1>6, OperandEntries
  <2> HIDE DEF oe
  <2> QED
    BY <1>5, <1>6, <2>1, <2>2
<1> QED
  BY <1>7, <1>8, <1>9, <1>10, <1>11 DEF Visit

(***************************************************************************)
(* How a visited node and its operands go together.                        *)
(***************************************************************************)
Link(n) ==
    /\ Connective[n] = "atom" => result[n] = "literal"
    /\ Connective[n] = "not" =>
         /\ result[n] = "operand"
         /\ entry[Operands[n][1]] = [entry[n] EXCEPT !.positive = ~entry[n].positive]
    /\ Connective[n] \in Junctions =>
         /\ result[n] = IF (Connective[n] = "and") = entry[n].positive THEN "and" ELSE "or"
         /\ \A i \in DOMAIN Operands[n] : entry[Operands[n][i]] = TurnedEntry(n, Operands[n][i])
    /\ Connective[n] \in Quantifiers /\ IsUniversal(n) =>
         result[n] = "forall" /\ entry[Operands[n][1]] = UniversalEntry(n)
    /\ Connective[n] \in Quantifiers /\ ~IsUniversal(n) =>
         result[n] = "operand" /\ \E k \in Nat \ {0} : entry[Operands[n][1]] = ExistentialEntry(n, k)
Linked == \A n \in DOMAIN result : Link(n)

\* A node stays linked while it and its operands stay what they are.
LEMMA LinkKept ==
    ASSUME NEW n \in DOMAIN result, Link(n), n \in Nodes,
           result'[n] = result[n], entry'[n] = entry[n],
           \A i \in DOMAIN Operands[n] : entry'[Operands[n][i]] = entry[Operands[n][i]]
    PROVE  Link(n)'
<1>1. Connective[n] \in {"not"} \cup Quantifiers => entry'[Operands[n][1]] = entry[Operands[n][1]]
  <2>1. Connective[n] \in {"not"} \cup Quantifiers => 1 \in DOMAIN Operands[n]
    BY OperandCount
  <2> QED
    BY <2>1
<1>2. IsUniversal(n)' = IsUniversal(n)
  BY DEF IsUniversal
<1>3. \A m : TurnedEntry(n, m)' = TurnedEntry(n, m)
  BY DEF TurnedEntry
<1>4. UniversalEntry(n)' = UniversalEntry(n)
  BY DEF UniversalEntry, WithoutBound
<1>5. \A k : ExistentialEntry(n, k)' = ExistentialEntry(n, k)
  BY DEF ExistentialEntry, WithTerm
<1>6. CASE Connective[n] = "atom"
  BY <1>6 DEF Link, Junctions, Quantifiers
<1>7. CASE Connective[n] = "not"
  BY <1>1, <1>7 DEF Link, Junctions, Quantifiers
<1>8. CASE Connective[n] \in Junctions
  <2>1. \A i \in DOMAIN Operands[n] : entry'[Operands[n][i]] = TurnedEntry(n, Operands[n][i])'
    BY <1>3, <1>8 DEF Link
  <2> QED
    BY <1>8, <2>1 DEF Link, Junctions, Quantifiers
<1>9. CASE Connective[n] \in Quantifiers /\ IsUniversal(n)
  BY <1>1, <1>2, <1>4, <1>9 DEF Link, Junctions, Quantifiers
<1>10. CASE Connective[n] \in Quantifiers /\ ~IsUniversal(n)
  <2>1. PICK k \in Nat \ {0} : entry[Operands[n][1]] = ExistentialEntry(n, k)
    BY <1>10 DEF Link
  <2>2. entry'[Operands[n][1]] = ExistentialEntry(n, k)'
    BY <1>1, <1>5, <1>10, <2>1
  <2>3. result'[n] = "operand"
    BY <1>10 DEF Link
  <2> QED
    BY <1>2, <1>10, <2>2, <2>3 DEF Link, Junctions, Quantifiers
<1> QED
  BY <1>6, <1>7, <1>8, <1>9, <1>10, SkolemizerAssumption

\* A visit links the node on top to its operands.
LEMMA VisitLinks ==
    ASSUME WalkTypes, WalkOrder, Visit, NEW n, n = Head(stack)
    PROVE  Link(n)'
<1>1. stack # <<>>
  BY DEF Visit, VisitAtom, VisitNot, VisitJunction, VisitUniversal, VisitExistential
<1>2. n \in Nodes /\ n \in DOMAIN entry
  BY <1>1, HeadFacts
<1>3. \A i \in DOMAIN Operands[n] : Operands[n][i] \in Nodes
  BY <1>2, OperandFacts
<1>4. ASSUME NEW op, NEW oe, Becomes(op, oe)
      PROVE  /\ result'[n] = op /\ entry'[n] = entry[n]
             /\ \A i \in DOMAIN Operands[n] : entry'[Operands[n][i]] = oe[Operands[n][i]]
  <2>1. entry'[n] = entry[n]
    BY <1>1, <1>2, <1>4, BecomesFacts
  <2> QED
    BY <1>4, <2>1 DEF Becomes, Range
<1>5. CASE VisitAtom
  <2>1. Becomes("literal", <<>>) /\ Connective[n] = "atom"
    BY <1>5 DEF VisitAtom
  <2>2. result'[n] = "literal"
    BY <1>4, <2>1
  <2> QED
    BY <2>1, <2>2 DEF Link, Junctions, Quantifiers
<1>6. CASE VisitNot
  <2> DEFINE oe == [m \in Nodes |-> [entry[n] EXCEPT !.positive = ~entry[n].positive]]
  <2>1. Becomes("operand", oe) /\ Connective[n] = "not"
    BY <1>6 DEF VisitNot
  <2>2. Operands[n][1] \in Nodes /\ 1 \in DOMAIN Operands[n]
    BY <1>2, <1>3, <2>1, OperandCount
  <2>3. oe[Operands[n][1]] = [entry[n] EXCEPT !.positive = ~entry[n].positive]
    BY <2>2
  <2> HIDE DEF oe
  <2>4. result'[n] = "operand" /\ entry'[n] = entry[n] /\ entry'[Operands[n][1]] = oe[Operands[n][1]]
    BY <1>4, <2>1, <2>2
  <2> QED
    BY <2>1, <2>3, <2>4 DEF Link, Junctions, Quantifiers
<1>7. CASE VisitJunction
  <2> DEFINE oe == [m \in Nodes |-> TurnedEntry(n, m)]
             op == IF (Connective[n] = "and") = entry[n].positive THEN "and" ELSE "or"
  <2>1. Becomes(op, oe) /\ Connective[n] \in Junctions
    BY <1>7 DEF VisitJunction, TurnedEntry
  <2>2. \A i \in DOMAIN Operands[n] : oe[Operands[n][i]] = TurnedEntry(n, Operands[n][i])
    BY <1>3
  <2>3. op = IF (Connective[n] = "and") = entry[n].positive THEN "and" ELSE "or"
    OBVIOUS
  <2> HIDE DEF oe, op
  <2>4. result'[n] = op /\ entry'[n] = entry[n] /\ \A i \in DOMAIN Operands[n] : entry'[Operands[n][i]] = oe[Operands[n][i]]
    BY <1>4, <2>1
  <2>5. \A m : TurnedEntry(n, m)' = TurnedEntry(n, m)
    BY <2>4 DEF TurnedEntry
  <2> QED
    BY <2>1, <2>2, <2>3, <2>4, <2>5 DEF Link, Junctions, Quantifiers
<1>8. CASE VisitUniversal
  <2> DEFINE oe == [m \in Nodes |-> UniversalEntry(n)]
  <2>1. Becomes("forall", oe) /\ Connective[n] \in Quantifiers /\ IsUniversal(n)
    BY <1>8 DEF VisitUniversal, UniversalEntry, WithoutBound
  <2>2. Operands[n][1] \in Nodes /\ 1 \in DOMAIN Operands[n]
    BY <1>2, <1>3, <2>1, OperandCount
  <2>3. oe[Operands[n][1]] = UniversalEntry(n)
    BY <2>2
  <2> HIDE DEF oe
  <2>4. result'[n] = "forall" /\ entry'[n] = entry[n] /\ entry'[Operands[n][1]] = oe[Operands[n][1]]
    BY <1>4, <2>1, <2>2
  <2>5. UniversalEntry(n)' = UniversalEntry(n) /\ IsUniversal(n)' = IsUniversal(n)
    BY <2>4 DEF UniversalEntry, WithoutBound, IsUniversal
  <2> QED
    BY <2>1, <2>3, <2>4, <2>5 DEF Link, Junctions, Quantifiers
<1>9. CASE VisitExistential
  <2> DEFINE oe == [m \in Nodes |-> ExistentialEntry(n, counter + 1)]
  <2>1. Becomes("operand", oe) /\ Connective[n] \in Quantifiers /\ ~IsUniversal(n)
    BY <1>9 DEF VisitExistential, ExistentialEntry, WithTerm
  <2>2. Operands[n][1] \in Nodes /\ 1 \in DOMAIN Operands[n]
    BY <1>2, <1>3, <2>1, OperandCount
  <2>3. oe[Operands[n][1]] = ExistentialEntry(n, counter + 1)
    BY <2>2
  <2> HIDE DEF oe
  <2>4. result'[n] = "operand" /\ entry'[n] = entry[n] /\ entry'[Operands[n][1]] = oe[Operands[n][1]]
    BY <1>4, <2>1, <2>2
  <2>5. ExistentialEntry(n, counter + 1) = [entry'[n] EXCEPT !.positive = TRUE, !.theta =
              [x \in DOMAIN entry'[n].theta \cup {Binds[n]} |->
                IF x = Binds[n] THEN SkolemTerm(counter + 1, Binds[n], entry'[n].univ) ELSE entry'[n].theta[x]]]
    BY <2>4 DEF ExistentialEntry, WithTerm
  <2>6. counter + 1 \in Nat \ {0}
    BY DEF WalkTypes
  <2>7. \E k \in Nat \ {0} : entry'[Operands[n][1]] = ExistentialEntry(n, k)'
    BY <2>3, <2>4, <2>5, <2>6 DEF ExistentialEntry, WithTerm
  <2>8. IsUniversal(n)' = IsUniversal(n)
    BY <2>4 DEF IsUniversal
  <2> QED
    BY <2>1, <2>4, <2>7, <2>8 DEF Link, Junctions, Quantifiers
<1> QED
  BY <1>5, <1>6, <1>7, <1>8, <1>9 DEF Visit

(***************************************************************************)
(* What a visit does to the Skolem terms: it passes on those that it got,    *)
(* or all but one, or it makes a new one.                                  *)
(***************************************************************************)
Passes(n) ==
    /\ counter' = counter /\ n \notin Existentials'
    /\ \A i \in DOMAIN Operands[n] :
         LET e == entry'[Operands[n][i]]
         IN  /\ e.theta = entry[n].theta \/ e.theta = WithoutBound(n)
             /\ e.univ = entry[n].univ \/ e.univ = Append(entry[n].univ, Binds[n])
Makes(n) ==
    /\ counter' = counter + 1 /\ n \in Existentials' /\ DOMAIN Operands[n] = {1}
    /\ entry'[Operands[n][1]] = ExistentialEntry(n, counter + 1)

\* What the updates of an entry change and what they leave.
LEMMA FormulaKept ==
    ASSUME NEW e \in Entries
    PROVE  /\ [e EXCEPT !.positive = ~e.positive].formula = e.formula
           /\ [e EXCEPT !.positive = ~e.positive].theta = e.theta
           /\ [e EXCEPT !.positive = ~e.positive].univ = e.univ
           /\ \A univ, theta : /\ [e EXCEPT !.univ = univ, !.theta = theta].formula = e.formula
                               /\ [e EXCEPT !.univ = univ, !.theta = theta].univ = univ
                               /\ [e EXCEPT !.univ = univ, !.theta = theta].theta = theta
                               /\ [e EXCEPT !.univ = univ, !.theta = theta].positive = e.positive
           /\ \A theta : /\ [e EXCEPT !.positive = TRUE, !.theta = theta].formula = e.formula
                         /\ [e EXCEPT !.positive = TRUE, !.theta = theta].univ = e.univ
                         /\ [e EXCEPT !.positive = TRUE, !.theta = theta].theta = theta
                         /\ [e EXCEPT !.positive = TRUE, !.theta = theta].positive = TRUE
BY DEF Entries

\* What a visit changes, and what it does to the terms.
LEMMA VisitTerms ==
    ASSUME WalkTypes, WalkOrder, Visit, NEW n, n = Head(stack)
    PROVE  /\ stack # <<>>
           /\ n \in Nodes /\ n \in DOMAIN entry /\ n \notin DOMAIN result
           /\ assertions' = assertions
           /\ DOMAIN result' = DOMAIN result \cup {n}
           /\ \A m \in DOMAIN result : result'[m] = result[m]
           /\ DOMAIN entry' = DOMAIN entry \cup Range(Operands[n])
           /\ \A m \in DOMAIN entry : entry'[m] = entry[m]
           /\ Range(stack') = Range(Operands[n]) \cup Range(Tail(stack))
           /\ \A i \in DOMAIN Operands[n] : entry'[Operands[n][i]].formula = entry[n].formula
           /\ Passes(n) \/ Makes(n)
<1>1. stack # <<>>
  BY DEF Visit, VisitAtom, VisitNot, VisitJunction, VisitUniversal, VisitExistential
<1>2. n \in Nodes /\ n \in DOMAIN entry /\ n \notin DOMAIN result
  BY <1>1, HeadFacts
<1>3. entry[n] \in Entries /\ \A i \in DOMAIN Operands[n] : Operands[n][i] \in Nodes
  BY <1>2, OperandFacts DEF WalkTypes
<1>4. ASSUME NEW op, NEW oe, Becomes(op, oe)
      PROVE  /\ assertions' = assertions
             /\ DOMAIN result' = DOMAIN result \cup {n}
             /\ \A m \in DOMAIN result : result'[m] = result[m]
             /\ DOMAIN entry' = DOMAIN entry \cup Range(Operands[n])
             /\ \A m \in DOMAIN entry : entry'[m] = entry[m]
             /\ Range(stack') = Range(Operands[n]) \cup Range(Tail(stack))
  BY <1>1, <1>4, BecomesFacts
<1>5. ASSUME NEW op, NEW oe, Becomes(op, oe)
      PROVE  /\ result'[n] = op
             /\ \A i \in DOMAIN Operands[n] : entry'[Operands[n][i]] = oe[Operands[n][i]]
  BY <1>5 DEF Becomes, Range
<1>6. \E op, oe : Becomes(op, oe)
  BY Zenon DEF Visit, VisitAtom, VisitNot, VisitJunction, VisitUniversal, VisitExistential
<1>7. CASE VisitAtom
  <2>1. Connective[n] = "atom" /\ counter' = counter
    BY <1>7 DEF VisitAtom
  <2>2. DOMAIN Operands[n] = {} /\ n \notin Existentials'
    BY <1>2, <2>1, OperandCount DEF Existentials, Quantifiers
  <2>3. Passes(n)
    BY <2>1, <2>2 DEF Passes
  <2> QED
    BY <1>1, <1>2, <1>4, <1>6, <2>2, <2>3
<1>8. CASE VisitNot
  <2> DEFINE oe == [m \in Nodes |-> [entry[n] EXCEPT !.positive = ~entry[n].positive]]
  <2>1. Becomes("operand", oe) /\ Connective[n] = "not" /\ counter' = counter
    BY <1>8 DEF VisitNot
  <2>2. \A i \in DOMAIN Operands[n] : /\ oe[Operands[n][i]].formula = entry[n].formula
                                      /\ oe[Operands[n][i]].theta = entry[n].theta
                                      /\ oe[Operands[n][i]].univ = entry[n].univ
    BY <1>3, FormulaKept
  <2> HIDE DEF oe
  <2>3. \A i \in DOMAIN Operands[n] : entry'[Operands[n][i]] = oe[Operands[n][i]]
    BY <1>5, <2>1
  <2>4. n \notin Existentials'
    BY <2>1 DEF Existentials, Quantifiers
  <2>5. Passes(n)
    BY <2>1, <2>2, <2>3, <2>4 DEF Passes
  <2> QED
    BY <1>1, <1>2, <1>4, <1>6, <2>2, <2>3, <2>5
<1>9. CASE VisitJunction
  <2> DEFINE oe == [m \in Nodes |-> TurnedEntry(n, m)]
             op == IF (Connective[n] = "and") = entry[n].positive THEN "and" ELSE "or"
  <2>1. Becomes(op, oe) /\ Connective[n] \in Junctions /\ counter' = counter
    BY <1>9 DEF VisitJunction, TurnedEntry
  <2>2. \A i \in DOMAIN Operands[n] : /\ oe[Operands[n][i]].formula = entry[n].formula
                                      /\ oe[Operands[n][i]].theta = entry[n].theta
                                      /\ oe[Operands[n][i]].univ = entry[n].univ
    BY <1>3, FormulaKept DEF TurnedEntry
  <2> HIDE DEF oe, op
  <2>3. \A i \in DOMAIN Operands[n] : entry'[Operands[n][i]] = oe[Operands[n][i]]
    BY <1>5, <2>1
  <2>4. n \notin Existentials'
    BY <2>1 DEF Existentials, Quantifiers, Junctions
  <2>5. Passes(n)
    BY <2>1, <2>2, <2>3, <2>4 DEF Passes
  <2> QED
    BY <1>1, <1>2, <1>4, <1>6, <2>2, <2>3, <2>5
<1>10. CASE VisitUniversal
  <2> DEFINE oe == [m \in Nodes |-> UniversalEntry(n)]
  <2>1. Becomes("forall", oe) /\ Connective[n] \in Quantifiers /\ counter' = counter
    BY <1>10 DEF VisitUniversal, UniversalEntry, WithoutBound
  <2>2. \A i \in DOMAIN Operands[n] : /\ oe[Operands[n][i]].formula = entry[n].formula
                                      /\ oe[Operands[n][i]].theta = WithoutBound(n)
                                      /\ oe[Operands[n][i]].univ = Append(entry[n].univ, Binds[n])
    BY <1>3, FormulaKept DEF UniversalEntry
  <2> HIDE DEF oe
  <2>3. result'[n] = "forall" /\ \A i \in DOMAIN Operands[n] : entry'[Operands[n][i]] = oe[Operands[n][i]]
    BY <1>5, <2>1
  <2>4. n \notin Existentials'
    BY <2>3 DEF Existentials
  <2>5. Passes(n)
    BY <2>1, <2>2, <2>3, <2>4 DEF Passes
  <2> QED
    BY <1>1, <1>2, <1>4, <1>6, <2>2, <2>3, <2>5
<1>11. CASE VisitExistential
  <2> DEFINE oe == [m \in Nodes |-> ExistentialEntry(n, counter + 1)]
  <2>1. Becomes("operand", oe) /\ Connective[n] \in Quantifiers /\ counter' = counter + 1
    BY <1>11 DEF VisitExistential, ExistentialEntry, WithTerm
  <2>2. \A i \in DOMAIN Operands[n] : /\ oe[Operands[n][i]].formula = entry[n].formula
                                      /\ oe[Operands[n][i]] = ExistentialEntry(n, counter + 1)
    BY <1>3, FormulaKept DEF ExistentialEntry
  <2> HIDE DEF oe
  <2>3. result'[n] = "operand" /\ \A i \in DOMAIN Operands[n] : entry'[Operands[n][i]] = oe[Operands[n][i]]
    BY <1>5, <2>1
  <2>4. DOMAIN Operands[n] = {1}
    BY <1>2, <2>1, OperandCount
  <2>5. n \in Existentials'
    <3>1. n \in DOMAIN result'
      BY <1>4, <2>1
    <3> QED
      BY <2>1, <2>3, <3>1 DEF Existentials
  <2>6. Makes(n)
    BY <2>1, <2>2, <2>3, <2>4, <2>5 DEF Makes
  <2> QED
    BY <1>1, <1>2, <1>4, <1>6, <2>2, <2>3, <2>6
<1> QED
  BY <1>7, <1>8, <1>9, <1>10, <1>11 DEF Visit

(***************************************************************************)
(* Skolem names: those of one formula differ by their number, and no number  *)
(* of the formula at hand is greater than the counter.                      *)
(***************************************************************************)
Number(n) == TermOf(n).symbol[1]
Names ==
    /\ \A m, n \in Range(stack) : entry[m].formula = entry[n].formula
    /\ \A n \in Existentials : \A m \in Range(stack) : entry[m].formula = entry[n].formula => Number(n) <= counter
    /\ \A m, n \in Existentials : entry[m].formula = entry[n].formula /\ Number(m) = Number(n) => m = n

\* The terms in force at a node take universal variables of its scope, and have a symbol that was made.
TermsBound ==
    \A n \in DOMAIN entry : \A v \in DOMAIN entry[n].theta :
      LET t == entry[n].theta[v]
      IN  Range(t.args) \subseteq Range(entry[n].univ) /\ t.symbol \in Symbols /\ t.symbol[3] = Len(t.args)

\* The term that an existential quantifier became.
LEMMA TermFacts ==
    ASSUME WalkTypes, WalkOrder, Linked, NEW n \in Existentials
    PROVE  /\ n \in Nodes /\ n \in DOMAIN result /\ n \in DOMAIN entry
           /\ DOMAIN Operands[n] = {1} /\ Operands[n][1] \in DOMAIN entry
           /\ Connective[n] \in Quantifiers /\ ~IsUniversal(n)
           /\ Number(n) \in Nat
           /\ TermOf(n) = SkolemTerm(Number(n), Binds[n], entry[n].univ)
           /\ TermOf(n).args = entry[n].univ
           /\ TermOf(n).symbol = <<Number(n), Binds[n], Len(entry[n].univ)>>
           /\ entry[Operands[n][1]] = ExistentialEntry(n, Number(n))
<1>1. n \in DOMAIN result /\ Connective[n] \in Quantifiers /\ result[n] = "operand"
  BY DEF Existentials
<1>2. n \in DOMAIN entry /\ n \in Nodes
  BY <1>1 DEF WalkOrder, WalkTypes
<1>3. DOMAIN Operands[n] = {1}
  BY <1>1, <1>2, OperandCount
<1>4. Operands[n][1] \in DOMAIN entry
  BY <1>1, <1>3 DEF WalkOrder
<1>5. Link(n)
  BY <1>1 DEF Linked
<1>6. ~IsUniversal(n)
  BY <1>1, <1>5 DEF Link
<1>7. PICK k \in Nat \ {0} : entry[Operands[n][1]] = ExistentialEntry(n, k)
  BY <1>1, <1>5, <1>6 DEF Link
<1>8. entry[Operands[n][1]].theta = WithTerm(n, k)
  BY <1>2, <1>7, FormulaKept DEF ExistentialEntry, WalkTypes
<1>9. TermOf(n) = SkolemTerm(k, Binds[n], entry[n].univ)
  BY <1>8 DEF TermOf, WithTerm
<1>10. TermOf(n).args = entry[n].univ /\ TermOf(n).symbol = <<k, Binds[n], Len(entry[n].univ)>>
  BY <1>9 DEF SkolemTerm
<1>11. Number(n) = k
  BY <1>10 DEF Number
<1> QED
  BY <1>1, <1>2, <1>3, <1>4, <1>6, <1>7, <1>9, <1>10, <1>11

\* A visit keeps the Skolem terms made, and makes at most one.
LEMMA TermsKept ==
    ASSUME WalkTypes, WalkOrder, Linked, Visit, NEW n, n = Head(stack)
    PROVE  /\ \A m \in Existentials : m # n /\ m \in Existentials' /\ entry'[m] = entry[m] /\ TermOf(m)' = TermOf(m)
           /\ \A m \in Existentials' : m \in Existentials \/ m = n
           /\ Symbols \subseteq Symbols'
           /\ Makes(n) => TermOf(n)' = SkolemTerm(counter + 1, Binds[n], entry[n].univ)
<1>1. /\ n \in Nodes /\ n \in DOMAIN entry /\ n \notin DOMAIN result
      /\ DOMAIN result' = DOMAIN result \cup {n}
      /\ \A m \in DOMAIN result : result'[m] = result[m]
      /\ \A m \in DOMAIN entry : entry'[m] = entry[m]
  BY VisitTerms
<1>2. ASSUME NEW m \in Existentials
      PROVE  m # n /\ m \in Existentials' /\ entry'[m] = entry[m] /\ TermOf(m)' = TermOf(m)
  <2>1. m \in DOMAIN result /\ m \in DOMAIN entry /\ Operands[m][1] \in DOMAIN entry
    BY TermFacts
  <2>2. m # n /\ m \in Existentials'
    BY <1>1, <2>1 DEF Existentials
  <2>3. TermOf(m)' = TermOf(m)
    BY <1>1, <2>1 DEF TermOf
  <2> QED
    BY <1>1, <2>1, <2>2, <2>3
<1>3. \A m \in Existentials' : m \in Existentials \/ m = n
  BY <1>1 DEF Existentials
<1>4. Symbols \subseteq Symbols'
  BY <1>2 DEF Symbols
<1>5. ASSUME Makes(n)
      PROVE  TermOf(n)' = SkolemTerm(counter + 1, Binds[n], entry[n].univ)
  <2>1. entry'[Operands[n][1]].theta = WithTerm(n, counter + 1)
    BY <1>1, <1>5, FormulaKept DEF ExistentialEntry, WalkTypes, Makes
  <2> QED
    BY <2>1 DEF TermOf, WithTerm
<1> QED
  BY <1>2, <1>3, <1>4, <1>5

\* A new name has a number greater than those before it.
LEMMA NamesVisit ==
    ASSUME WalkTypes, WalkOrder, Linked, Names, Visit
    PROVE  Names'
<1>0. PICK n : n = Head(stack)
  OBVIOUS
<1>1. /\ stack # <<>>
      /\ n \in Nodes /\ n \in DOMAIN entry /\ n \notin DOMAIN result
      /\ DOMAIN entry' = DOMAIN entry \cup Range(Operands[n])
      /\ \A m \in DOMAIN entry : entry'[m] = entry[m]
      /\ Range(stack') = Range(Operands[n]) \cup Range(Tail(stack))
      /\ \A i \in DOMAIN Operands[n] : entry'[Operands[n][i]].formula = entry[n].formula
      /\ Passes(n) \/ Makes(n)
  BY <1>0, VisitTerms
<1>2. /\ \A m \in Existentials : m # n /\ m \in Existentials' /\ entry'[m] = entry[m] /\ TermOf(m)' = TermOf(m)
      /\ \A m \in Existentials' : m \in Existentials \/ m = n
      /\ Makes(n) => TermOf(n)' = SkolemTerm(counter + 1, Binds[n], entry[n].univ)
  BY <1>0, TermsKept
<1>3. n \in Range(stack) /\ Range(Tail(stack)) \subseteq Range(stack)
  BY <1>0, <1>1, HeadFacts
<1>4. \A m \in Range(stack) : m \in DOMAIN entry
  BY DEF WalkOrder
<1>5. \A m \in Range(stack') : entry'[m].formula = entry[n].formula
  <2>1. \A m \in Range(Operands[n]) : entry'[m].formula = entry[n].formula
    BY <1>1 DEF Range
  <2>2. \A m \in Range(Tail(stack)) : entry'[m].formula = entry[n].formula
    BY <1>1, <1>3, <1>4 DEF Names
  <2> QED
    BY <1>1, <2>1, <2>2
<1>6. \A m \in Existentials : Number(m)' = Number(m)
  BY <1>2 DEF Number
<1>7. counter \in Nat /\ \A m \in Existentials : Number(m) \in Nat
  BY TermFacts DEF WalkTypes
<1>8. \A m \in Existentials : entry[m].formula = entry[n].formula => Number(m) <= counter
  BY <1>3 DEF Names
<1>9. Makes(n) => counter' = counter + 1 /\ Number(n)' = counter + 1
  BY <1>2 DEF Makes, Number, SkolemTerm
<1>10. Passes(n) => counter' = counter /\ n \notin Existentials'
  BY DEF Passes
<1>11. \A m, o \in Range(stack') : entry'[m].formula = entry'[o].formula
  BY <1>5
<1>12. ASSUME NEW m \in Existentials', NEW o \in Range(stack'), entry'[o].formula = entry'[m].formula
       PROVE  Number(m)' <= counter'
  <2>1. CASE m \in Existentials
    <3>1. entry[m].formula = entry[n].formula
      BY <1>2, <1>5, <1>12, <2>1
    <3> QED
      BY <1>1, <1>6, <1>7, <1>8, <1>9, <1>10, <2>1, <3>1
  <2>2. CASE m = n
    BY <1>1, <1>7, <1>9, <1>10, <1>12, <2>2
  <2> QED
    BY <1>2, <2>1, <2>2
<1>13. ASSUME NEW m \in Existentials', NEW o \in Existentials', entry'[m].formula = entry'[o].formula, Number(m)' = Number(o)'
       PROVE  m = o
  <2>1. CASE m \in Existentials /\ o \in Existentials
    BY <1>2, <1>6, <1>13, <2>1 DEF Names
  <2>2. ASSUME NEW p \in Existentials, entry'[p].formula = entry'[n].formula, Number(p)' = Number(n)', n \in Existentials'
        PROVE  FALSE
    <3>1. entry[p].formula = entry[n].formula
      BY <1>1, <1>2, <2>2
    <3>2. Number(p) <= counter /\ Number(p) \in Nat /\ Number(p)' = Number(p)
      BY <1>6, <1>7, <1>8, <3>1
    <3>3. Number(n)' = counter + 1
      BY <1>1, <1>9, <1>10, <2>2
    <3>4. PICK k : k = Number(p)
      OBVIOUS
    <3>5. k = Number(n)'
      BY <2>2, <3>2, <3>4, Zenon
    <3>6. k = counter + 1 /\ k \in Nat /\ k <= counter
      BY <3>2, <3>3, <3>4, <3>5
    <3> QED
      BY <1>7, <3>6
  <2> QED
    BY <1>2, <1>13, <2>1, <2>2
<1> QED
  BY <1>11, <1>12, <1>13 DEF Names

\* Terms stay bound: they are passed on under more universal variables, or new and over those in scope.
LEMMA TermsVisit ==
    ASSUME WalkTypes, WalkOrder, Linked, TermsBound, Visit
    PROVE  TermsBound'
<1>0. PICK n : n = Head(stack)
  OBVIOUS
<1>1. /\ n \in Nodes /\ n \in DOMAIN entry
      /\ DOMAIN entry' = DOMAIN entry \cup Range(Operands[n])
      /\ \A m \in DOMAIN entry : entry'[m] = entry[m]
      /\ Passes(n) \/ Makes(n)
  BY <1>0, VisitTerms
<1>2. Symbols \subseteq Symbols' /\ (Makes(n) => TermOf(n)' = SkolemTerm(counter + 1, Binds[n], entry[n].univ))
  BY <1>0, TermsKept
<1>3. entry[n] \in Entries /\ entry[n].univ \in Seq(Variables) /\ Binds[n] \in Variables
  BY <1>1, SkolemizerAssumption, EntryFacts DEF WalkTypes
<1>4. \A v \in DOMAIN entry[n].theta :
        LET t == entry[n].theta[v]
        IN  Range(t.args) \subseteq Range(entry[n].univ) /\ t.symbol \in Symbols' /\ t.symbol[3] = Len(t.args)
  BY <1>1, <1>2 DEF TermsBound
<1>5. Range(entry[n].univ) \subseteq Range(Append(entry[n].univ, Binds[n]))
  <2> DEFINE u == entry[n].univ
             w == Append(u, Binds[n])
  <2>1. \A i \in DOMAIN u : i \in DOMAIN w /\ w[i] = u[i]
    BY <1>3
  <2> HIDE DEF u, w
  <2>2. Range(u) \subseteq Range(w)
    BY <2>1 DEF Range
  <2> QED
    BY <2>2 DEF u, w
<1>6. ASSUME NEW i \in DOMAIN Operands[n], NEW v \in DOMAIN entry'[Operands[n][i]].theta
      PROVE  LET t == entry'[Operands[n][i]].theta[v]
             IN  /\ Range(t.args) \subseteq Range(entry'[Operands[n][i]].univ)
                 /\ t.symbol \in Symbols' /\ t.symbol[3] = Len(t.args)
  <2> DEFINE e == entry'[Operands[n][i]]
  <2>1. CASE Passes(n)
    <3>1. (e.theta = entry[n].theta \/ e.theta = WithoutBound(n)) /\ (e.univ = entry[n].univ \/ e.univ = Append(entry[n].univ, Binds[n]))
      BY <2>1 DEF Passes
    <3>2. Range(entry[n].univ) \subseteq Range(e.univ)
      BY <1>5, <3>1
    <3>3. v \in DOMAIN entry[n].theta /\ e.theta[v] = entry[n].theta[v]
      BY <1>6, <3>1 DEF WithoutBound
    <3> QED
      BY <1>4, <3>2, <3>3
  <2>2. CASE Makes(n)
    <3>1. i = 1 /\ e = ExistentialEntry(n, counter + 1)
      BY <2>2 DEF Makes
    <3>2. e.univ = entry[n].univ /\ e.theta = WithTerm(n, counter + 1)
      BY <1>3, <3>1, FormulaKept DEF ExistentialEntry
    <3>3. CASE v # Binds[n]
      <4>1. v \in DOMAIN entry[n].theta /\ e.theta[v] = entry[n].theta[v]
        BY <1>6, <3>2, <3>3 DEF WithTerm
      <4> QED
        BY <1>4, <3>2, <4>1
    <3>4. CASE v = Binds[n]
      <4>1. e.theta[v] = SkolemTerm(counter + 1, Binds[n], entry[n].univ)
        BY <3>2, <3>4 DEF WithTerm
      <4>2. n \in Existentials' /\ TermOf(n)' = e.theta[v]
        BY <1>2, <2>2, <4>1 DEF Makes
      <4>3. e.theta[v].symbol \in Symbols'
        BY <4>2 DEF Symbols
      <4>4. e.theta[v].args = entry[n].univ /\ e.theta[v].symbol[3] = Len(entry[n].univ)
        BY <4>1 DEF SkolemTerm
      <4> QED
        BY <3>2, <4>3, <4>4
    <3> QED
      BY <3>3, <3>4
  <2> QED
    BY <1>1, <2>1, <2>2
<1>7. ASSUME NEW m \in DOMAIN entry', NEW v \in DOMAIN entry'[m].theta
      PROVE  LET t == entry'[m].theta[v]
             IN  /\ Range(t.args) \subseteq Range(entry'[m].univ)
                 /\ t.symbol \in Symbols' /\ t.symbol[3] = Len(t.args)
  <2>1. CASE m \in DOMAIN entry
    BY <1>1, <1>2, <1>7, <2>1 DEF TermsBound
  <2>2. CASE m \in Range(Operands[n])
    <3>1. PICK i \in DOMAIN Operands[n] : m = Operands[n][i]
      BY <2>2, Zenon DEF Range
    <3> QED
      BY <1>6, <1>7, <3>1
  <2> QED
    BY <1>1, <2>1, <2>2
<1> QED
  BY <1>7 DEF TermsBound

\* A visit links one node more.
LEMMA LinkedVisit ==
    ASSUME WalkTypes, WalkOrder, Linked, Visit
    PROVE  Linked'
<1>0. PICK n : n = Head(stack)
  OBVIOUS
<1>1. /\ n \in Nodes
      /\ DOMAIN result' = DOMAIN result \cup {n}
      /\ \A m \in DOMAIN result : result'[m] = result[m]
      /\ \A m \in DOMAIN entry : entry'[m] = entry[m]
  BY <1>0, VisitTerms
<1>2. Link(n)'
  BY <1>0, VisitLinks
<1>3. ASSUME NEW m \in DOMAIN result
      PROVE  Link(m)'
  <2>1. m \in Nodes /\ m \in DOMAIN entry /\ \A i \in DOMAIN Operands[m] : Operands[m][i] \in DOMAIN entry
    BY DEF WalkOrder, WalkTypes
  <2>2. result'[m] = result[m] /\ entry'[m] = entry[m] /\ Link(m)
    BY <1>1, <2>1 DEF Linked
  <2>3. \A i \in DOMAIN Operands[m] : entry'[Operands[m][i]] = entry[Operands[m][i]]
    BY <1>1, <2>1
  <2> QED
    BY <2>1, <2>2, <2>3, LinkKept
<1>4. \A m \in DOMAIN result' : Link(m)'
  BY <1>1, <1>2, <1>3
<1> QED
  BY <1>4 DEF Linked

(***************************************************************************)
(* What a substituted environment is.                                      *)
(***************************************************************************)
Tuple(args, env) == [i \in DOMAIN args |-> env[args[i]]]

\* The arguments of a term are elements.
LEMMA TupleFacts ==
    ASSUME NEW args \in Seq(Variables), NEW env \in Env
    PROVE  Tuple(args, env) \in [1 .. Len(args) -> Domain]
<1>1. DOMAIN args = 1 .. Len(args) /\ \A i \in DOMAIN args : args[i] \in Variables
  OBVIOUS
<1> QED
  BY <1>1 DEF Tuple, Env

\* A Skolem function has its arity.
LEMMA InterpretationFacts ==
    ASSUME NEW sk \in Interpretations, NEW y \in Symbols
    PROVE  sk[y] \in [[1 .. y[3] -> Domain] -> Domain]
BY DEF Interpretations, Mappings

\* An environment after substitution is an environment, read variable by variable.
LEMMA SubstitutedFacts ==
    ASSUME WalkTypes, TermsBound, NEW n \in DOMAIN entry, NEW sk \in Interpretations, NEW env \in Env
    PROVE  /\ Substituted(entry[n].theta, sk, env) \in Env
           /\ DOMAIN entry[n].theta \subseteq Variables
           /\ \A v \in DOMAIN entry[n].theta :
                Substituted(entry[n].theta, sk, env)[v] = sk[entry[n].theta[v].symbol][Tuple(entry[n].theta[v].args, env)]
           /\ \A v \in Variables \ DOMAIN entry[n].theta : Substituted(entry[n].theta, sk, env)[v] = env[v]
<1>1. entry[n].theta \in Thetas
  BY EntryFacts DEF WalkTypes
<1>2. PICK S \in SUBSET Variables : entry[n].theta \in [S -> AllTerms]
  BY <1>1 DEF Thetas
<1>3. DOMAIN entry[n].theta \subseteq Variables /\ \A v \in DOMAIN entry[n].theta : entry[n].theta[v] \in AllTerms
  BY <1>2
<1>4. ASSUME NEW v \in DOMAIN entry[n].theta
      PROVE  sk[entry[n].theta[v].symbol][Tuple(entry[n].theta[v].args, env)] \in Domain
  <2>1. PICK t : t = entry[n].theta[v]
    OBVIOUS
  <2>2. t.symbol \in Symbols /\ t.symbol[3] = Len(t.args) /\ t.args \in Seq(Variables)
    BY <1>3, <2>1 DEF TermsBound, AllTerms
  <2>3. sk[t.symbol] \in [[1 .. Len(t.args) -> Domain] -> Domain]
    BY <2>2, InterpretationFacts
  <2>4. Tuple(t.args, env) \in [1 .. Len(t.args) -> Domain]
    BY <2>2, TupleFacts
  <2> QED
    BY <2>1, <2>3, <2>4
<1>5. \A v \in Variables : env[v] \in Domain
  BY DEF Env
<1>6. Substituted(entry[n].theta, sk, env) =
        [v \in Variables |-> IF v \in DOMAIN entry[n].theta
                             THEN sk[entry[n].theta[v].symbol][Tuple(entry[n].theta[v].args, env)] ELSE env[v]]
  BY DEF Substituted, Tuple
<1>7. Substituted(entry[n].theta, sk, env) \in [Variables -> Domain]
  BY <1>4, <1>5, <1>6
<1> QED
  BY <1>3, <1>6, <1>7 DEF Env

\* Under a quantifier that stays: its variable is read as what it is now.
LEMMA SubstitutedUnder ==
    ASSUME WalkTypes, TermsBound, NEW n \in DOMAIN entry, NEW m \in DOMAIN entry, entry[m] = UniversalEntry(n),
           Binds[n] \notin Range(entry[n].univ),
           NEW sk \in Interpretations, NEW env \in Env, NEW d \in Domain
    PROVE  Substituted(entry[m].theta, sk, [env EXCEPT ![Binds[n]] = d])
             = [Substituted(entry[n].theta, sk, env) EXCEPT ![Binds[n]] = d]
<1> DEFINE at == [env EXCEPT ![Binds[n]] = d]
           under == Substituted(entry[m].theta, sk, at)
           outer == Substituted(entry[n].theta, sk, env)
<1>1. n \in Nodes /\ Binds[n] \in Variables /\ entry[n] \in Entries
  BY SkolemizerAssumption DEF WalkTypes
<1>2. at \in Env /\ at[Binds[n]] = d /\ \A v \in Variables : v # Binds[n] => at[v] = env[v]
  BY <1>1 DEF Env
<1>3. entry[m].theta = WithoutBound(n)
  BY <1>1, FormulaKept DEF UniversalEntry
<1>4. /\ DOMAIN entry[m].theta = DOMAIN entry[n].theta \ {Binds[n]}
      /\ \A v \in DOMAIN entry[m].theta : entry[m].theta[v] = entry[n].theta[v]
  BY <1>3 DEF WithoutBound
<1> HIDE DEF at
<1>5. /\ under \in Env /\ outer \in Env
      /\ \A v \in DOMAIN entry[m].theta : under[v] = sk[entry[m].theta[v].symbol][Tuple(entry[m].theta[v].args, at)]
      /\ \A v \in Variables \ DOMAIN entry[m].theta : under[v] = at[v]
      /\ \A v \in DOMAIN entry[n].theta : outer[v] = sk[entry[n].theta[v].symbol][Tuple(entry[n].theta[v].args, env)]
      /\ \A v \in Variables \ DOMAIN entry[n].theta : outer[v] = env[v]
  BY <1>2, SubstitutedFacts
<1> HIDE DEF under, outer
<1>6. ASSUME NEW v \in DOMAIN entry[n].theta
      PROVE  Tuple(entry[n].theta[v].args, at) = Tuple(entry[n].theta[v].args, env)
  <2>1. PICK args : args = entry[n].theta[v].args
    OBVIOUS
  <2>2. Range(args) \subseteq Range(entry[n].univ)
    BY <2>1 DEF TermsBound
  <2>3. entry[n].theta \in Thetas
    BY <1>1, EntryFacts
  <2>4. args \in Seq(Variables)
    BY <2>1, <2>3 DEF Thetas, AllTerms
  <2>5. \A i \in DOMAIN args : args[i] \in Range(args) /\ args[i] \in Variables
    BY <2>4 DEF Range
  <2>6. \A i \in DOMAIN args : args[i] # Binds[n]
    BY <2>2, <2>5
  <2>7. \A i \in DOMAIN args : at[args[i]] = env[args[i]]
    BY <1>2, <2>5, <2>6
  <2>8. Tuple(args, at) = Tuple(args, env)
    BY <2>7 DEF Tuple
  <2> QED
    BY <2>1, <2>8
<1>7. ASSUME NEW v \in Variables
      PROVE  under[v] = [outer EXCEPT ![Binds[n]] = d][v]
  <2>1. CASE v = Binds[n]
    BY <1>1, <1>2, <1>4, <1>5, <2>1 DEF Env
  <2>2. CASE v # Binds[n] /\ v \in DOMAIN entry[n].theta
    <3>1. v \in DOMAIN entry[m].theta /\ entry[m].theta[v] = entry[n].theta[v]
      BY <1>4, <2>2
    <3>2. under[v] = outer[v]
      BY <1>5, <1>6, <2>2, <3>1
    <3> QED
      BY <1>5, <2>2, <3>2 DEF Env
  <2>3. CASE v # Binds[n] /\ v \notin DOMAIN entry[n].theta
    <3>1. under[v] = env[v] /\ outer[v] = env[v]
      BY <1>2, <1>4, <1>5, <2>3
    <3> QED
      BY <1>5, <2>3, <3>1 DEF Env
  <2> QED
    BY <2>1, <2>2, <2>3
<1>8. DOMAIN under = Variables /\ DOMAIN [outer EXCEPT ![Binds[n]] = d] = Variables
  BY <1>5 DEF Env
<1>9. under = [outer EXCEPT ![Binds[n]] = d]
  BY <1>5, <1>7, <1>8 DEF Env
<1> QED
  BY <1>9 DEF under, outer, at

\* In the place of one that goes: its variable is read as its Skolem term.
LEMMA SubstitutedTerm ==
    ASSUME WalkTypes, TermsBound, NEW n \in DOMAIN entry, NEW m \in DOMAIN entry, NEW k \in Nat,
           entry[m] = ExistentialEntry(n, k),
           NEW sk \in Interpretations, NEW env \in Env
    PROVE  Substituted(entry[m].theta, sk, env)
             = [Substituted(entry[n].theta, sk, env) EXCEPT ![Binds[n]] =
                 sk[<<k, Binds[n], Len(entry[n].univ)>>][Tuple(entry[n].univ, env)]]
<1> DEFINE under == Substituted(entry[m].theta, sk, env)
           outer == Substituted(entry[n].theta, sk, env)
           term == SkolemTerm(k, Binds[n], entry[n].univ)
           d == sk[<<k, Binds[n], Len(entry[n].univ)>>][Tuple(entry[n].univ, env)]
<1>1. n \in Nodes /\ Binds[n] \in Variables /\ entry[n] \in Entries
  BY SkolemizerAssumption DEF WalkTypes
<1>2. entry[m].theta = WithTerm(n, k)
  BY <1>1, FormulaKept DEF ExistentialEntry
<1>3. /\ DOMAIN entry[m].theta = DOMAIN entry[n].theta \cup {Binds[n]}
      /\ entry[m].theta[Binds[n]] = term
      /\ \A v \in DOMAIN entry[n].theta : v # Binds[n] => entry[m].theta[v] = entry[n].theta[v]
  BY <1>2 DEF WithTerm
<1>4. term.symbol = <<k, Binds[n], Len(entry[n].univ)>> /\ term.args = entry[n].univ
  BY DEF SkolemTerm
<1> HIDE DEF term
<1>5. /\ under \in Env /\ outer \in Env
      /\ \A v \in DOMAIN entry[m].theta : under[v] = sk[entry[m].theta[v].symbol][Tuple(entry[m].theta[v].args, env)]
      /\ \A v \in Variables \ DOMAIN entry[m].theta : under[v] = env[v]
      /\ \A v \in DOMAIN entry[n].theta : outer[v] = sk[entry[n].theta[v].symbol][Tuple(entry[n].theta[v].args, env)]
      /\ \A v \in Variables \ DOMAIN entry[n].theta : outer[v] = env[v]
  BY SubstitutedFacts
<1> HIDE DEF under, outer
<1>6. under[Binds[n]] = d
  BY <1>3, <1>4, <1>5
<1> HIDE DEF d
<1>7. ASSUME NEW v \in Variables
      PROVE  under[v] = [outer EXCEPT ![Binds[n]] = d][v]
  <2>1. CASE v = Binds[n]
    BY <1>1, <1>5, <1>6, <2>1 DEF Env
  <2>2. CASE v # Binds[n]
    <3>1. under[v] = outer[v]
      BY <1>3, <1>5, <2>2
    <3> QED
      BY <1>5, <2>2, <3>1 DEF Env
  <2> QED
    BY <2>1, <2>2
<1>8. DOMAIN under = Variables /\ DOMAIN [outer EXCEPT ![Binds[n]] = d] = Variables
  BY <1>5 DEF Env
<1>9. under = [outer EXCEPT ![Binds[n]] = d]
  BY <1>5, <1>7, <1>8 DEF Env
<1> QED
  BY <1>9 DEF under, outer, d

(***************************************************************************)
(* What a formula and its result mean, node by node.                       *)
(***************************************************************************)
At(n, env, d) == [env EXCEPT ![Binds[n]] = d]

\* The operators, one by one.
LEMMA MeantIs ==
    ASSUME NEW op, NEW literal, NEW holds, NEW n, NEW env \in Env
    PROVE  /\ op[n] = "operand" => (env \in Meant(op, literal, holds, n) <=> env \in holds[Operands[n][1]])
           /\ op[n] = "not" => (env \in Meant(op, literal, holds, n) <=> env \notin holds[Operands[n][1]])
           /\ op[n] = "and" => (env \in Meant(op, literal, holds, n) <=>
                                  \A i \in DOMAIN Operands[n] : env \in holds[Operands[n][i]])
           /\ op[n] = "or" => (env \in Meant(op, literal, holds, n) <=>
                                  \E i \in DOMAIN Operands[n] : env \in holds[Operands[n][i]])
           /\ op[n] = "implies" => (env \in Meant(op, literal, holds, n) <=>
                                      (env \in holds[Operands[n][1]] => env \in holds[Operands[n][2]]))
           /\ op[n] = "forall" => (env \in Meant(op, literal, holds, n) <=>
                                     \A d \in Domain : At(n, env, d) \in holds[Operands[n][1]])
           /\ op[n] = "exists" => (env \in Meant(op, literal, holds, n) <=>
                                     \E d \in Domain : At(n, env, d) \in holds[Operands[n][1]])
           /\ op[n] \in {"atom", "literal"} => Meant(op, literal, holds, n) = literal[n]
<1>1. CASE op[n] = "operand"
  <2>1. Meant(op, literal, holds, n) = holds[Operands[n][1]]
    BY <1>1, Zenon DEF Meant
  <2> QED
    BY <1>1, <2>1
<1>2. CASE op[n] = "not"
  <2>1. Meant(op, literal, holds, n) = Env \ holds[Operands[n][1]]
    BY <1>2, Zenon DEF Meant
  <2> QED
    BY <1>2, <2>1
<1>3. CASE op[n] = "and"
  <2>1. Meant(op, literal, holds, n) = Common({holds[Operands[n][i]] : i \in DOMAIN Operands[n]})
    BY <1>3, Zenon DEF Meant
  <2>2. env \in Meant(op, literal, holds, n) <=> \A i \in DOMAIN Operands[n] : env \in holds[Operands[n][i]]
    BY <2>1 DEF Common
  <2> QED
    BY <1>3, <2>2
<1>4. CASE op[n] = "or"
  <2>1. Meant(op, literal, holds, n) = UNION {holds[Operands[n][i]] : i \in DOMAIN Operands[n]}
    BY <1>4, Zenon DEF Meant
  <2>2. env \in Meant(op, literal, holds, n) <=> \E i \in DOMAIN Operands[n] : env \in holds[Operands[n][i]]
    BY <2>1
  <2> QED
    BY <1>4, <2>2
<1>5. CASE op[n] = "implies"
  <2>1. Meant(op, literal, holds, n) = (Env \ holds[Operands[n][1]]) \cup holds[Operands[n][2]]
    BY <1>5, Zenon DEF Meant
  <2> QED
    BY <1>5, <2>1
<1>6. CASE op[n] = "forall"
  <2>1. Meant(op, literal, holds, n) = {e \in Env : \A d \in Domain : At(n, e, d) \in holds[Operands[n][1]]}
    BY <1>6, Zenon DEF Meant, At
  <2>2. env \in Meant(op, literal, holds, n) <=> \A d \in Domain : At(n, env, d) \in holds[Operands[n][1]]
    BY <2>1
  <2> QED
    BY <1>6, <2>2
<1>7. CASE op[n] = "exists"
  <2>1. Meant(op, literal, holds, n) = {e \in Env : \E d \in Domain : At(n, e, d) \in holds[Operands[n][1]]}
    BY <1>7, Zenon DEF Meant, At
  <2>2. env \in Meant(op, literal, holds, n) <=> \E d \in Domain : At(n, env, d) \in holds[Operands[n][1]]
    BY <2>1
  <2> QED
    BY <1>7, <2>2
<1>8. op[n] \in {"atom", "literal"} => Meant(op, literal, holds, n) = literal[n]
  <2>1. op[n] = "atom" => Meant(op, literal, holds, n) = literal[n]
    BY Zenon DEF Meant
  <2>2. op[n] = "literal" => Meant(op, literal, holds, n) = literal[n]
    BY Zenon DEF Meant
  <2> QED
    BY <2>1, <2>2
<1> QED
  BY <1>1, <1>2, <1>3, <1>4, <1>5, <1>6, <1>7, <1>8

\* The formulas can be read.
LEMMA ReadableFormulas ==
    Readable(Connective) /\ DOMAIN Connective = Nodes
<1>1. DOMAIN Connective = Nodes
  BY SkolemizerAssumption
<1>2. ASSUME NEW n \in Nodes
      PROVE  /\ \A i \in DOMAIN Operands[n] : Operands[n][i] \in Nodes
             /\ Connective[n] \in {"operand", "not", "implies", "forall", "exists"} => 1 \in DOMAIN Operands[n]
             /\ Connective[n] = "implies" => 2 \in DOMAIN Operands[n]
  <2>1. Connective[n] # "operand"
    BY SkolemizerAssumption DEF Junctions, Quantifiers
  <2>2. /\ Connective[n] \in {"not", "forall", "exists"} => 1 \in DOMAIN Operands[n]
        /\ Connective[n] = "implies" => 1 \in DOMAIN Operands[n] /\ 2 \in DOMAIN Operands[n]
    BY OperandCount DEF Quantifiers
  <2> QED
    BY <2>1, <2>2, OperandFacts
<1> QED
  BY <1>1, <1>2, Zenon DEF Readable

\* So can the result, once the walk is over.
LEMMA ReadableResult ==
    ASSUME WalkTypes, WalkOrder, Linked, stack = <<>>
    PROVE  Readable(result) /\ DOMAIN result = DOMAIN entry
<1>1. DOMAIN result = DOMAIN entry
  <2>1. Range(stack) = {}
    BY DEF Range
  <2> QED
    BY <2>1 DEF WalkOrder
<1>2. ASSUME NEW n \in DOMAIN result
      PROVE  /\ \A i \in DOMAIN Operands[n] : Operands[n][i] \in DOMAIN result
             /\ result[n] \in {"operand", "not", "implies", "forall", "exists"} => 1 \in DOMAIN Operands[n]
             /\ result[n] = "implies" => 2 \in DOMAIN Operands[n]
  <2>1. n \in Nodes /\ Link(n)
    BY <1>1 DEF WalkTypes, Linked
  <2>2. Connective[n] \in {"not", "forall", "exists"} => 1 \in DOMAIN Operands[n]
    BY <2>1, OperandCount DEF Quantifiers
  <2>3. result[n] \in {"operand", "not", "implies", "forall", "exists"} =>
          result[n] # "implies" /\ Connective[n] \in {"not", "forall", "exists"}
    BY <2>1, SkolemizerAssumption DEF Link, Junctions, Quantifiers
  <2>4. \A i \in DOMAIN Operands[n] : Operands[n][i] \in DOMAIN result
    BY <1>1 DEF WalkOrder
  <2> QED
    BY <2>2, <2>3, <2>4
<1> QED
  BY <1>1, <1>2 DEF Readable, WalkTypes

\* What a formula says, by its connective.
LEMMA TruthIs ==
    ASSUME NEW r \in Structures, NEW n \in Nodes, NEW env \in Env
    PROVE  /\ Connective[n] = "not" => (env \in Truth(r)[n] <=> env \notin Truth(r)[Operands[n][1]])
           /\ Connective[n] = "and" => (env \in Truth(r)[n] <=>
                                  \A i \in DOMAIN Operands[n] : env \in Truth(r)[Operands[n][i]])
           /\ Connective[n] = "or" => (env \in Truth(r)[n] <=>
                                  \E i \in DOMAIN Operands[n] : env \in Truth(r)[Operands[n][i]])
           /\ Connective[n] = "implies" => (env \in Truth(r)[n] <=>
                                      (env \in Truth(r)[Operands[n][1]] => env \in Truth(r)[Operands[n][2]]))
           /\ Connective[n] = "forall" => (env \in Truth(r)[n] <=>
                                     \A d \in Domain : At(n, env, d) \in Truth(r)[Operands[n][1]])
           /\ Connective[n] = "exists" => (env \in Truth(r)[n] <=>
                                     \E d \in Domain : At(n, env, d) \in Truth(r)[Operands[n][1]])
           /\ Connective[n] = "atom" => Truth(r)[n] = r[n]
<1>1. PICK T : T = Truth(r)
  OBVIOUS
<1>2. T[n] = Meant(Connective, r, T, n)
  BY <1>1, ReadableFormulas, MeaningUnfold DEF Truth
<1> QED
  BY <1>1, <1>2, MeantIs

\* What a result says, by its operator.
LEMMA OutcomeIs ==
    ASSUME WalkTypes, WalkOrder, Linked, stack = <<>>,
           NEW r \in Structures, NEW sk \in Interpretations, NEW n \in DOMAIN result, NEW env \in Env
    PROVE  /\ result[n] = "operand" => (env \in Outcome(r, sk)[n] <=> env \in Outcome(r, sk)[Operands[n][1]])
           /\ result[n] = "and" => (env \in Outcome(r, sk)[n] <=>
                                      \A i \in DOMAIN Operands[n] : env \in Outcome(r, sk)[Operands[n][i]])
           /\ result[n] = "or" => (env \in Outcome(r, sk)[n] <=>
                                     \E i \in DOMAIN Operands[n] : env \in Outcome(r, sk)[Operands[n][i]])
           /\ result[n] = "forall" => (env \in Outcome(r, sk)[n] <=>
                                         \A d \in Domain : At(n, env, d) \in Outcome(r, sk)[Operands[n][1]])
           /\ result[n] = "literal" => (env \in Outcome(r, sk)[n] <=>
                                          ((Substituted(entry[n].theta, sk, env) \in r[n]) = entry[n].positive))
<1> DEFINE literal == [m \in DOMAIN result |->
                         {e \in Env : (Substituted(entry[m].theta, sk, e) \in r[m]) = entry[m].positive}]
<1>1. PICK T : T = Outcome(r, sk)
  OBVIOUS
<1>2. T = Meaning(result, literal)
  BY <1>1 DEF Outcome
<1>3. env \in literal[n] <=> ((Substituted(entry[n].theta, sk, env) \in r[n]) = entry[n].positive)
  OBVIOUS
<1> HIDE DEF literal
<1>4. T[n] = Meant(result, literal, T, n)
  BY <1>2, ReadableResult, MeaningUnfold
<1> QED
  BY <1>1, <1>3, <1>4, MeantIs

\* An environment is right at a node if what the node says in it is what its place asks for.
Right(r, sk, n, env) == (Substituted(entry[n].theta, sk, env) \in Truth(r)[n]) = entry[n].positive

\* There are two polarities.
LEMMA Polarity ==
    ASSUME NEW p \in BOOLEAN, NEW q, q = ~p
    PROVE  /\ q \in BOOLEAN
           /\ p = TRUE \/ p = FALSE
           /\ p = TRUE => q = FALSE
           /\ p = FALSE => q = TRUE
OBVIOUS

\* To be right is to hold in a positive place, and not to in a negative one.
LEMMA RightIs ==
    ASSUME NEW r, NEW sk, NEW n, NEW env
    PROVE  /\ entry[n].positive = TRUE => (Right(r, sk, n, env) <=> Substituted(entry[n].theta, sk, env) \in Truth(r)[n])
           /\ entry[n].positive = FALSE => (Right(r, sk, n, env) <=> Substituted(entry[n].theta, sk, env) \notin Truth(r)[n])
<1>1. ASSUME NEW T, NEW s, NEW p, p = FALSE
      PROVE  ((s \in T) = p) <=> s \notin T
  <2>1. ((s \in T) = FALSE) <=> s \notin T
    OBVIOUS
  <2> QED
    BY <1>1, <2>1, Zenon
<1>2. ASSUME NEW T, NEW s, NEW p, p = TRUE
      PROVE  ((s \in T) = p) <=> s \in T
  BY <1>2
<1> QED
  BY <1>1, <1>2 DEF Right

\* A part and its whole are right together, as the operator in the result says.
LEMMA RightNot ==
    ASSUME WalkTypes, WalkOrder, Linked, TermsBound, NEW r \in Structures, NEW sk \in Interpretations,
           NEW n \in DOMAIN result, Connective[n] = "not", NEW env \in Env
    PROVE  /\ DOMAIN Operands[n] = {1} /\ result[n] = "operand"
           /\ entry[Operands[n][1]].univ = entry[n].univ
           /\ Right(r, sk, n, env) <=> Right(r, sk, Operands[n][1], env)
<1>1. PICK m : m = Operands[n][1]
  OBVIOUS
<1>2. n \in DOMAIN entry /\ n \in Nodes /\ entry[n] \in Entries
  BY DEF WalkTypes, WalkOrder
<1>3. DOMAIN Operands[n] = {1}
  BY <1>2, OperandCount
<1>4. result[n] = "operand" /\ entry[m] = [entry[n] EXCEPT !.positive = ~entry[n].positive]
  BY <1>1 DEF Linked, Link
<1>5. entry[m].theta = entry[n].theta /\ entry[m].univ = entry[n].univ /\ entry[m].positive = ~entry[n].positive
  BY <1>2, <1>4 DEF Entries
<1>6. entry[n].positive \in BOOLEAN
  BY <1>2, EntryFacts
<1>7. PICK s \in Env : s = Substituted(entry[n].theta, sk, env)
  BY <1>2, SubstitutedFacts
<1>8. s \in Truth(r)[n] <=> s \notin Truth(r)[m]
  BY <1>1, <1>2, TruthIs
<1>9. Right(r, sk, n, env) <=> Right(r, sk, m, env)
  <2>1. /\ entry[m].positive \in BOOLEAN
        /\ \/ entry[n].positive = TRUE /\ entry[m].positive = FALSE
           \/ entry[n].positive = FALSE /\ entry[m].positive = TRUE
    BY <1>5, <1>6, Polarity
  <2> QED
    BY <1>5, <1>6, <1>7, <1>8, <2>1, RightIs
<1> QED
  BY <1>1, <1>3, <1>4, <1>5, <1>9

\* De Morgan.
LEMMA RightJunction ==
    ASSUME WalkTypes, WalkOrder, Linked, TermsBound, NEW r \in Structures, NEW sk \in Interpretations,
           NEW n \in DOMAIN result, Connective[n] \in Junctions, NEW env \in Env
    PROVE  /\ \A i \in DOMAIN Operands[n] : entry[Operands[n][i]].univ = entry[n].univ
           /\ \/ /\ result[n] = "and"
                 /\ Right(r, sk, n, env) <=> \A i \in DOMAIN Operands[n] : Right(r, sk, Operands[n][i], env)
              \/ /\ result[n] = "or"
                 /\ Right(r, sk, n, env) <=> \E i \in DOMAIN Operands[n] : Right(r, sk, Operands[n][i], env)
<1>1. n \in DOMAIN entry /\ n \in Nodes /\ entry[n] \in Entries
  BY DEF WalkTypes, WalkOrder
<1>2. /\ result[n] = IF (Connective[n] = "and") = entry[n].positive THEN "and" ELSE "or"
      /\ \A i \in DOMAIN Operands[n] : entry[Operands[n][i]] = TurnedEntry(n, Operands[n][i])
  BY DEF Linked, Link
<1>3. entry[n].positive \in BOOLEAN
  BY <1>1, EntryFacts
<1>4. \A i \in DOMAIN Operands[n] : entry[Operands[n][i]].theta = entry[n].theta /\ entry[Operands[n][i]].univ = entry[n].univ
  BY <1>1, <1>2, FormulaKept DEF TurnedEntry
<1>5. PICK s \in Env : s = Substituted(entry[n].theta, sk, env)
  BY <1>1, SubstitutedFacts
<1>6. /\ entry[n].positive = TRUE => (Right(r, sk, n, env) <=> s \in Truth(r)[n])
      /\ entry[n].positive = FALSE => (Right(r, sk, n, env) <=> s \notin Truth(r)[n])
  BY <1>3, <1>5, RightIs
<1>7. ASSUME NEW i \in DOMAIN Operands[n], entry[Operands[n][i]].positive \in BOOLEAN
      PROVE  /\ entry[Operands[n][i]].positive = TRUE => (Right(r, sk, Operands[n][i], env) <=> s \in Truth(r)[Operands[n][i]])
             /\ entry[Operands[n][i]].positive = FALSE => (Right(r, sk, Operands[n][i], env) <=> s \notin Truth(r)[Operands[n][i]])
  <2>1. s = Substituted(entry[Operands[n][i]].theta, sk, env)
    BY <1>4, <1>5
  <2> QED
    BY <1>7, <2>1, RightIs
<1>8. CASE Connective[n] = "implies"
  <2>1. DOMAIN Operands[n] = {1, 2}
    BY <1>1, <1>8, OperandCount
  <2>2. Operands[n][2] # Operands[n][1]
    BY <1>1, <2>1, OperandOnce
  <2>7. entry[Operands[n][1]].positive = ~entry[n].positive /\ entry[Operands[n][2]].positive = entry[n].positive
    BY <1>1, <1>2, <1>8, <2>1, <2>2 DEF TurnedEntry, Entries
  <2>3. /\ entry[Operands[n][1]].positive \in BOOLEAN /\ entry[Operands[n][2]].positive = entry[n].positive
        /\ entry[n].positive = TRUE => entry[Operands[n][1]].positive = FALSE
        /\ entry[n].positive = FALSE => entry[Operands[n][1]].positive = TRUE
    BY <1>3, <2>7, Polarity
  <2>4. s \in Truth(r)[n] <=> (s \in Truth(r)[Operands[n][1]] => s \in Truth(r)[Operands[n][2]])
    BY <1>1, <1>8, TruthIs
  <2>5. CASE entry[n].positive = TRUE
    <3>1. result[n] = "or"
      BY <1>2, <1>8, <2>5
    <3>2. /\ Right(r, sk, n, env) <=> s \in Truth(r)[n]
          /\ Right(r, sk, Operands[n][1], env) <=> s \notin Truth(r)[Operands[n][1]]
          /\ Right(r, sk, Operands[n][2], env) <=> s \in Truth(r)[Operands[n][2]]
      BY <1>3, <1>6, <1>7, <2>1, <2>3, <2>5
    <3> QED
      BY <1>4, <2>1, <2>4, <3>1, <3>2
  <2>6. CASE entry[n].positive = FALSE
    <3>1. result[n] = "and"
      BY <1>2, <1>8, <2>6
    <3>2. /\ Right(r, sk, n, env) <=> s \notin Truth(r)[n]
          /\ Right(r, sk, Operands[n][1], env) <=> s \in Truth(r)[Operands[n][1]]
          /\ Right(r, sk, Operands[n][2], env) <=> s \notin Truth(r)[Operands[n][2]]
      BY <1>3, <1>6, <1>7, <2>1, <2>3, <2>6
    <3> QED
      BY <1>4, <2>1, <2>4, <3>1, <3>2
  <2> QED
    BY <1>3, <2>5, <2>6
<1>9. CASE Connective[n] # "implies"
  <2>1. \A i \in DOMAIN Operands[n] : entry[Operands[n][i]] = entry[n]
    BY <1>2, <1>9 DEF TurnedEntry
  <2>2. Connective[n] = "and" => (s \in Truth(r)[n] <=> \A i \in DOMAIN Operands[n] : s \in Truth(r)[Operands[n][i]])
    BY <1>1, TruthIs
  <2>3. Connective[n] = "or" => (s \in Truth(r)[n] <=> \E i \in DOMAIN Operands[n] : s \in Truth(r)[Operands[n][i]])
    BY <1>1, TruthIs
  <2>4. Connective[n] = "and" \/ Connective[n] = "or"
    BY <1>9 DEF Junctions
  <2>5. CASE entry[n].positive = TRUE
    <3>1. /\ Right(r, sk, n, env) <=> s \in Truth(r)[n]
          /\ \A i \in DOMAIN Operands[n] : Right(r, sk, Operands[n][i], env) <=> s \in Truth(r)[Operands[n][i]]
      BY <1>3, <1>6, <1>7, <2>1, <2>5
    <3>2. result[n] = IF Connective[n] = "and" THEN "and" ELSE "or"
      BY <1>2, <2>5
    <3> QED
      BY <1>4, <2>2, <2>3, <2>4, <3>1, <3>2
  <2>6. CASE entry[n].positive = FALSE
    <3>1. /\ Right(r, sk, n, env) <=> s \notin Truth(r)[n]
          /\ \A i \in DOMAIN Operands[n] : Right(r, sk, Operands[n][i], env) <=> s \notin Truth(r)[Operands[n][i]]
      BY <1>3, <1>6, <1>7, <2>1, <2>6
    <3>2. result[n] = IF Connective[n] = "and" THEN "or" ELSE "and"
      BY <1>2, <2>6
    <3> QED
      BY <1>4, <2>2, <2>3, <2>4, <3>1, <3>2
  <2> QED
    BY <1>3, <2>5, <2>6
<1> QED
  BY <1>8, <1>9

\* A quantifier that stays is right if its body is, whatever its variable is.
LEMMA RightUniversal ==
    ASSUME WalkTypes, WalkOrder, Linked, TermsBound, NotRebound, NEW r \in Structures, NEW sk \in Interpretations,
           NEW n \in DOMAIN result, Connective[n] \in Quantifiers, IsUniversal(n), NEW env \in Env
    PROVE  /\ DOMAIN Operands[n] = {1} /\ result[n] = "forall"
           /\ entry[Operands[n][1]].univ = Append(entry[n].univ, Binds[n])
           /\ \A d \in Domain : At(n, env, d) \in Env
           /\ Right(r, sk, n, env) <=> \A d \in Domain : Right(r, sk, Operands[n][1], At(n, env, d))
<1>1. PICK m : m = Operands[n][1]
  OBVIOUS
<1>2. n \in DOMAIN entry /\ n \in Nodes /\ entry[n] \in Entries /\ Binds[n] \in Variables
  BY SkolemizerAssumption DEF WalkTypes, WalkOrder
<1>3. DOMAIN Operands[n] = {1}
  BY <1>2, OperandCount
<1>4. result[n] = "forall" /\ entry[m] = UniversalEntry(n)
  BY <1>1 DEF Linked, Link
<1>5. m \in DOMAIN entry
  BY <1>1, <1>3 DEF WalkOrder
<1>6. entry[m].univ = Append(entry[n].univ, Binds[n]) /\ entry[m].positive = entry[n].positive
  BY <1>2, <1>4, FormulaKept DEF UniversalEntry
<1>7. entry[n].positive \in BOOLEAN
  BY <1>2, EntryFacts
<1>8. PICK s \in Env : s = Substituted(entry[n].theta, sk, env)
  BY <1>2, SubstitutedFacts
<1>9. Binds[n] \notin Range(entry[n].univ)
  BY DEF NotRebound
<1>10. ASSUME NEW d \in Domain
       PROVE  Substituted(entry[m].theta, sk, At(n, env, d)) = At(n, s, d)
  BY <1>2, <1>4, <1>5, <1>8, <1>9, SubstitutedUnder DEF At
<1>11. ASSUME NEW d \in Domain
       PROVE  At(n, env, d) \in Env
  BY <1>2 DEF At, Env
<1>12. /\ entry[n].positive = TRUE =>
            /\ Right(r, sk, n, env) <=> s \in Truth(r)[n]
            /\ \A d \in Domain : Right(r, sk, m, At(n, env, d)) <=> At(n, s, d) \in Truth(r)[m]
       /\ entry[n].positive = FALSE =>
            /\ Right(r, sk, n, env) <=> s \notin Truth(r)[n]
            /\ \A d \in Domain : Right(r, sk, m, At(n, env, d)) <=> At(n, s, d) \notin Truth(r)[m]
  <2>1. /\ entry[n].positive = TRUE => (Right(r, sk, n, env) <=> s \in Truth(r)[n])
        /\ entry[n].positive = FALSE => (Right(r, sk, n, env) <=> s \notin Truth(r)[n])
    BY <1>8, RightIs
  <2>2. ASSUME NEW d \in Domain
        PROVE  /\ entry[n].positive = TRUE => (Right(r, sk, m, At(n, env, d)) <=> At(n, s, d) \in Truth(r)[m])
               /\ entry[n].positive = FALSE => (Right(r, sk, m, At(n, env, d)) <=> At(n, s, d) \notin Truth(r)[m])
    <3>1. PICK other : other = At(n, env, d)
      OBVIOUS
    <3>2. Substituted(entry[m].theta, sk, other) = At(n, s, d)
      BY <1>10, <3>1
    <3>3. /\ entry[m].positive = TRUE => (Right(r, sk, m, other) <=> At(n, s, d) \in Truth(r)[m])
          /\ entry[m].positive = FALSE => (Right(r, sk, m, other) <=> At(n, s, d) \notin Truth(r)[m])
      BY <3>2, RightIs
    <3> QED
      BY <1>6, <3>1, <3>3
  <2> QED
    BY <2>1, <2>2
<1>13. Right(r, sk, n, env) <=> \A d \in Domain : Right(r, sk, m, At(n, env, d))
  <2>1. CASE Connective[n] = "forall"
    <3>1. entry[n].positive = TRUE
      BY <1>7, <2>1 DEF IsUniversal
    <3>2. s \in Truth(r)[n] <=> \A d \in Domain : At(n, s, d) \in Truth(r)[m]
      BY <1>1, <1>2, <2>1, TruthIs
    <3> QED
      BY <1>12, <3>1, <3>2
  <2>2. CASE Connective[n] = "exists"
    <3>1. entry[n].positive = FALSE
      BY <1>7, <2>2 DEF IsUniversal
    <3>2. s \in Truth(r)[n] <=> \E d \in Domain : At(n, s, d) \in Truth(r)[m]
      BY <1>1, <1>2, <2>2, TruthIs
    <3> QED
      BY <1>12, <3>1, <3>2
  <2> QED
    BY <2>1, <2>2 DEF Quantifiers
<1> QED
  BY <1>1, <1>3, <1>4, <1>6, <1>11, <1>13

\* A choice of the Skolem functions serves a quantifier in the environments that differ from
\* one in its universal variables only: where the quantifier holds, its body does.
Agrees(env, other, univ) == \A v \in Variables \ Range(univ) : env[v] = other[v]
Serves(r, sk, other, n) ==
    \A env \in Env :
      Agrees(env, other, entry[n].univ) /\ Substituted(entry[n].theta, sk, env) \in Truth(r)[n] =>
        Substituted(entry[Operands[n][1]].theta, sk, env) \in Truth(r)[Operands[n][1]]

\* A quantifier that goes is right if its body is, and its body if the Skolem functions serve it.
LEMMA RightExistential ==
    ASSUME WalkTypes, WalkOrder, Linked, TermsBound, PositiveUniversals, NEW r \in Structures, NEW sk \in Interpretations,
           NEW n \in DOMAIN result, Connective[n] \in Quantifiers, ~IsUniversal(n), NEW env \in Env
    PROVE  /\ DOMAIN Operands[n] = {1} /\ result[n] = "operand" /\ n \in Existentials
           /\ entry[Operands[n][1]].univ = entry[n].univ
           /\ Right(r, sk, Operands[n][1], env) => Right(r, sk, n, env)
           /\ \A other \in Env : Serves(r, sk, other, n) /\ Agrees(env, other, entry[n].univ) =>
                (Right(r, sk, n, env) => Right(r, sk, Operands[n][1], env))
<1>1. PICK m : m = Operands[n][1]
  OBVIOUS
<1>2. result[n] = "operand"
  BY DEF Linked, Link
<1>3. n \in Existentials
  BY <1>2 DEF Existentials
<1>4. /\ n \in Nodes /\ n \in DOMAIN entry /\ DOMAIN Operands[n] = {1} /\ m \in DOMAIN entry
      /\ Number(n) \in Nat /\ entry[m] = ExistentialEntry(n, Number(n))
      /\ TermOf(n).symbol = <<Number(n), Binds[n], Len(entry[n].univ)>>
  BY <1>1, <1>3, TermFacts
<1>5. entry[n] \in Entries /\ entry[n].univ \in Seq(Variables) /\ entry[n].positive \in BOOLEAN
  BY <1>4, EntryFacts DEF WalkTypes
<1>6. Connective[n] = "exists" /\ entry[n].positive = TRUE
  <2>1. Connective[n] = "exists"
    BY <1>3 DEF PositiveUniversals
  <2> QED
    BY <1>5, <2>1 DEF IsUniversal
<1>7. entry[m].univ = entry[n].univ /\ entry[m].positive = TRUE
  BY <1>4, <1>5, FormulaKept DEF ExistentialEntry
<1>8. PICK s \in Env : s = Substituted(entry[n].theta, sk, env)
  BY <1>4, SubstitutedFacts
<1>9. PICK d : d = sk[<<Number(n), Binds[n], Len(entry[n].univ)>>][Tuple(entry[n].univ, env)]
  OBVIOUS
<1>10. d \in Domain
  <2>1. PICK y : y = <<Number(n), Binds[n], Len(entry[n].univ)>>
    OBVIOUS
  <2>2. y \in Symbols /\ y[3] = Len(entry[n].univ)
    BY <1>3, <1>4, <2>1 DEF Symbols
  <2>3. sk[y] \in [[1 .. Len(entry[n].univ) -> Domain] -> Domain]
    BY <2>2, InterpretationFacts
  <2>4. Tuple(entry[n].univ, env) \in [1 .. Len(entry[n].univ) -> Domain]
    BY <1>5, TupleFacts
  <2> QED
    BY <1>9, <2>1, <2>3, <2>4
<1>11. Substituted(entry[m].theta, sk, env) = At(n, s, d)
  BY <1>4, <1>8, <1>9, SubstitutedTerm DEF At
<1>12. s \in Truth(r)[n] <=> \E c \in Domain : At(n, s, c) \in Truth(r)[m]
  BY <1>1, <1>4, <1>6, TruthIs
<1>13. Right(r, sk, n, env) <=> s \in Truth(r)[n]
  BY <1>5, <1>6, <1>8, RightIs
<1>14. Right(r, sk, m, env) <=> Substituted(entry[m].theta, sk, env) \in Truth(r)[m]
  BY <1>7, RightIs
<1>15. Right(r, sk, m, env) => Right(r, sk, n, env)
  BY <1>10, <1>11, <1>12, <1>13, <1>14
<1>16. ASSUME NEW other \in Env, Serves(r, sk, other, n), Agrees(env, other, entry[n].univ), Right(r, sk, n, env)
       PROVE  Right(r, sk, m, env)
  BY <1>1, <1>8, <1>13, <1>14, <1>16 DEF Serves
<1> QED
  BY <1>1, <1>2, <1>3, <1>4, <1>7, <1>15, <1>16

\* To give a universal variable another value is no difference outside the universal variables.
LEMMA AgreesUnder ==
    ASSUME NEW n \in Nodes, NEW univ \in Seq(Variables), NEW env \in Env, NEW other \in Env, NEW d \in Domain,
           Agrees(env, other, univ)
    PROVE  Agrees(At(n, env, d), other, Append(univ, Binds[n]))
<1>1. Binds[n] \in Variables
  BY SkolemizerAssumption
<1>2. PICK w : w = Append(univ, Binds[n])
  OBVIOUS
<1>3. Len(univ) + 1 \in DOMAIN w /\ w[Len(univ) + 1] = Binds[n] /\ \A i \in DOMAIN univ : i \in DOMAIN w /\ w[i] = univ[i]
  BY <1>1, <1>2
<1>4. Binds[n] \in Range(w) /\ \A v \in Range(univ) : v \in Range(w)
  <2>1. PICK k \in DOMAIN w : w[k] = Binds[n]
    BY <1>3
  <2>2. Binds[n] \in Range(w)
    BY <2>1, Zenon DEF Range
  <2>3. \A i \in DOMAIN univ : \E j \in DOMAIN w : univ[i] = w[j]
    BY <1>3
  <2>4. \A v \in Range(univ) : v \in Range(w)
    BY <2>3 DEF Range
  <2> QED
    BY <2>2, <2>4
<1>5. \A v \in Variables \ Range(w) : At(n, env, d)[v] = env[v] /\ v \notin Range(univ)
  BY <1>4 DEF At, Env
<1>6. Agrees(At(n, env, d), other, w)
  BY <1>5 DEF Agrees
<1> QED
  BY <1>2, <1>6

\* A literal is in the result what the atom is in its place.
LEMMA RightAtom ==
    ASSUME WalkTypes, WalkOrder, Linked, stack = <<>>, NEW r \in Structures, NEW sk \in Interpretations,
           NEW n \in DOMAIN result, Connective[n] = "atom", NEW env \in Env
    PROVE  env \in Outcome(r, sk)[n] <=> Right(r, sk, n, env)
<1>1. n \in Nodes
  BY DEF WalkOrder, WalkTypes
<1>2. result[n] = "literal"
  BY DEF Linked, Link
<1>3. Truth(r)[n] = r[n]
  BY <1>1, TruthIs
<1>4. env \in Outcome(r, sk)[n] <=> ((Substituted(entry[n].theta, sk, env) \in r[n]) = entry[n].positive)
  BY <1>2, OutcomeIs
<1> QED
  BY <1>3, <1>4, Zenon DEF Right

\* There are no other nodes.
LEMMA NodeKinds ==
    ASSUME NEW n \in Nodes
    PROVE  Connective[n] = "atom" \/ Connective[n] = "not" \/ Connective[n] \in Junctions \/ Connective[n] \in Quantifiers
BY SkolemizerAssumption

\* Whatever the Skolem functions are, an environment that the result holds in is right.
LEMMA ResultSound ==
    ASSUME WalkTypes, WalkOrder, Linked, TermsBound, stack = <<>>, PositiveUniversals, NotRebound,
           NEW r \in Structures, NEW sk \in Interpretations, NEW m \in DOMAIN result, NEW e \in Env, e \in Outcome(r, sk)[m]
    PROVE  Right(r, sk, m, e)
<1> DEFINE Bad == {n \in DOMAIN result : \E env \in Env : env \in Outcome(r, sk)[n] /\ ~Right(r, sk, n, env)}
<1>1. SUFFICES ASSUME Bad # {} PROVE FALSE
  OBVIOUS
<1>2. Bad \subseteq Nodes
  BY DEF WalkOrder, WalkTypes
<1>3. PICK n \in Bad : \A i \in DOMAIN Operands[n] : Operands[n][i] \notin Bad
  <2> HIDE DEF Bad
  <2> QED
    BY <1>1, <1>2, LowestOf
<1>4. PICK env \in Env : env \in Outcome(r, sk)[n] /\ ~Right(r, sk, n, env)
  OBVIOUS
<1>5. n \in DOMAIN result /\ n \in Nodes
  BY <1>2
<1>6. ASSUME NEW i \in DOMAIN Operands[n], NEW a \in Env, a \in Outcome(r, sk)[Operands[n][i]]
      PROVE  Right(r, sk, Operands[n][i], a)
  <2>1. Operands[n][i] \in DOMAIN result
    BY <1>5, ReadableResult DEF Readable
  <2> QED
    BY <1>3, <1>6, <2>1
<1> HIDE DEF Bad
<1>7. CASE Connective[n] = "atom"
  BY <1>4, <1>5, <1>7, RightAtom
<1>8. CASE Connective[n] = "not"
  <2>1. DOMAIN Operands[n] = {1} /\ result[n] = "operand" /\ (Right(r, sk, n, env) <=> Right(r, sk, Operands[n][1], env))
    BY <1>5, <1>8, RightNot
  <2>2. env \in Outcome(r, sk)[Operands[n][1]]
    BY <1>4, <1>5, <2>1, OutcomeIs
  <2> QED
    BY <1>4, <1>6, <2>1, <2>2
<1>9. CASE Connective[n] \in Junctions
  <2>1. \/ /\ result[n] = "and"
           /\ Right(r, sk, n, env) <=> \A i \in DOMAIN Operands[n] : Right(r, sk, Operands[n][i], env)
        \/ /\ result[n] = "or"
           /\ Right(r, sk, n, env) <=> \E i \in DOMAIN Operands[n] : Right(r, sk, Operands[n][i], env)
    BY <1>5, <1>9, RightJunction
  <2>2. /\ result[n] = "and" => \A i \in DOMAIN Operands[n] : env \in Outcome(r, sk)[Operands[n][i]]
        /\ result[n] = "or" => \E i \in DOMAIN Operands[n] : env \in Outcome(r, sk)[Operands[n][i]]
    BY <1>4, <1>5, OutcomeIs
  <2> QED
    BY <1>4, <1>6, <2>1, <2>2
<1>10. CASE Connective[n] \in Quantifiers /\ IsUniversal(n)
  <2>1. /\ DOMAIN Operands[n] = {1} /\ result[n] = "forall"
        /\ \A d \in Domain : At(n, env, d) \in Env
        /\ Right(r, sk, n, env) <=> \A d \in Domain : Right(r, sk, Operands[n][1], At(n, env, d))
    BY <1>5, <1>10, RightUniversal
  <2>2. \A d \in Domain : At(n, env, d) \in Outcome(r, sk)[Operands[n][1]]
    BY <1>4, <1>5, <2>1, OutcomeIs
  <2>3. ASSUME NEW d \in Domain
        PROVE  Right(r, sk, Operands[n][1], At(n, env, d))
    BY <1>6, <2>1, <2>2
  <2> QED
    BY <1>4, <2>1, <2>3
<1>11. CASE Connective[n] \in Quantifiers /\ ~IsUniversal(n)
  <2>1. DOMAIN Operands[n] = {1} /\ result[n] = "operand" /\ (Right(r, sk, Operands[n][1], env) => Right(r, sk, n, env))
    BY <1>5, <1>11, RightExistential
  <2>2. env \in Outcome(r, sk)[Operands[n][1]]
    BY <1>4, <1>5, <2>1, OutcomeIs
  <2> QED
    BY <1>4, <1>6, <2>1, <2>2
<1> QED
  BY <1>5, <1>7, <1>8, <1>9, <1>10, <1>11, NodeKinds

\* With Skolem functions that serve every quantifier, the result holds wherever it is right.
LEMMA ResultComplete ==
    ASSUME WalkTypes, WalkOrder, Linked, TermsBound, stack = <<>>, PositiveUniversals, NotRebound,
           NEW r \in Structures, NEW sk \in Interpretations, NEW other \in Env,
           \A n \in Existentials : Serves(r, sk, other, n),
           NEW m \in DOMAIN result, NEW e \in Env, Agrees(e, other, entry[m].univ), Right(r, sk, m, e)
    PROVE  e \in Outcome(r, sk)[m]
<1> DEFINE Bad == {n \in DOMAIN result : \E env \in Env : /\ Agrees(env, other, entry[n].univ) /\ Right(r, sk, n, env)
                                                          /\ env \notin Outcome(r, sk)[n]}
<1>1. SUFFICES ASSUME Bad # {} PROVE FALSE
  OBVIOUS
<1>2. Bad \subseteq Nodes
  BY DEF WalkOrder, WalkTypes
<1>3. PICK n \in Bad : \A i \in DOMAIN Operands[n] : Operands[n][i] \notin Bad
  <2> HIDE DEF Bad
  <2> QED
    BY <1>1, <1>2, LowestOf
<1>4. PICK env \in Env : /\ Agrees(env, other, entry[n].univ) /\ Right(r, sk, n, env)
                         /\ env \notin Outcome(r, sk)[n]
  OBVIOUS
<1>5. n \in DOMAIN result /\ n \in Nodes /\ entry[n].univ \in Seq(Variables)
  <2>1. n \in DOMAIN result /\ n \in Nodes /\ n \in DOMAIN entry
    BY <1>2 DEF WalkOrder
  <2> QED
    BY <2>1, EntryFacts DEF WalkTypes
<1>6. ASSUME NEW i \in DOMAIN Operands[n], NEW a \in Env,
             Agrees(a, other, entry[Operands[n][i]].univ), Right(r, sk, Operands[n][i], a)
      PROVE  a \in Outcome(r, sk)[Operands[n][i]]
  <2>1. Operands[n][i] \in DOMAIN result
    BY <1>5, ReadableResult DEF Readable
  <2> QED
    BY <1>3, <1>6, <2>1
<1> HIDE DEF Bad
<1>7. CASE Connective[n] = "atom"
  BY <1>4, <1>5, <1>7, RightAtom
<1>8. CASE Connective[n] = "not"
  <2>1. /\ DOMAIN Operands[n] = {1} /\ result[n] = "operand" /\ entry[Operands[n][1]].univ = entry[n].univ
        /\ Right(r, sk, n, env) <=> Right(r, sk, Operands[n][1], env)
    BY <1>5, <1>8, RightNot
  <2>2. env \notin Outcome(r, sk)[Operands[n][1]]
    BY <1>4, <1>5, <2>1, OutcomeIs
  <2> QED
    BY <1>4, <1>6, <2>1, <2>2
<1>9. CASE Connective[n] \in Junctions
  <2>1. /\ \A i \in DOMAIN Operands[n] : entry[Operands[n][i]].univ = entry[n].univ
        /\ \/ /\ result[n] = "and"
              /\ Right(r, sk, n, env) <=> \A i \in DOMAIN Operands[n] : Right(r, sk, Operands[n][i], env)
           \/ /\ result[n] = "or"
              /\ Right(r, sk, n, env) <=> \E i \in DOMAIN Operands[n] : Right(r, sk, Operands[n][i], env)
    BY <1>5, <1>9, RightJunction
  <2>2. /\ result[n] = "and" => ~ \A i \in DOMAIN Operands[n] : env \in Outcome(r, sk)[Operands[n][i]]
        /\ result[n] = "or" => ~ \E i \in DOMAIN Operands[n] : env \in Outcome(r, sk)[Operands[n][i]]
    BY <1>4, <1>5, OutcomeIs
  <2>3. \A i \in DOMAIN Operands[n] : Right(r, sk, Operands[n][i], env) => env \in Outcome(r, sk)[Operands[n][i]]
    BY <1>4, <1>6, <2>1
  <2> QED
    BY <1>4, <2>1, <2>2, <2>3
<1>10. CASE Connective[n] \in Quantifiers /\ IsUniversal(n)
  <2>1. /\ DOMAIN Operands[n] = {1} /\ result[n] = "forall"
        /\ entry[Operands[n][1]].univ = Append(entry[n].univ, Binds[n])
        /\ \A d \in Domain : At(n, env, d) \in Env
        /\ Right(r, sk, n, env) <=> \A d \in Domain : Right(r, sk, Operands[n][1], At(n, env, d))
    BY <1>5, <1>10, RightUniversal
  <2>2. PICK d \in Domain : At(n, env, d) \notin Outcome(r, sk)[Operands[n][1]]
    BY <1>4, <1>5, <2>1, OutcomeIs
  <2>3. Agrees(At(n, env, d), other, entry[Operands[n][1]].univ)
    BY <1>4, <1>5, <2>1, AgreesUnder
  <2> QED
    BY <1>4, <1>6, <2>1, <2>2, <2>3
<1>11. CASE Connective[n] \in Quantifiers /\ ~IsUniversal(n)
  <2>1. /\ DOMAIN Operands[n] = {1} /\ result[n] = "operand" /\ n \in Existentials
        /\ entry[Operands[n][1]].univ = entry[n].univ
        /\ Serves(r, sk, other, n) /\ Agrees(env, other, entry[n].univ) =>
             (Right(r, sk, n, env) => Right(r, sk, Operands[n][1], env))
    BY <1>5, <1>11, RightExistential
  <2>2. env \notin Outcome(r, sk)[Operands[n][1]]
    BY <1>4, <1>5, <2>1, OutcomeIs
  <2> QED
    BY <1>4, <1>6, <2>1, <2>2
<1> QED
  BY <1>5, <1>7, <1>8, <1>9, <1>10, <1>11, NodeKinds

(***************************************************************************)
(* From the nodes to the formulas: there are Skolem functions to serve every *)
(* environment.                                                            *)
(***************************************************************************)
Witnessed ==
    PositiveUniversals /\ VariablesApart =>
      \A r \in Structures, other \in Env :
        \E sk \in Interpretations : \A n \in Existentials : Serves(r, sk, other, n)

\* A formula is in a positive place, in no scope and without substitution.
LEMMA RightRoot ==
    ASSUME WalkTypes, WalkOrder, NEW r \in Structures, NEW sk \in Interpretations, NEW f \in assertions, NEW env \in Env
    PROVE  /\ f \in DOMAIN entry /\ Agrees(env, env, entry[f].univ)
           /\ Right(r, sk, f, env) <=> env \in Truth(r)[f]
<1>1. f \in DOMAIN entry /\ entry[f] = Start(f)
  BY DEF WalkTypes, WalkOrder
<1>2. entry[f].theta = <<>> /\ entry[f].positive = TRUE
  BY <1>1 DEF Start
<1>3. Substituted(<<>>, sk, env) = env
  BY DEF Substituted, Env
<1> QED
  BY <1>1, <1>2, <1>3, RightIs DEF Agrees

\* With Skolem functions to serve every environment, the formulas keep their meaning.
LEMMA WitnessedPreserves ==
    ASSUME WalkTypes, WalkOrder, Linked, TermsBound, Witnessed
    PROVE  MeaningPreserved
<1> SUFFICES ASSUME PositiveUniversals, VariablesApart, NotRebound, stack = <<>>, NEW r \in Structures
             PROVE  Models(Truth(r)) = UNION {Models(Outcome(r, sk)) : sk \in Interpretations}
  BY DEF MeaningPreserved, Preserved
<1>1. DOMAIN result = DOMAIN entry
  BY ReadableResult
<1>2. ASSUME NEW holds, NEW env
      PROVE  env \in Models(holds) <=> env \in Env /\ \A f \in assertions : env \in holds[f]
  BY DEF Models, Common
<1>3. ASSUME NEW env \in Models(Truth(r))
      PROVE  \E sk \in Interpretations : env \in Models(Outcome(r, sk))
  <2>1. env \in Env /\ \A f \in assertions : env \in Truth(r)[f]
    BY <1>2
  <2>2. PICK sk \in Interpretations : \A n \in Existentials : Serves(r, sk, env, n)
    BY <2>1 DEF Witnessed
  <2>3. ASSUME NEW f \in assertions
        PROVE  env \in Outcome(r, sk)[f]
    <3>1. f \in DOMAIN result /\ Agrees(env, env, entry[f].univ) /\ Right(r, sk, f, env)
      BY <1>1, <2>1, RightRoot
    <3> QED
      BY <2>1, <2>2, <3>1, ResultComplete
  <2> QED
    BY <1>2, <2>1, <2>3
<1>4. ASSUME NEW sk \in Interpretations, NEW env \in Models(Outcome(r, sk))
      PROVE  env \in Models(Truth(r))
  <2>1. env \in Env /\ \A f \in assertions : env \in Outcome(r, sk)[f]
    BY <1>2
  <2>2. ASSUME NEW f \in assertions
        PROVE  env \in Truth(r)[f]
    <3>1. f \in DOMAIN result /\ (Right(r, sk, f, env) <=> env \in Truth(r)[f])
      BY <1>1, <2>1, RightRoot
    <3> QED
      BY <2>1, <3>1, ResultSound
  <2> QED
    BY <1>2, <2>1, <2>2
<1> QED
  BY <1>3, <1>4

\* An environment is what it is outside the universal variables and in them.
LEMMA TupleDetermines ==
    ASSUME NEW univ \in Seq(Variables), NEW a \in Env, NEW b \in Env, NEW other \in Env,
           Agrees(a, other, univ), Agrees(b, other, univ), Tuple(univ, a) = Tuple(univ, b)
    PROVE  a = b
<1>1. ASSUME NEW v \in Variables
      PROVE  a[v] = b[v]
  <2>1. CASE v \in Range(univ)
    <3>1. PICK i \in DOMAIN univ : v = univ[i]
      BY <2>1, Zenon DEF Range
    <3>2. Tuple(univ, a)[i] = a[v] /\ Tuple(univ, b)[i] = b[v]
      BY <3>1 DEF Tuple
    <3> QED
      BY <3>2
  <2>2. CASE v \notin Range(univ)
    BY <2>2 DEF Agrees
  <2> QED
    BY <2>1, <2>2
<1> QED
  BY <1>1 DEF Env

\* Functions for symbols that are not made yet make no difference.
LEMMA SubstitutedSame ==
    ASSUME TermsBound, NEW m \in DOMAIN entry, NEW sk, NEW sk2, \A y \in Symbols : sk2[y] = sk[y], NEW env
    PROVE  Substituted(entry[m].theta, sk2, env) = Substituted(entry[m].theta, sk, env)
<1>1. \A v \in DOMAIN entry[m].theta : sk2[entry[m].theta[v].symbol] = sk[entry[m].theta[v].symbol]
  BY DEF TermsBound
<1> QED
  BY <1>1 DEF Substituted

\* A new Skolem function can be chosen to serve its quantifier.
LEMMA FunctionExists ==
    ASSUME WalkTypes, TermsBound, NEW n \in DOMAIN entry, Connective[n] = "exists",
           NEW r \in Structures, NEW sk \in Interpretations, NEW other \in Env
    PROVE  \E f \in [[1 .. Len(entry[n].univ) -> Domain] -> Domain] :
             \A env \in Env :
               LET s == Substituted(entry[n].theta, sk, env)
               IN  Agrees(env, other, entry[n].univ) /\ s \in Truth(r)[n] =>
                     At(n, s, f[Tuple(entry[n].univ, env)]) \in Truth(r)[Operands[n][1]]
<1> DEFINE s(env) == Substituted(entry[n].theta, sk, env)
           univ == entry[n].univ
           Asked(env) == Agrees(env, other, univ) /\ s(env) \in Truth(r)[n]
           Gives(a, d) == \A env \in Env : Asked(env) /\ Tuple(univ, env) = a => At(n, s(env), d) \in Truth(r)[Operands[n][1]]
           f == [a \in [1 .. Len(univ) -> Domain] |-> CHOOSE d \in Domain : Gives(a, d)]
<1>1. n \in Nodes /\ univ \in Seq(Variables)
  BY EntryFacts DEF WalkTypes
<1>2. ASSUME NEW env \in Env, Asked(env)
      PROVE  \E d \in Domain : At(n, s(env), d) \in Truth(r)[Operands[n][1]]
  <2>1. s(env) \in Env
    BY SubstitutedFacts
  <2> QED
    BY <1>1, <1>2, <2>1, TruthIs
<1>3. ASSUME NEW env \in Env, NEW e \in Env, Asked(env), Asked(e), Tuple(univ, env) = Tuple(univ, e)
      PROVE  env = e
  BY <1>1, <1>3, TupleDetermines
<1> HIDE DEF s, univ, Asked
<1>4. ASSUME NEW a \in [1 .. Len(univ) -> Domain]
      PROVE  \E d \in Domain : Gives(a, d)
  <2>1. CASE \E e \in Env : Asked(e) /\ Tuple(univ, e) = a
    <3>1. PICK e \in Env : Asked(e) /\ Tuple(univ, e) = a
      BY <2>1
    <3>2. PICK d \in Domain : At(n, s(e), d) \in Truth(r)[Operands[n][1]]
      BY <1>2, <3>1
    <3>3. \A env \in Env : Asked(env) /\ Tuple(univ, env) = a => env = e
      BY <1>3, <3>1
    <3>4. Gives(a, d)
      BY <3>2, <3>3
    <3> QED
      BY <3>4
  <2>2. CASE ~ \E e \in Env : Asked(e) /\ Tuple(univ, e) = a
    BY <2>2, SkolemizerAssumption
  <2> QED
    BY <2>1, <2>2
<1> HIDE DEF Gives
<1>5. \A a \in [1 .. Len(univ) -> Domain] : f[a] \in Domain /\ Gives(a, f[a])
  BY <1>4
<1>6. f \in [[1 .. Len(univ) -> Domain] -> Domain]
  BY <1>5
<1> HIDE DEF f
<1>7. ASSUME NEW env \in Env, Asked(env)
      PROVE  At(n, s(env), f[Tuple(univ, env)]) \in Truth(r)[Operands[n][1]]
  <2>1. PICK a : a = Tuple(univ, env)
    OBVIOUS
  <2>2. a \in [1 .. Len(univ) -> Domain]
    BY <1>1, <2>1, TupleFacts
  <2>3. Gives(a, f[a])
    BY <1>5, <2>2
  <2> QED
    BY <1>7, <2>1, <2>3 DEF Gives
<1> QED
  BY <1>6, <1>7 DEF s, univ, Asked

\* A visit keeps the choice of functions, or adds one for a symbol that no quantifier had.
LEMMA WitnessedVisit ==
    ASSUME WalkTypes, WalkOrder, Linked, Names, TermsBound, Witnessed, Visit
    PROVE  Witnessed'
<1>0. PICK n : n = Head(stack)
  OBVIOUS
<1>1. /\ stack # <<>> /\ n \in Nodes /\ n \in DOMAIN entry /\ n \notin DOMAIN result
      /\ DOMAIN entry' = DOMAIN entry \cup Range(Operands[n])
      /\ \A m \in DOMAIN entry : entry'[m] = entry[m]
      /\ Passes(n) \/ Makes(n)
  BY <1>0, VisitTerms
<1>2. /\ \A m \in Existentials : m # n /\ m \in Existentials' /\ entry'[m] = entry[m] /\ TermOf(m)' = TermOf(m)
      /\ \A m \in Existentials' : m \in Existentials \/ m = n
      /\ Makes(n) => TermOf(n)' = SkolemTerm(counter + 1, Binds[n], entry[n].univ)
  BY <1>0, TermsKept
<1>3. n \in Range(stack)
  BY <1>0, <1>1, HeadFacts
<1>4. entry[n] \in Entries /\ entry[n].univ \in Seq(Variables) /\ DOMAIN entry[n].theta \subseteq Variables /\ Binds[n] \in Variables
  <2>1. entry[n] \in Entries /\ entry[n].univ \in Seq(Variables) /\ entry[n].theta \in Thetas
    BY <1>1, EntryFacts DEF WalkTypes
  <2>2. DOMAIN entry[n].theta \subseteq Variables
    BY <2>1 DEF Thetas
  <2> QED
    BY <1>1, <2>1, <2>2, SkolemizerAssumption
<1>5. \A m \in Existentials : /\ m \in DOMAIN entry /\ Operands[m][1] \in DOMAIN entry
                              /\ entry'[Operands[m][1]] = entry[Operands[m][1]]
  BY <1>1, TermFacts
<1>6. SUFFICES ASSUME PositiveUniversals', VariablesApart', NEW r \in Structures, NEW other \in Env
               PROVE  \E sk \in Interpretations' : \A m \in Existentials' : Serves(r, sk, other, m)'
  BY DEF Witnessed
<1>7. PositiveUniversals /\ VariablesApart
  BY <1>2, <1>6 DEF PositiveUniversals, VariablesApart
<1>8. PICK sk \in Interpretations : \A m \in Existentials : Serves(r, sk, other, m)
  BY <1>6, <1>7 DEF Witnessed
<1>9. CASE Passes(n)
  <2>1. Existentials' = Existentials
    BY <1>2, <1>9 DEF Passes
  <2>2. Symbols' = Symbols
    <3>1. \A m \in Existentials : TermOf(m)'.symbol = TermOf(m).symbol
      BY <1>2
    <3> QED
      BY <2>1, <3>1 DEF Symbols
  <2>3. Interpretations' = Interpretations
    BY <2>2 DEF Interpretations
  <2>4. \A m \in Existentials : Serves(r, sk, other, m)'
    BY <1>2, <1>5, <1>8 DEF Serves
  <2> QED
    BY <2>1, <2>3, <2>4
<1>10. CASE Makes(n)
  <2>1. n \in Existentials' /\ DOMAIN Operands[n] = {1} /\ entry'[Operands[n][1]] = ExistentialEntry(n, counter + 1)
    BY <1>10 DEF Makes
  <2>2. PICK y : y = <<counter + 1, Binds[n], Len(entry[n].univ)>>
    OBVIOUS
  <2>3. PICK term : term = SkolemTerm(counter + 1, Binds[n], entry[n].univ)
    OBVIOUS
  <2>4. term.symbol = y /\ term.args = entry[n].univ /\ TermOf(n)' = term /\ y[3] = Len(entry[n].univ)
    BY <1>2, <1>10, <2>2, <2>3 DEF SkolemTerm
  <2>5. \A m \in Existentials : TermOf(m).symbol # y
    <3>1. SUFFICES ASSUME NEW m \in Existentials, TermOf(m).symbol = y
                   PROVE  FALSE
      OBVIOUS
    <3>2. Number(m) \in Nat /\ TermOf(m).symbol = <<Number(m), Binds[m], Len(entry[m].univ)>>
      BY TermFacts
    <3>3. PICK k : k = Number(m)
      OBVIOUS
    <3>4. k = counter + 1 /\ k \in Nat /\ Binds[m] = Binds[n]
      BY <2>2, <3>1, <3>2, <3>3
    <3>5. entry'[m].formula = entry'[n].formula
      BY <1>2, <1>6, <2>1, <3>4 DEF VariablesApart
    <3>6. entry[m].formula = entry[n].formula
      BY <1>1, <1>2, <3>5
    <3>7. k <= counter /\ counter \in Nat
      BY <1>3, <3>3, <3>6 DEF Names, WalkTypes
    <3> QED
      BY <3>4, <3>7
  <2>6. Symbols' = Symbols \cup {y} /\ y \notin Symbols
    <3>1. \A m \in Existentials : TermOf(m)'.symbol = TermOf(m).symbol
      BY <1>2
    <3>2. Existentials' = Existentials \cup {n}
      BY <1>2, <2>1
    <3>3. TermOf(n)'.symbol = y
      BY <2>4
    <3>4. Symbols' = {TermOf(m)'.symbol : m \in Existentials'}
      BY DEF Symbols
    <3>5. Symbols' = Symbols \cup {y}
      BY <3>1, <3>2, <3>3, <3>4 DEF Symbols
    <3> QED
      BY <2>5, <3>5 DEF Symbols
  <2>7. Connective[n] = "exists"
    BY <1>6, <2>1 DEF PositiveUniversals
  <2>8. PICK f \in [[1 .. Len(entry[n].univ) -> Domain] -> Domain] :
             \A env \in Env :
               LET s == Substituted(entry[n].theta, sk, env)
               IN  Agrees(env, other, entry[n].univ) /\ s \in Truth(r)[n] =>
                     At(n, s, f[Tuple(entry[n].univ, env)]) \in Truth(r)[Operands[n][1]]
    BY <1>1, <1>6, <2>7, FunctionExists
  <2>16. PICK new : new = [x \in Symbols \cup {y} |-> IF x = y THEN f ELSE sk[x]]
    OBVIOUS
  <2>9. new[y] = f /\ \A x \in Symbols : new[x] = sk[x]
    BY <2>6, <2>16
  <2>10. DOMAIN new = Symbols \cup {y} /\ new = [x \in Symbols \cup {y} |-> new[x]]
    BY <2>16
  <2>11. new \in Interpretations'
    <3>1. f \in Mappings(y)
      BY <2>4, <2>8 DEF Mappings
    <3>2. \A x \in Symbols : sk[x] \in Mappings(x)
      BY DEF Interpretations
    <3>3. \A x \in Symbols \cup {y} : new[x] \in Mappings(x)
      BY <2>9, <3>1, <3>2
    <3>4. new \in [Symbols \cup {y} -> UNION {Mappings(x) : x \in Symbols \cup {y}}]
      BY <2>10, <3>3
    <3>5. Interpretations' = {g \in [Symbols' -> UNION {Mappings(x) : x \in Symbols'}] : \A x \in Symbols' : g[x] \in Mappings(x)}
      BY DEF Interpretations, Mappings
    <3> QED
      BY <2>6, <3>3, <3>4, <3>5
  <2>12. \A m \in DOMAIN entry : \A env : Substituted(entry[m].theta, new, env) = Substituted(entry[m].theta, sk, env)
    BY <2>9, SubstitutedSame
  <2>13. ASSUME NEW m \in Existentials
         PROVE  Serves(r, new, other, m)'
    <3>1. Serves(r, sk, other, m) /\ m \in DOMAIN entry /\ Operands[m][1] \in DOMAIN entry
      BY <1>5, <1>8
    <3>2. Serves(r, new, other, m)
      BY <2>12, <3>1 DEF Serves
    <3> QED
      BY <1>2, <1>5, <3>2 DEF Serves
  <2>14. ASSUME NEW env \in Env
         PROVE  Substituted(entry'[Operands[n][1]].theta, new, env)
                  = At(n, Substituted(entry[n].theta, sk, env), f[Tuple(entry[n].univ, env)])
    <3>1. entry'[Operands[n][1]].theta = WithTerm(n, counter + 1)
      BY <1>4, <2>1, FormulaKept DEF ExistentialEntry
    <3>2. WithTerm(n, counter + 1) = [x \in DOMAIN entry[n].theta \cup {Binds[n]} |->
                                        IF x = Binds[n] THEN term ELSE entry[n].theta[x]]
      BY <2>3 DEF WithTerm
    <3>3. Substituted(entry'[Operands[n][1]].theta, new, env)
            = [Substituted(entry[n].theta, new, env) EXCEPT ![Binds[n]] = new[term.symbol][Tuple(term.args, env)]]
      <4>1. PICK theta, wider : theta = entry[n].theta /\ wider = entry'[Operands[n][1]].theta
        OBVIOUS
      <4>2. wider = [x \in DOMAIN theta \cup {Binds[n]} |-> IF x = Binds[n] THEN term ELSE theta[x]]
        BY <3>1, <3>2, <4>1
      <4>3. DOMAIN theta \subseteq Variables /\ Binds[n] \in Variables
        BY <1>4, <4>1
      <4>4. Substituted(wider, new, env)
              = [Substituted(theta, new, env) EXCEPT ![Binds[n]] = new[term.symbol][Tuple(term.args, env)]]
        BY <4>2, <4>3 DEF Substituted, Tuple
      <4> QED
        BY <4>1, <4>4
    <3> QED
      BY <1>1, <2>4, <2>9, <2>12, <3>3 DEF At
  <2>15. Serves(r, new, other, n)'
    <3>1. entry'[n] = entry[n]
      BY <1>1
    <3>2. ASSUME NEW env \in Env, Agrees(env, other, entry[n].univ), Substituted(entry[n].theta, new, env) \in Truth(r)[n]
          PROVE  Substituted(entry'[Operands[n][1]].theta, new, env) \in Truth(r)[Operands[n][1]]
      <4>1. Substituted(entry[n].theta, sk, env) \in Truth(r)[n]
        BY <1>1, <2>12, <3>2
      <4> QED
        BY <2>8, <2>14, <3>2, <4>1
    <3> QED
      BY <3>1, <3>2 DEF Serves
  <2> QED
    BY <1>2, <2>11, <2>13, <2>15
<1> QED
  BY <1>1, <1>9, <1>10

(***************************************************************************)
(* The inductive invariant, and what it gives.                             *)
(***************************************************************************)
SkolemInv == WalkTypes /\ WalkOrder /\ Linked /\ Names /\ TermsBound /\ Witnessed

\* The invariant holds at first.
LEMMA SkolemInitInv ==
    ASSUME SkolemInit
    PROVE  SkolemInv
<1>1. assertions = {} /\ counter = 0 /\ stack = <<>> /\ entry = <<>> /\ result = <<>>
  BY DEF SkolemInit
<1>2. DOMAIN entry = {} /\ DOMAIN result = {} /\ DOMAIN stack = {} /\ Range(stack) = {}
  BY <1>1 DEF Range
<1>3. WalkTypes
  BY <1>1, <1>2, FS_EmptySet DEF WalkTypes
<1>4. \A n \in Nodes : \A i \in DOMAIN Operands[n] : Operands[n][i] \notin DOMAIN entry
  BY <1>2
<1>5. WalkOrder
  BY <1>1, <1>2, <1>4 DEF WalkOrder
<1>6. Existentials = {} /\ Symbols = {}
  BY <1>2 DEF Existentials, Symbols
<1>7. Linked /\ Names /\ TermsBound
  BY <1>2, <1>6 DEF Linked, Names, TermsBound
<1>8. Witnessed
  <2>1. PICK sk : sk = [y \in {} |-> {}]
    OBVIOUS
  <2>2. sk \in Interpretations
    BY <1>6, <2>1 DEF Interpretations
  <2> QED
    BY <1>6, <2>2 DEF Witnessed
<1> QED
  BY <1>3, <1>5, <1>7, <1>8 DEF SkolemInv

\* It holds when a formula is added: nothing of it was met before.
LEMMA FormulaInv ==
    ASSUME SkolemInv, NEW f \in Roots, SkolemizeFormula(f)
    PROVE  SkolemInv'
<1>0. WalkTypes /\ WalkOrder /\ Linked /\ Names /\ TermsBound /\ Witnessed
  BY DEF SkolemInv
<1>1. /\ stack = <<>> /\ f \notin assertions
      /\ assertions' = assertions \cup {f} /\ counter' = 0 /\ stack' = <<f>>
      /\ entry' = [n \in DOMAIN entry \cup {f} |-> IF n = f THEN Start(f) ELSE entry[n]]
      /\ result' = result
  BY DEF SkolemizeFormula
<1>2. f \in Nodes /\ f \notin DOMAIN entry
  BY <1>0, <1>1, SkolemizerAssumption DEF WalkOrder
<1>3. /\ DOMAIN entry' = DOMAIN entry \cup {f} /\ entry'[f] = Start(f)
      /\ \A n \in DOMAIN entry : entry'[n] = entry[n]
  BY <1>1, <1>2
<1>4. DOMAIN stack' = {1} /\ stack'[1] = f /\ Range(stack') = {f} /\ stack' \in Seq(Nodes)
  <2>1. stack' \in Seq(Nodes) /\ Len(stack') = 1 /\ stack'[1] = f
    BY <1>1, <1>2
  <2>2. DOMAIN stack' = {1}
    BY <2>1
  <2>3. Range(stack') = {f}
    BY <2>1, <2>2 DEF Range
  <2> QED
    BY <2>1, <2>2, <2>3
<1>5. DOMAIN entry = DOMAIN result
  <2>1. Range(stack) = {}
    BY <1>1 DEF Range
  <2> QED
    BY <1>0, <2>1 DEF WalkOrder
<1>6. WalkTypes'
  <2>1. assertions' \subseteq Roots /\ IsFiniteSet(assertions')
    BY <1>0, <1>1, FS_AddElement DEF WalkTypes
  <2>2. Start(f) \in Entries'
    <3>1. <<>> \in Thetas
      <4>1. <<>> \in [{} -> AllTerms]
        OBVIOUS
      <4> QED
        BY <4>1 DEF Thetas
    <3>2. <<>> \in Seq(Variables)
      OBVIOUS
    <3>3. f \in assertions'
      BY <1>1
    <3>4. Entries' = [formula : assertions', positive : BOOLEAN, univ : Seq(Variables), theta : Thetas]
      BY DEF Entries, Thetas, AllTerms
    <3> QED
      BY <3>1, <3>2, <3>3, <3>4 DEF Start
  <2>3. ASSUME NEW n \in DOMAIN entry
        PROVE  n \in Nodes /\ entry'[n] \in Entries'
    <3>1. n \in Nodes /\ entry[n] \in Entries
      BY <1>0 DEF WalkTypes
    <3>2. entry[n] \in Entries'
      BY <1>1, <3>1 DEF Entries, Thetas, AllTerms
    <3> QED
      BY <1>3, <3>1, <3>2
  <2>4. DOMAIN entry' \subseteq Nodes /\ \A n \in DOMAIN entry' : entry'[n] \in Entries'
    BY <1>2, <1>3, <2>2, <2>3
  <2> QED
    BY <1>1, <1>4, <2>1, <2>4 DEF WalkTypes
<1>7. WalkOrder'
  <2>1. DOMAIN entry' = Range(stack') \cup DOMAIN result'
    BY <1>1, <1>3, <1>4, <1>5
  <2>2. /\ \A i \in DOMAIN stack' : stack'[i] \notin DOMAIN result'
        /\ \A i, j \in DOMAIN stack' : stack'[i] = stack'[j] => i = j
    BY <1>1, <1>2, <1>4, <1>5
  <2>3. \A n \in DOMAIN result' : \A i \in DOMAIN Operands[n] : Operands[n][i] \in DOMAIN entry'
    BY <1>0, <1>1, <1>3 DEF WalkOrder
  <2>4. ASSUME NEW n \in Nodes, NEW i \in DOMAIN Operands[n], Operands[n][i] \in DOMAIN entry'
        PROVE  n \in DOMAIN result'
    <3>1. Operands[n][i] \notin Roots
      BY OperandFacts
    <3>2. Operands[n][i] \in DOMAIN entry
      BY <1>3, <2>4, <3>1
    <3> QED
      BY <1>0, <1>1, <3>2 DEF WalkOrder
  <2>5. \A g \in Roots : g \in DOMAIN entry' <=> g \in assertions'
    BY <1>0, <1>1, <1>3 DEF WalkOrder
  <2>6. \A g \in assertions' : entry'[g] = Start(g)
    <3>1. \A g \in assertions : g \in DOMAIN entry /\ entry[g] = Start(g)
      BY <1>0 DEF WalkTypes, WalkOrder
    <3> QED
      BY <1>1, <1>3, <3>1
  <2> QED
    BY <2>1, <2>2, <2>3, <2>4, <2>5, <2>6 DEF WalkOrder
<1>8. Linked'
  <2>1. ASSUME NEW n \in DOMAIN result
        PROVE  Link(n)'
    <3>1. n \in Nodes /\ n \in DOMAIN entry /\ \A i \in DOMAIN Operands[n] : Operands[n][i] \in DOMAIN entry
      BY <1>0 DEF WalkTypes, WalkOrder
    <3>2. result'[n] = result[n] /\ entry'[n] = entry[n] /\ Link(n)
      BY <1>0, <1>1, <1>3, <3>1 DEF Linked
    <3>3. \A i \in DOMAIN Operands[n] : entry'[Operands[n][i]] = entry[Operands[n][i]]
      BY <1>3, <3>1
    <3> QED
      BY <3>1, <3>2, <3>3, LinkKept
  <2> QED
    BY <1>1, <2>1 DEF Linked
<1>9. Existentials' = Existentials
  BY <1>1 DEF Existentials
<1>10. ASSUME NEW n \in Existentials
       PROVE  /\ n \in DOMAIN entry /\ entry'[n] = entry[n] /\ entry[n].formula \in assertions
              /\ entry'[Operands[n][1]] = entry[Operands[n][1]] /\ TermOf(n)' = TermOf(n)
  <2>1. n \in DOMAIN entry /\ Operands[n][1] \in DOMAIN entry
    BY <1>0, TermFacts
  <2>2. entry[n].formula \in assertions
    BY <1>0, <2>1, EntryFacts DEF WalkTypes
  <2>3. entry'[n] = entry[n] /\ entry'[Operands[n][1]] = entry[Operands[n][1]]
    BY <1>3, <2>1
  <2>4. TermOf(n)' = TermOf(n)
    BY <2>3 DEF TermOf
  <2> QED
    BY <2>1, <2>2, <2>3, <2>4
<1>11. Names'
  <2>1. entry'[f].formula = f
    BY <1>3 DEF Start
  <2>2. \A n \in Existentials : entry'[n].formula # f /\ Number(n)' = Number(n)
    BY <1>1, <1>10 DEF Number
  <2>3. \A m, n \in Range(stack') : entry'[m].formula = entry'[n].formula
    BY <1>4
  <2>4. \A n \in Existentials' : \A m \in Range(stack') : entry'[m].formula = entry'[n].formula => Number(n)' <= counter'
    BY <1>4, <1>9, <2>1, <2>2
  <2>5. \A m, n \in Existentials' : entry'[m].formula = entry'[n].formula /\ Number(m)' = Number(n)' => m = n
    BY <1>0, <1>9, <1>10, <2>2 DEF Names
  <2> QED
    BY <2>3, <2>4, <2>5 DEF Names
<1>12. Symbols' = Symbols
  <2>1. \A n \in Existentials : TermOf(n)'.symbol = TermOf(n).symbol
    BY <1>10
  <2> QED
    BY <1>9, <2>1 DEF Symbols
<1>13. TermsBound'
  <2>1. entry'[f].theta = <<>>
    BY <1>3 DEF Start
  <2>2. ASSUME NEW n \in DOMAIN entry, NEW v \in DOMAIN entry'[n].theta
        PROVE  LET t == entry'[n].theta[v]
               IN  Range(t.args) \subseteq Range(entry'[n].univ) /\ t.symbol \in Symbols' /\ t.symbol[3] = Len(t.args)
    <3>1. entry'[n] = entry[n]
      BY <1>3
    <3> QED
      BY <1>0, <1>12, <2>2, <3>1 DEF TermsBound
  <2>3. DOMAIN entry'[f].theta = {}
    BY <2>1
  <2> QED
    BY <1>3, <2>2, <2>3 DEF TermsBound
<1>14. Witnessed'
  <2>1. Interpretations' = Interpretations
    BY <1>12 DEF Interpretations
  <2>2. PositiveUniversals' /\ VariablesApart' => PositiveUniversals /\ VariablesApart
    BY <1>9, <1>10 DEF PositiveUniversals, VariablesApart
  <2>3. ASSUME NEW r \in Structures, NEW other \in Env, NEW sk \in Interpretations, NEW n \in Existentials, Serves(r, sk, other, n)
        PROVE  Serves(r, sk, other, n)'
    BY <1>10, <2>3 DEF Serves
  <2>4. SUFFICES ASSUME PositiveUniversals', VariablesApart', NEW r \in Structures, NEW other \in Env
                 PROVE  \E sk \in Interpretations' : \A n \in Existentials' : Serves(r, sk, other, n)'
    BY DEF Witnessed
  <2>5. PICK sk \in Interpretations : \A n \in Existentials : Serves(r, sk, other, n)
    BY <1>0, <2>2, <2>4 DEF Witnessed
  <2> QED
    BY <1>9, <2>1, <2>3, <2>5
<1> QED
  BY <1>6, <1>7, <1>8, <1>11, <1>13, <1>14 DEF SkolemInv

\* It holds when nothing changes.
LEMMA SkolemUnchanged ==
    ASSUME SkolemInv, UNCHANGED skolemVars
    PROVE  SkolemInv'
<1>1. assertions' = assertions /\ counter' = counter /\ stack' = stack /\ entry' = entry /\ result' = result
  BY DEF skolemVars
<1>2. WalkTypes' /\ WalkOrder'
  BY <1>1 DEF SkolemInv, WalkTypes, WalkOrder, Entries, Thetas, AllTerms
<1>3. ASSUME NEW n \in DOMAIN result
      PROVE  Link(n)'
  <2>1. n \in Nodes /\ Link(n)
    BY DEF SkolemInv, WalkTypes, WalkOrder, Linked
  <2> QED
    BY <1>1, <2>1, LinkKept
<1>4. Linked'
  BY <1>1, <1>3 DEF Linked
<1>5. Existentials' = Existentials /\ \A n : TermOf(n)' = TermOf(n)
  BY <1>1 DEF Existentials, TermOf
<1>6. Symbols' = Symbols
  BY <1>5 DEF Symbols
<1>7. Names' /\ TermsBound'
  BY <1>1, <1>5, <1>6 DEF SkolemInv, Names, Number, TermsBound
<1>8. Interpretations' = Interpretations
  BY <1>6 DEF Interpretations
<1>9. \A r, sk, other, n : Serves(r, sk, other, n)' <=> Serves(r, sk, other, n)
  BY <1>1 DEF Serves
<1>10. (PositiveUniversals' <=> PositiveUniversals) /\ (VariablesApart' <=> VariablesApart)
  BY <1>1, <1>5 DEF PositiveUniversals, VariablesApart
<1>11. Witnessed'
  BY <1>5, <1>8, <1>9, <1>10, Zenon DEF SkolemInv, Witnessed
<1> QED
  BY <1>2, <1>4, <1>7, <1>11 DEF SkolemInv

\* An environment of a structure satisfies the formulas exactly when it satisfies what they became
\* under some choice of the Skolem functions, whatever the formulas and the structures are.
THEOREM SkolemizingPreserves == SkolemSpec => []MeaningPreserved
<1>1. SkolemInit => SkolemInv
  BY SkolemInitInv
<1>2. SkolemInv /\ [SkolemNext]_skolemVars => SkolemInv'
  <2> SUFFICES ASSUME SkolemInv, [SkolemNext]_skolemVars
               PROVE  SkolemInv'
    OBVIOUS
  <2>1. CASE Visit
    <3>1. WalkTypes /\ WalkOrder /\ Linked /\ Names /\ TermsBound /\ Witnessed
      BY DEF SkolemInv
    <3> QED
      BY <2>1, <3>1, VisitWalks, LinkedVisit, NamesVisit, TermsVisit, WitnessedVisit DEF SkolemInv
  <2>2. ASSUME NEW f \in Roots, SkolemizeFormula(f)
        PROVE  SkolemInv'
    BY <2>2, FormulaInv
  <2>3. CASE UNCHANGED skolemVars
    BY <2>3, SkolemUnchanged
  <2> QED
    BY <2>1, <2>2, <2>3 DEF SkolemNext
<1>3. SkolemInv => MeaningPreserved
  BY WitnessedPreserves DEF SkolemInv
<1> QED
  BY <1>1, <1>2, <1>3, PTL DEF SkolemSpec
================================================================================
