--------------------------- MODULE RevisionProofs ---------------------------
(***************************************************************************)
(* Proofs about revisions, for any number of records, any policy, any limit  *)
(* and any budget of checks.                                               *)
(*                                                                         *)
(* The cost order of RevisionOrder and the generator of RevisionSearch: no  *)
(* omission is lost, none is met twice, and the cheapest comes first.       *)
(*                                                                         *)
(* propose_revision, in Proposal: what is proposed was verified, it is the  *)
(* unique cheapest repair, nothing is given up while a repair is left, and  *)
(* a deferral has a reason.                                                *)
(***************************************************************************)
EXTENDS Proposal, FiniteSetTheorems, SequenceTheorems, WellFoundedInduction, TLAPS

(***************************************************************************)
(* The order: it is reflexive and transitive, omitting more costs at least  *)
(* as much, and so does replacing an omitted record by one that sorts      *)
(* after it.                                                               *)
(***************************************************************************)

(* The counts that make up a rank are natural numbers.                     *)
LEMMA CountsAreNat ==
    ASSUME NEW keys, NEW S, IsFiniteSet(S)
    PROVE  /\ \A p \in Priorities :
                 IsFiniteSet(Layer(keys, S, p)) /\ CountIn(keys, S, p) \in Nat
           /\ \A p \in Priorities, c \in Confidences :
                 IsFiniteSet(LayerAt(keys, S, p, c)) /\ CountAt(keys, S, p, c) \in Nat
<1>1. ASSUME NEW p \in Priorities
      PROVE  IsFiniteSet(Layer(keys, S, p)) /\ CountIn(keys, S, p) \in Nat
  <2>1. Layer(keys, S, p) \subseteq S  BY DEF Layer
  <2> QED  BY <2>1, FS_Subset, FS_CardinalityType DEF CountIn
<1>2. ASSUME NEW p \in Priorities, NEW c \in Confidences
      PROVE  IsFiniteSet(LayerAt(keys, S, p, c)) /\ CountAt(keys, S, p, c) \in Nat
  <2>1. LayerAt(keys, S, p, c) \subseteq S  BY DEF LayerAt
  <2> QED  BY <2>1, FS_Subset, FS_CardinalityType DEF CountAt
<1> QED  BY <1>1, <1>2

(* A nonempty set of naturals has a least element.                         *)
LEMMA LeastNatural ==
    ASSUME NEW N, N \subseteq Nat, N # {}
    PROVE  \E n \in N : \A m \in N : n <= m
<1> DEFINE Less == {ss \in Nat \X Nat : ss[1] < ss[2]}
<1>1. IsWellFoundedOn(Less, Nat)
  BY NatLessThanWellFounded DEF OpToRel
<1>2. PICK n \in N : \A m \in N : ~(<<m, n>> \in Less)
  <2> HIDE DEF Less
  <2> QED  BY <1>1, WFMin
<1>3. ASSUME NEW m \in N PROVE n <= m
  <2>1. ~(m < n)  BY <1>2
  <2> QED  BY <2>1
<1> QED  BY <1>3

(* A set of omissions costs no more than itself.                           *)
LEMMA RankReflexive ==
    ASSUME NEW keys, NEW S
    PROVE  RankLeq(keys, S, S)
BY DEF RankLeq, RankEqual, SameCounts

(* The lexicographic order of the layer counts is transitive.              *)
LEMMA FewerTransitive ==
    ASSUME NEW keys, NEW A, NEW B, NEW C,
           IsFiniteSet(A), IsFiniteSet(B), IsFiniteSet(C),
           FewerInLayers(keys, A, B), FewerInLayers(keys, B, C)
    PROVE  FewerInLayers(keys, A, C)
<1> DEFINE a(p) == CountIn(keys, A, p)
           b(p) == CountIn(keys, B, p)
           c(p) == CountIn(keys, C, p)
<1>1. \A p \in Priorities : a(p) \in Nat /\ b(p) \in Nat /\ c(p) \in Nat
  BY CountsAreNat
<1>2. PICK p \in Priorities : a(p) < b(p) /\ \A q \in Priorities : q > p => a(q) = b(q)
  BY DEF FewerInLayers
<1>3. PICK r \in Priorities : b(r) < c(r) /\ \A q \in Priorities : q > r => b(q) = c(q)
  BY DEF FewerInLayers
<1>4. p \in Int /\ r \in Int /\ Priorities \subseteq Int
  BY LevelsAssumption DEF Priorities
<1> HIDE DEF a, b, c
<1>5. \E m \in Priorities : a(m) < c(m) /\ \A q \in Priorities : q > m => a(q) = c(q)
  <2>1. CASE p <= r
    <3>1. a(r) <= b(r)  BY <1>1, <1>2, <1>4, <2>1
    <3>2. \A q \in Priorities : q > r => a(q) = c(q)  BY <1>2, <1>3, <1>4, <2>1
    <3> QED  BY <1>1, <1>3, <3>1, <3>2
  <2>2. CASE r < p
    <3>1. b(p) = c(p)  BY <1>3, <2>2
    <3>2. \A q \in Priorities : q > p => a(q) = c(q)  BY <1>2, <1>3, <1>4, <2>2
    <3> QED  BY <1>1, <1>2, <3>1, <3>2
  <2> QED  BY <1>4, <2>1, <2>2
<1> QED  BY <1>5 DEF FewerInLayers, a, c

(* The lexicographic order of the confidence counts is transitive.         *)
LEMMA LowerTransitive ==
    ASSUME NEW keys, NEW A, NEW B, NEW C,
           IsFiniteSet(A), IsFiniteSet(B), IsFiniteSet(C),
           LowerConfidences(keys, A, B), LowerConfidences(keys, B, C)
    PROVE  LowerConfidences(keys, A, C)
<1> DEFINE K(p, x) == [pri |-> p, conf |-> x]
           a(p, x) == CountAt(keys, A, p, x)
           b(p, x) == CountAt(keys, B, p, x)
           c(p, x) == CountAt(keys, C, p, x)
<1>1. \A p \in Priorities, x \in Confidences :
          a(p, x) \in Nat /\ b(p, x) \in Nat /\ c(p, x) \in Nat
  BY CountsAreNat
<1>2. PICK p \in Priorities, x \in Confidences :
          /\ a(p, x) < b(p, x)
          /\ \A q \in Priorities, y \in Confidences :
                KeyLess(K(p, x), K(q, y)) => a(q, y) = b(q, y)
  BY DEF LowerConfidences
<1>3. PICK r \in Priorities, z \in Confidences :
          /\ b(r, z) < c(r, z)
          /\ \A q \in Priorities, y \in Confidences :
                KeyLess(K(r, z), K(q, y)) => b(q, y) = c(q, y)
  BY DEF LowerConfidences
<1>4. Priorities \subseteq Int /\ Confidences \subseteq Int
  BY LevelsAssumption DEF Priorities, Confidences
<1> DEFINE Before(q, y, s, t) == q < s \/ (q = s /\ y < t)
<1>5. \A q, y, s, t : KeyLess(K(q, y), K(s, t)) <=> Before(q, y, s, t)
  BY DEF KeyLess
<1> HIDE DEF a, b, c, K
<1>6. \E m \in Priorities, n \in Confidences :
          /\ a(m, n) < c(m, n)
          /\ \A q \in Priorities, y \in Confidences :
                Before(m, n, q, y) => a(q, y) = c(q, y)
  <2>1. CASE Before(r, z, p, x)
    <3>1. b(p, x) = c(p, x)  BY <1>3, <1>5, <2>1
    <3>2. ASSUME NEW q \in Priorities, NEW y \in Confidences, Before(p, x, q, y)
          PROVE  a(q, y) = c(q, y)
      <4>1. Before(r, z, q, y)  BY <1>4, <2>1, <3>2
      <4> QED  BY <1>2, <1>3, <1>5, <3>2, <4>1
    <3> QED  BY <1>1, <1>2, <3>1, <3>2
  <2>2. CASE ~Before(r, z, p, x)
    <3>1. a(r, z) <= b(r, z)
      <4>1. CASE p = r /\ x = z  BY <1>1, <1>2, <4>1
      <4>2. CASE ~(p = r /\ x = z)
        <5>1. Before(p, x, r, z)  BY <1>4, <2>2, <4>2
        <5> QED  BY <1>1, <1>2, <1>5, <5>1
      <4> QED  BY <4>1, <4>2
    <3>2. ASSUME NEW q \in Priorities, NEW y \in Confidences, Before(r, z, q, y)
          PROVE  a(q, y) = c(q, y)
      <4>1. Before(p, x, q, y)  BY <1>4, <2>2, <3>2
      <4> QED  BY <1>2, <1>3, <1>5, <3>2, <4>1
    <3> QED  BY <1>1, <1>3, <3>1, <3>2
  <2> QED  BY <2>1, <2>2
<1> QED  BY <1>5, <1>6 DEF LowerConfidences, a, c, K

(* The cost order is transitive.                                           *)
LEMMA RankTransitive ==
    ASSUME NEW keys, NEW A, NEW B, NEW C,
           IsFiniteSet(A), IsFiniteSet(B), IsFiniteSet(C),
           RankLeq(keys, A, B), RankLeq(keys, B, C)
    PROVE  RankLeq(keys, A, C)
<1>1. CASE FewerInLayers(keys, A, B) /\ FewerInLayers(keys, B, C)
  BY <1>1, FewerTransitive DEF RankLeq, RankLess
<1>2. CASE FewerInLayers(keys, A, B) /\ SameCounts(keys, B, C)
  BY <1>2 DEF RankLeq, RankLess, FewerInLayers, SameCounts
<1>3. CASE SameCounts(keys, A, B) /\ FewerInLayers(keys, B, C)
  BY <1>3 DEF RankLeq, RankLess, FewerInLayers, SameCounts
<1>4. CASE SameCounts(keys, A, B) /\ SameCounts(keys, B, C)
  <2>1. SameCounts(keys, A, C)  BY <1>4 DEF SameCounts
  <2>2. CASE LowerConfidences(keys, A, B) /\ LowerConfidences(keys, B, C)
    BY <2>1, <2>2, LowerTransitive DEF RankLeq, RankLess
  <2>3. CASE LowerConfidences(keys, A, B) /\ RankEqual(keys, B, C)
    <3>1. LowerConfidences(keys, A, C)  BY <2>3 DEF LowerConfidences, RankEqual
    <3> QED  BY <2>1, <3>1 DEF RankLeq, RankLess
  <2>4. CASE RankEqual(keys, A, B) /\ LowerConfidences(keys, B, C)
    <3>1. LowerConfidences(keys, A, C)  BY <2>4 DEF LowerConfidences, RankEqual
    <3> QED  BY <2>1, <3>1 DEF RankLeq, RankLess
  <2>5. CASE RankEqual(keys, A, B) /\ RankEqual(keys, B, C)
    BY <2>1, <2>5 DEF RankLeq, RankEqual
  <2>6. CASE FewerInLayers(keys, A, B)
    BY <1>4, <2>6, <2>1 DEF RankLeq, RankLess, FewerInLayers, SameCounts
  <2>7. CASE FewerInLayers(keys, B, C)
    BY <1>4, <2>7, <2>1 DEF RankLeq, RankLess, FewerInLayers, SameCounts
  <2> QED  BY <2>2, <2>3, <2>4, <2>5, <2>6, <2>7 DEF RankLeq, RankLess
<1> QED  BY <1>1, <1>2, <1>3, <1>4 DEF RankLeq, RankLess, RankEqual

(* Counting one more record.                                               *)
LEMMA CountInAfterAdd ==
    ASSUME NEW keys, NEW S, IsFiniteSet(S), NEW r, r \notin S, NEW p \in Priorities
    PROVE  /\ CountIn(keys, S, p) \in Nat
           /\ keys[r].pri = p => CountIn(keys, S \cup {r}, p) = CountIn(keys, S, p) + 1
           /\ keys[r].pri # p => CountIn(keys, S \cup {r}, p) = CountIn(keys, S, p)
<1> DEFINE L == Layer(keys, S, p)
<1>1. IsFiniteSet(L) /\ CountIn(keys, S, p) \in Nat  BY CountsAreNat
<1>2. r \notin L  BY DEF Layer
<1>3. CASE keys[r].pri = p
  <2>1. Layer(keys, S \cup {r}, p) = L \cup {r}  BY <1>3 DEF Layer
  <2> QED  BY <1>1, <1>2, <1>3, <2>1, FS_AddElement DEF CountIn
<1>4. CASE keys[r].pri # p
  <2>1. Layer(keys, S \cup {r}, p) = L  BY <1>4 DEF Layer
  <2> QED  BY <1>1, <1>4, <2>1 DEF CountIn
<1> QED  BY <1>3, <1>4

LEMMA CountAtAfterAdd ==
    ASSUME NEW keys, NEW S, IsFiniteSet(S), NEW r, r \notin S,
           NEW p \in Priorities, NEW c \in Confidences
    PROVE  /\ CountAt(keys, S, p, c) \in Nat
           /\ keys[r].pri = p /\ keys[r].conf = c =>
                 CountAt(keys, S \cup {r}, p, c) = CountAt(keys, S, p, c) + 1
           /\ keys[r].pri # p \/ keys[r].conf # c =>
                 CountAt(keys, S \cup {r}, p, c) = CountAt(keys, S, p, c)
<1> DEFINE L == LayerAt(keys, S, p, c)
<1>1. IsFiniteSet(L) /\ CountAt(keys, S, p, c) \in Nat  BY CountsAreNat
<1>2. r \notin L  BY DEF LayerAt
<1>3. CASE keys[r].pri = p /\ keys[r].conf = c
  <2>1. LayerAt(keys, S \cup {r}, p, c) = L \cup {r}  BY <1>3 DEF LayerAt
  <2> HIDE DEF L
  <2>2. Cardinality(L \cup {r}) = Cardinality(L) + 1  BY <1>1, <1>2, FS_AddElement
  <2>3. CountAt(keys, S \cup {r}, p, c) = CountAt(keys, S, p, c) + 1
    BY <2>1, <2>2 DEF CountAt, L
  <2> QED  BY <1>1, <1>3, <2>3
<1>4. CASE keys[r].pri # p \/ keys[r].conf # c
  <2>1. LayerAt(keys, S \cup {r}, p, c) = L  BY <1>4 DEF LayerAt
  <2> QED  BY <1>1, <1>4, <2>1 DEF CountAt
<1> QED  BY <1>3, <1>4

(* Replacing an omitted record by one that does not sort before it makes    *)
(* the omission no cheaper: the first successor of a heap entry.           *)
LEMMA ExchangeNoCheaper ==
    ASSUME NEW keys, NEW S, IsFiniteSet(S), NEW x, NEW y, x \notin S, y \notin S,
           keys[x] \in Keys, keys[y] \in Keys,
           KeyLess(keys[x], keys[y]) \/ keys[x] = keys[y]
    PROVE  RankLeq(keys, S \cup {x}, S \cup {y})
<1> DEFINE P == keys[y].pri
           C == keys[y].conf
           SX == S \cup {x}
           SY == S \cup {y}
<1>1. /\ keys[x].pri \in Priorities /\ keys[x].conf \in Confidences
      /\ P \in Priorities /\ C \in Confidences
      /\ keys[x].pri \in Int /\ keys[x].conf \in Int /\ P \in Int /\ C \in Int
      /\ \A p \in Priorities : p \in Int
      /\ \A c \in Confidences : c \in Int
  BY LevelsAssumption DEF Keys, Priorities, Confidences
<1>2. ASSUME NEW p \in Priorities
      PROVE  /\ CountIn(keys, S, p) \in Nat
             /\ keys[x].pri = p => CountIn(keys, SX, p) = CountIn(keys, S, p) + 1
             /\ keys[x].pri # p => CountIn(keys, SX, p) = CountIn(keys, S, p)
             /\ P = p => CountIn(keys, SY, p) = CountIn(keys, S, p) + 1
             /\ P # p => CountIn(keys, SY, p) = CountIn(keys, S, p)
  BY CountInAfterAdd
<1>3. ASSUME NEW p \in Priorities, NEW c \in Confidences
      PROVE  /\ CountAt(keys, S, p, c) \in Nat
             /\ keys[x].pri = p /\ keys[x].conf = c =>
                   CountAt(keys, SX, p, c) = CountAt(keys, S, p, c) + 1
             /\ keys[x].pri # p \/ keys[x].conf # c =>
                   CountAt(keys, SX, p, c) = CountAt(keys, S, p, c)
             /\ P = p /\ C = c => CountAt(keys, SY, p, c) = CountAt(keys, S, p, c) + 1
             /\ P # p \/ C # c => CountAt(keys, SY, p, c) = CountAt(keys, S, p, c)
  BY CountAtAfterAdd
<1> HIDE DEF SX, SY
<1>4. CASE keys[x] = keys[y]
  <2>1. SameCounts(keys, SX, SY)
    <3> SUFFICES ASSUME NEW p \in Priorities
                 PROVE  CountIn(keys, SX, p) = CountIn(keys, SY, p)
      BY DEF SameCounts
    <3> QED  BY <1>2, <1>4
  <2>2. ASSUME NEW p \in Priorities, NEW c \in Confidences
        PROVE  CountAt(keys, SX, p, c) = CountAt(keys, SY, p, c)
    BY <1>3, <1>4
  <2> QED  BY <2>1, <2>2 DEF RankLeq, RankEqual, SX, SY
<1>5. CASE keys[x].pri < P
  <2>1. CountIn(keys, SX, P) < CountIn(keys, SY, P)
    BY <1>1, <1>2, <1>5
  <2>2. ASSUME NEW q \in Priorities, q > P
        PROVE  CountIn(keys, SX, q) = CountIn(keys, SY, q)
    <3>1. keys[x].pri # q /\ P # q  BY <1>1, <1>5, <2>2
    <3> QED  BY <1>2, <3>1
  <2> QED  BY <1>1, <2>1, <2>2 DEF RankLeq, RankLess, FewerInLayers, SX, SY
<1>6. CASE keys[x].pri = P /\ keys[x].conf < C
  <2>1. SameCounts(keys, SX, SY)
    <3> SUFFICES ASSUME NEW p \in Priorities
                 PROVE  CountIn(keys, SX, p) = CountIn(keys, SY, p)
      BY DEF SameCounts
    <3> QED  BY <1>2, <1>6
  <2>2. CountAt(keys, SX, P, C) < CountAt(keys, SY, P, C)
    <3>1. keys[x].conf # C  BY <1>1, <1>6
    <3> QED  BY <1>1, <1>3, <3>1
  <2>3. ASSUME NEW q \in Priorities, NEW d \in Confidences,
               KeyLess([pri |-> P, conf |-> C], [pri |-> q, conf |-> d])
        PROVE  CountAt(keys, SX, q, d) = CountAt(keys, SY, q, d)
    <3>1. P < q \/ (P = q /\ C < d)  BY <2>3 DEF KeyLess
    <3>2. keys[x].pri # q \/ keys[x].conf # d  BY <1>1, <1>6, <3>1
    <3>3. P # q \/ C # d  BY <1>1, <3>1
    <3> QED  BY <1>3, <3>2, <3>3
  <2>4. LowerConfidences(keys, SX, SY)
    BY <1>1, <2>2, <2>3 DEF LowerConfidences
  <2> QED  BY <2>1, <2>4 DEF RankLeq, RankLess, SX, SY
<1> QED  BY <1>4, <1>5, <1>6 DEF KeyLess

(* A nonempty set of layers has a most important one.                      *)
LEMMA MostImportantLayer ==
    ASSUME NEW Q, Q \subseteq Priorities, Q # {}
    PROVE  \E p \in Q : \A q \in Q : q <= p
<1> DEFINE D    == {MaxPriority - q : q \in Q}
           Less == {ss \in Nat \X Nat : ss[1] < ss[2]}
<1>1. Q \subseteq Int /\ \A q \in Q : q <= MaxPriority
  BY LevelsAssumption DEF Priorities
<1>2. D \subseteq Nat /\ D # {}
  <2>1. \A q \in Q : MaxPriority - q \in Nat  BY <1>1, LevelsAssumption
  <2>2. PICK q \in Q : TRUE  OBVIOUS
  <2> QED  BY <2>1, <2>2
<1>3. IsWellFoundedOn(Less, Nat)
  BY NatLessThanWellFounded DEF OpToRel
<1>4. PICK d \in D : \A e \in D : ~(<<e, d>> \in Less)
  <2> HIDE DEF D, Less
  <2> QED  BY <1>2, <1>3, WFMin
<1>5. PICK p \in Q : d = MaxPriority - p
  BY <1>4
<1>6. ASSUME NEW q \in Q PROVE q <= p
  <2>1. MaxPriority - q \in D  OBVIOUS
  <2>2. ~(MaxPriority - q < d)  BY <1>2, <1>4, <2>1
  <2> QED  BY <1>1, <1>5, <2>2, LevelsAssumption
<1> QED  BY <1>6

(* Omitting more costs more.                                               *)
LEMMA SubsetCheaper ==
    ASSUME NEW R, NEW keys \in [R -> Keys], NEW T, T \subseteq R, IsFiniteSet(T),
           NEW S, S \subseteq T, S # T
    PROVE  RankLess(keys, S, T)
<1> DEFINE Q == {keys[r].pri : r \in T \ S}
<1>1. PICK p \in Q : \A q \in Q : q <= p
  <2>1. Q \subseteq Priorities /\ Q # {}  BY DEF Keys
  <2> QED  BY <2>1, MostImportantLayer
<1>2. p \in Priorities  BY DEF Keys
<1>3. IsFiniteSet(S)  BY FS_Subset
<1>4. CountIn(keys, S, p) < CountIn(keys, T, p)
  <2>1. Layer(keys, S, p) \subseteq Layer(keys, T, p)  BY DEF Layer
  <2>2. Layer(keys, S, p) # Layer(keys, T, p)  BY DEF Layer
  <2>3. IsFiniteSet(Layer(keys, T, p))  BY <1>2, CountsAreNat
  <2> QED  BY <2>1, <2>2, <2>3, FS_Subset, FS_CardinalityType DEF CountIn
<1>5. ASSUME NEW q \in Priorities, q > p
      PROVE  CountIn(keys, S, q) = CountIn(keys, T, q)
  <2>1. q \notin Q  BY <1>1, <1>2, <1>5, LevelsAssumption DEF Priorities
  <2>2. Layer(keys, S, q) = Layer(keys, T, q)  BY <2>1 DEF Layer
  <2> QED  BY <2>2 DEF CountIn
<1> QED  BY <1>2, <1>4, <1>5 DEF RankLess, FewerInLayers

LEMMA SubsetNoDearer ==
    ASSUME NEW R, NEW keys \in [R -> Keys], NEW T, T \subseteq R, IsFiniteSet(T),
           NEW S, S \subseteq T
    PROVE  RankLeq(keys, S, T)
BY SubsetCheaper, RankReflexive DEF RankLeq

(***************************************************************************)
(* Entries of the heap.                                                    *)
(***************************************************************************)

(* An entry that omits adopted records is a nonempty increasing sequence.  *)
LEMMA PositionsAreSequences ==
    ASSUME limit \in Nat, NEW E
    PROVE  E \in Positions <=> /\ E \in Seq(1 .. Size)
                               /\ Len(E) \in 1 .. limit
                               /\ Increasing(E)
<1>1. ASSUME E \in Positions
      PROVE  E \in Seq(1 .. Size) /\ Len(E) \in 1 .. limit /\ Increasing(E)
  <2>1. PICK k \in 1 .. limit : E \in [1 .. k -> 1 .. Size]
    BY <1>1 DEF Positions
  <2>2. k \in Nat  OBVIOUS
  <2>3. E \in Seq(1 .. Size)  BY <2>1, <2>2, SeqDef
  <2>4. Len(E) = k  BY <2>1, <2>2, <2>3
  <2> QED  BY <1>1, <2>3, <2>4 DEF Positions
<1>2. ASSUME E \in Seq(1 .. Size), Len(E) \in 1 .. limit, Increasing(E)
      PROVE  E \in Positions
  <2>1. E \in [1 .. Len(E) -> 1 .. Size]  BY <1>2, LenProperties
  <2> QED  BY <1>2, <2>1 DEF Positions
<1> QED  BY <1>1, <1>2

LEMMA RejectionIsEmpty ==
    ASSUME NEW S, NEW E \in Seq(S), Len(E) \in Nat \ {0}
    PROVE  E # Rejection
BY EmptySeq DEF Rejection

(* The two successors of an entry.                                         *)
LEMMA SuccessorsDef ==
    ASSUME limit \in Nat, Size \in Nat, NEW E \in Positions, NEW G \in Successors(E)
    PROVE  /\ G \in Positions
           /\ LastOf(E) < Size
           /\ \/ /\ G = Replaced(E) /\ Len(G) = Len(E)
                 /\ \A i \in 1 .. Len(E) : i # Len(E) => G[i] = E[i]
                 /\ G[Len(E)] = LastOf(E) + 1
              \/ /\ G = Appended(E) /\ Len(G) = Len(E) + 1
                 /\ \A i \in 1 .. Len(E) : G[i] = E[i]
                 /\ G[Len(E) + 1] = LastOf(E) + 1
<1>1. /\ E \in Seq(1 .. Size) /\ Len(E) \in 1 .. limit /\ Increasing(E)
      /\ DOMAIN E = 1 .. Len(E)
  BY PositionsAreSequences, LenProperties
<1>0. Len(E) \in Nat /\ Len(E) >= 1 /\ Len(E) <= limit /\ Len(E) \in 1 .. Len(E)
  BY <1>1
<1>2. LastOf(E) \in 1 .. Size  BY <1>0, <1>1, ElementOfSeq DEF LastOf
<1>3. E # Rejection  BY <1>1, RejectionIsEmpty
<1>4. LastOf(E) # Size  BY <1>3 DEF Successors
<1>5. LastOf(E) + 1 \in 1 .. Size  BY <1>2, <1>4
<1>6. \A i \in 1 .. Len(E) : E[i] \in 1 .. Size /\ E[i] <= LastOf(E)
  <2>1. ASSUME NEW i \in 1 .. Len(E)
        PROVE  E[i] \in 1 .. Size /\ E[i] <= LastOf(E)
    <3>1. E[i] \in 1 .. Size  BY <1>1, ElementOfSeq
    <3>2. i = Len(E) \/ i < Len(E)  BY <1>0
    <3>3. i < Len(E) => E[i] < E[Len(E)]  BY <1>0, <1>1 DEF Increasing
    <3> QED  BY <1>2, <3>1, <3>2, <3>3 DEF LastOf
  <2> QED  BY <2>1
<1>7. CASE G = Replaced(E)
  <2>1. /\ G \in Seq(1 .. Size) /\ Len(G) = Len(E)
        /\ \A i \in 1 .. Len(E) : G[i] = IF i = Len(E) THEN LastOf(E) + 1 ELSE E[i]
    BY <1>1, <1>5, <1>7, ExceptSeq DEF Replaced
  <2>2. DOMAIN G = 1 .. Len(E)  BY <2>1, LenProperties
  <2>3. ASSUME NEW i \in DOMAIN G, NEW j \in DOMAIN G, i < j
        PROVE  G[i] < G[j]
    <3>1. i \in 1 .. Len(E) /\ j \in 1 .. Len(E) /\ i # Len(E)  BY <1>1, <2>2, <2>3
    <3>2. G[i] = E[i]  BY <2>1, <3>1
    <3>3. CASE j = Len(E)
      <4>1. G[j] = LastOf(E) + 1  BY <2>1, <3>1, <3>3
      <4> QED  BY <1>2, <1>6, <3>1, <3>2, <4>1
    <3>4. CASE j # Len(E)
      <4>1. G[j] = E[j]  BY <2>1, <3>1, <3>4
      <4> QED  BY <1>1, <2>3, <3>1, <3>2, <4>1 DEF Increasing
    <3> QED  BY <3>3, <3>4
  <2>4. G \in Positions
    <3>1. Increasing(G)  BY <2>3 DEF Increasing
    <3> QED  BY <1>1, <2>1, <3>1, PositionsAreSequences
  <2>5. LastOf(E) < Size  BY <1>2, <1>4
  <2>6. G[Len(E)] = LastOf(E) + 1  BY <1>0, <2>1
  <2> QED  BY <1>7, <2>1, <2>4, <2>5, <2>6
<1>8. CASE G = Appended(E) /\ Len(E) < limit
  <2>1. /\ G \in Seq(1 .. Size) /\ Len(G) = Len(E) + 1
        /\ \A i \in 1 .. Len(E) : G[i] = E[i]
        /\ G[Len(E) + 1] = LastOf(E) + 1
    BY <1>1, <1>5, <1>8, AppendProperties DEF Appended
  <2>2. DOMAIN G = 1 .. Len(E) + 1  BY <2>1, LenProperties
  <2>3. ASSUME NEW i \in DOMAIN G, NEW j \in DOMAIN G, i < j
        PROVE  G[i] < G[j]
    <3>1. i \in 1 .. Len(E)  BY <1>1, <2>2, <2>3
    <3>2. G[i] = E[i]  BY <2>1, <3>1
    <3>3. CASE j = Len(E) + 1
      <4>1. G[j] = LastOf(E) + 1  BY <2>1, <3>3
      <4> QED  BY <1>2, <1>6, <3>1, <3>2, <4>1
    <3>4. CASE j # Len(E) + 1
      <4>1. j \in 1 .. Len(E)  BY <1>1, <2>2, <3>4
      <4>2. G[j] = E[j]  BY <2>1, <4>1
      <4> QED  BY <1>1, <2>3, <3>1, <3>2, <4>1, <4>2 DEF Increasing
    <3> QED  BY <3>3, <3>4
  <2>4. G \in Positions
    <3>1. Increasing(G)  BY <2>3 DEF Increasing
    <3>2. Len(G) \in 1 .. limit  BY <1>0, <1>8, <2>1
    <3> QED  BY <2>1, <3>1, <3>2, PositionsAreSequences
  <2>5. LastOf(E) < Size  BY <1>2, <1>4
  <2> QED  BY <1>8, <2>1, <2>4, <2>5
<1> QED  BY <1>3, <1>4, <1>7, <1>8 DEF Successors

(***************************************************************************)
(* What is reachable from an entry.                                        *)
(***************************************************************************)

\* The facts about an entry of the heap that the lemmas below need.
Entry(E) == E \in Seq(1 .. Size) /\ Len(E) \in Nat /\ Len(E) >= 1
            /\ Len(E) \in 1 .. Len(E) /\ Increasing(E) /\ E # Rejection
            /\ DOMAIN E = 1 .. Len(E)
            /\ \A i \in 1 .. Len(E) : E[i] \in Nat /\ E[i] \in 1 .. Size

LEMMA PositionsAreEntries ==
    ASSUME limit \in Nat, Size \in Nat, NEW E \in Positions
    PROVE  Entry(E) /\ Len(E) <= limit
<1>1. E \in Seq(1 .. Size) /\ Len(E) \in 1 .. limit /\ Increasing(E)
  BY PositionsAreSequences
<1>2. Len(E) \in Nat /\ Len(E) >= 1 /\ Len(E) \in 1 .. Len(E) /\ Len(E) <= limit
  BY <1>1
<1>3. E # Rejection  BY <1>1, <1>2, RejectionIsEmpty
<1>4. DOMAIN E = 1 .. Len(E)  BY <1>1, LenProperties
<1>5. ASSUME NEW i \in 1 .. Len(E)  PROVE  E[i] \in Nat /\ E[i] \in 1 .. Size
  <2>1. E[i] \in 1 .. Size  BY <1>1, ElementOfSeq
  <2> QED  BY <2>1
<1> QED  BY <1>1, <1>2, <1>3, <1>4, <1>5 DEF Entry

LEMMA ScopeCases ==
    ASSUME NEW E \in Scope
    PROVE  E \in Positions \/ (E = Rejection /\ hasCandidate /\ Candidate \notin protected)
BY DEF Scope, RejectionEntries

(* Every entry reaches itself.                                             *)
LEMMA ReachesItself ==
    ASSUME limit \in Nat, Size \in Nat, NEW E \in Scope
    PROVE  Reaches(E, E)
<1>1. CASE E = Rejection  BY <1>1 DEF Reaches
<1>2. CASE E \in Positions
  <2>1. Entry(E)  BY <1>2, PositionsAreEntries
  <2>2. LastOf(E) \in Nat  BY <2>1 DEF Entry, LastOf
  <2> QED  BY <2>1, <2>2 DEF Reaches, Entry, LastOf
<1> QED  BY <1>1, <1>2, ScopeCases

(* What a successor reaches, its parent reaches too, and it is not the     *)
(* parent itself.                                                          *)
LEMMA SuccessorsReachLess ==
    ASSUME limit \in Nat, Size \in Nat, NEW E \in Scope, NEW G \in Successors(E),
           NEW F \in Scope, Reaches(G, F)
    PROVE  Reaches(E, F) /\ F # E
<1>1. E # Rejection  BY DEF Successors
<1>2. E \in Positions  BY <1>1, ScopeCases
<1>3. Entry(E)  BY <1>2, PositionsAreEntries
<1>4. G \in Positions /\ Entry(G)  BY <1>2, SuccessorsDef, PositionsAreEntries
<1>5. F # Rejection  BY <1>4 DEF Reaches, Entry
<1>6. F \in Positions /\ Entry(F)  BY <1>5, ScopeCases, PositionsAreEntries
<1>7. /\ Len(G) <= Len(F)
      /\ \A i \in 1 .. Len(G) - 1 : G[i] = F[i]
      /\ G[Len(G)] <= F[Len(G)]
  BY <1>4, <1>5 DEF Reaches, Entry, LastOf
<1> DEFINE k == Len(E)
<1>8. k \in Nat /\ k >= 1 /\ E[k] \in Nat /\ Len(F) \in Nat /\ Len(G) \in Nat
  BY <1>3, <1>4, <1>6 DEF Entry
<1>9. CASE /\ Len(G) = k /\ G[k] = LastOf(E) + 1
           /\ \A i \in 1 .. k : i # k => G[i] = E[i]
  <2>1. F[k] \in Nat  BY <1>6, <1>7, <1>8, <1>9 DEF Entry
  <2>2. E[k] < F[k]  BY <1>7, <1>8, <1>9, <2>1 DEF LastOf
  <2>3. ASSUME NEW i \in 1 .. k - 1  PROVE E[i] = F[i]
    <3>1. i \in 1 .. k /\ i # k /\ i \in 1 .. Len(G) - 1  BY <1>8, <1>9
    <3> QED  BY <1>7, <1>9, <3>1
  <2> QED  BY <1>1, <1>5, <1>7, <1>8, <1>9, <2>1, <2>2, <2>3 DEF Reaches, LastOf
<1>10. CASE /\ Len(G) = k + 1 /\ G[k + 1] = LastOf(E) + 1
            /\ \A i \in 1 .. k : G[i] = E[i]
  <2>1. ASSUME NEW i \in 1 .. k  PROVE E[i] = F[i]
    <3>1. i \in 1 .. Len(G) - 1  BY <1>8, <1>10
    <3> QED  BY <1>7, <1>10, <3>1
  <2>2. Len(F) # k /\ k <= Len(F)  BY <1>7, <1>8, <1>10
  <2>3. E[k] <= F[k] /\ \A i \in 1 .. k - 1 : E[i] = F[i]  BY <1>8, <2>1
  <2> QED  BY <1>1, <1>5, <2>2, <2>3 DEF Reaches, LastOf
<1> QED  BY <1>2, <1>9, <1>10, SuccessorsDef

(* Whatever an entry reaches, other than itself, a successor of it reaches.*)
LEMMA SuccessorsReachRest ==
    ASSUME limit \in Nat, Size \in Nat, NEW E \in Scope, NEW F \in Scope,
           Reaches(E, F), F # E
    PROVE  \E G \in Successors(E) : Reaches(G, F)
<1>1. E # Rejection /\ F # Rejection  BY DEF Reaches
<1>2. E \in Positions /\ F \in Positions  BY <1>1, ScopeCases
<1>3. Entry(E) /\ Entry(F) /\ Len(F) <= limit  BY <1>2, PositionsAreEntries
<1> DEFINE k == Len(E)
<1>4. /\ k <= Len(F)
      /\ \A i \in 1 .. k - 1 : E[i] = F[i]
      /\ E[k] <= F[k]
  BY <1>1 DEF Reaches, LastOf
<1>5. /\ k \in Nat /\ k >= 1 /\ Len(F) \in Nat /\ k \in 1 .. Len(F) /\ k \in 1 .. k
      /\ E[k] \in Nat /\ F[k] \in Nat /\ F[k] <= Size
  <2>1. k \in Nat /\ k >= 1 /\ Len(F) \in Nat /\ k \in 1 .. Len(F) /\ k \in 1 .. k
    BY <1>3, <1>4 DEF Entry
  <2>2. E[k] \in Nat /\ F[k] \in Nat /\ F[k] \in 1 .. Size  BY <1>3, <2>1 DEF Entry
  <2> QED  BY <2>1, <2>2
<1>6. CASE E[k] < F[k]
  <2> DEFINE G == Replaced(E)
  <2>1. E[k] # Size  BY <1>5, <1>6
  <2>2. G \in Successors(E)  BY <1>1, <2>1 DEF Successors, LastOf
  <2>3. /\ Len(G) = k /\ G[k] = E[k] + 1
        /\ \A i \in 1 .. k : i # k => G[i] = E[i]
    <3>1. E \in Seq(1 .. Size) /\ E[k] + 1 \in 1 .. Size  BY <1>3, <1>5, <1>6 DEF Entry
    <3> QED  BY <1>5, <3>1, ExceptSeq DEF Replaced, LastOf
  <2>4. Entry(G)  BY <1>2, <2>2, SuccessorsDef, PositionsAreEntries
  <2>5. \A i \in 1 .. Len(G) - 1 : G[i] = F[i]
    <3>1. ASSUME NEW i \in 1 .. k - 1  PROVE G[i] = F[i]
      <4>1. i \in 1 .. k /\ i # k  BY <1>5
      <4> QED  BY <1>4, <2>3, <4>1
    <3> QED  BY <2>3, <3>1
  <2>6. LastOf(G) <= F[Len(G)]  BY <1>5, <1>6, <2>3 DEF LastOf
  <2>7. Len(G) <= Len(F)  BY <1>4, <2>3
  <2>8. Reaches(G, F)  BY <1>1, <2>4, <2>5, <2>6, <2>7 DEF Reaches, Entry
  <2> QED  BY <2>2, <2>8
<1>7. CASE E[k] = F[k]
  <2> DEFINE G == Appended(E)
  <2>1. \A i \in 1 .. k : E[i] = F[i]
    <3>1. ASSUME NEW i \in 1 .. k  PROVE E[i] = F[i]
      <4>1. i = k \/ i \in 1 .. k - 1  BY <1>5
      <4> QED  BY <1>4, <1>7, <4>1
    <3> QED  BY <3>1
  <2>2. k < Len(F)
    <3>1. SUFFICES k # Len(F)  BY <1>4, <1>5
    <3>2. SUFFICES ASSUME k = Len(F) PROVE FALSE  OBVIOUS
    <3>3. E = F  BY <1>3, <2>1, <3>2, SeqEqual DEF Entry
    <3> QED  BY <3>3
  <2>3. k + 1 \in 1 .. Len(F) /\ k < k + 1  BY <1>5, <2>2
  <2>4. F[k + 1] \in Nat /\ F[k + 1] <= Size /\ F[k] < F[k + 1]
    <3>1. F[k + 1] \in Nat /\ F[k + 1] \in 1 .. Size  BY <1>3, <2>3 DEF Entry
    <3>2. F[k] < F[k + 1]  BY <1>3, <1>5, <2>3 DEF Entry, Increasing
    <3> QED  BY <3>1, <3>2
  <2>5. E[k] # Size /\ k < limit  BY <1>3, <1>5, <1>7, <2>2, <2>4
  <2>6. G \in Successors(E)  BY <1>1, <2>5 DEF Successors, LastOf
  <2>7. /\ Len(G) = k + 1 /\ G[k + 1] = E[k] + 1
        /\ \A i \in 1 .. k : G[i] = E[i]
    <3>1. E \in Seq(1 .. Size) /\ E[k] + 1 \in 1 .. Size
      BY <1>3, <1>5, <1>7, <2>4 DEF Entry
    <3> QED  BY <3>1, AppendProperties DEF Appended, LastOf
  <2>8. Entry(G)  BY <1>2, <2>6, SuccessorsDef, PositionsAreEntries
  <2>9. \A i \in 1 .. Len(G) - 1 : G[i] = F[i]
    <3>1. Len(G) - 1 = k  BY <1>5, <2>7
    <3> QED  BY <2>1, <2>7, <3>1
  <2>10. LastOf(G) <= F[Len(G)]  BY <1>5, <1>7, <2>4, <2>7 DEF LastOf
  <2>11. Len(G) <= Len(F)  BY <1>5, <2>2, <2>7
  <2>12. Reaches(G, F)  BY <1>1, <2>8, <2>9, <2>10, <2>11 DEF Reaches, Entry
  <2> QED  BY <2>6, <2>12
<1> QED  BY <1>4, <1>5, <1>6, <1>7

(* Nothing is reached from two successors of one entry.                    *)
LEMMA SuccessorsDisjoint ==
    ASSUME limit \in Nat, Size \in Nat, NEW E \in Scope,
           NEW G \in Successors(E), NEW H \in Successors(E), G # H,
           NEW F \in Scope, Reaches(G, F), Reaches(H, F)
    PROVE  FALSE
<1>1. E # Rejection  BY DEF Successors
<1>2. E \in Positions /\ Entry(E)  BY <1>1, ScopeCases, PositionsAreEntries
<1>3. SUFFICES ASSUME NEW R \in Successors(E), NEW A \in Successors(E),
                      Reaches(R, F), Reaches(A, F),
                      R = Replaced(E), Len(R) = Len(E), R[Len(E)] = LastOf(E) + 1,
                      Len(A) = Len(E) + 1, \A i \in 1 .. Len(E) : A[i] = E[i]
               PROVE  FALSE
  <2>1. G = Replaced(E) \/ G = Appended(E)  BY <1>2, SuccessorsDef
  <2>2. H = Replaced(E) \/ H = Appended(E)  BY <1>2, SuccessorsDef
  <2>3. Len(Replaced(E)) = Len(E)
    BY <1>2 DEF Replaced, Entry
  <2>4. Len(Appended(E)) = Len(E) + 1
    BY <1>2 DEF Appended, Entry
  <2>5. Len(E) # Len(E) + 1
    <3>1. Len(E) \in Nat  BY <1>2 DEF Entry
    <3> QED  BY <3>1
  <2>6. CASE G = Replaced(E) /\ H = Appended(E)
    <3>1. G[Len(E)] = LastOf(E) + 1
      BY <1>2, <2>3, <2>4, <2>5, <2>6, SuccessorsDef
    <3>2. \A i \in 1 .. Len(E) : H[i] = E[i]
      BY <1>2, <2>3, <2>4, <2>5, <2>6, SuccessorsDef
    <3> QED  BY <1>3, <2>3, <2>4, <2>6, <3>1, <3>2
  <2>7. CASE H = Replaced(E) /\ G = Appended(E)
    <3>1. H[Len(E)] = LastOf(E) + 1
      BY <1>2, <2>3, <2>4, <2>5, <2>7, SuccessorsDef
    <3>2. \A i \in 1 .. Len(E) : G[i] = E[i]
      BY <1>2, <2>3, <2>4, <2>5, <2>7, SuccessorsDef
    <3> QED  BY <1>3, <2>3, <2>4, <2>7, <3>1, <3>2
  <2> QED  BY <2>1, <2>2, <2>6, <2>7
<1> DEFINE k == Len(E)
<1>4. Entry(R) /\ Entry(A)  BY <1>2, <1>3, SuccessorsDef, PositionsAreEntries
<1>5. F # Rejection  BY <1>3, <1>4 DEF Reaches, Entry
<1>6. Entry(F)  BY <1>5, ScopeCases, PositionsAreEntries
<1>7. k \in Nat /\ k >= 1 /\ k \in 1 .. k /\ E[k] \in Nat  BY <1>2 DEF Entry
<1>8. E[k] + 1 <= F[k] /\ k <= Len(F)
  BY <1>3, <1>4, <1>5 DEF Reaches, LastOf, Entry
<1>9. A[k] = F[k]
  <2>1. k \in 1 .. Len(A) - 1  BY <1>3, <1>7
  <2> QED  BY <1>3, <1>4, <1>5, <2>1 DEF Reaches, Entry
<1>10. A[k] = E[k]  BY <1>3, <1>7
<1> QED  BY <1>7, <1>8, <1>9, <1>10

(***************************************************************************)
(* The cost of what is reachable.                                          *)
(***************************************************************************)

LEMMA LimitIsNat == TypeOK => limit \in Nat /\ limit >= 1 /\ Size \in Nat
<1> SUFFICES ASSUME TypeOK PROVE limit \in Nat /\ limit >= 1 /\ Size \in Nat
  OBVIOUS
<1>1. limit \in Nat \ {0}  BY SearchAssumption DEF TypeOK
<1>2. eligible \in Seq(Records \ protected)  BY DEF TypeOK
<1> QED  BY <1>1, <1>2, LenProperties DEF Size

(* The sorted records are distinct, present, and in ascending order.       *)
LEMMA EligibleFacts ==
    ASSUME TypeOK
    PROVE  /\ DOMAIN eligible = 1 .. Size
           /\ \A i \in 1 .. Size : eligible[i] \in Records /\ eligible[i] \notin protected
           /\ \A i \in 1 .. Size : key[eligible[i]] \in Keys
           /\ \A i, j \in 1 .. Size : i # j => eligible[i] # eligible[j]
           /\ \A i, j \in 1 .. Size : i < j =>
                 \/ KeyLess(key[eligible[i]], key[eligible[j]])
                 \/ key[eligible[i]] = key[eligible[j]]
<1>1. eligible \in Seq(Records \ protected) /\ IsSorted(eligible) /\ key \in [Present -> Keys]
  BY DEF TypeOK
<1>2. DOMAIN eligible = 1 .. Size  BY <1>1, LenProperties DEF Size
<1>3. \A i \in 1 .. Size : eligible[i] \in Records /\ eligible[i] \notin protected
  BY <1>1, ElementOfSeq DEF Size
<1>4. \A r \in Records : r \in Nat /\ key[r] \in Keys
  BY <1>1, SearchAssumption DEF Records, Present
<1>5. \A i, j \in 1 .. Size : i < j => SortsBefore(eligible[i], eligible[j])
  BY <1>1, <1>2 DEF IsSorted
<1>6. \A r \in Records : ~SortsBefore(r, r)
  <2> SUFFICES ASSUME NEW r \in Records PROVE ~SortsBefore(r, r)
    OBVIOUS
  <2>1. key[r].pri \in Int /\ key[r].conf \in Int
    BY <1>4, LevelsAssumption DEF Keys, Priorities, Confidences
  <2> QED  BY <1>4, <2>1 DEF SortsBefore, KeyLess
<1>7. Size \in Nat  BY LimitIsNat
<1>8. ASSUME NEW i \in 1 .. Size, NEW j \in 1 .. Size, i # j
      PROVE  eligible[i] # eligible[j]
  <2>1. i < j \/ j < i  BY <1>7, <1>8
  <2> QED  BY <1>3, <1>5, <1>6, <2>1
<1> QED  BY <1>2, <1>3, <1>4, <1>5, <1>8 DEF SortsBefore

(* What an entry omits is a finite set of records that are present.        *)
LEMMA OmittedFacts ==
    ASSUME TypeOK, NEW E \in Scope
    PROVE  Omitted(E) \subseteq Present /\ IsFiniteSet(Omitted(E))
<1>1. limit \in Nat /\ Size \in Nat  BY LimitIsNat
<1>2. Omitted(E) \subseteq Present
  <2>1. CASE E = Rejection
    <3>1. hasCandidate  BY <1>1, <2>1, ScopeCases, PositionsAreEntries DEF Entry
    <3> QED  BY <2>1, <3>1 DEF Omitted, Present
  <2>2. CASE E \in Positions
    <3>1. Entry(E)  BY <1>1, <2>2, PositionsAreEntries
    <3>2. \A i \in DOMAIN E : eligible[E[i]] \in Records
      BY <3>1, EligibleFacts DEF Entry
    <3> QED  BY <3>1, <3>2 DEF Omitted, Present, Entry
  <2> QED  BY <2>1, <2>2, ScopeCases
<1>3. IsFiniteSet(Present)
  <2>1. IsFiniteSet(Records)  BY FS_Interval, SearchAssumption DEF Records
  <2>2. IsFiniteSet(Records \cup {Candidate})  BY <2>1, FS_AddElement
  <2> QED  BY <2>1, <2>2 DEF Present
<1> QED  BY <1>2, <1>3, FS_Subset

(* What is reachable from an entry costs at least as much as the entry.    *)
LEMMA ReachableNoCheaper ==
    ASSUME TypeOK, NEW E \in Scope, NEW F \in Scope, Reaches(E, F)
    PROVE  CostsNoMore(E, F)
<1>1. limit \in Nat /\ Size \in Nat  BY LimitIsNat
<1>2. CASE E = Rejection
  <2>1. F = E  BY <1>2 DEF Reaches
  <2> QED  BY <2>1, RankReflexive DEF CostsNoMore
<1>3. CASE E # Rejection
  <2>1. F # Rejection  BY <1>3 DEF Reaches
  <2>2. Entry(E) /\ Entry(F)  BY <1>1, <1>3, <2>1, ScopeCases, PositionsAreEntries
  <2> DEFINE k == Len(E)
             P == {eligible[E[i]] : i \in 1 .. k - 1}
             x == eligible[E[k]]
             y == eligible[F[k]]
  <2>3. /\ k <= Len(F)
        /\ \A i \in 1 .. k - 1 : E[i] = F[i]
        /\ E[k] <= F[k]
    BY <1>3, <2>1 DEF Reaches, LastOf
  <2>4. k \in Nat /\ k >= 1 /\ k \in 1 .. k /\ k \in 1 .. Len(F)
    BY <2>2, <2>3 DEF Entry
  <2>5. E[k] \in 1 .. Size /\ F[k] \in 1 .. Size
    BY <2>2, <2>4 DEF Entry
  <2>6. Omitted(E) = P \cup {x}
    <3>1. 1 .. k = (1 .. k - 1) \cup {k}  BY <2>4
    <3>2. Omitted(E) = {eligible[E[i]] : i \in 1 .. k}  BY <1>3, <2>2 DEF Omitted, Entry
    <3> QED  BY <3>1, <3>2
  <2>7. P \cup {y} \subseteq Omitted(F)
    <3>1. Omitted(F) = {eligible[F[i]] : i \in 1 .. Len(F)}  BY <2>1, <2>2 DEF Omitted, Entry
    <3>2. \A i \in 1 .. k - 1 : i \in 1 .. Len(F)  BY <2>2, <2>3, <2>4 DEF Entry
    <3> QED  BY <2>3, <2>4, <3>1, <3>2
  <2>8. x \notin P
    <3> SUFFICES ASSUME NEW i \in 1 .. k - 1 PROVE eligible[E[i]] # x
      OBVIOUS
    <3>1. i \in 1 .. k /\ i < k  BY <2>4
    <3>2. E[i] < E[k] /\ E[i] \in 1 .. Size /\ E[i] \in Nat /\ E[k] \in Nat
      BY <2>2, <2>4, <3>1 DEF Entry, Increasing
    <3>3. E[i] # E[k]  BY <3>2
    <3> QED  BY <2>5, <3>2, <3>3, EligibleFacts
  <2>9. y \notin P
    <3> SUFFICES ASSUME NEW i \in 1 .. k - 1 PROVE eligible[E[i]] # y
      OBVIOUS
    <3>1. i \in 1 .. Len(F) /\ i < k /\ E[i] = F[i]  BY <2>2, <2>3, <2>4 DEF Entry
    <3>2. F[i] < F[k] /\ F[i] \in 1 .. Size /\ F[i] \in Nat /\ F[k] \in Nat
      BY <2>2, <2>4, <3>1 DEF Entry, Increasing
    <3>3. F[i] # F[k]  BY <3>2
    <3> QED  BY <2>5, <3>1, <3>2, <3>3, EligibleFacts
  <2>10. KeyLess(key[x], key[y]) \/ key[x] = key[y]
    <3>1. E[k] < F[k] \/ E[k] = F[k]  BY <2>3, <2>5, <1>1
    <3> QED  BY <2>5, <3>1, EligibleFacts
  <2>11. key[x] \in Keys /\ key[y] \in Keys  BY <2>5, EligibleFacts
  <2>12. /\ IsFiniteSet(Omitted(E)) /\ IsFiniteSet(Omitted(F))
         /\ Omitted(F) \subseteq Present
    BY OmittedFacts
  <2>13. IsFiniteSet(P) /\ IsFiniteSet(P \cup {y})
    BY <2>6, <2>7, <2>12, FS_Subset
  <2> HIDE DEF P, x, y
  <2>14. RankLeq(key, P \cup {x}, P \cup {y})
    BY <2>8, <2>9, <2>10, <2>11, <2>13, ExchangeNoCheaper
  <2>15. RankLeq(key, P \cup {y}, Omitted(F))
    BY <2>7, <2>12, SubsetNoDearer DEF TypeOK
  <2>16. RankLeq(key, P \cup {x}, Omitted(F))
    BY <2>6, <2>12, <2>13, <2>14, <2>15, RankTransitive
  <2> QED  BY <2>6, <2>16 DEF CostsNoMore
<1> QED  BY <1>2, <1>3

(***************************************************************************)
(* The inductive invariant.                                                *)
(***************************************************************************)
SearchInv == TypeOK /\ NothingLost /\ OneParent /\ BestFirstOrder

LEMMA InitTypeOK == Init => TypeOK
<1> SUFFICES ASSUME Init PROVE TypeOK
  OBVIOUS
<1>1. /\ hasCandidate \in BOOLEAN /\ key \in [Present -> Keys]
      /\ protected \subseteq Present /\ limit \in Limits /\ IsSorted(eligible)
  BY DEF Init, InitInputs
<1>2. eligible \in Seq(Records \ protected)
  <2>1. IsFiniteSet(Records)  BY FS_Interval, SearchAssumption DEF Records
  <2>2. Cardinality(Records \ protected) \in Nat
    BY <2>1, FS_Subset, FS_CardinalityType
  <2> DEFINE n == Cardinality(Records \ protected)
  <2>3. eligible \in [1 .. n -> Records \ protected]  BY DEF Init, InitInputs
  <2> HIDE DEF n
  <2> QED  BY <2>2, <2>3, SeqDef DEF n
<1>3. limit \in Nat /\ limit >= 1 /\ Size \in Nat
  BY <1>1, <1>2, SearchAssumption, LenProperties DEF Size
<1>4. Size > 0 => <<1>> \in Scope
  <2> SUFFICES ASSUME Size > 0 PROVE <<1>> \in Scope
    OBVIOUS
  <2>1. <<1>> \in Seq(1 .. Size) /\ Len(<<1>>) = 1  BY <1>3
  <2>2. Increasing(<<1>>)  BY DEF Increasing
  <2>3. 1 \in 1 .. limit  BY <1>3
  <2>4. <<1>> \in Positions  BY <1>3, <2>1, <2>2, <2>3, PositionsAreSequences
  <2> QED  BY <2>4 DEF Scope
<1>5. frontier \subseteq Scope  BY <1>4 DEF Init, InitSearch, Scope
<1>6. yielded \in Seq(Scope)  BY DEF Init, InitSearch
<1> QED  BY <1>1, <1>2, <1>5, <1>6 DEF TypeOK

LEMMA InitSearchInv == Init => SearchInv
<1> SUFFICES ASSUME Init PROVE SearchInv
  OBVIOUS
<1>1. TypeOK  BY InitTypeOK
<1>2. limit \in Nat /\ Size \in Nat  BY <1>1, LimitIsNat
<1>3. yielded = <<>> /\ DOMAIN yielded = {} /\ Yielded = {}
  BY DEF Init, InitSearch, Yielded
<1>4. \A F \in Positions : Size > 0 /\ Reaches(<<1>>, F) /\ F # Rejection
  <2> SUFFICES ASSUME NEW F \in Positions
               PROVE  Size > 0 /\ Reaches(<<1>>, F) /\ F # Rejection
    OBVIOUS
  <2>1. Entry(F)  BY <1>2, PositionsAreEntries
  <2>2. 1 \in 1 .. Len(F)  BY <2>1 DEF Entry
  <2>3. F[1] \in 1 .. Size  BY <2>1, <2>2 DEF Entry
  <2>4. Size > 0 /\ 1 <= F[1]  BY <1>2, <2>3
  <2>5. Len(<<1>>) = 1 /\ LastOf(<<1>>) = 1 /\ <<1>> # Rejection  BY DEF LastOf, Rejection
  <2>6. Reaches(<<1>>, F)  BY <2>1, <2>4, <2>5 DEF Reaches, Entry
  <2> QED  BY <2>1, <2>4, <2>6 DEF Entry
<1>5. NothingLost
  <2> SUFFICES ASSUME NEW F \in Scope PROVE \E E \in frontier : Reaches(E, F)
    BY DEF NothingLost
  <2>1. CASE F \in Positions  BY <1>4, <2>1 DEF Init, InitSearch
  <2>2. CASE F \in RejectionEntries
    <3>1. F = Rejection /\ F \in frontier
      BY <2>2 DEF Init, InitSearch, RejectionEntries
    <3> QED  BY <3>1 DEF Reaches
  <2> QED  BY <2>1, <2>2 DEF Scope
<1>6. OneParent
  <2>1. ASSUME NEW E1 \in frontier, NEW E2 \in frontier, E1 # E2, NEW F \in Scope,
               Reaches(E1, F), Reaches(E2, F)
        PROVE  FALSE
    <3>1. \/ E1 = <<1>> /\ E2 = Rejection
          \/ E2 = <<1>> /\ E1 = Rejection
      BY <2>1 DEF Init, InitSearch, RejectionEntries
    <3>2. <<1>> # Rejection  BY DEF Rejection
    <3> QED  BY <2>1, <3>1, <3>2 DEF Reaches
  <2> QED  BY <1>3, <2>1 DEF OneParent
<1>7. BestFirstOrder  BY <1>3 DEF BestFirstOrder
<1> QED  BY <1>1, <1>5, <1>6, <1>7 DEF SearchInv

(* A step changes neither the scope nor a cost, and yields one entry.      *)
LEMMA YieldFacts ==
    ASSUME TypeOK, NEW E \in frontier, Yield(E)
    PROVE  /\ Scope' = Scope
           /\ \A F, G : CostsNoMore(F, G)' <=> CostsNoMore(F, G)
           /\ Yielded' = Yielded \cup {E}
           /\ DOMAIN yielded' = DOMAIN yielded \cup {Len(yielded) + 1}
           /\ \A i \in DOMAIN yielded : yielded'[i] = yielded[i]
           /\ yielded'[Len(yielded) + 1] = E
           /\ yielded' \in Seq(Scope)
           /\ E \in Scope
<1>1. UNCHANGED inputs  BY DEF Yield
<1>2. Scope' = Scope
  BY <1>1 DEF inputs, Scope, Positions, RejectionEntries, Size
<1>3. \A F, G : CostsNoMore(F, G)' <=> CostsNoMore(F, G)
  BY <1>1 DEF inputs, CostsNoMore, Omitted
<1>4. E \in Scope /\ yielded \in Seq(Scope) /\ yielded' = Append(yielded, E)
  BY DEF TypeOK, Yield
<1>5. /\ yielded' \in Seq(Scope) /\ Len(yielded') = Len(yielded) + 1
      /\ \A i \in 1 .. Len(yielded) : yielded'[i] = yielded[i]
      /\ yielded'[Len(yielded) + 1] = E
  BY <1>4, AppendProperties
<1>6. /\ DOMAIN yielded = 1 .. Len(yielded) /\ Len(yielded) \in Nat
      /\ DOMAIN yielded' = 1 .. Len(yielded) + 1
  BY <1>4, <1>5, LenProperties
<1>7. DOMAIN yielded' = DOMAIN yielded \cup {Len(yielded) + 1}  BY <1>6
<1>8. Yielded' = Yielded \cup {E}
  BY <1>5, <1>6, <1>7 DEF Yielded
<1> QED  BY <1>2, <1>3, <1>4, <1>5, <1>6, <1>7, <1>8

(* The entry a step yields was not yielded before.                         *)
LEMMA YieldIsNew ==
    ASSUME TypeOK, OneParent, NEW E \in frontier
    PROVE  E \notin Yielded
<1>1. E \in Scope  BY DEF TypeOK
<1>2. Reaches(E, E)  BY <1>1, LimitIsNat, ReachesItself
<1> QED  BY <1>2 DEF OneParent

(* The entry popped costs no more than anything not yet yielded.           *)
LEMMA PoppedIsCheapest ==
    ASSUME TypeOK, NothingLost, NEW E \in frontier, Yield(E),
           NEW F \in Scope \ Yielded
    PROVE  CostsNoMore(E, F)
<1>1. PICK G \in frontier : Reaches(G, F)  BY DEF NothingLost
<1>2. E \in Scope /\ G \in Scope  BY DEF TypeOK
<1>3. CostsNoMore(G, F)  BY <1>1, <1>2, ReachableNoCheaper
<1>4. CostsNoMore(E, G)
  <2>1. CASE G = E  BY <2>1, RankReflexive DEF CostsNoMore
  <2>2. CASE G # E
    BY <1>1, <2>2 DEF Yield, PopsBefore, CostsNoMore, SameCost, RankLeq
  <2> QED  BY <2>1, <2>2
<1> QED  BY <1>2, <1>3, <1>4, OmittedFacts, RankTransitive DEF CostsNoMore

LEMMA StepTypeOK ==
    ASSUME TypeOK, NEW E \in frontier, Yield(E)
    PROVE  TypeOK'
<1>1. UNCHANGED inputs  BY DEF Yield
<1>2. /\ (hasCandidate \in BOOLEAN)' /\ (key \in [Present -> Keys])'
      /\ (protected \subseteq Present)' /\ (limit \in Limits)'
      /\ (eligible \in Seq(Records \ protected))' /\ IsSorted(eligible)'
  BY <1>1 DEF TypeOK, inputs, Present, IsSorted, SortsBefore
<1>3. Successors(E) \subseteq Scope
  <2> SUFFICES ASSUME NEW G \in Successors(E) PROVE G \in Positions
    BY DEF Scope
  <2>1. E # Rejection /\ E \in Scope  BY DEF Successors, TypeOK
  <2>2. E \in Positions  BY <2>1, ScopeCases
  <2> QED  BY <2>2, LimitIsNat, SuccessorsDef
<1>4. (frontier \subseteq Scope)'
  BY <1>3, YieldFacts DEF TypeOK, Yield
<1>5. (yielded \in Seq(Scope))'  BY YieldFacts
<1> QED  BY <1>2, <1>4, <1>5 DEF TypeOK

LEMMA StepNothingLost ==
    ASSUME SearchInv, NEW E \in frontier, Yield(E)
    PROVE  NothingLost'
<1> SUFFICES ASSUME NEW F \in Scope \ Yielded, F # E
             PROVE  \E G \in frontier' : Reaches(G, F)
  BY YieldFacts DEF NothingLost, SearchInv
<1>1. PICK G \in frontier : Reaches(G, F)  BY DEF NothingLost, SearchInv
<1>2. frontier' = (frontier \ {E}) \cup Successors(E)  BY DEF Yield
<1>3. CASE G # E  BY <1>1, <1>2, <1>3
<1>4. CASE G = E
  <2>1. E \in Scope /\ limit \in Nat /\ Size \in Nat  BY LimitIsNat DEF SearchInv, TypeOK
  <2>2. \E H \in Successors(E) : Reaches(H, F)
    BY <1>1, <1>4, <2>1, SuccessorsReachRest
  <2> QED  BY <1>2, <2>2
<1> QED  BY <1>3, <1>4

LEMMA StepOneParent ==
    ASSUME SearchInv, NEW E \in frontier, Yield(E)
    PROVE  OneParent'
<1>1. /\ TypeOK /\ OneParent /\ E \in Scope /\ limit \in Nat /\ Size \in Nat
      /\ frontier \subseteq Scope /\ Yielded \subseteq Scope
  <2>1. Yielded \subseteq Scope
    BY ElementOfSeq, LenProperties DEF Yielded, SearchInv, TypeOK
  <2> QED  BY <2>1, LimitIsNat DEF SearchInv, TypeOK
<1>2. frontier' = (frontier \ {E}) \cup Successors(E)  BY DEF Yield
<1>3. Scope' = Scope /\ Yielded' = Yielded \cup {E}  BY <1>1, YieldFacts
<1>4. \A G \in Successors(E), F \in Scope : Reaches(G, F) => Reaches(E, F) /\ F # E
  BY <1>1, SuccessorsReachLess
<1>5. ASSUME NEW G \in frontier', NEW F \in Yielded', Reaches(G, F)
      PROVE  FALSE
  <2>1. CASE G \in Successors(E)
    <3>1. Reaches(E, F) /\ F # E  BY <1>1, <1>3, <1>4, <1>5, <2>1
    <3> QED  BY <1>1, <1>3, <3>1 DEF OneParent
  <2>2. CASE G \in frontier /\ G # E
    <3>1. CASE F = E
      <4>1. Reaches(E, E)  BY <1>1, ReachesItself
      <4> QED  BY <1>1, <1>5, <2>2, <3>1, <4>1 DEF OneParent
    <3>2. CASE F \in Yielded  BY <1>1, <1>5, <2>2, <3>2 DEF OneParent
    <3> QED  BY <1>3, <3>1, <3>2
  <2> QED  BY <1>2, <2>1, <2>2
<1>6. ASSUME NEW G \in frontier', NEW H \in frontier', G # H,
             NEW F \in Scope, Reaches(G, F), Reaches(H, F)
      PROVE  FALSE
  <2>1. CASE G \in Successors(E) /\ H \in Successors(E)
    BY <1>1, <1>6, <2>1, SuccessorsDisjoint
  <2>2. CASE G \in frontier \ {E} /\ H \in Successors(E)
    BY <1>1, <1>4, <1>6, <2>2 DEF OneParent
  <2>3. CASE G \in Successors(E) /\ H \in frontier \ {E}
    BY <1>1, <1>4, <1>6, <2>3 DEF OneParent
  <2>4. CASE G \in frontier \ {E} /\ H \in frontier \ {E}
    BY <1>1, <1>6, <2>4 DEF OneParent
  <2> QED  BY <1>2, <2>1, <2>2, <2>3, <2>4
<1> QED  BY <1>3, <1>5, <1>6 DEF OneParent

LEMMA StepBestFirst ==
    ASSUME SearchInv, NEW E \in frontier, Yield(E)
    PROVE  BestFirstOrder'
<1>1. TypeOK /\ NothingLost /\ BestFirstOrder  BY DEF SearchInv
<1> SUFFICES ASSUME NEW F \in Scope \ Yielded, F # E, NEW i \in DOMAIN yielded'
             PROVE  CostsNoMore(yielded'[i], F)
  BY <1>1, YieldFacts DEF BestFirstOrder
<1>2. CASE i \in DOMAIN yielded
  <2>1. yielded'[i] = yielded[i]  BY <1>1, <1>2, YieldFacts
  <2> QED  BY <1>1, <1>2, <2>1 DEF BestFirstOrder
<1>3. CASE i = Len(yielded) + 1
  <2>1. yielded'[i] = E  BY <1>1, <1>3, YieldFacts
  <2> QED  BY <1>1, <2>1, PoppedIsCheapest
<1> QED  BY <1>1, <1>2, <1>3, YieldFacts

LEMMA StutterKeepsSearchInv == SearchInv /\ UNCHANGED searchVars => SearchInv'
<1> SUFFICES ASSUME SearchInv, UNCHANGED searchVars PROVE SearchInv'
  OBVIOUS
<1>1. /\ UNCHANGED <<hasCandidate, key, protected, limit, eligible, frontier, yielded>>
  BY DEF searchVars
<1>2. Scope' = Scope /\ Yielded' = Yielded
  BY <1>1 DEF Scope, Positions, RejectionEntries, Size, Yielded
<1>3. TypeOK'  BY <1>1, <1>2 DEF SearchInv, TypeOK, Present, IsSorted, SortsBefore
<1>4. NothingLost'  BY <1>1, <1>2 DEF SearchInv, NothingLost
<1>5. OneParent'  BY <1>1, <1>2 DEF SearchInv, OneParent
<1>6. BestFirstOrder'
  <2>1. \A F, G : CostsNoMore(F, G)' <=> CostsNoMore(F, G)
    BY <1>1 DEF CostsNoMore, Omitted
  <2> SUFFICES ASSUME NEW F \in Scope \ Yielded, NEW i \in DOMAIN yielded
               PROVE  CostsNoMore(yielded[i], F)
    BY <1>1, <1>2, <2>1 DEF BestFirstOrder
  <2> QED  BY DEF SearchInv, BestFirstOrder
<1> QED  BY <1>3, <1>4, <1>5, <1>6 DEF SearchInv

LEMMA NextKeepsSearchInv == SearchInv /\ [Next]_searchVars => SearchInv'
<1> SUFFICES ASSUME SearchInv, [Next]_searchVars PROVE SearchInv'
  OBVIOUS
<1>1. CASE UNCHANGED searchVars  BY <1>1, StutterKeepsSearchInv
<1>2. ASSUME NEW E \in frontier, Yield(E)  PROVE SearchInv'
  <2>1. TypeOK'  BY <1>2, StepTypeOK DEF SearchInv
  <2>2. NothingLost'  BY <1>2, StepNothingLost
  <2>3. OneParent'  BY <1>2, StepOneParent
  <2>4. BestFirstOrder'  BY <1>2, StepBestFirst
  <2> QED  BY <2>1, <2>2, <2>3, <2>4 DEF SearchInv
<1> QED  BY <1>1, <1>2 DEF Next

(* The types of the generator's state, for every instance.                 *)
THEOREM SearchTypes == Spec => []TypeOK
<1>1. SearchInv => TypeOK  BY DEF SearchInv
<1> QED  BY <1>1, InitSearchInv, NextKeepsSearchInv, PTL DEF Spec

(* No omission of the scope is ever lost by the heap.                      *)
THEOREM SearchIsComplete == Spec => [](NothingLost /\ ExhaustedIsComplete)
<1>1. SearchInv => NothingLost /\ ExhaustedIsComplete
  <2> SUFFICES ASSUME SearchInv PROVE NothingLost /\ ExhaustedIsComplete
    OBVIOUS
  <2>1. NothingLost  BY DEF SearchInv
  <2>2. Yielded \subseteq Scope
    BY ElementOfSeq, LenProperties DEF Yielded, SearchInv, TypeOK
  <2>3. ExhaustedIsComplete  BY <2>1, <2>2 DEF NothingLost, ExhaustedIsComplete
  <2> QED  BY <2>1, <2>3
<1> QED  BY <1>1, InitSearchInv, NextKeepsSearchInv, PTL DEF Spec

(* No omission is met twice.                                               *)
THEOREM SearchMeetsOnce == Spec => []OneParent
<1>1. SearchInv => OneParent  BY DEF SearchInv
<1> QED  BY <1>1, InitSearchInv, NextKeepsSearchInv, PTL DEF Spec

(* Omissions are yielded cheapest first.                                   *)
THEOREM SearchIsBestFirst == Spec => []BestFirstOrder
<1>1. SearchInv => BestFirstOrder  BY DEF SearchInv
<1> QED  BY <1>1, InitSearchInv, NextKeepsSearchInv, PTL DEF Spec

(* A step pushes only entries that the heap never held.                    *)
THEOREM SearchPushesFresh == Spec => FreshSuccessors
<1>1. SearchInv /\ [Next]_searchVars =>
          [\A E \in frontier : Yield(E) => Successors(E) \cap (frontier \cup Yielded) = {}]_searchVars
  <2> SUFFICES ASSUME SearchInv, NEW E \in frontier, NEW G \in Successors(E),
                      G \in frontier \cup Yielded
               PROVE  FALSE
    OBVIOUS
  <2>1. TypeOK /\ OneParent /\ E \in Scope /\ limit \in Nat /\ Size \in Nat
    BY LimitIsNat DEF SearchInv, TypeOK
  <2>2. G \in Scope
    <3>1. E \in Positions  BY <2>1, ScopeCases DEF Successors
    <3> QED  BY <2>1, <3>1, SuccessorsDef DEF Scope
  <2>3. Reaches(G, G)  BY <2>1, <2>2, ReachesItself
  <2>4. Reaches(E, G) /\ G # E  BY <2>1, <2>2, <2>3, SuccessorsReachLess
  <2> QED  BY <2>1, <2>2, <2>3, <2>4 DEF OneParent
<1> QED  BY <1>1, InitSearchInv, NextKeepsSearchInv, PTL DEF Spec, FreshSuccessors

(* A pair of entries is at most two, and finite.                           *)
LEMMA AtMostTwo ==
    ASSUME NEW S, NEW a, NEW b, S \subseteq {a, b}
    PROVE  IsFiniteSet(S) /\ Cardinality(S) \in Nat /\ Cardinality(S) <= 2
<1>1. IsFiniteSet({a}) /\ Cardinality({a}) = 1
  BY FS_Singleton
<1>2. {a} \cup {b} = {a, b}
  OBVIOUS
<1>3. IsFiniteSet({a, b}) /\ Cardinality({a, b}) <= 2
  <2>1. IsFiniteSet({a} \cup {b})
        /\ Cardinality({a} \cup {b}) = IF b \in {a} THEN Cardinality({a}) ELSE Cardinality({a}) + 1
    BY <1>1, FS_AddElement
  <2> QED  BY <1>1, <1>2, <2>1
<1> QED  BY <1>3, FS_Subset, FS_CardinalityType

FrontierInv == TypeOK /\ IsFiniteSet(frontier) /\ FrontierBound

LEMMA InitFrontierInv == Init => FrontierInv
<1> SUFFICES ASSUME Init PROVE FrontierInv
  OBVIOUS
<1>1. frontier \subseteq {<<1>>, Rejection}  BY DEF Init, InitSearch, RejectionEntries
<1>2. IsFiniteSet(frontier) /\ Cardinality(frontier) \in Nat /\ Cardinality(frontier) <= 2
  BY <1>1, AtMostTwo
<1>3. Len(yielded) = 0  BY DEF Init, InitSearch
<1> QED  BY <1>2, <1>3, InitTypeOK DEF FrontierInv, FrontierBound

LEMMA StepFrontierInv ==
    ASSUME FrontierInv, NEW E \in frontier, Yield(E)
    PROVE  FrontierInv'
<1> DEFINE rest == frontier \ {E}
           new == Successors(E)
<1>1. frontier' = rest \cup new /\ yielded' = Append(yielded, E) /\ TypeOK
  BY DEF Yield, FrontierInv
<1>2. Len(yielded) \in Nat /\ Len(yielded') = Len(yielded) + 1
  <2>1. yielded \in Seq(Scope) /\ E \in Scope  BY DEF FrontierInv, TypeOK
  <2> QED  BY <1>1, <2>1, LenProperties, AppendProperties
<1>3. /\ IsFiniteSet(rest) /\ Cardinality(rest) = Cardinality(frontier) - 1
      /\ Cardinality(frontier) \in Nat /\ Cardinality(frontier) <= Len(yielded) + 2
  BY FS_RemoveElement, FS_CardinalityType DEF FrontierInv, FrontierBound
<1>4. IsFiniteSet(new) /\ Cardinality(new) \in Nat /\ Cardinality(new) <= 2
  <2>1. new \subseteq {Replaced(E), Appended(E)}  BY DEF Successors
  <2> HIDE DEF new
  <2> QED  BY <2>1, AtMostTwo
<1> HIDE DEF rest, new
<1>5. IsFiniteSet(rest \cup new)
      /\ Cardinality(rest \cup new) = Cardinality(rest) + Cardinality(new) - Cardinality(rest \cap new)
  BY <1>3, <1>4, FS_Union
<1>6. Cardinality(rest \cap new) \in Nat
  BY <1>3, FS_Intersection, FS_CardinalityType
<1>7. Cardinality(rest \cup new) <= Len(yielded') + 2
  BY <1>2, <1>3, <1>4, <1>5, <1>6
<1>8. TypeOK'  BY <1>1, StepTypeOK
<1> QED  BY <1>1, <1>5, <1>7, <1>8 DEF FrontierInv, FrontierBound

(* The heap never holds more than two entries beyond the number yielded,    *)
(* however many omissions there are: the generator stays lazy.             *)
THEOREM SearchIsLazy == Spec => []FrontierBound
<1>1. FrontierInv /\ [Next]_searchVars => FrontierInv'
  <2> SUFFICES ASSUME FrontierInv, [Next]_searchVars PROVE FrontierInv'
    OBVIOUS
  <2>1. CASE UNCHANGED searchVars
    <3>1. UNCHANGED <<hasCandidate, key, protected, limit, eligible, frontier, yielded>>
      BY <2>1 DEF searchVars
    <3>2. Scope' = Scope  BY <3>1 DEF Scope, Positions, RejectionEntries, Size
    <3>3. TypeOK'
      BY <3>1, <3>2 DEF FrontierInv, TypeOK, Present, IsSorted, SortsBefore
    <3> QED  BY <3>1, <3>3 DEF FrontierInv, FrontierBound
  <2>2. ASSUME NEW E \in frontier, Yield(E)  PROVE FrontierInv'
    BY <2>2, StepFrontierInv
  <2> QED  BY <2>1, <2>2 DEF Next
<1>2. FrontierInv => FrontierBound  BY DEF FrontierInv
<1> QED  BY <1>1, <1>2, InitFrontierInv, PTL DEF Spec

(* The generator implements the abstract best-first enumeration: its first  *)
(* state is one of BestFirst's and each of its steps emits what BestFirst  *)
(* may emit.                                                               *)
THEOREM SearchRefinesBestFirst == Spec => Abstract!Init /\ [][Abstract!Next]_Abstract!vars
<1>1. Init => Abstract!Init
  BY DEF Init, InitSearch, Abstract!Init
<1>2. SearchInv /\ [Next]_searchVars => [Abstract!Next]_Abstract!vars
  <2> SUFFICES ASSUME SearchInv, [Next]_searchVars
               PROVE  [Abstract!Next]_Abstract!vars
    OBVIOUS
  <2>1. CASE UNCHANGED searchVars
    <3>1. Scope' = Scope /\ UNCHANGED <<key, yielded>>
      BY <2>1 DEF searchVars, Scope, Positions, RejectionEntries, Size
    <3>2. [E \in Scope |-> Omitted(E)]' = [E \in Scope |-> Omitted(E)]
      BY <2>1, <3>1 DEF searchVars, Omitted
    <3> QED  BY <3>1, <3>2 DEF Abstract!vars
  <2>2. ASSUME NEW E \in frontier, Yield(E)  PROVE Abstract!Next
    <3>1. TypeOK /\ OneParent /\ NothingLost /\ E \in Scope  BY DEF SearchInv, TypeOK
    <3>2. Abstract!Emitted = Yielded  BY DEF Abstract!Emitted, Yielded
    <3>3. Abstract!Waiting = Scope \ Yielded  BY <3>2 DEF Abstract!Waiting
    <3>4. E \in Abstract!Waiting  BY <2>2, <3>1, <3>3, YieldIsNew
    <3>5. \A F \in Scope \ Yielded : RankLeq(key, Omitted(E), Omitted(F))
      BY <2>2, <3>1, PoppedIsCheapest DEF CostsNoMore
    <3>6. yielded' = Append(yielded, E) /\ UNCHANGED inputs  BY <2>2 DEF Yield
    <3>7. [F \in Scope |-> Omitted(F)]' = [F \in Scope |-> Omitted(F)]
      <4>1. Scope' = Scope  BY <2>2, <3>1, YieldFacts
      <4> QED  BY <3>6, <4>1 DEF inputs, Omitted
    <3>8. \A F \in Abstract!Waiting :
             RankLeq(key, [G \in Scope |-> Omitted(G)][E], [G \in Scope |-> Omitted(G)][F])
      BY <3>1, <3>3, <3>5
    <3>9. UNCHANGED key  BY <3>6 DEF inputs
    <3>10. Abstract!Emit(E)
      BY <3>4, <3>6, <3>7, <3>8, <3>9 DEF Abstract!Emit
    <3> QED  BY <3>1, <3>10 DEF Abstract!Next
  <2> QED  BY <2>1, <2>2 DEF Next
<1> QED  BY <1>1, <1>2, InitSearchInv, NextKeepsSearchInv, PTL DEF Spec

(***************************************************************************)
(* The rank as tuples.  A descending tuple is determined by how many of its *)
(* entries reach each value: f[i] >= c says that i is at most that many.    *)
(***************************************************************************)

\* How many records of layer p have confidence c or more.
ReachingAt(keys, S, p, c) == {r \in S : keys[r].pri = p /\ keys[r].conf >= c}
AtLeast(keys, S, p, c)    == Cardinality(ReachingAt(keys, S, p, c))

\* f is a descending tuple of n confidences of which a[c] are c or more.
Descends(f, n, a) ==
    /\ f \in [1 .. n -> Confidences]
    /\ \A i \in 1 .. n, c \in 0 .. MaxConfidence + 1 : f[i] >= c <=> i <= a[c]

(* What reaches a confidence has it or reaches the next one.               *)
LEMMA AtLeastFacts ==
    ASSUME NEW keys, NEW S, IsFiniteSet(S), \A r \in S : keys[r] \in Keys,
           NEW p \in Priorities
    PROVE  /\ \A c \in 0 .. MaxConfidence + 1 :
                 /\ IsFiniteSet(ReachingAt(keys, S, p, c))
                 /\ AtLeast(keys, S, p, c) \in 0 .. CountIn(keys, S, p)
           /\ AtLeast(keys, S, p, 0) = CountIn(keys, S, p)
           /\ AtLeast(keys, S, p, MaxConfidence + 1) = 0
           /\ \A c \in Confidences :
                 AtLeast(keys, S, p, c) = AtLeast(keys, S, p, c + 1) + CountAt(keys, S, p, c)
<1>1. \A r \in S : keys[r].conf \in 0 .. MaxConfidence
  BY DEF Keys, Confidences
<1>2. /\ IsFiniteSet(Layer(keys, S, p)) /\ CountIn(keys, S, p) \in Nat
      /\ \A c \in Confidences : IsFiniteSet(LayerAt(keys, S, p, c)) /\ CountAt(keys, S, p, c) \in Nat
  BY CountsAreNat
<1>3. ASSUME NEW c \in 0 .. MaxConfidence + 1
      PROVE  /\ IsFiniteSet(ReachingAt(keys, S, p, c))
             /\ AtLeast(keys, S, p, c) \in 0 .. CountIn(keys, S, p)
  <2>1. ReachingAt(keys, S, p, c) \in SUBSET Layer(keys, S, p)
    BY DEF ReachingAt, Layer
  <2>2. IsFiniteSet(ReachingAt(keys, S, p, c)) /\ AtLeast(keys, S, p, c) <= CountIn(keys, S, p)
    BY <1>2, <2>1, FS_Subset DEF AtLeast, CountIn
  <2>3. AtLeast(keys, S, p, c) \in Nat
    BY <2>2, FS_CardinalityType DEF AtLeast
  <2> QED  BY <1>2, <2>2, <2>3
<1>4. AtLeast(keys, S, p, 0) = CountIn(keys, S, p)
  <2>1. ReachingAt(keys, S, p, 0) = Layer(keys, S, p)
    BY <1>1 DEF ReachingAt, Layer
  <2> QED  BY <2>1 DEF AtLeast, CountIn
<1>5. AtLeast(keys, S, p, MaxConfidence + 1) = 0
  <2>1. ReachingAt(keys, S, p, MaxConfidence + 1) = {}
    BY <1>1, LevelsAssumption DEF ReachingAt
  <2> QED  BY <2>1, FS_EmptySet DEF AtLeast
<1>6. ASSUME NEW c \in Confidences
      PROVE  AtLeast(keys, S, p, c) = AtLeast(keys, S, p, c + 1) + CountAt(keys, S, p, c)
  <2>1. c \in Nat /\ c + 1 \in 0 .. MaxConfidence + 1
    BY LevelsAssumption DEF Confidences
  <2>2. /\ ReachingAt(keys, S, p, c) = ReachingAt(keys, S, p, c + 1) \cup LayerAt(keys, S, p, c)
        /\ ReachingAt(keys, S, p, c + 1) \cap LayerAt(keys, S, p, c) = {}
    BY <1>1, <2>1 DEF ReachingAt, LayerAt
  <2>3. IsFiniteSet(ReachingAt(keys, S, p, c + 1)) /\ AtLeast(keys, S, p, c + 1) \in Nat
    BY <1>3, <2>1
  <2>4. Cardinality(ReachingAt(keys, S, p, c + 1) \cup LayerAt(keys, S, p, c))
          = AtLeast(keys, S, p, c + 1) + CountAt(keys, S, p, c) - 0
    BY <1>2, <2>2, <2>3, FS_Union, FS_EmptySet DEF AtLeast, CountAt
  <2> QED  BY <1>2, <2>2, <2>3, <2>4 DEF AtLeast
<1> QED  BY <1>3, <1>4, <1>5, <1>6

(* A set of positions that holds every earlier one is an initial segment.  *)
LEMMA InitialSegment ==
    ASSUME NEW n \in Nat, NEW D \in SUBSET (1 .. n),
           \A i \in D : \A j \in 1 .. i : j \in D
    PROVE  Cardinality(D) \in Nat /\ D = 1 .. Cardinality(D)
<1>1. CASE D = 1 .. n
  <2>1. Cardinality(1 .. n) = n
    BY FS_Interval
  <2> QED  BY <1>1, <2>1
<1>2. CASE D # 1 .. n
  <2>1. (1 .. n) \ D # {} /\ (1 .. n) \ D \subseteq Nat
    <3>1. \E i \in 1 .. n : i \notin D
      BY <1>2, Zenon
    <3> QED  BY <3>1
  <2>2. PICK m \in (1 .. n) \ D : \A i \in (1 .. n) \ D : m <= i
    BY <2>1, LeastNatural
  <2>3. D = 1 .. m - 1
    <3>1. ASSUME NEW i \in D PROVE i <= m - 1
      BY <2>2
    <3>2. ASSUME NEW i \in 1 .. m - 1 PROVE i \in D
      BY <2>2
    <3>3. D \subseteq 1 .. m - 1
      <4>1. ASSUME NEW i \in D PROVE i \in 1 .. m - 1
        BY <3>1, <2>2
      <4> QED  BY <4>1
    <3> QED  BY <3>2, <3>3, Zenon
  <2>4. Cardinality(1 .. m - 1) = m - 1
    BY <2>2, FS_Interval
  <2> QED  BY <2>2, <2>3, <2>4
<1> QED  BY <1>1, <1>2

(* What SortsConfidences asks for is what Descends says, with the counts    *)
(* added up: the entries that reach c are the first AtLeast of them.       *)
LEMMA SortedDescends ==
    ASSUME NEW keys, NEW S, IsFiniteSet(S), \A r \in S : keys[r] \in Keys,
           NEW p \in Priorities,
           NEW a \in [0 .. MaxConfidence + 1 -> Nat],
           \A c \in 0 .. MaxConfidence + 1 : a[c] = AtLeast(keys, S, p, c),
           NEW f \in [1 .. CountIn(keys, S, p) -> Confidences],
           SortsConfidences(f, keys, S, p)
    PROVE  Descends(f, CountIn(keys, S, p), a)
<1> DEFINE n == CountIn(keys, S, p)
           Reach(c) == {i \in 1 .. n : f[i] >= c}
           At(c) == {i \in DOMAIN f : f[i] = c}
           Bad == {k \in 0 .. MaxConfidence + 1 : Cardinality(Reach(MaxConfidence + 1 - k)) # a[MaxConfidence + 1 - k]}
<1>1. n \in Nat /\ MaxConfidence \in Nat /\ \A i \in 1 .. n : f[i] \in 0 .. MaxConfidence
  BY CountsAreNat, LevelsAssumption DEF Confidences
<1>2. /\ \A i, j \in 1 .. n : i < j => f[i] >= f[j]
      /\ \A c \in Confidences : Cardinality(At(c)) = CountAt(keys, S, p, c)
  BY DEF SortsConfidences
<1>3. /\ a[MaxConfidence + 1] = 0
      /\ \A c \in 0 .. MaxConfidence : a[c] = a[c + 1] + CountAt(keys, S, p, c)
  <2>1. MaxConfidence + 1 \in 0 .. MaxConfidence + 1
    BY <1>1
  <2>2. ASSUME NEW c \in 0 .. MaxConfidence
        PROVE  a[c] = a[c + 1] + CountAt(keys, S, p, c)
    <3>1. c \in Confidences /\ c \in 0 .. MaxConfidence + 1 /\ c + 1 \in 0 .. MaxConfidence + 1
      BY <1>1 DEF Confidences
    <3> QED  BY <3>1, AtLeastFacts
  <2> QED  BY <2>1, <2>2, AtLeastFacts
<1>4. ASSUME NEW c \in Int
      PROVE  IsFiniteSet(Reach(c)) /\ IsFiniteSet(At(c))
  <2>1. IsFiniteSet(1 .. n)
    BY <1>1, FS_Interval
  <2>2. Reach(c) \in SUBSET (1 .. n) /\ At(c) \in SUBSET (1 .. n)
    OBVIOUS
  <2> HIDE DEF Reach, At
  <2> QED  BY <2>1, <2>2, FS_Subset
<1>5. Bad = {}
  <2>1. SUFFICES ASSUME Bad # {} PROVE FALSE
    OBVIOUS
  <2>2. PICK k \in Bad : \A m \in Bad : k <= m
    <3>1. Bad \subseteq Nat
      OBVIOUS
    <3> HIDE DEF Bad
    <3> QED  BY <2>1, <3>1, LeastNatural
  <2>3. k \in 0 .. MaxConfidence + 1
    OBVIOUS
  <2>4. CASE k = 0
    <3>1. Reach(MaxConfidence + 1) = {}
      BY <1>1
    <3>2. Cardinality(Reach(MaxConfidence + 1)) = 0
      BY <3>1, FS_EmptySet
    <3> QED  BY <1>1, <1>3, <2>4, <3>2
  <2>5. CASE k # 0
    <3> DEFINE c == MaxConfidence + 1 - k
    <3>1. /\ k - 1 \in 0 .. MaxConfidence + 1 /\ ~(k <= k - 1)
          /\ c \in 0 .. MaxConfidence /\ MaxConfidence + 1 - (k - 1) = c + 1
      BY <1>1, <2>3, <2>5
    <3>2. Cardinality(Reach(c + 1)) = a[c + 1]
      <4>1. k - 1 \notin Bad
        BY <2>2, <3>1
      <4> QED  BY <3>1, <4>1
    <3>3. Reach(c) = Reach(c + 1) \cup At(c) /\ Reach(c + 1) \cap At(c) = {}
      <4> HIDE DEF c
      <4> QED  BY <1>1, <3>1
    <3>4. Cardinality(At(c)) = CountAt(keys, S, p, c) /\ CountAt(keys, S, p, c) \in Nat
      <4>1. c \in Confidences
        BY <3>1 DEF Confidences
      <4> HIDE DEF c, At
      <4> QED  BY <1>2, <4>1, CountsAreNat
    <3>5. IsFiniteSet(Reach(c + 1)) /\ IsFiniteSet(At(c))
      <4>1. c \in Int /\ c + 1 \in Int
        BY <3>1
      <4> HIDE DEF c, Reach, At
      <4> QED  BY <1>4, <4>1
    <3>6. Cardinality(Reach(c)) = a[c + 1] + CountAt(keys, S, p, c)
      <4>1. a[c + 1] \in Nat
        BY <1>1, <3>1
      <4> HIDE DEF c, Reach, At
      <4>2. Cardinality(Reach(c + 1) \cup At(c)) = Cardinality(Reach(c + 1)) + Cardinality(At(c)) - Cardinality(Reach(c + 1) \cap At(c))
        BY <3>5, FS_Union
      <4>3. Cardinality(Reach(c + 1) \cap At(c)) = 0
        BY <3>3, FS_EmptySet
      <4> DEFINE x == Cardinality(Reach(c + 1))
                 y == Cardinality(At(c))
                 z == Cardinality(Reach(c + 1) \cap At(c))
      <4>4. x \in Nat /\ y \in Nat /\ z = 0 /\ x = a[c + 1] /\ y = CountAt(keys, S, p, c)
        BY <3>2, <3>4, <4>1, <4>3
      <4>5. Cardinality(Reach(c)) = x + y - z
        BY <3>3, <4>2, Zenon
      <4> HIDE DEF x, y, z
      <4>6. x + y - z = x + y
        BY <4>4
      <4> QED  BY <4>4, <4>5, <4>6
    <3>7. Cardinality(Reach(c)) = a[c]
      BY <1>3, <3>1, <3>6
    <3> QED  BY <2>2, <3>7
  <2> QED  BY <2>4, <2>5
<1>6. ASSUME NEW c \in 0 .. MaxConfidence + 1
      PROVE  Reach(c) = 1 .. a[c]
  <2>1. Cardinality(Reach(c)) = a[c]
    <3>1. MaxConfidence + 1 - c \in 0 .. MaxConfidence + 1 /\ MaxConfidence + 1 - (MaxConfidence + 1 - c) = c
      BY <1>1
    <3>2. MaxConfidence + 1 - c \notin Bad
      BY <1>5
    <3> HIDE DEF Reach
    <3> QED  BY <3>1, <3>2
  <2>2. ASSUME NEW i \in Reach(c), NEW j \in 1 .. i
        PROVE  j \in Reach(c)
    <3>1. i \in 1 .. n /\ j \in 1 .. n /\ f[i] >= c /\ (j = i \/ j < i)
      BY <1>1
    <3>2. f[j] >= f[i]
      <4>1. f[i] \in 0 .. MaxConfidence /\ f[j] \in 0 .. MaxConfidence
        BY <1>1, <3>1
      <4>2. j < i => f[j] >= f[i]
        BY <1>2, <3>1
      <4> QED  BY <1>1, <3>1, <4>1, <4>2
    <3> QED  BY <1>1, <3>1, <3>2
  <2>3. Reach(c) \in SUBSET (1 .. n)
    OBVIOUS
  <2> HIDE DEF Reach, n
  <2> QED  BY <1>1, <2>1, <2>2, <2>3, InitialSegment
<1>7. ASSUME NEW i \in 1 .. n, NEW c \in 0 .. MaxConfidence + 1
      PROVE  f[i] >= c <=> i <= a[c]
  <2>1. i \in Reach(c) <=> f[i] >= c
    OBVIOUS
  <2>2. i \in Reach(c) <=> i \in 1 .. a[c]
    BY <1>6, Zenon
  <2> QED  BY <1>1, <2>1, <2>2
<1> QED  BY <1>7 DEF Descends

(* The counts of a layer can be listed: the entry i is the largest          *)
(* confidence that i records reach.                                        *)
LEMMA SortedExists ==
    ASSUME NEW keys, NEW S, IsFiniteSet(S), \A r \in S : keys[r] \in Keys,
           NEW p \in Priorities
    PROVE  /\ SortedConfidences(keys, S, p) \in [1 .. CountIn(keys, S, p) -> Confidences]
           /\ SortsConfidences(SortedConfidences(keys, S, p), keys, S, p)
<1> DEFINE n == CountIn(keys, S, p)
           a(c) == AtLeast(keys, S, p, c)
           At(i) == {c \in Confidences : i <= a(c)}
           f == [i \in 1 .. n |-> CHOOSE c \in At(i) : \A d \in At(i) : d <= c]
<1>1. /\ n \in Nat /\ MaxConfidence \in Nat /\ Confidences = 0 .. MaxConfidence
      /\ \A c \in 0 .. MaxConfidence + 1 : a(c) \in 0 .. n
      /\ a(0) = n /\ a(MaxConfidence + 1) = 0
      /\ \A c \in 0 .. MaxConfidence : a(c) = a(c + 1) + CountAt(keys, S, p, c)
      /\ \A c \in 0 .. MaxConfidence : CountAt(keys, S, p, c) \in Nat
  BY CountsAreNat, AtLeastFacts, LevelsAssumption DEF Confidences
<1> HIDE DEF a
<1>2. ASSUME NEW i \in 1 .. n
      PROVE  f[i] \in At(i) /\ \A d \in At(i) : d <= f[i]
  <2>1. \E c \in At(i) : \A d \in At(i) : d <= c
    <3> DEFINE Gap == {MaxConfidence - c : c \in At(i)}
    <3>1. Gap \subseteq Nat /\ MaxConfidence \in Gap
      <4>1. 0 \in At(i)
        BY <1>1
      <4> QED  BY <1>1, <4>1
    <3>2. PICK g \in Gap : \A h \in Gap : g <= h
      <4> HIDE DEF Gap
      <4> QED  BY <3>1, LeastNatural
    <3>3. PICK c \in At(i) : g = MaxConfidence - c
      OBVIOUS
    <3>4. ASSUME NEW d \in At(i) PROVE d <= c
      <4>1. MaxConfidence - d \in Gap /\ c \in Int /\ d \in Int
        BY <1>1
      <4> HIDE DEF Gap, At
      <4> QED  BY <1>1, <3>2, <3>3, <4>1
    <3> QED  BY <3>4
  <2> HIDE DEF At
  <2> QED  BY <2>1
<1>3. f \in [1 .. n -> Confidences]
  <2>1. \A i \in 1 .. n : f[i] \in Confidences
    BY <1>2
  <2> QED  BY <2>1
<1> HIDE DEF f
<1>4. ASSUME NEW c \in 0 .. MaxConfidence, NEW d \in 0 .. MaxConfidence + 1, c < d
      PROVE  a(d) <= a(c)
  <2> DEFINE Bad == {e \in c .. MaxConfidence + 1 : ~(a(e) <= a(c))}
  <2>1. SUFFICES ASSUME Bad # {} PROVE FALSE
    <3>1. d \in c .. MaxConfidence + 1
      BY <1>1, <1>4
    <3>2. a(d) <= a(c) \/ d \in Bad
      BY <3>1
    <3> QED  BY <3>2
  <2>2. PICK e \in Bad : \A h \in Bad : e <= h
    <3>1. Bad \subseteq Nat
      BY <1>1
    <3> HIDE DEF Bad
    <3> QED  BY <2>1, <3>1, LeastNatural
  <2>3. e # c /\ e - 1 \in c .. MaxConfidence + 1 /\ e - 1 \in 0 .. MaxConfidence /\ (e - 1) + 1 = e
    <3>1. a(c) \in Int /\ c \in Int /\ e \in c .. MaxConfidence + 1 /\ ~(a(e) <= a(c))
      BY <1>1
    <3>2. e # c
      BY <3>1
    <3> QED  BY <1>1, <3>1, <3>2
  <2>4. a(e - 1) <= a(c)
    BY <2>2, <2>3
  <2>5. a(e - 1) = a(e) + CountAt(keys, S, p, e - 1) /\ CountAt(keys, S, p, e - 1) \in Nat
    BY <1>1, <2>3
  <2>6. a(e) \in Nat /\ a(c) \in Nat
    BY <1>1, <2>2
  <2> QED  BY <2>2, <2>4, <2>5, <2>6
<1>5. ASSUME NEW i \in 1 .. n, NEW c \in 0 .. MaxConfidence + 1
      PROVE  f[i] >= c <=> i <= a(c)
  <2>1. f[i] \in 0 .. MaxConfidence /\ i <= a(f[i]) /\ a(c) \in Nat /\ a(f[i]) \in Nat
    BY <1>1, <1>2, <1>3
  <2>2. ASSUME f[i] >= c PROVE i <= a(c)
    <3>1. CASE f[i] = c
      BY <2>1, <3>1
    <3>2. CASE c < f[i]
      <4>1. a(f[i]) <= a(c)
        BY <1>1, <1>4, <2>1, <3>2
      <4> QED  BY <2>1, <4>1
    <3> QED  BY <1>1, <2>1, <2>2, <3>1, <3>2
  <2>3. ASSUME i <= a(c) PROVE f[i] >= c
    <3>1. c # MaxConfidence + 1
      BY <1>1, <2>3
    <3>2. c \in At(i)
      BY <1>1, <2>3, <3>1
    <3> QED  BY <1>1, <1>2, <2>1, <3>2
  <2> QED  BY <2>2, <2>3
<1>6. ASSUME NEW i \in 1 .. n, NEW j \in 1 .. n, i < j
      PROVE  f[i] >= f[j]
  <2>1. f[i] \in 0 .. MaxConfidence /\ f[j] \in 0 .. MaxConfidence /\ j <= a(f[j]) /\ a(f[j]) \in Nat
    BY <1>1, <1>2, <1>3
  <2>2. f[j] \in 0 .. MaxConfidence + 1 /\ i <= a(f[j])
    BY <1>1, <1>6, <2>1
  <2> QED  BY <1>5, <2>2
<1>7. ASSUME NEW c \in Confidences
      PROVE  Cardinality({i \in DOMAIN f : f[i] = c}) = CountAt(keys, S, p, c)
  <2>1. /\ c \in 0 .. MaxConfidence + 1 /\ c + 1 \in 0 .. MaxConfidence + 1
        /\ a(c) = a(c + 1) + CountAt(keys, S, p, c) /\ CountAt(keys, S, p, c) \in Nat
        /\ a(c + 1) \in 0 .. n /\ a(c) \in 0 .. n
    BY <1>1
  <2>2. ASSUME NEW i \in 1 .. n
        PROVE  f[i] = c <=> i \in a(c + 1) + 1 .. a(c)
    <3>1. /\ f[i] \in 0 .. MaxConfidence /\ c \in 0 .. MaxConfidence /\ MaxConfidence \in Int
          /\ i \in Int /\ a(c) \in Int /\ a(c + 1) \in Int
      <4>1. f[i] \in 0 .. MaxConfidence /\ i \in Int
        BY <1>1, <1>3
      <4>2. a(c) \in Int /\ a(c + 1) \in Int
        BY <1>1, <2>1
      <4> QED  BY <1>1, <4>1, <4>2
    <3>2. (f[i] >= c <=> i <= a(c)) /\ (f[i] >= c + 1 <=> i <= a(c + 1))
      BY <1>5, <2>1
    <3> QED  BY <3>1, <3>2
  <2>3. {i \in DOMAIN f : f[i] = c} = a(c + 1) + 1 .. a(c)
    <3>1. DOMAIN f = 1 .. n
      BY <1>3
    <3>2. \A i \in a(c + 1) + 1 .. a(c) : i \in 1 .. n
      BY <1>1, <2>1
    <3> HIDE DEF n
    <3> QED  BY <2>2, <3>1, <3>2
  <2>4. Cardinality(a(c + 1) + 1 .. a(c)) = CountAt(keys, S, p, c)
    BY <2>1, FS_Interval
  <2> QED  BY <2>3, <2>4
<1>8. SortsConfidences(f, keys, S, p)
  BY <1>3, <1>6, <1>7 DEF SortsConfidences
<1>9. \E g \in [1 .. CountIn(keys, S, p) -> Confidences] : SortsConfidences(g, keys, S, p)
  BY <1>3, <1>8
<1> QED  BY <1>9 DEF SortedConfidences

LEMMA SameAbove ==
    ASSUME NEW m \in Nat, NEW x \in 0 .. m, NEW y \in 0 .. m, NEW c \in 0 .. m, x >= c, y >= c,
           \A d \in c + 1 .. m + 1 : x >= d <=> y >= d
    PROVE  x = y
<1>1. CASE x < y
  <2>1. y \in c + 1 .. m + 1
    BY <1>1
  <2>2. x >= y <=> y >= y
    BY <2>1
  <2> QED  BY <1>1, <2>2
<1>2. CASE y < x
  <2>1. x \in c + 1 .. m + 1
    BY <1>2
  <2>2. x >= x <=> y >= x
    BY <2>1
  <2> QED  BY <1>2, <2>2
<1> QED  BY <1>1, <1>2

(* Two descending tuples of one length compare as their counts do, from the *)
(* largest value down: at the first value where more of t reach it.        *)
LEMMA DescendingCompare ==
    ASSUME NEW n \in Nat,
           NEW a \in [0 .. MaxConfidence + 1 -> 0 .. n],
           NEW b \in [0 .. MaxConfidence + 1 -> 0 .. n],
           a[0] = n, b[0] = n, a[MaxConfidence + 1] = 0, b[MaxConfidence + 1] = 0,
           NEW s, Descends(s, n, a), NEW t, Descends(t, n, b)
    PROVE  TupleLess(s, t) <=>
              \E c \in Confidences :
                 a[c] < b[c] /\ \A d \in c + 1 .. MaxConfidence + 1 : a[d] = b[d]
<1>1. /\ MaxConfidence \in Nat /\ Confidences = 0 .. MaxConfidence
      /\ DOMAIN s = 1 .. n /\ DOMAIN t = 1 .. n
      /\ \A i \in 1 .. n : s[i] \in 0 .. MaxConfidence /\ t[i] \in 0 .. MaxConfidence
      /\ \A i \in 1 .. n, c \in 0 .. MaxConfidence + 1 : s[i] >= c <=> i <= a[c]
      /\ \A i \in 1 .. n, c \in 0 .. MaxConfidence + 1 : t[i] >= c <=> i <= b[c]
      /\ \A c \in 0 .. MaxConfidence + 1 :
            a[c] \in Nat /\ b[c] \in Nat /\ a[c] <= n /\ b[c] <= n
  <2>1. /\ MaxConfidence \in Nat /\ Confidences = 0 .. MaxConfidence
        /\ s \in [1 .. n -> Confidences] /\ t \in [1 .. n -> Confidences]
    BY LevelsAssumption DEF Descends, Confidences
  <2>2. \A c \in 0 .. MaxConfidence + 1 : a[c] \in 0 .. n /\ b[c] \in 0 .. n
    OBVIOUS
  <2>3. \A c \in 0 .. MaxConfidence + 1 :
           a[c] \in Nat /\ b[c] \in Nat /\ a[c] <= n /\ b[c] <= n
    BY <2>2
  <2>4. DOMAIN s = 1 .. n /\ DOMAIN t = 1 .. n
    BY <2>1
  <2>5. \A i \in 1 .. n : s[i] \in 0 .. MaxConfidence /\ t[i] \in 0 .. MaxConfidence
    BY <2>1
  <2>6. /\ \A i \in 1 .. n, c \in 0 .. MaxConfidence + 1 : s[i] >= c <=> i <= a[c]
        /\ \A i \in 1 .. n, c \in 0 .. MaxConfidence + 1 : t[i] >= c <=> i <= b[c]
    BY DEF Descends
  <2> QED  BY <2>1, <2>3, <2>4, <2>5, <2>6
<1>2. Len(s) = n /\ Len(t) = n
  <2>1. s \in Seq(Confidences) /\ t \in Seq(Confidences)
    BY DEF Descends
  <2> QED  BY <1>1, <2>1, LenProperties
<1>3. TupleLess(s, t) <=> \E k \in 1 .. n : s[k] < t[k] /\ \A j \in 1 .. k - 1 : s[j] = t[j]
  <2>1. ~(Len(s) < Len(t)) /\ DOMAIN s \cap DOMAIN t = 1 .. n
    BY <1>1, <1>2
  <2> QED  BY <2>1 DEF TupleLess
<1>4. ASSUME NEW c \in Confidences, a[c] < b[c],
             \A d \in c + 1 .. MaxConfidence + 1 : a[d] = b[d]
      PROVE  \E k \in 1 .. n : s[k] < t[k] /\ \A j \in 1 .. k - 1 : s[j] = t[j]
  <2> DEFINE k == a[c] + 1
  <2>1. c \in 0 .. MaxConfidence + 1 /\ a[c] \in Nat /\ b[c] \in Nat
    BY <1>1
  <2>2. b[c] <= n
    BY <1>1, <2>1
  <2>3. k \in 1 .. n /\ k <= b[c] /\ ~(k <= a[c])
    BY <1>4, <2>1, <2>2
  <2>4. t[k] >= c /\ ~(s[k] >= c)
    BY <1>1, <2>1, <2>3
  <2>5. s[k] < t[k]
    <3>1. s[k] \in 0 .. MaxConfidence /\ t[k] \in 0 .. MaxConfidence /\ c \in Int
      BY <1>1, <2>1, <2>3
    <3> HIDE DEF k
    <3> QED  BY <1>1, <2>4, <3>1
  <2>6. ASSUME NEW j \in 1 .. k - 1 PROVE s[j] = t[j]
    <3>1. j \in 1 .. n /\ j <= a[c] /\ j <= b[c]
      BY <2>1, <2>3, <1>4
    <3>2. s[j] >= c /\ t[j] >= c /\ s[j] \in 0 .. MaxConfidence /\ t[j] \in 0 .. MaxConfidence
      BY <1>1, <2>1, <3>1
    <3>3. \A d \in c + 1 .. MaxConfidence + 1 : s[j] >= d <=> t[j] >= d
      <4>1. \A d \in c + 1 .. MaxConfidence + 1 : d \in 0 .. MaxConfidence + 1
        BY <1>1, <2>1
      <4> QED  BY <1>1, <1>4, <3>1, <4>1
    <3>4. c \in 0 .. MaxConfidence
      BY <1>1
    <3> HIDE DEF k
    <3> QED  BY <1>1, <3>2, <3>3, <3>4, SameAbove
  <2> HIDE DEF k
  <2> QED  BY <2>3, <2>5, <2>6
<1>5. ASSUME NEW k \in 1 .. n, s[k] < t[k], \A j \in 1 .. k - 1 : s[j] = t[j]
      PROVE  \E c \in Confidences :
                a[c] < b[c] /\ \A d \in c + 1 .. MaxConfidence + 1 : a[d] = b[d]
  <2> DEFINE c == t[k]
  <2>1. c \in 0 .. MaxConfidence /\ c \in 0 .. MaxConfidence + 1 /\ a[c] \in Nat /\ b[c] \in Nat
    <3>1. c \in 0 .. MaxConfidence
      BY <1>1
    <3>2. c \in 0 .. MaxConfidence + 1
      BY <1>1, <3>1
    <3> QED  BY <1>1, <3>1, <3>2
  <2>2. k <= b[c] /\ ~(k <= a[c])
    <3>1. t[k] >= c /\ ~(s[k] >= c)
      BY <1>1, <1>5
    <3> QED  BY <1>1, <2>1, <3>1
  <2>3. a[c] < b[c]
    BY <2>1, <2>2
  <2>4. ASSUME NEW d \in c + 1 .. MaxConfidence + 1 PROVE a[d] = b[d]
    <3>1. d \in 0 .. MaxConfidence + 1 /\ d \in Nat /\ a[d] \in Nat /\ b[d] \in Nat
      BY <1>1, <2>1
    <3>2. ~(s[k] >= d) /\ ~(t[k] >= d)
      BY <1>1, <1>5, <2>1, <3>1
    <3>3. ~(k <= a[d]) /\ ~(k <= b[d])
      BY <1>1, <3>1, <3>2
    <3>4. ASSUME NEW j \in 1 .. k - 1 PROVE j <= a[d] <=> j <= b[d]
      <4>1. j \in 1 .. n /\ s[j] = t[j]
        BY <1>5
      <4> QED  BY <1>1, <3>1, <4>1
    <3>5. CASE a[d] < b[d]
      <4>1. b[d] \in 1 .. k - 1 /\ b[d] <= b[d] /\ ~(b[d] <= a[d])
        BY <3>1, <3>3, <3>5
      <4> QED  BY <3>4, <4>1
    <3>6. CASE b[d] < a[d]
      <4>1. a[d] \in 1 .. k - 1 /\ a[d] <= a[d] /\ ~(a[d] <= b[d])
        BY <3>1, <3>3, <3>6
      <4> QED  BY <3>4, <4>1
    <3> QED  BY <3>1, <3>5, <3>6
  <2> HIDE DEF c
  <2> QED  BY <1>1, <2>1, <2>3, <2>4
<1> QED  BY <1>3, <1>4, <1>5

(* The two lists of a layer are equal when the counts are.                 *)
LEMMA SortedEqual ==
    ASSUME NEW keys, NEW S, IsFiniteSet(S), \A r \in S : keys[r] \in Keys,
           NEW T, IsFiniteSet(T), \A r \in T : keys[r] \in Keys,
           NEW p \in Priorities, CountIn(keys, S, p) = CountIn(keys, T, p)
    PROVE  SortedConfidences(keys, S, p) = SortedConfidences(keys, T, p) <=>
              \A c \in Confidences : CountAt(keys, S, p, c) = CountAt(keys, T, p, c)
<1> DEFINE s == SortedConfidences(keys, S, p)
           t == SortedConfidences(keys, T, p)
<1>1. ASSUME s = t
      PROVE  \A c \in Confidences : CountAt(keys, S, p, c) = CountAt(keys, T, p, c)
  <2>1. SortsConfidences(s, keys, S, p) /\ SortsConfidences(s, keys, T, p)
    <3>1. SortsConfidences(s, keys, S, p) /\ SortsConfidences(t, keys, T, p)
      BY SortedExists
    <3> HIDE DEF s, t
    <3> QED  BY <1>1, <3>1
  <2> HIDE DEF s
  <2> QED  BY <2>1 DEF SortsConfidences
<1>2. ASSUME \A c \in Confidences : CountAt(keys, S, p, c) = CountAt(keys, T, p, c)
      PROVE  s = t
  <2>1. \A f : SortsConfidences(f, keys, S, p) <=> SortsConfidences(f, keys, T, p)
    BY <1>2 DEF SortsConfidences
  <2> QED  BY <2>1 DEF SortedConfidences
<1> QED  BY <1>1, <1>2

(* The lists of a layer with equal counts compare as the counts of the      *)
(* single confidences do, from the largest down.                           *)
LEMMA SortedCompare ==
    ASSUME NEW keys, NEW S, IsFiniteSet(S), \A r \in S : keys[r] \in Keys,
           NEW T, IsFiniteSet(T), \A r \in T : keys[r] \in Keys,
           NEW p \in Priorities, CountIn(keys, S, p) = CountIn(keys, T, p)
    PROVE  TupleLess(SortedConfidences(keys, S, p), SortedConfidences(keys, T, p)) <=>
              \E c \in Confidences :
                 /\ CountAt(keys, S, p, c) < CountAt(keys, T, p, c)
                 /\ \A d \in Confidences :
                       d > c => CountAt(keys, S, p, d) = CountAt(keys, T, p, d)
<1> DEFINE n == CountIn(keys, S, p)
           x(c) == CountAt(keys, S, p, c)
           y(c) == CountAt(keys, T, p, c)
           a == [c \in 0 .. MaxConfidence + 1 |-> AtLeast(keys, S, p, c)]
           b == [c \in 0 .. MaxConfidence + 1 |-> AtLeast(keys, T, p, c)]
<1>1. n \in Nat /\ MaxConfidence \in Nat /\ Confidences = 0 .. MaxConfidence
  BY CountsAreNat, LevelsAssumption DEF Confidences
<1>2. \A c \in 0 .. MaxConfidence : x(c) \in Nat /\ y(c) \in Nat
  BY <1>1, CountsAreNat
<1>3. /\ a \in [0 .. MaxConfidence + 1 -> 0 .. n] /\ a \in [0 .. MaxConfidence + 1 -> Nat]
      /\ b \in [0 .. MaxConfidence + 1 -> 0 .. n] /\ b \in [0 .. MaxConfidence + 1 -> Nat]
  <2>1. \A c \in 0 .. MaxConfidence + 1 :
           AtLeast(keys, S, p, c) \in 0 .. n /\ AtLeast(keys, T, p, c) \in 0 .. n
    BY AtLeastFacts
  <2> HIDE DEF n
  <2>2. \A c \in 0 .. MaxConfidence + 1 :
           AtLeast(keys, S, p, c) \in Nat /\ AtLeast(keys, T, p, c) \in Nat
    BY <1>1, <2>1
  <2> QED  BY <2>1, <2>2
<1>4. /\ a[0] = n /\ b[0] = n /\ a[MaxConfidence + 1] = 0 /\ b[MaxConfidence + 1] = 0
      /\ \A c \in 0 .. MaxConfidence : a[c] = a[c + 1] + x(c) /\ b[c] = b[c + 1] + y(c)
  <2>1. 0 \in 0 .. MaxConfidence + 1 /\ MaxConfidence + 1 \in 0 .. MaxConfidence + 1
    BY <1>1
  <2>2. ASSUME NEW c \in 0 .. MaxConfidence
        PROVE  a[c] = a[c + 1] + x(c) /\ b[c] = b[c + 1] + y(c)
    <3>1. c \in Confidences /\ c \in 0 .. MaxConfidence + 1 /\ c + 1 \in 0 .. MaxConfidence + 1
      BY <1>1
    <3> QED  BY <3>1, AtLeastFacts
  <2> QED  BY <2>1, <2>2, AtLeastFacts
<1>5. Descends(SortedConfidences(keys, S, p), n, a) /\ Descends(SortedConfidences(keys, T, p), n, b)
  BY <1>3, SortedExists, SortedDescends
<1> HIDE DEF n, x, y, a, b
<1>6. TupleLess(SortedConfidences(keys, S, p), SortedConfidences(keys, T, p)) <=>
         \E c \in Confidences :
            a[c] < b[c] /\ \A d \in c + 1 .. MaxConfidence + 1 : a[d] = b[d]
  BY <1>1, <1>3, <1>4, <1>5, DescendingCompare
<1>7. ASSUME NEW c \in 0 .. MaxConfidence
      PROVE  (a[c] < b[c] /\ \A d \in c + 1 .. MaxConfidence + 1 : a[d] = b[d])
                <=> (x(c) < y(c) /\ \A d \in 0 .. MaxConfidence : d > c => x(d) = y(d))
  <2>1. ASSUME NEW d \in 0 .. MaxConfidence + 1
        PROVE  a[d] \in Nat /\ b[d] \in Nat
    BY <1>3
  <2>2. /\ c + 1 \in 0 .. MaxConfidence + 1 /\ c \in 0 .. MaxConfidence + 1
        /\ c + 1 \in c + 1 .. MaxConfidence + 1
    BY <1>1
  <2>3. /\ a[c] = a[c + 1] + x(c) /\ b[c] = b[c + 1] + y(c)
        /\ a[c] \in Nat /\ b[c] \in Nat /\ a[c + 1] \in Nat /\ b[c + 1] \in Nat
        /\ x(c) \in Nat /\ y(c) \in Nat
    BY <1>2, <1>4, <2>1, <2>2
  <2>4. ASSUME \A d \in c + 1 .. MaxConfidence + 1 : a[d] = b[d]
        PROVE  \A d \in 0 .. MaxConfidence : d > c => x(d) = y(d)
    <3>1. ASSUME NEW d \in 0 .. MaxConfidence, d > c PROVE x(d) = y(d)
      <4>1. /\ d \in c + 1 .. MaxConfidence + 1 /\ d + 1 \in c + 1 .. MaxConfidence + 1
            /\ d + 1 \in 0 .. MaxConfidence + 1 /\ d \in 0 .. MaxConfidence + 1
        BY <1>1, <3>1
      <4>2. a[d] = a[d + 1] + x(d) /\ b[d] = b[d + 1] + y(d) /\ x(d) \in Nat /\ y(d) \in Nat
        BY <1>2, <1>4
      <4>3. a[d] = b[d] /\ a[d + 1] = b[d + 1] /\ a[d + 1] \in Nat /\ a[d] \in Nat
        BY <2>1, <2>4, <4>1
      <4> QED  BY <4>2, <4>3
    <3> QED  BY <3>1
  <2>5. ASSUME \A d \in 0 .. MaxConfidence : d > c => x(d) = y(d)
        PROVE  \A d \in c + 1 .. MaxConfidence + 1 : a[d] = b[d]
    <3> DEFINE Bad == {k \in Nat : k <= MaxConfidence - c /\ a[MaxConfidence + 1 - k] # b[MaxConfidence + 1 - k]}
    <3>1. Bad = {}
      <4>1. SUFFICES ASSUME Bad # {} PROVE FALSE
        OBVIOUS
      <4>2. PICK k \in Bad : \A m \in Bad : k <= m
        <5>1. Bad \subseteq Nat
          OBVIOUS
        <5> HIDE DEF Bad
        <5> QED  BY <4>1, <5>1, LeastNatural
      <4>3. k \in Nat /\ k <= MaxConfidence - c /\ a[MaxConfidence + 1 - k] # b[MaxConfidence + 1 - k]
        OBVIOUS
      <4>4. k # 0
        <5>1. k = 0 => MaxConfidence + 1 - k = MaxConfidence + 1
          BY <1>1
        <5> QED  BY <1>4, <4>3, <5>1
      <4>5. k - 1 \in Nat /\ k - 1 <= MaxConfidence - c /\ ~(k <= k - 1)
        BY <1>1, <4>3, <4>4
      <4>6. a[MaxConfidence + 1 - (k - 1)] = b[MaxConfidence + 1 - (k - 1)]
        BY <4>2, <4>5
      <4>7. PICK d \in 0 .. MaxConfidence :
               d = MaxConfidence + 1 - k /\ d > c /\ MaxConfidence + 1 - (k - 1) = d + 1
        BY <1>1, <4>3, <4>4
      <4>8. a[d] = a[d + 1] + x(d) /\ b[d] = b[d + 1] + y(d) /\ x(d) = y(d)
        BY <1>4, <2>5, <4>7
      <4> QED  BY <4>3, <4>6, <4>7, <4>8
    <3>2. ASSUME NEW d \in c + 1 .. MaxConfidence + 1 PROVE a[d] = b[d]
      <4>1. /\ MaxConfidence + 1 - d \in Nat /\ MaxConfidence + 1 - d <= MaxConfidence - c
            /\ MaxConfidence + 1 - (MaxConfidence + 1 - d) = d
        BY <1>1
      <4> QED  BY <3>1, <4>1
    <3> QED  BY <3>2
  <2>6. ASSUME \A d \in c + 1 .. MaxConfidence + 1 : a[d] = b[d]
        PROVE  a[c] < b[c] <=> x(c) < y(c)
    <3>1. a[c + 1] = b[c + 1]
      BY <2>2, <2>6
    <3> QED  BY <2>3, <3>1
  <2> QED  BY <2>4, <2>5, <2>6
<1>8. (\E c \in Confidences :
          x(c) < y(c) /\ \A d \in Confidences : d > c => x(d) = y(d))
      <=> \E c \in Confidences :
             a[c] < b[c] /\ \A d \in c + 1 .. MaxConfidence + 1 : a[d] = b[d]
  BY <1>1, <1>7
<1> QED  BY <1>6, <1>8 DEF x, y

(* The counts and the lists of a rank, in the order the tuples have them.  *)
LEMMA LayerFacts ==
    /\ MaxPriority \in Nat /\ Priorities = 0 .. MaxPriority
    /\ DOMAIN LayerOrder = 1 .. MaxPriority + 1
    /\ \A i \in 1 .. MaxPriority + 1 :
          LayerOrder[i] \in Priorities /\ LayerOrder[i] = MaxPriority + 1 - i
  BY LevelsAssumption DEF LayerOrder, Priorities

LEMMA TupleDomains ==
    ASSUME NEW keys, NEW S
    PROVE  /\ DOMAIN CountTuple(keys, S) = 1 .. MaxPriority + 1
           /\ DOMAIN ConfidenceTuples(keys, S) = 1 .. MaxPriority + 1
  BY LayerFacts DEF CountTuple, ConfidenceTuples

LEMMA TupleOfLayer ==
    ASSUME NEW keys, NEW S, NEW p \in Priorities, NEW i, i = MaxPriority + 1 - p
    PROVE  /\ i \in 1 .. MaxPriority + 1
           /\ CountTuple(keys, S)[i] = CountIn(keys, S, p)
           /\ ConfidenceTuples(keys, S)[i] = SortedConfidences(keys, S, p)
<1>1. i \in 1 .. MaxPriority + 1 /\ MaxPriority + 1 - i = p
  BY LayerFacts
<1>2. i \in DOMAIN LayerOrder /\ LayerOrder[i] = p
  BY <1>1, LayerFacts
<1> QED  BY <1>1, <1>2 DEF CountTuple, ConfidenceTuples

\* A position of the tuples is that of a layer.
LEMMA LayerOfPosition ==
    ASSUME NEW i \in 1 .. MaxPriority + 1
    PROVE  \E p \in Priorities : i = MaxPriority + 1 - p /\ p = MaxPriority + 1 - i
<1>1. MaxPriority + 1 - i \in Priorities /\ i = MaxPriority + 1 - (MaxPriority + 1 - i)
  BY LayerFacts
<1> QED  BY <1>1

LEMMA CountTuplesEqual ==
    ASSUME NEW keys, NEW S, NEW T
    PROVE  CountTuple(keys, S) = CountTuple(keys, T) <=> SameCounts(keys, S, T)
<1>1. ASSUME CountTuple(keys, S) = CountTuple(keys, T)
      PROVE  SameCounts(keys, S, T)
  <2>1. ASSUME NEW p \in Priorities PROVE CountIn(keys, S, p) = CountIn(keys, T, p)
    <3>1. PICK i : i = MaxPriority + 1 - p
      OBVIOUS
    <3> QED  BY <1>1, <3>1, TupleOfLayer
  <2> QED  BY <2>1 DEF SameCounts
<1>2. ASSUME SameCounts(keys, S, T)
      PROVE  CountTuple(keys, S) = CountTuple(keys, T)
  <2>1. \A i \in DOMAIN LayerOrder : CountIn(keys, S, LayerOrder[i]) = CountIn(keys, T, LayerOrder[i])
    BY <1>2, LayerFacts DEF SameCounts
  <2> QED  BY <2>1 DEF CountTuple
<1> QED  BY <1>1, <1>2

LEMMA CountTuplesCompare ==
    ASSUME NEW keys, NEW S, IsFiniteSet(S), NEW T, IsFiniteSet(T)
    PROVE  TupleLess(CountTuple(keys, S), CountTuple(keys, T)) <=> FewerInLayers(keys, S, T)
<1> DEFINE s == CountTuple(keys, S)
           t == CountTuple(keys, T)
           top == MaxPriority + 1
<1>1. /\ top \in Nat /\ DOMAIN s = 1 .. top /\ DOMAIN t = 1 .. top
      /\ Priorities = 0 .. MaxPriority /\ MaxPriority \in Nat
  BY LayerFacts, TupleDomains
<1>2. ASSUME NEW p \in Priorities
      PROVE  /\ top - p \in 1 .. top
             /\ s[top - p] = CountIn(keys, S, p) /\ t[top - p] = CountIn(keys, T, p)
  <2>1. PICK i : i = top - p
    OBVIOUS
  <2>2. i \in 1 .. top /\ s[i] = CountIn(keys, S, p) /\ t[i] = CountIn(keys, T, p)
    BY <1>1, <2>1, TupleOfLayer
  <2> HIDE DEF s, t, top
  <2> QED  BY <2>1, <2>2
<1>3. ASSUME NEW i \in 1 .. top
      PROVE  \E p \in Priorities : i = top - p /\ p = top - i
  <2>1. PICK p \in Priorities : i = MaxPriority + 1 - p /\ p = MaxPriority + 1 - i
    BY LayerOfPosition
  <2> QED  BY <1>1, <2>1
<1>4. Len(s) = Len(t) /\ Len(s) \in Nat
  <2>1. ASSUME NEW i \in 1 .. top PROVE s[i] \in Nat /\ t[i] \in Nat
    <3>1. PICK p \in Priorities : p = top - i
      BY <1>3
    <3>2. s[i] = CountIn(keys, S, p) /\ t[i] = CountIn(keys, T, p)
      BY <1>2, <1>3, <3>1
    <3> QED  BY <3>2, CountsAreNat
  <2>2. s \in [1 .. top -> Nat] /\ t \in [1 .. top -> Nat]
    BY <1>1, <2>1 DEF CountTuple
  <2>3. s \in Seq(Nat) /\ t \in Seq(Nat)
    BY <1>1, <2>2
  <2> HIDE DEF s, t, top
  <2> QED  BY <1>1, <2>3, LenProperties
<1> HIDE DEF s, t
<1>5. TupleLess(s, t) <=> \E i \in 1 .. top : s[i] < t[i] /\ \A j \in 1 .. i - 1 : s[j] = t[j]
  <2>1. ~(Len(s) < Len(t)) /\ DOMAIN s \cap DOMAIN t = 1 .. top
    BY <1>1, <1>4
  <2> QED  BY <2>1 DEF TupleLess
<1>6. ASSUME NEW i \in 1 .. top, s[i] < t[i], \A j \in 1 .. i - 1 : s[j] = t[j]
      PROVE  FewerInLayers(keys, S, T)
  <2>1. PICK p \in Priorities : p = top - i /\ top - p = i
    BY <1>3
  <2>2. CountIn(keys, S, p) < CountIn(keys, T, p)
    BY <1>2, <1>6, <2>1
  <2>3. ASSUME NEW q \in Priorities, q > p
        PROVE  CountIn(keys, S, q) = CountIn(keys, T, q)
    <3>1. top - q \in 1 .. i - 1
      BY <1>1, <2>1, <2>3
    <3>2. s[top - q] = t[top - q]
      BY <1>6, <3>1
    <3> QED  BY <1>2, <3>2
  <2> QED  BY <2>2, <2>3 DEF FewerInLayers
<1>7. ASSUME FewerInLayers(keys, S, T)
      PROVE  \E i \in 1 .. top : s[i] < t[i] /\ \A j \in 1 .. i - 1 : s[j] = t[j]
  <2>1. PICK p \in Priorities :
           /\ CountIn(keys, S, p) < CountIn(keys, T, p)
           /\ \A q \in Priorities : q > p => CountIn(keys, S, q) = CountIn(keys, T, q)
    BY <1>7 DEF FewerInLayers
  <2>2. top - p \in 1 .. top /\ s[top - p] < t[top - p]
    BY <1>2, <2>1
  <2>3. ASSUME NEW j \in 1 .. (top - p) - 1 PROVE s[j] = t[j]
    <3>1. j \in 1 .. top
      BY <1>1
    <3>2. PICK q \in Priorities : q = top - j /\ top - q = j
      BY <1>3, <3>1
    <3>3. q > p
      BY <1>1, <3>2
    <3> QED  BY <1>2, <2>1, <3>2, <3>3
  <2> QED  BY <2>2, <2>3
<1> QED  BY <1>5, <1>6, <1>7 DEF s, t

LEMMA ConfidenceTuplesEqual ==
    ASSUME NEW keys, NEW S, IsFiniteSet(S), \A r \in S : keys[r] \in Keys,
           NEW T, IsFiniteSet(T), \A r \in T : keys[r] \in Keys,
           SameCounts(keys, S, T)
    PROVE  ConfidenceTuples(keys, S) = ConfidenceTuples(keys, T) <=>
              \A p \in Priorities, c \in Confidences :
                 CountAt(keys, S, p, c) = CountAt(keys, T, p, c)
<1>1. \A p \in Priorities : CountIn(keys, S, p) = CountIn(keys, T, p)
  BY DEF SameCounts
<1>2. ASSUME ConfidenceTuples(keys, S) = ConfidenceTuples(keys, T),
             NEW p \in Priorities, NEW c \in Confidences
      PROVE  CountAt(keys, S, p, c) = CountAt(keys, T, p, c)
  <2>1. SortedConfidences(keys, S, p) = SortedConfidences(keys, T, p)
    <3>1. PICK i : i = MaxPriority + 1 - p
      OBVIOUS
    <3> QED  BY <1>2, <3>1, TupleOfLayer
  <2> QED  BY <1>1, <2>1, SortedEqual
<1>3. ASSUME \A p \in Priorities, c \in Confidences : CountAt(keys, S, p, c) = CountAt(keys, T, p, c)
      PROVE  ConfidenceTuples(keys, S) = ConfidenceTuples(keys, T)
  <2>1. ASSUME NEW i \in DOMAIN LayerOrder
        PROVE  SortedConfidences(keys, S, LayerOrder[i]) = SortedConfidences(keys, T, LayerOrder[i])
    <3>1. LayerOrder[i] \in Priorities
      BY LayerFacts
    <3> QED  BY <1>1, <1>3, <3>1, SortedEqual
  <2> QED  BY <2>1 DEF ConfidenceTuples
<1> QED  BY <1>2, <1>3

LEMMA ConfidenceTuplesCompare ==
    ASSUME NEW keys, NEW S, IsFiniteSet(S), \A r \in S : keys[r] \in Keys,
           NEW T, IsFiniteSet(T), \A r \in T : keys[r] \in Keys,
           SameCounts(keys, S, T)
    PROVE  NestedLess(ConfidenceTuples(keys, S), ConfidenceTuples(keys, T)) <=>
              LowerConfidences(keys, S, T)
<1> DEFINE s == ConfidenceTuples(keys, S)
           t == ConfidenceTuples(keys, T)
           top == MaxPriority + 1
           Same(p) == \A c \in Confidences : CountAt(keys, S, p, c) = CountAt(keys, T, p, c)
           LessAt(p, c) == /\ CountAt(keys, S, p, c) < CountAt(keys, T, p, c)
                           /\ \A d \in Confidences :
                                 d > c => CountAt(keys, S, p, d) = CountAt(keys, T, p, d)
<1>1. /\ top \in Nat /\ DOMAIN s = 1 .. top /\ DOMAIN t = 1 .. top
      /\ Priorities = 0 .. MaxPriority /\ MaxPriority \in Nat
  BY LayerFacts, TupleDomains
<1>2. ASSUME NEW p \in Priorities
      PROVE  /\ s[top - p] = t[top - p] <=> Same(p)
             /\ TupleLess(s[top - p], t[top - p]) <=> \E c \in Confidences : LessAt(p, c)
  <2>1. /\ s[top - p] = SortedConfidences(keys, S, p)
        /\ t[top - p] = SortedConfidences(keys, T, p)
    <3>1. PICK i : i = top - p
      OBVIOUS
    <3>2. s[i] = SortedConfidences(keys, S, p) /\ t[i] = SortedConfidences(keys, T, p)
      BY <1>1, <3>1, TupleOfLayer
    <3> HIDE DEF s, t, top
    <3> QED  BY <3>1, <3>2
  <2>2. CountIn(keys, S, p) = CountIn(keys, T, p)
    BY DEF SameCounts
  <2> HIDE DEF s, t, top
  <2> QED  BY <2>1, <2>2, SortedEqual, SortedCompare
<1>3. LowerConfidences(keys, S, T) <=>
         \E p \in Priorities : /\ \E c \in Confidences : LessAt(p, c)
                               /\ \A q \in Priorities : q > p => Same(q)
  <2>1. ASSUME NEW p \in Priorities, NEW c \in Confidences
        PROVE  (\A q \in Priorities, d \in Confidences :
                   KeyLess([pri |-> p, conf |-> c], [pri |-> q, conf |-> d])
                      => CountAt(keys, S, q, d) = CountAt(keys, T, q, d))
               <=> /\ \A d \in Confidences :
                         d > c => CountAt(keys, S, p, d) = CountAt(keys, T, p, d)
                   /\ \A q \in Priorities : q > p => Same(q)
    <3>1. ASSUME NEW q \in Priorities, NEW d \in Confidences
          PROVE  KeyLess([pri |-> p, conf |-> c], [pri |-> q, conf |-> d])
                    <=> q > p \/ (q = p /\ d > c)
      BY <1>1, LevelsAssumption DEF KeyLess, Confidences
    <3>2. \A q \in Priorities : ~(p > p) /\ (q = p \/ q # p)
      BY <1>1
    <3> QED  BY <3>1, <3>2
  <2> HIDE DEF Same
  <2> QED  BY <2>1 DEF LowerConfidences
<1> HIDE DEF s, t, Same, LessAt
<1>4. ASSUME NEW p \in Priorities
      PROVE  (\A j \in 1 .. (top - p) - 1 : s[j] = t[j])
                <=> \A q \in Priorities : q > p => Same(q)
  <2>1. ASSUME NEW q \in Priorities, q > p PROVE top - q \in 1 .. (top - p) - 1
    BY <1>1, <2>1
  <2>2. ASSUME NEW j \in 1 .. (top - p) - 1
        PROVE  top - j \in Priorities /\ top - j > p /\ top - (top - j) = j
    BY <1>1
  <2>3. ASSUME \A j \in 1 .. (top - p) - 1 : s[j] = t[j], NEW q \in Priorities, q > p
        PROVE  Same(q)
    <3>1. s[top - q] = t[top - q]
      BY <2>1, <2>3
    <3> QED  BY <1>2, <3>1
  <2>4. ASSUME \A q \in Priorities : q > p => Same(q), NEW j \in 1 .. (top - p) - 1
        PROVE  s[j] = t[j]
    <3>1. Same(top - j)
      BY <2>2, <2>4
    <3>2. s[top - (top - j)] = t[top - (top - j)]
      BY <1>2, <2>2, <3>1
    <3> QED  BY <2>2, <3>2
  <2> QED  BY <2>3, <2>4
<1>5. NestedLess(s, t) <=>
         \E i \in 1 .. top : TupleLess(s[i], t[i]) /\ \A j \in 1 .. i - 1 : s[j] = t[j]
  BY <1>1 DEF NestedLess
<1>6. ASSUME NEW i \in 1 .. top
      PROVE  top - i \in Priorities /\ top - (top - i) = i
  BY <1>1
<1>7. ASSUME NEW p \in Priorities
      PROVE  top - p \in 1 .. top
  BY <1>1
<1>8. NestedLess(s, t) <=>
         \E p \in Priorities : /\ TupleLess(s[top - p], t[top - p])
                               /\ \A j \in 1 .. (top - p) - 1 : s[j] = t[j]
  <2>1. ASSUME NEW i \in 1 .. top, TupleLess(s[i], t[i]), \A j \in 1 .. i - 1 : s[j] = t[j]
        PROVE  \E p \in Priorities : /\ TupleLess(s[top - p], t[top - p])
                                     /\ \A j \in 1 .. (top - p) - 1 : s[j] = t[j]
    <3>1. PICK p \in Priorities : top - p = i
      BY <1>6
    <3> QED  BY <2>1, <3>1
  <2> QED  BY <1>5, <1>7, <2>1
<1> QED  BY <1>2, <1>3, <1>4, <1>8 DEF s, t

(* The order and the equality of ranks, without tuples, are those of the    *)
(* tuples the code compares.                                               *)
LEMMA RankTuplesAgree ==
    ASSUME NEW keys, NEW S, IsFiniteSet(S), \A r \in S : keys[r] \in Keys,
           NEW T, IsFiniteSet(T), \A r \in T : keys[r] \in Keys
    PROVE  /\ RankLess(keys, S, T)  <=> TuplesLess(keys, S, T)
           /\ RankEqual(keys, S, T) <=> TuplesEqual(keys, S, T)
<1>1. SameCounts(keys, S, T) <=> CountTuple(keys, S) = CountTuple(keys, T)
  BY CountTuplesEqual
<1>2. FewerInLayers(keys, S, T) <=> TupleLess(CountTuple(keys, S), CountTuple(keys, T))
  BY CountTuplesCompare
<1>3. SameCounts(keys, S, T) =>
         (NestedLess(ConfidenceTuples(keys, S), ConfidenceTuples(keys, T)) <=> LowerConfidences(keys, S, T))
  BY ConfidenceTuplesCompare
<1>4. SameCounts(keys, S, T) =>
         (ConfidenceTuples(keys, S) = ConfidenceTuples(keys, T) <=>
              \A p \in Priorities, c \in Confidences :
                 CountAt(keys, S, p, c) = CountAt(keys, T, p, c))
  BY ConfidenceTuplesEqual
<1> QED  BY <1>1, <1>2, <1>3, <1>4 DEF RankLess, RankEqual, TuplesLess, TuplesEqual

(* The search compares omissions as the code compares its rank tuples, for  *)
(* every number of records, priorities and confidences: heapq orders by     *)
(* what RankLess says, and _search meets a new rank when RankEqual fails.   *)
THEOREM RanksAreTuples == Spec => []RankIsTupleOrder
<1>1. TypeOK => RankIsTupleOrder
  <2> SUFFICES ASSUME TypeOK, NEW S \in SUBSET (Present \ protected), NEW T \in SUBSET (Present \ protected)
               PROVE  /\ RankLess(key, S, T)  <=> TuplesLess(key, S, T)
                      /\ RankEqual(key, S, T) <=> TuplesEqual(key, S, T)
    BY DEF RankIsTupleOrder
  <2>1. IsFiniteSet(Present)
    <3>1. IsFiniteSet(Records)
      BY SearchAssumption, FS_Interval DEF Records
    <3>2. IsFiniteSet(Records \cup {Candidate})
      BY <3>1, FS_AddElement
    <3> QED  BY <3>1, <3>2 DEF Present
  <2>2. S \in SUBSET Present /\ T \in SUBSET Present
    OBVIOUS
  <2>3. IsFiniteSet(S) /\ IsFiniteSet(T)
    BY <2>1, <2>2, FS_Subset
  <2>4. \A r \in Present : key[r] \in Keys
    BY DEF TypeOK
  <2> QED  BY <2>2, <2>3, <2>4, RankTuplesAgree
<1> QED  BY <1>1, SearchTypes, PTL

(***************************************************************************)
(* Facts about ranks and omissions.                                        *)
(***************************************************************************)

(* Of two sets of omissions at most one is strictly cheaper.               *)
LEMMA RankAsymmetric ==
    ASSUME NEW keys, NEW S, NEW T, IsFiniteSet(S), IsFiniteSet(T),
           RankLess(keys, S, T), RankLeq(keys, T, S)
    PROVE  FALSE
<1>1. /\ \A p \in Priorities : CountIn(keys, S, p) \in Nat /\ CountIn(keys, T, p) \in Nat
      /\ \A p \in Priorities, c \in Confidences :
            CountAt(keys, S, p, c) \in Nat /\ CountAt(keys, T, p, c) \in Nat
  BY CountsAreNat
<1>2. Priorities \subseteq Int /\ Confidences \subseteq Int
  BY LevelsAssumption DEF Priorities, Confidences
<1>3. FewerInLayers(keys, S, T) => ~SameCounts(keys, T, S)
  BY <1>1 DEF FewerInLayers, SameCounts
<1>4. FewerInLayers(keys, T, S) => ~SameCounts(keys, S, T)
  BY <1>1 DEF FewerInLayers, SameCounts
<1>5. ~(FewerInLayers(keys, S, T) /\ FewerInLayers(keys, T, S))
  BY <1>1, <1>2 DEF FewerInLayers
<1>6. LowerConfidences(keys, S, T) => ~RankEqual(keys, T, S)
  BY <1>1 DEF LowerConfidences, RankEqual
<1>7. ~(LowerConfidences(keys, S, T) /\ LowerConfidences(keys, T, S))
  <2> SUFFICES ASSUME LowerConfidences(keys, S, T), LowerConfidences(keys, T, S)
               PROVE  FALSE
    OBVIOUS
  <2> DEFINE s(p, c) == CountAt(keys, S, p, c)
             t(p, c) == CountAt(keys, T, p, c)
             Above(q, d, p, c) == p < q \/ (p = q /\ c < d)
  <2>1. PICK p \in Priorities, c \in Confidences :
           /\ s(p, c) < t(p, c)
           /\ \A q \in Priorities, d \in Confidences :
                 Above(q, d, p, c) => s(q, d) = t(q, d)
    BY DEF LowerConfidences, KeyLess
  <2>2. PICK r \in Priorities, e \in Confidences :
           /\ t(r, e) < s(r, e)
           /\ \A q \in Priorities, d \in Confidences :
                 Above(q, d, r, e) => t(q, d) = s(q, d)
    BY DEF LowerConfidences, KeyLess
  <2>3. s(p, c) \in Nat /\ t(p, c) \in Nat /\ s(r, e) \in Nat /\ t(r, e) \in Nat
    BY <1>1
  <2> HIDE DEF s, t
  <2>4. ~Above(r, e, p, c)  BY <2>1, <2>2, <2>3
  <2>5. ~Above(p, c, r, e)  BY <2>1, <2>2, <2>3
  <2>6. p = r /\ c = e  BY <1>2, <2>4, <2>5
  <2> QED  BY <2>1, <2>2, <2>3, <2>6
<1>8. RankEqual(keys, T, S) => SameCounts(keys, T, S) /\ SameCounts(keys, S, T)
  BY DEF RankEqual, SameCounts
<1> QED  BY <1>3, <1>4, <1>5, <1>6, <1>7, <1>8 DEF RankLess, RankLeq

LEMMA RankEqualSymmetric ==
    ASSUME NEW keys, NEW S, NEW T, RankEqual(keys, S, T)
    PROVE  RankEqual(keys, T, S)
BY DEF RankEqual, SameCounts

(* Two entries that omit the same adopted records agree where both are      *)
(* defined: the first difference would be a position the other one skips.  *)
LEMMA SamePositions ==
    ASSUME TypeOK, NEW E, NEW F, Entry(E), Entry(F), Omitted(E) = Omitted(F)
    PROVE  \A i \in (1 .. Len(E)) \cap (1 .. Len(F)) : E[i] = F[i]
<1>1. ASSUME NEW A, NEW B, Entry(A), Entry(B), Omitted(A) = Omitted(B),
             NEW i \in 1 .. Len(A)
      PROVE  \E j \in 1 .. Len(B) : A[i] = B[j]
  <2>1. eligible[A[i]] \in Omitted(B)  BY <1>1 DEF Entry, Omitted
  <2>2. PICK j \in 1 .. Len(B) : eligible[A[i]] = eligible[B[j]]
    BY <1>1, <2>1 DEF Entry, Omitted
  <2>3. A[i] \in 1 .. Size /\ B[j] \in 1 .. Size  BY <1>1 DEF Entry
  <2> QED  BY <2>2, <2>3, EligibleFacts
<1> DEFINE N == {i \in (1 .. Len(E)) \cap (1 .. Len(F)) : E[i] # F[i]}
<1>2. ASSUME NEW n \in N, \A m \in N : n <= m,
             NEW A, NEW B, Entry(A), Entry(B), Omitted(A) = Omitted(B),
             n \in 1 .. Len(A), n \in 1 .. Len(B), A[n] < B[n],
             \A i \in 1 .. n - 1 : A[i] = B[i]
      PROVE  FALSE
  <2>1. PICK j \in 1 .. Len(B) : A[n] = B[j]  BY <1>1, <1>2
  <2>2. Len(B) \in Nat /\ Len(A) \in Nat /\ B[j] \in Nat /\ B[n] \in Nat /\ A[n] \in Nat
    BY <1>2 DEF Entry
  <2>3. ~(n < j) /\ n # j
    <3>1. n < j => B[n] < B[j]  BY <1>2 DEF Entry, Increasing
    <3> QED  BY <1>2, <2>1, <2>2, <3>1
  <2>4. j \in 1 .. n - 1 /\ j \in 1 .. Len(A) /\ j < n  BY <1>2, <2>2, <2>3
  <2>5. A[j] < A[n]  BY <1>2, <2>4 DEF Entry, Increasing
  <2> QED  BY <1>2, <2>1, <2>2, <2>4, <2>5
<1>3. Len(E) \in Nat /\ Len(F) \in Nat  BY DEF Entry
<1>4. SUFFICES ASSUME N # {} PROVE FALSE  OBVIOUS
<1>5. PICK n \in N : \A m \in N : n <= m
  <2>1. N \subseteq Nat  OBVIOUS
  <2> HIDE DEF N
  <2> QED  BY <1>4, <2>1, LeastNatural
<1>6. \A i \in 1 .. n - 1 : E[i] = F[i]
  <2> SUFFICES ASSUME NEW i \in 1 .. n - 1, E[i] # F[i] PROVE FALSE
    OBVIOUS
  <2>1. i \in N  BY <1>3
  <2> QED  BY <1>5, <2>1
<1>7. E[n] \in Nat /\ F[n] \in Nat /\ E[n] # F[n]  BY DEF Entry
<1>8. CASE E[n] < F[n]  BY <1>2, <1>5, <1>6, <1>8
<1>9. CASE F[n] < E[n]  BY <1>2, <1>5, <1>6, <1>9
<1> QED  BY <1>7, <1>8, <1>9

(* No two omissions of the scope omit the same records.                    *)
LEMMA OmittedInjective ==
    ASSUME TypeOK, NEW E \in Scope, NEW F \in Scope, Omitted(E) = Omitted(F)
    PROVE  E = F
<1>1. limit \in Nat /\ Size \in Nat  BY LimitIsNat
<1>2. ASSUME NEW A \in Positions  PROVE Entry(A) /\ Candidate \notin Omitted(A)
  <2>1. Entry(A)  BY <1>1, PositionsAreEntries
  <2>2. \A i \in 1 .. Len(A) : eligible[A[i]] \in Records  BY <2>1, EligibleFacts DEF Entry
  <2>3. Candidate \notin Records  BY SearchAssumption DEF Candidate, Records
  <2> QED  BY <2>1, <2>2, <2>3 DEF Omitted, Entry
<1>3. ASSUME NEW A, NEW B, Entry(A), Entry(B), Omitted(A) = Omitted(B), Len(A) < Len(B)
      PROVE  FALSE
  <2> DEFINE l == Len(B)
  <2>1. l \in Nat /\ l >= 1 /\ l \in 1 .. l /\ Len(A) \in Nat /\ B[l] \in 1 .. Size
    BY <1>3 DEF Entry
  <2>2. eligible[B[l]] \in Omitted(A)  BY <1>3, <2>1 DEF Entry, Omitted
  <2>3. PICK j \in 1 .. Len(A) : eligible[B[l]] = eligible[A[j]]
    BY <1>3, <2>2 DEF Entry, Omitted
  <2>4. A[j] \in 1 .. Size  BY <1>3 DEF Entry
  <2>5. B[l] = A[j]  BY <2>1, <2>3, <2>4, EligibleFacts
  <2>6. j \in 1 .. Len(B) /\ j < l  BY <1>3, <2>1
  <2>7. A[j] = B[j]  BY <1>3, <2>6, SamePositions
  <2>8. B[j] < B[l] /\ B[j] \in Nat /\ B[l] \in Nat
    BY <1>3, <2>1, <2>6 DEF Entry, Increasing
  <2> QED  BY <2>5, <2>7, <2>8
<1>4. CASE E = Rejection \/ F = Rejection
  <2>1. Candidate \in Omitted(E) /\ Candidate \in Omitted(F)  BY <1>4 DEF Omitted
  <2> QED  BY <1>2, <2>1, ScopeCases
<1>5. CASE E \in Positions /\ F \in Positions
  <2>1. Entry(E) /\ Entry(F)  BY <1>2, <1>5
  <2>2. Len(E) = Len(F)
    <3>1. Len(E) \in Nat /\ Len(F) \in Nat  BY <2>1 DEF Entry
    <3>2. ~(Len(E) < Len(F)) /\ ~(Len(F) < Len(E))  BY <1>3, <2>1
    <3> QED  BY <3>1, <3>2
  <2>3. \A i \in 1 .. Len(E) : E[i] = F[i]  BY <2>1, <2>2, SamePositions
  <2> QED  BY <2>1, <2>2, <2>3, SeqEqual DEF Entry
<1> QED  BY <1>4, <1>5, ScopeCases

LEMMA ScopeEntries ==
    ASSUME TypeOK, NEW E \in Scope, E # Rejection
    PROVE  /\ Entry(E) /\ Omitted(E) \subseteq Records /\ Omitted(E) # {}
           /\ Candidate \notin Omitted(E)
<1>1. limit \in Nat /\ Size \in Nat  BY LimitIsNat
<1>2. Entry(E)  BY <1>1, ScopeCases, PositionsAreEntries
<1>3. \A i \in 1 .. Len(E) : eligible[E[i]] \in Records  BY <1>2, EligibleFacts DEF Entry
<1>4. Candidate \notin Records  BY SearchAssumption DEF Candidate, Records
<1> QED  BY <1>2, <1>3, <1>4 DEF Omitted, Entry

(* The mark for "nothing is chosen" is not an omission.                    *)
LEMMA NoChoiceOutside ==
    ASSUME TypeOK
    PROVE  NoChoice \notin Scope
<1> SUFFICES ASSUME NoChoice \in Scope PROVE FALSE
  OBVIOUS
<1>1. NoChoice # Rejection  BY DEF NoChoice, Rejection
<1>2. Entry(NoChoice)  BY <1>1, ScopeEntries
<1>3. Len(NoChoice) = 1 /\ NoChoice[1] = 0  BY DEF NoChoice
<1>4. NoChoice[1] \in 1 .. Size  BY <1>2, <1>3 DEF Entry
<1> QED  BY <1>3, <1>4

(* The state a proposal starts from stays as it is.                        *)
LEMMA Frame ==
    ASSUME UNCHANGED inputs
    PROVE  /\ Present' = Present /\ Scope' = Scope
           /\ \A E : Omitted(E)' = Omitted(E) /\ Without(E)' = Without(E)
           /\ \A E, F : /\ CostsNoMore(E, F)' <=> CostsNoMore(E, F)
                        /\ SameCost(E, F)' <=> SameCost(E, F)
           /\ \A E, F : RankLess(key, Omitted(E), Omitted(F))'
                            <=> RankLess(key, Omitted(E), Omitted(F))
<1>1. UNCHANGED <<hasCandidate, key, protected, limit, eligible>>  BY DEF inputs
<1>2. Present' = Present  BY <1>1 DEF Present
<1>3. Scope' = Scope
  BY <1>1 DEF Scope, Positions, RejectionEntries, Size
<1>4. \A E : Omitted(E)' = Omitted(E)  BY <1>1 DEF Omitted
<1>5. \A E : Without(E)' = Without(E)  BY <1>2, <1>4 DEF Without, Attempted
<1>6. \A E, F : /\ CostsNoMore(E, F)' <=> CostsNoMore(E, F)
                /\ SameCost(E, F)' <=> SameCost(E, F)
  BY <1>1 DEF CostsNoMore, SameCost, Omitted
<1>7. \A E, F : RankLess(key, Omitted(E), Omitted(F))'
                    <=> RankLess(key, Omitted(E), Omitted(F))
  BY <1>1 DEF Omitted
<1> QED  BY <1>2, <1>3, <1>4, <1>5, <1>6, <1>7

(***************************************************************************)
(* The inductive invariant.                                                *)
(***************************************************************************)

\* The answers are about sets of present records, each paid for.
Books ==
    /\ IsFiniteSet(DOMAIN verdict) /\ Cardinality(DOMAIN verdict) <= used
    /\ DOMAIN verdict \subseteq SUBSET Present
    /\ \A S \in DOMAIN verdict : verdict[S] \in Statuses
    /\ maxChecks \in CheckBudgets /\ used \in Nat /\ used <= maxChecks

\* What the answers say about the omissions yielded so far.
Searched ==
    /\ Checked(Fixed, "SAT")
    /\ chosen \in Yielded \cup {NoChoice}
    /\ chosen # NoChoice => Checked(Without(chosen), "SAT")
    /\ \A E \in Yielded \ {chosen} : Checked(Without(E), "UNSAT")
    /\ DOMAIN verdict \subseteq {Records, Present, Fixed} \cup {Without(E) : E \in Yielded}

\* What is known when the code has come to pc.
Stage ==
    /\ pc \in {"original", "initial", "fixed", "search", "done"}
    /\ pc # "done" => result = NoResult
    /\ pc = "original" => DOMAIN verdict = {} /\ used = 0
    /\ pc = "initial"  => used = 1
    /\ pc # "original" => Records \in DOMAIN verdict
    /\ pc = "fixed"    => DOMAIN verdict \subseteq {Records, Present}
    /\ pc \in {"original", "initial", "fixed"} => Yielded = {} /\ chosen = NoChoice
    /\ pc = "search"   => Searched

\* The part of DeferralJustified about the reason given.  With no adopted record
\* the original state is the fixed base, and the budget may end on asking again.
ReasonJustified ==
    /\ result.reason = "same_rank_tie" =>
          \E E \in Scope \ {chosen} :
             /\ SameCost(E, chosen)
             /\ Checked(Without(E), "SAT") /\ Checked(Without(chosen), "SAT")
             /\ \A F \in Scope :
                   RankLess(key, Omitted(F), Omitted(E)) => Checked(Without(F), "UNSAT")
    /\ result.reason = "check_budget_exhausted" /\ NumRecords # 0 =>
          /\ used = maxChecks
          /\ \/ Fixed \notin DOMAIN verdict
             \/ \E E \in Scope : Relevant(E) /\ ~Checked(Without(E), "UNSAT")
                                             /\ E # chosen
    /\ result.reason = "trial_unknown" =>
          \E E \in Scope \ {chosen} : Relevant(E) /\ Checked(Without(E), "UNKNOWN")

\* What the result promises.
Promises ==
    /\ result.decision \in {None, "unchanged", "proposed", "deferred"}
    /\ chosen \in Scope \cup {NoChoice}
    /\ AppliedStateVerified /\ UniqueCheapest /\ NoRepairMissed /\ ReasonJustified

ProposalInv == SearchInv /\ Books /\ Stage /\ Promises

LEMMA YieldedInScope ==
    ASSUME TypeOK
    PROVE  Yielded \subseteq Scope
BY ElementOfSeq, LenProperties DEF Yielded, TypeOK

(* An undecided result promises nothing.                                   *)
LEMMA NothingPromised ==
    ASSUME pc # "done", result = NoResult, chosen \in Scope \cup {NoChoice}
    PROVE  Promises
BY DEF Promises, AppliedStateVerified, UniqueCheapest, NoRepairMissed, ReasonJustified,
       Decided, NoResult, None

LEMMA InitProposalInv == ProposalInit => ProposalInv
<1> SUFFICES ASSUME ProposalInit PROVE ProposalInv
  OBVIOUS
<1>1. SearchInv  BY InitSearchInv DEF ProposalInit
<1>2. DOMAIN verdict = {}  BY DEF ProposalInit
<1>3. Books
  BY <1>2, BudgetAssumption, FS_EmptySet DEF ProposalInit, Books
<1>4. Yielded = {}  BY DEF ProposalInit, Init, InitSearch, Yielded
<1>5. Stage  BY <1>2, <1>4 DEF ProposalInit, Stage
<1>6. Promises  BY NothingPromised DEF ProposalInit
<1> QED  BY <1>1, <1>3, <1>5, <1>6 DEF ProposalInv

(***************************************************************************)
(* What a step keeps.                                                      *)
(***************************************************************************)

\* A step keeps every answer already given.
AnswersKept == \A T, w : Checked(T, w) => Checked(T, w)'

(* A check adds its answer to the books.                                   *)
LEMMA AnswerFacts ==
    ASSUME Books, UNCHANGED inputs, UNCHANGED maxChecks,
           NEW S, S \subseteq Present, NEW v, Answer(S, v),
           used' = used + 1, used < maxChecks
    PROVE  /\ Books' /\ AnswersKept /\ Checked(S, v)' /\ v \in Statuses
           /\ DOMAIN verdict' = DOMAIN verdict \cup {S}
<1>1. /\ v \in Statuses /\ (S \in DOMAIN verdict => v = verdict[S])
      /\ verdict' = [T \in DOMAIN verdict \cup {S} |-> IF T = S THEN v ELSE verdict[T]]
  BY DEF Answer, Plausible, Record
<1>2. DOMAIN verdict' = DOMAIN verdict \cup {S}  BY <1>1
<1>3. Present' = Present  BY Frame
<1>4. AnswersKept  BY <1>1, <1>2 DEF AnswersKept, Checked
<1>5. Checked(S, v)'  BY <1>1, <1>2 DEF Checked
<1>6. IsFiniteSet(DOMAIN verdict') /\ Cardinality(DOMAIN verdict') <= used'
  <2> DEFINE D == DOMAIN verdict
  <2>1. IsFiniteSet(D) /\ Cardinality(D) <= used /\ used \in Nat  BY DEF Books
  <2> HIDE DEF D
  <2>2. IsFiniteSet(D \cup {S})  BY <2>1, FS_AddElement
  <2>3. Cardinality(D) \in Nat  BY <2>1, FS_CardinalityType
  <2>4. Cardinality(D \cup {S}) <= Cardinality(D) + 1  BY <2>1, <2>3, FS_AddElement
  <2>5. Cardinality(D \cup {S}) \in Nat  BY <2>2, FS_CardinalityType
  <2>6. Cardinality(D \cup {S}) <= used'  BY <2>1, <2>3, <2>4, <2>5
  <2> QED  BY <1>2, <2>2, <2>6 DEF D
<1>7. /\ DOMAIN verdict' \subseteq SUBSET Present
      /\ \A T \in DOMAIN verdict' : verdict'[T] \in Statuses
  BY <1>1, <1>2 DEF Books
<1>8. maxChecks' \in CheckBudgets /\ used' \in Nat /\ used' <= maxChecks'
  BY BudgetAssumption DEF Books
<1>9. Books'  BY <1>3, <1>6, <1>7, <1>8 DEF Books
<1> QED  BY <1>1, <1>2, <1>4, <1>5, <1>9

(* A step that asks nothing keeps the books.                               *)
LEMMA NoAnswerFacts ==
    ASSUME Books, UNCHANGED inputs, UNCHANGED <<maxChecks, verdict, used>>
    PROVE  Books' /\ AnswersKept
BY Frame DEF Books, AnswersKept, Checked

(* A step before the search leaves the generator alone.                    *)
LEMMA SearchUntouched ==
    ASSUME SearchInv, UNCHANGED searchVars
    PROVE  /\ SearchInv' /\ UNCHANGED inputs
           /\ Yielded' = Yielded /\ Scope' = Scope /\ Yielded \subseteq Scope
<1>1. UNCHANGED <<hasCandidate, key, protected, limit, eligible, frontier, yielded>>
  BY DEF searchVars
<1>2. UNCHANGED inputs  BY <1>1 DEF inputs
<1> QED  BY <1>1, <1>2, Frame, StutterKeepsSearchInv, YieldedInScope DEF Yielded, SearchInv

(* A deferral whose reason says nothing about the omissions is sound.      *)
LEMMA PlainDeferral ==
    ASSUME NEW why \in {"initial_unknown", "fixed_base_unsat", "fixed_base_unknown"},
           result' = Deferred(why), chosen' = NoChoice
    PROVE  Promises'
<1>1. /\ result'.decision = "deferred" /\ result'.reason = why
      /\ result'.changes = {} /\ result'.final = None
  BY DEF Deferred, NoResult
<1> QED
  BY <1>1 DEF Promises, AppliedStateVerified, UniqueCheapest, NoRepairMissed,
              ReasonJustified, Decided, None

LEMMA NothingPromisedNext ==
    ASSUME pc' # "done", result' = NoResult, chosen' \in Scope' \cup {NoChoice}
    PROVE  Promises'
<1>1. result'.decision = None /\ result'.reason = None
  BY DEF NoResult
<1> QED
  BY <1>1 DEF Promises, AppliedStateVerified, UniqueCheapest, NoRepairMissed,
              ReasonJustified, Decided, None

(***************************************************************************)
(* The checks before the search.                                           *)
(***************************************************************************)

LEMMA StepOriginal ==
    ASSUME ProposalInv, NEW v \in Statuses, CheckOriginal(v)
    PROVE  ProposalInv'
<1>1. /\ pc = "original" /\ Answer(Records, v) /\ used' = 1 /\ pc' = "initial"
      /\ UNCHANGED searchVars /\ maxChecks' = maxChecks /\ chosen' = chosen
      /\ result' = result
  BY DEF CheckOriginal
<1>2. /\ SearchInv /\ Books /\ used = 0 /\ Yielded = {} /\ chosen = NoChoice
      /\ result = NoResult
  BY <1>1 DEF ProposalInv, Stage
<1>3. SearchInv' /\ UNCHANGED inputs /\ Yielded' = {} /\ Scope' = Scope
  BY <1>1, <1>2, SearchUntouched
<1>4. Records \subseteq Present  BY DEF Present
<1>5. used' = used + 1 /\ used < maxChecks
  BY <1>1, <1>2, BudgetAssumption DEF Books
<1>6. Books' /\ DOMAIN verdict' = DOMAIN verdict \cup {Records}
  BY <1>1, <1>2, <1>3, <1>4, <1>5, AnswerFacts
<1>7. Stage'  BY <1>1, <1>2, <1>3, <1>6 DEF Stage
<1>8. Promises'  BY <1>1, <1>2, NothingPromisedNext
<1> QED  BY <1>3, <1>6, <1>7, <1>8 DEF ProposalInv

LEMMA StepInitial ==
    ASSUME ProposalInv, NEW v \in Statuses, CheckInitial(v)
    PROVE  ProposalInv'
<1>1. /\ pc = "initial" /\ AfterInitial(v) /\ UNCHANGED searchVars
      /\ maxChecks' = maxChecks /\ chosen' = chosen
  BY DEF CheckInitial
<1>2. /\ SearchInv /\ Books /\ used = 1 /\ Yielded = {} /\ chosen = NoChoice
      /\ result = NoResult /\ Records \in DOMAIN verdict
      /\ DOMAIN verdict \subseteq {Records}
  <2>1. /\ SearchInv /\ Books /\ used = 1 /\ Yielded = {} /\ chosen = NoChoice
        /\ result = NoResult /\ Records \in DOMAIN verdict
    BY <1>1 DEF ProposalInv, Stage
  <2>2. DOMAIN verdict \subseteq {Records}
    <3> DEFINE D == DOMAIN verdict
    <3>1. IsFiniteSet(D) /\ Cardinality(D) <= 1 /\ Records \in D  BY <2>1 DEF Books
    <3> HIDE DEF D
    <3> SUFFICES ASSUME NEW T \in D, T # Records PROVE FALSE
      BY DEF D
    <3>2. {Records, T} \subseteq D  BY <3>1
    <3>3. IsFiniteSet({Records, T}) /\ Cardinality({Records, T}) = 2
      <4>1. IsFiniteSet({Records}) /\ Cardinality({Records}) = 1  BY FS_Singleton
      <4>2. {Records, T} = {Records} \cup {T}  OBVIOUS
      <4>3. T \notin {Records}  OBVIOUS
      <4>4. Cardinality({Records} \cup {T}) = 1 + 1 /\ IsFiniteSet({Records} \cup {T})
        BY <4>1, <4>3, FS_AddElement
      <4> QED  BY <4>2, <4>4
    <3>4. Cardinality({Records, T}) <= Cardinality(D) /\ Cardinality(D) \in Nat
      BY <3>1, <3>2, FS_Subset, FS_CardinalityType
    <3> QED  BY <3>1, <3>3, <3>4
  <2> QED  BY <2>1, <2>2
<1>3. /\ SearchInv' /\ UNCHANGED inputs /\ Yielded' = {} /\ Scope' = Scope
      /\ Present' = Present /\ hasCandidate' = hasCandidate
  BY <1>1, <1>2, SearchUntouched, Frame DEF inputs
<1>4. /\ Books' /\ AnswersKept /\ Checked(Present, v)'
      /\ DOMAIN verdict' = DOMAIN verdict \cup {Present}
  <2>1. CASE hasCandidate
    <3>1. Answer(Present, v) /\ used' = used + 1 /\ used < maxChecks
      <4>1. Answer(Present, v) /\ used' = 2  BY <2>1 DEF CheckInitial, Attempted
      <4>2. maxChecks \in Nat /\ maxChecks # 0 /\ maxChecks # 1
        BY <1>2, BudgetAssumption DEF Books
      <4> QED  BY <1>2, <4>1, <4>2
    <3> QED  BY <1>1, <1>2, <1>3, <3>1, AnswerFacts
  <2>2. CASE ~hasCandidate
    <3>1. Present = Records  BY <2>2 DEF Present
    <3>2. v = verdict[Records] /\ UNCHANGED <<maxChecks, verdict, used>>
      BY <1>1, <2>2 DEF CheckInitial
    <3>3. Books' /\ AnswersKept  BY <1>2, <1>3, <3>2, NoAnswerFacts
    <3>4. Checked(Present, v)'  BY <1>2, <1>3, <3>1, <3>2 DEF Checked
    <3> QED  BY <1>2, <3>1, <3>2, <3>3, <3>4
  <2> QED  BY <2>1, <2>2
<1>5. Records \in DOMAIN verdict'  BY <1>2, <1>4
<1>6. CASE v = "UNSAT"
  <2>1. pc' = "fixed" /\ result' = result  BY <1>1, <1>6 DEF AfterInitial
  <2>2. Stage'  BY <1>1, <1>2, <1>3, <1>4, <1>5, <2>1 DEF Stage
  <2>3. Promises'  BY <1>1, <1>2, <2>1, NothingPromisedNext
  <2> QED  BY <1>3, <1>4, <2>2, <2>3 DEF ProposalInv
<1>7. CASE v # "UNSAT"
  <2>1. pc' = "done"  BY <1>1, <1>7 DEF AfterInitial, Finish, Statuses
  <2>2. Stage'  BY <1>5, <2>1 DEF Stage
  <2>3. CASE v = "UNKNOWN"
    <3>1. result' = Deferred("initial_unknown")  BY <1>1, <2>3 DEF AfterInitial, Finish
    <3>2. Promises'  BY <1>1, <1>2, <3>1, PlainDeferral
    <3> QED  BY <1>3, <1>4, <2>2, <3>2 DEF ProposalInv
  <2>4. CASE v = "SAT"
    <3>1. result' = IF hasCandidate
                    THEN [decision |-> "proposed", reason |-> "candidate_consistent",
                          changes |-> {Adopt(Candidate)}, final |-> v]
                    ELSE [decision |-> "unchanged", reason |-> "already_consistent",
                          changes |-> {}, final |-> v]
      BY <1>1, <2>4 DEF AfterInitial, Finish
    <3>2. AfterApplying' = Present
      <4>1. CASE hasCandidate
        <5>1. result'.changes = {Adopt(Candidate)}  BY <3>1, <4>1
        <5>2. \A r : Withdraw(r) \notin result'.changes  BY <5>1 DEF Withdraw, Adopt
        <5>3. \A r : Adopt(r) \in result'.changes <=> r = Candidate  BY <5>1 DEF Adopt
        <5>4. AfterApplying' = Records \cup {r \in Present : r = Candidate}
          BY <1>3, <5>2, <5>3 DEF AfterApplying
        <5> QED  BY <4>1, <5>4 DEF Present
      <4>2. CASE ~hasCandidate
        <5>1. result'.changes = {}  BY <3>1, <4>2
        <5> QED  BY <1>3, <4>2, <5>1 DEF AfterApplying, Present
      <4> QED  BY <4>1, <4>2
    <3>3. /\ result'.decision \in {"unchanged", "proposed"} /\ result'.final = "SAT"
          /\ result'.reason \in {"candidate_consistent", "already_consistent"}
      BY <2>4, <3>1
    <3>4. AppliedStateVerified'
      BY <1>3, <1>4, <2>1, <2>4, <3>2, <3>3 DEF AppliedStateVerified, Decided, Checked
    <3>5. UniqueCheapest' /\ NoRepairMissed' /\ ReasonJustified'
      BY <1>1, <1>2, <3>3 DEF UniqueCheapest, NoRepairMissed, ReasonJustified
    <3>6. Promises'  BY <1>1, <1>2, <3>3, <3>4, <3>5 DEF Promises
    <3> QED  BY <1>3, <1>4, <2>2, <3>6 DEF ProposalInv
  <2> QED  BY <1>7, <2>3, <2>4 DEF Statuses
<1> QED  BY <1>6, <1>7

(* With every record protected there is nothing to omit.                   *)
LEMMA AllProtected ==
    ASSUME TypeOK, Present \subseteq protected
    PROVE  Scope = {}
<1> SUFFICES ASSUME NEW E \in Scope PROVE FALSE
  OBVIOUS
<1>1. CASE E = Rejection
  <2>1. limit \in Nat /\ Size \in Nat  BY LimitIsNat
  <2>2. hasCandidate /\ Candidate \notin protected
    BY <1>1, <2>1, ScopeCases, PositionsAreEntries DEF Entry
  <2> QED  BY <2>2 DEF Present
<1>2. CASE E # Rejection
  <2>1. Entry(E)  BY <1>2, ScopeEntries
  <2>2. 1 \in 1 .. Len(E)  BY <2>1 DEF Entry
  <2>3. eligible[E[1]] \in Records \ protected  BY <2>1, <2>2, EligibleFacts DEF Entry
  <2> QED  BY <2>3 DEF Present
<1> QED  BY <1>1, <1>2

LEMMA StepFixed ==
    ASSUME ProposalInv, NEW v \in Statuses, CheckFixed(v)
    PROVE  ProposalInv'
<1>1. /\ pc = "fixed" /\ used < maxChecks /\ Answer(Fixed, v) /\ used' = used + 1
      /\ UNCHANGED searchVars /\ maxChecks' = maxChecks /\ chosen' = chosen
  BY DEF CheckFixed, CanCheck
<1>2. /\ SearchInv /\ Books /\ Yielded = {} /\ chosen = NoChoice /\ TypeOK
      /\ result = NoResult /\ Records \in DOMAIN verdict
      /\ DOMAIN verdict \subseteq {Records, Present}
  BY <1>1 DEF ProposalInv, Stage, SearchInv
<1>3. /\ SearchInv' /\ UNCHANGED inputs /\ Yielded' = {} /\ Scope' = Scope
      /\ Present' = Present
  BY <1>1, <1>2, SearchUntouched, Frame
<1>4. /\ Books' /\ Checked(Fixed, v)' /\ DOMAIN verdict' = DOMAIN verdict \cup {Fixed}
  BY <1>1, <1>2, <1>3, AnswerFacts DEF Fixed
<1>5. Records \in DOMAIN verdict'  BY <1>2, <1>4
<1>6. CASE v = "SAT" /\ ~(Attempted \subseteq protected)
  <2>1. pc' = "search" /\ result' = result  BY <1>6 DEF CheckFixed
  <2>2. Searched'  BY <1>1, <1>2, <1>3, <1>4, <1>6 DEF Searched
  <2>3. Stage'  BY <1>2, <1>5, <2>1, <2>2 DEF Stage
  <2>4. Promises'  BY <1>1, <1>2, <2>1, NothingPromisedNext
  <2> QED  BY <1>3, <1>4, <2>3, <2>4 DEF ProposalInv
<1>7. CASE v = "SAT" /\ Attempted \subseteq protected
  <2>1. pc' = "done" /\ result' = Deferred("no_eligible_target")
    BY <1>7 DEF CheckFixed, Finish
  <2>2. Scope' = {}  BY <1>2, <1>3, <1>7, AllProtected DEF Attempted
  <2>3. /\ result'.decision = "deferred" /\ result'.reason = "no_eligible_target"
        /\ result'.changes = {} /\ result'.final = None
    BY <2>1 DEF Deferred
  <2>4. Promises'
    BY <1>1, <1>2, <2>2, <2>3
    DEF Promises, AppliedStateVerified, UniqueCheapest, NoRepairMissed,
        ReasonJustified, Decided, None
  <2>5. Stage'  BY <1>5, <2>1 DEF Stage
  <2> QED  BY <1>3, <1>4, <2>4, <2>5 DEF ProposalInv
<1>8. CASE v # "SAT"
  <2>1. /\ pc' = "done"
        /\ \E why \in {"fixed_base_unsat", "fixed_base_unknown"} : result' = Deferred(why)
    BY <1>8 DEF CheckFixed, Finish
  <2>2. Promises'  BY <1>1, <1>2, <2>1, PlainDeferral
  <2>3. Stage'  BY <1>5, <2>1 DEF Stage
  <2> QED  BY <1>3, <1>4, <2>2, <2>3 DEF ProposalInv
<1> QED  BY <1>6, <1>7, <1>8

LEMMA StepNoBudgetForFixed ==
    ASSUME ProposalInv, NoBudgetForFixed
    PROVE  ProposalInv'
<1>1. /\ pc = "fixed" /\ ~(used < maxChecks) /\ pc' = "done"
      /\ result' = Deferred("check_budget_exhausted")
      /\ UNCHANGED searchVars /\ UNCHANGED <<maxChecks, verdict, used>> /\ chosen' = chosen
  BY DEF NoBudgetForFixed, CanCheck, Finish
<1>2. /\ SearchInv /\ Books /\ Yielded = {} /\ chosen = NoChoice
      /\ Records \in DOMAIN verdict /\ DOMAIN verdict \subseteq {Records, Present}
  BY <1>1 DEF ProposalInv, Stage
<1>3. SearchInv' /\ UNCHANGED inputs /\ Scope' = Scope
  BY <1>1, <1>2, SearchUntouched
<1>4. Books'  BY <1>1, <1>2, <1>3, NoAnswerFacts
<1>5. used' = maxChecks'  BY <1>1, <1>2, BudgetAssumption DEF Books
<1>6. NumRecords # 0 => Fixed \notin DOMAIN verdict'
  <2> SUFFICES ASSUME NumRecords # 0 PROVE Fixed # Records /\ Fixed # Present
    BY <1>1, <1>2
  <2>1. 1 \in Records  BY SearchAssumption DEF Records
  <2> QED  BY <2>1 DEF Fixed, Present
<1>7. /\ result'.decision = "deferred" /\ result'.reason = "check_budget_exhausted"
      /\ result'.changes = {} /\ result'.final = None
  BY <1>1 DEF Deferred
<1>8. Promises'
  BY <1>1, <1>2, <1>5, <1>6, <1>7
  DEF Promises, AppliedStateVerified, UniqueCheapest, NoRepairMissed,
      ReasonJustified, Decided, None
<1>9. Stage'  BY <1>1, <1>2 DEF Stage
<1> QED  BY <1>3, <1>4, <1>8, <1>9 DEF ProposalInv

(***************************************************************************)
(* The loop.                                                               *)
(***************************************************************************)

(* The omission yielded is new, costs no less than those before it and no   *)
(* more than those still to come.                                          *)
LEMMA YieldInOrder ==
    ASSUME SearchInv, NEW E \in frontier, Yield(E)
    PROVE  /\ SearchInv' /\ UNCHANGED inputs /\ Scope' = Scope
           /\ Yielded' = Yielded \cup {E} /\ E \in Scope \ Yielded
           /\ Yielded \subseteq Scope
           /\ \A F \in Scope \ Yielded : CostsNoMore(E, F)
           /\ \A F \in Yielded : CostsNoMore(F, E)
<1>1. TypeOK /\ NothingLost /\ OneParent /\ BestFirstOrder  BY DEF SearchInv
<1>2. SearchInv'  BY NextKeepsSearchInv DEF Next
<1>3. UNCHANGED inputs  BY DEF Yield
<1>4. E \in Scope \ Yielded  BY <1>1, YieldIsNew DEF TypeOK
<1>5. \A F \in Scope \ Yielded : CostsNoMore(E, F)  BY <1>1, PoppedIsCheapest
<1>6. \A F \in Yielded : CostsNoMore(F, E)  BY <1>1, <1>4 DEF BestFirstOrder, Yielded
<1> QED  BY <1>1, <1>2, <1>3, <1>4, <1>5, <1>6, YieldFacts, YieldedInScope

(* What is strictly cheaper than an omission just yielded came before it.  *)
LEMMA CheaperCameBefore ==
    ASSUME SearchInv, NEW E \in frontier, Yield(E), NEW F \in Scope,
           RankLess(key, Omitted(F), Omitted(E))
    PROVE  F \in Yielded
<1> SUFFICES ASSUME F \notin Yielded PROVE FALSE
  OBVIOUS
<1>1. TypeOK /\ E \in Scope /\ CostsNoMore(E, F)  BY YieldInOrder DEF SearchInv
<1>2. IsFiniteSet(Omitted(E)) /\ IsFiniteSet(Omitted(F))  BY <1>1, OmittedFacts
<1> QED  BY <1>1, <1>2, RankAsymmetric DEF CostsNoMore

LEMMA TrialKeepsInv ==
    ASSUME ProposalInv, pc = "search", NEW E \in frontier, Yield(E), Relevant(E),
           NEW v \in Statuses, AfterTrial(E, v), Books', AnswersKept,
           Checked(Without(E), v)',
           DOMAIN verdict' \subseteq DOMAIN verdict \cup {Without(E)}
    PROVE  ProposalInv'
<1>1. /\ SearchInv /\ TypeOK /\ Searched /\ result = NoResult /\ Records \in DOMAIN verdict
  BY DEF ProposalInv, Stage, SearchInv
<1>2. /\ SearchInv' /\ UNCHANGED inputs /\ Scope' = Scope
      /\ Yielded' = Yielded \cup {E} /\ E \in Scope \ Yielded /\ Yielded \subseteq Scope
  BY <1>1, YieldInOrder
<1>3. /\ \A F : Omitted(F)' = Omitted(F) /\ Without(F)' = Without(F)
      /\ \A F, G : SameCost(F, G)' <=> SameCost(F, G)
      /\ \A F, G : RankLess(key, Omitted(F), Omitted(G))'
                       <=> RankLess(key, Omitted(F), Omitted(G))
      /\ Present' = Present
  BY <1>2, Frame
<1>4. Records \in DOMAIN verdict'
  BY <1>1 DEF AnswersKept, Checked
<1>5. NoChoice \notin Scope  BY <1>1, NoChoiceOutside
<1>6. /\ Checked(Fixed, "SAT")'
      /\ chosen # NoChoice => Checked(Without(chosen), "SAT") /\ chosen \in Yielded
      /\ \A F \in Yielded \ {chosen} : Without(F) \in DOMAIN verdict'
                                       /\ verdict'[Without(F)] = "UNSAT"
      /\ Without(E) \in DOMAIN verdict' /\ verdict'[Without(E)] = v
  BY <1>1, <1>3 DEF Searched, AnswersKept, Checked
<1>7. DOMAIN verdict' \subseteq {Records, Present, Fixed} \cup {Without(F) : F \in Yielded'}
  BY <1>1, <1>2 DEF Searched
<1>8. CASE v = "UNSAT"
  <2>1. pc' = pc /\ result' = result /\ chosen' = chosen  BY <1>8 DEF AfterTrial
  <2>2. chosen # NoChoice => Checked(Without(chosen), "SAT")'
    BY <1>3, <1>6, <2>1 DEF AnswersKept, Checked
  <2>3. \A F \in Yielded' \ {chosen} : Checked(Without(F), "UNSAT")'
    BY <1>2, <1>3, <1>6, <1>8 DEF Checked
  <2>4. Searched'
    BY <1>1, <1>2, <1>3, <1>6, <1>7, <2>1, <2>2, <2>3 DEF Searched, Fixed
  <2>5. Stage'  BY <1>1, <1>4, <2>1, <2>4 DEF Stage
  <2>6. Promises'
    <3>1. chosen' \in Scope' \cup {NoChoice}  BY <1>1, <1>2, <2>1 DEF Searched
    <3> QED  BY <1>1, <2>1, <3>1, NothingPromisedNext
  <2> QED  BY <1>2, <2>5, <2>6 DEF ProposalInv
<1>9. CASE v = "SAT" /\ chosen = NoChoice
  <2>1. pc' = pc /\ result' = result /\ chosen' = E  BY <1>9 DEF AfterTrial
  <2>2. Checked(Without(chosen), "SAT")'
    BY <1>3, <1>6, <1>9, <2>1 DEF Checked
  <2>3. \A F \in Yielded' \ {E} : Checked(Without(F), "UNSAT")'
    BY <1>2, <1>3, <1>5, <1>6, <1>9 DEF Checked
  <2>4. Searched'
    BY <1>1, <1>2, <1>3, <1>6, <1>7, <2>1, <2>2, <2>3 DEF Searched, Fixed
  <2>5. Stage'  BY <1>1, <1>4, <2>1, <2>4 DEF Stage
  <2>6. Promises'  BY <1>1, <1>2, <2>1, NothingPromisedNext
  <2> QED  BY <1>2, <2>5, <2>6 DEF ProposalInv
<1>10. CASE v = "SAT" /\ chosen # NoChoice
  <2>1. /\ pc' = "done" /\ chosen' = chosen /\ result' = Deferred("same_rank_tie")
    BY <1>10 DEF AfterTrial, Finish
  <2>2. /\ result'.decision = "deferred" /\ result'.reason = "same_rank_tie"
        /\ result'.changes = {} /\ result'.final = None
    BY <2>1 DEF Deferred
  <2>3. SameCost(E, chosen) /\ chosen \in Yielded /\ E # chosen
    BY <1>2, <1>6, <1>10 DEF Relevant
  <2>4. \A F \in Scope : RankLess(key, Omitted(F), Omitted(E)) =>
            Without(F) \in DOMAIN verdict' /\ verdict'[Without(F)] = "UNSAT"
    <3> SUFFICES ASSUME NEW F \in Scope, RankLess(key, Omitted(F), Omitted(E))
                 PROVE  Without(F) \in DOMAIN verdict' /\ verdict'[Without(F)] = "UNSAT"
      OBVIOUS
    <3>1. F \in Yielded  BY <1>1, CheaperCameBefore
    <3>2. F # chosen
      <4>1. RankLeq(key, Omitted(E), Omitted(chosen))
        BY <2>3 DEF SameCost, RankLeq
      <4>2. IsFiniteSet(Omitted(E)) /\ IsFiniteSet(Omitted(F))
        BY <1>1, <1>2, OmittedFacts
      <4> QED  BY <4>1, <4>2, RankAsymmetric
    <3> QED  BY <1>6, <3>1, <3>2
  <2>5. ReasonJustified'
    <3>1. /\ SameCost(E, chosen)' /\ Checked(Without(E), "SAT")'
          /\ Checked(Without(chosen), "SAT")'
      BY <1>3, <1>6, <1>10, <2>1, <2>3 DEF Checked, AnswersKept, SameCost
    <3>2. \A F \in Scope' : RankLess(key, Omitted(F), Omitted(E))'
                                => Checked(Without(F), "UNSAT")'
      BY <1>2, <1>3, <2>4 DEF Checked
    <3> QED  BY <1>2, <2>1, <2>2, <2>3, <3>1, <3>2 DEF ReasonJustified
  <2>6. Promises'
    <3>1. chosen' \in Scope' \cup {NoChoice}  BY <1>2, <2>1, <2>3
    <3> QED  BY <2>2, <2>5, <3>1 DEF Promises, AppliedStateVerified, UniqueCheapest,
                                   NoRepairMissed, Decided, None
  <2>7. Stage'  BY <1>4, <2>1 DEF Stage
  <2> QED  BY <1>2, <2>6, <2>7 DEF ProposalInv
<1>11. CASE v = "UNKNOWN"
  <2>1. /\ pc' = "done" /\ chosen' = chosen /\ result' = Deferred("trial_unknown")
    BY <1>11 DEF AfterTrial, Finish
  <2>2. /\ result'.decision = "deferred" /\ result'.reason = "trial_unknown"
        /\ result'.changes = {} /\ result'.final = None
    BY <2>1 DEF Deferred
  <2>3. E # chosen  BY <1>1, <1>2, <1>5 DEF Searched
  <2>4. Relevant(E)'  BY <1>3, <2>1 DEF Relevant, SameCost
  <2>5. ReasonJustified'
    BY <1>2, <1>3, <1>6, <1>11, <2>1, <2>2, <2>3, <2>4 DEF ReasonJustified, Checked
  <2>6. Promises'
    <3>1. chosen' \in Scope' \cup {NoChoice}  BY <1>1, <1>2, <2>1 DEF Searched
    <3> QED  BY <2>2, <2>5, <3>1 DEF Promises, AppliedStateVerified, UniqueCheapest,
                                   NoRepairMissed, Decided, None
  <2>7. Stage'  BY <1>4, <2>1 DEF Stage
  <2> QED  BY <1>2, <2>6, <2>7 DEF ProposalInv
<1> QED  BY <1>8, <1>9, <1>10, <1>11 DEF Statuses

LEMMA StepRejection ==
    ASSUME ProposalInv, NEW v \in Statuses, TrialRejection(v)
    PROVE  ProposalInv'
<1>1. /\ pc = "search" /\ Rejection \in frontier /\ Yield(Rejection) /\ Relevant(Rejection)
      /\ v = verdict[Records] /\ AfterTrial(Rejection, v)
      /\ UNCHANGED <<maxChecks, verdict, used>>
  BY DEF TrialRejection
<1>2. SearchInv /\ Books /\ TypeOK /\ Records \in DOMAIN verdict
  BY <1>1 DEF ProposalInv, Stage, SearchInv
<1>3. UNCHANGED inputs /\ Rejection \in Scope  BY <1>1, <1>2, YieldInOrder
<1>4. Without(Rejection) = Records
  <2>1. limit \in Nat /\ Size \in Nat  BY <1>2, LimitIsNat
  <2>2. hasCandidate  BY <1>3, <2>1, ScopeCases, PositionsAreEntries DEF Entry
  <2>3. Candidate \notin Records  BY SearchAssumption DEF Candidate, Records
  <2> QED  BY <2>2, <2>3 DEF Without, Attempted, Present, Omitted
<1>5. Books' /\ AnswersKept  BY <1>1, <1>2, <1>3, NoAnswerFacts
<1>6. Checked(Without(Rejection), v)'
  <2>1. Without(Rejection)' = Without(Rejection)  BY <1>3, Frame
  <2> QED  BY <1>1, <1>2, <1>4, <2>1 DEF Checked
<1> QED  BY <1>1, <1>5, <1>6, TrialKeepsInv

LEMMA StepWithdrawal ==
    ASSUME ProposalInv, NEW v \in Statuses, NEW E \in frontier, TrialWithdrawal(E, v)
    PROVE  ProposalInv'
<1>1. /\ pc = "search" /\ Relevant(E) /\ used < maxChecks /\ Yield(E)
      /\ Answer(Without(E), v) /\ used' = used + 1 /\ AfterTrial(E, v)
      /\ maxChecks' = maxChecks
  BY DEF TrialWithdrawal, CanCheck
<1>2. SearchInv /\ Books  BY DEF ProposalInv
<1>3. UNCHANGED inputs  BY <1>1, <1>2, YieldInOrder
<1>4. Without(E) \subseteq Present /\ Without(E)' = Without(E)
  BY <1>3, Frame DEF Without, Attempted
<1>5. /\ Books' /\ AnswersKept /\ DOMAIN verdict' = DOMAIN verdict \cup {Without(E)}
      /\ Without(E) \in DOMAIN verdict' /\ verdict'[Without(E)] = v
  BY <1>1, <1>2, <1>3, <1>4, AnswerFacts DEF Checked
<1>6. Checked(Without(E), v)'  BY <1>4, <1>5 DEF Checked
<1> QED  BY <1>1, <1>5, <1>6, TrialKeepsInv

(* The answer on an untried omission of adopted records is not yet known   *)
(* to be UNSAT: no other set that was checked is the one it leaves.        *)
LEMMA UntriedIsOpen ==
    ASSUME SearchInv, Searched, NumRecords # 0, NEW E \in Scope \ Yielded, E # Rejection
    PROVE  ~Checked(Without(E), "UNSAT")
<1> SUFFICES ASSUME Checked(Without(E), "UNSAT") PROVE FALSE
  OBVIOUS
<1>1. TypeOK /\ Yielded \subseteq Scope  BY YieldedInScope DEF SearchInv
<1>2. /\ Omitted(E) \subseteq Records /\ Omitted(E) # {} /\ Candidate \notin Omitted(E)
  BY <1>1, ScopeEntries
<1>3. Candidate \notin Records  BY SearchAssumption DEF Candidate, Records
<1>4. Without(E) # Records /\ Without(E) # Present
  BY <1>2, <1>3 DEF Without, Attempted, Present
<1>5. Without(E) # Fixed  BY DEF Searched, Checked
<1>6. PICK F \in Yielded : Without(E) = Without(F)
  BY <1>4, <1>5 DEF Searched, Checked
<1>7. Omitted(E) \subseteq Present /\ Omitted(F) \subseteq Present
  BY <1>1, OmittedFacts
<1>8. Omitted(E) = Omitted(F)  BY <1>6, <1>7 DEF Without, Attempted
<1> QED  BY <1>1, <1>8, OmittedInjective

LEMMA StepNoBudgetForTrial ==
    ASSUME ProposalInv, NEW E \in frontier, NoBudgetForTrial(E)
    PROVE  ProposalInv'
<1>1. /\ pc = "search" /\ Relevant(E) /\ E # Rejection /\ ~(used < maxChecks) /\ Yield(E)
      /\ pc' = "done" /\ result' = Deferred("check_budget_exhausted")
      /\ UNCHANGED <<maxChecks, verdict, used>> /\ chosen' = chosen /\ verdict' = verdict
  BY DEF NoBudgetForTrial, CanCheck, Finish
<1>2. SearchInv /\ Books /\ TypeOK /\ Searched /\ Records \in DOMAIN verdict
  BY <1>1 DEF ProposalInv, Stage, SearchInv
<1>3. /\ SearchInv' /\ UNCHANGED inputs /\ Scope' = Scope
      /\ E \in Scope \ Yielded /\ Yielded \subseteq Scope
  BY <1>1, <1>2, YieldInOrder
<1>4. Books'  BY <1>1, <1>2, <1>3, NoAnswerFacts
<1>5. used' = maxChecks'  BY <1>1, <1>2, BudgetAssumption DEF Books
<1>6. E # chosen  BY <1>2, <1>3, NoChoiceOutside DEF Searched
<1>7. Relevant(E)'
  <2>1. SameCost(E, chosen)' <=> SameCost(E, chosen)
    BY <1>1, <1>3 DEF SameCost, Omitted, inputs
  <2> QED  BY <1>1, <2>1 DEF Relevant
<1>8. NumRecords # 0 => ~Checked(Without(E), "UNSAT")'
  <2>1. Without(E)' = Without(E)  BY <1>3, Frame
  <2>2. NumRecords # 0 => ~Checked(Without(E), "UNSAT")
    BY <1>1, <1>2, <1>3, UntriedIsOpen
  <2> QED  BY <1>1, <2>1, <2>2 DEF Checked
<1>9. /\ result'.decision = "deferred" /\ result'.reason = "check_budget_exhausted"
      /\ result'.changes = {} /\ result'.final = None
  BY <1>1 DEF Deferred
<1>10. ReasonJustified'
  BY <1>1, <1>3, <1>5, <1>6, <1>7, <1>8, <1>9 DEF ReasonJustified
<1>11. Promises'
  <2>1. chosen' \in Scope' \cup {NoChoice}  BY <1>1, <1>2, <1>3 DEF Searched
  <2> QED  BY <1>9, <1>10, <2>1 DEF Promises, AppliedStateVerified, UniqueCheapest,
                                  NoRepairMissed, Decided, None
<1>12. Stage'  BY <1>1, <1>2 DEF Stage
<1> QED  BY <1>3, <1>4, <1>11, <1>12 DEF ProposalInv

(* What is selected leaves, once applied, the state that was checked.      *)
LEMMA SelectedIsVerified ==
    ASSUME TypeOK, chosen \in Scope, Checked(Without(chosen), "SAT"),
           UNCHANGED inputs, UNCHANGED <<verdict, chosen>>,
           pc' = "done", result' = Selected
    PROVE  /\ AppliedStateVerified' /\ NoRepairMissed' /\ ReasonJustified'
           /\ result'.decision \in {"unchanged", "proposed"}
<1>1. UNCHANGED hasCandidate /\ Present' = Present  BY Frame DEF inputs
<1>2. Candidate \notin Records  BY SearchAssumption DEF Candidate, Records
<1>3. AfterApplying' = Without(chosen) /\ result'.final = "SAT"
      /\ result'.decision \in {"unchanged", "proposed"}
      /\ result'.reason \in {"candidate_rejected", "unique_verified_revision"}
  <2>1. CASE chosen = Rejection
    <3>1. /\ result'.changes = {} /\ result'.final = "SAT"
          /\ result'.decision = "unchanged" /\ result'.reason = "candidate_rejected"
      BY <2>1 DEF Selected
    <3>2. AfterApplying' = Records  BY <1>1, <3>1 DEF AfterApplying
    <3>3. Without(chosen) = Records
      <4>1. limit \in Nat /\ Size \in Nat  BY LimitIsNat
      <4>2. hasCandidate  BY <2>1, <4>1, ScopeCases, PositionsAreEntries DEF Entry
      <4> QED  BY <1>2, <2>1, <4>2 DEF Without, Attempted, Present, Omitted
    <3> QED  BY <3>1, <3>2, <3>3
  <2>2. CASE chosen # Rejection
    <3> DEFINE W == {Withdraw(r) : r \in Omitted(chosen)}
               A == IF hasCandidate THEN {Adopt(Candidate)} ELSE {}
    <3>1. /\ result'.changes = W \cup A /\ result'.final = "SAT"
          /\ result'.decision = "proposed" /\ result'.reason = "unique_verified_revision"
      BY <2>2 DEF Selected
    <3>2. /\ Omitted(chosen) \subseteq Records /\ Candidate \notin Omitted(chosen)
      BY <2>2, ScopeEntries
    <3>3. \A r : Withdraw(r) \in W \cup A <=> r \in Omitted(chosen)
      BY DEF Withdraw, Adopt
    <3>4. \A r : Adopt(r) \in W \cup A <=> (hasCandidate /\ r = Candidate)
      BY DEF Withdraw, Adopt
    <3>5. AfterApplying' = (Records \ Omitted(chosen))
                             \cup {r \in Present : hasCandidate /\ r = Candidate}
      BY <1>1, <3>1, <3>2, <3>3, <3>4 DEF AfterApplying
    <3>6. AfterApplying' = Without(chosen)
      BY <1>2, <3>2, <3>5 DEF Without, Attempted, Present
    <3> QED  BY <3>1, <3>6
  <2> QED  BY <2>1, <2>2
<1>4. AppliedStateVerified'
  BY <1>3 DEF AppliedStateVerified, Decided, Checked
<1>5. NoRepairMissed' /\ ReasonJustified'
  BY <1>3 DEF NoRepairMissed, ReasonJustified
<1> QED  BY <1>3, <1>4, <1>5

LEMMA StepStopAtNextRank ==
    ASSUME ProposalInv, NEW E \in frontier, StopAtNextRank(E)
    PROVE  ProposalInv'
<1>1. /\ pc = "search" /\ ~Relevant(E) /\ Yield(E) /\ pc' = "done" /\ result' = Selected
      /\ UNCHANGED <<maxChecks, verdict, used>> /\ chosen' = chosen /\ verdict' = verdict
  BY DEF StopAtNextRank, Finish
<1>2. SearchInv /\ Books /\ TypeOK /\ Searched /\ Records \in DOMAIN verdict
  BY <1>1 DEF ProposalInv, Stage, SearchInv
<1>3. /\ SearchInv' /\ UNCHANGED inputs /\ Scope' = Scope
      /\ E \in Scope \ Yielded /\ Yielded \subseteq Scope
      /\ \A F \in Scope \ Yielded : CostsNoMore(E, F)
      /\ \A F \in Yielded : CostsNoMore(F, E)
  BY <1>1, <1>2, YieldInOrder
<1>4. Books'  BY <1>1, <1>2, <1>3, NoAnswerFacts
<1>5. chosen # NoChoice /\ ~SameCost(E, chosen)  BY <1>1 DEF Relevant
<1>6. chosen \in Yielded /\ chosen \in Scope /\ Checked(Without(chosen), "SAT")
  BY <1>2, <1>3, <1>5 DEF Searched
<1>7. RankLess(key, Omitted(chosen), Omitted(E))
  <2>1. ~RankEqual(key, Omitted(chosen), Omitted(E))
    BY <1>5, RankEqualSymmetric DEF SameCost
  <2> QED  BY <1>3, <1>6, <2>1 DEF CostsNoMore, RankLeq
<1>8. \A F \in Scope \ {chosen} : CostsNoMore(F, chosen) => Checked(Without(F), "UNSAT")
  <2> SUFFICES ASSUME NEW F \in Scope \ {chosen}, CostsNoMore(F, chosen)
               PROVE  F \in Yielded
    BY <1>2 DEF Searched
  <2> SUFFICES ASSUME F \notin Yielded PROVE FALSE
    OBVIOUS
  <2>1. /\ IsFiniteSet(Omitted(E)) /\ IsFiniteSet(Omitted(F))
        /\ IsFiniteSet(Omitted(chosen))
    BY <1>2, <1>3, <1>6, OmittedFacts
  <2>2. RankLeq(key, Omitted(E), Omitted(chosen))
    BY <1>3, <2>1, RankTransitive DEF CostsNoMore
  <2> QED  BY <1>7, <2>1, <2>2, RankAsymmetric
<1>9. /\ AppliedStateVerified' /\ NoRepairMissed' /\ ReasonJustified'
      /\ result'.decision \in {"unchanged", "proposed"}
  BY <1>1, <1>2, <1>3, <1>6, SelectedIsVerified
<1>10. UniqueCheapest'
  BY <1>1, <1>3, <1>6, <1>8, Frame DEF UniqueCheapest, Checked, CostsNoMore, Omitted, inputs
<1>11. Promises'
  <2>1. chosen' \in Scope' \cup {NoChoice}  BY <1>1, <1>3, <1>6
  <2> QED  BY <1>9, <1>10, <2>1 DEF Promises
<1>12. Stage'  BY <1>1, <1>2 DEF Stage
<1> QED  BY <1>3, <1>4, <1>11, <1>12 DEF ProposalInv

LEMMA StepStopExhausted ==
    ASSUME ProposalInv, StopExhausted
    PROVE  ProposalInv'
<1>1. /\ pc = "search" /\ frontier = {} /\ pc' = "done"
      /\ result' = IF chosen # NoChoice THEN Selected
                   ELSE Deferred(IF limit = 1 THEN "no_verified_single_revision"
                                              ELSE "no_verified_revision")
      /\ UNCHANGED searchVars /\ UNCHANGED <<maxChecks, verdict, used>>
      /\ chosen' = chosen /\ verdict' = verdict
  BY DEF StopExhausted, Finish
<1>2. SearchInv /\ Books /\ TypeOK /\ Searched /\ Records \in DOMAIN verdict
  BY <1>1 DEF ProposalInv, Stage, SearchInv
<1>3. /\ SearchInv' /\ UNCHANGED inputs /\ Scope' = Scope /\ Yielded = Scope
  BY <1>1, <1>2, SearchUntouched DEF SearchInv, NothingLost
<1>4. Books'  BY <1>1, <1>2, <1>3, NoAnswerFacts
<1>5. Stage'  BY <1>1, <1>2 DEF Stage
<1>6. \A F : Without(F)' = Without(F)  BY <1>3, Frame
<1>7. chosen' \in Scope' \cup {NoChoice}  BY <1>1, <1>2, <1>3 DEF Searched
<1>8. \A F \in Scope \ {chosen} : Checked(Without(F), "UNSAT")'
  BY <1>1, <1>2, <1>3, <1>6 DEF Searched, Checked
<1>9. CASE chosen # NoChoice
  <2>1. chosen \in Scope /\ Checked(Without(chosen), "SAT") /\ result' = Selected
    BY <1>1, <1>2, <1>3, <1>9 DEF Searched
  <2>2. /\ AppliedStateVerified' /\ NoRepairMissed' /\ ReasonJustified'
        /\ result'.decision \in {"unchanged", "proposed"}
    BY <1>1, <1>2, <1>3, <2>1, SelectedIsVerified
  <2>3. UniqueCheapest'
    BY <1>1, <1>3, <1>6, <1>8, <2>1 DEF UniqueCheapest, Checked
  <2>4. Promises'  BY <1>7, <2>2, <2>3 DEF Promises
  <2> QED  BY <1>3, <1>4, <1>5, <2>4 DEF ProposalInv
<1>10. CASE chosen = NoChoice
  <2>1. /\ result'.decision = "deferred" /\ result'.changes = {} /\ result'.final = None
        /\ result'.reason \in {"no_verified_single_revision", "no_verified_revision"}
    BY <1>1, <1>10 DEF Deferred
  <2>2. NoChoice \notin Scope  BY <1>2, NoChoiceOutside
  <2>3. NoRepairMissed'  BY <1>3, <1>8, <1>10, <2>2 DEF NoRepairMissed
  <2>4. Promises'
    BY <1>7, <2>1, <2>3 DEF Promises, AppliedStateVerified, UniqueCheapest,
                            ReasonJustified, Decided, None
  <2> QED  BY <1>3, <1>4, <1>5, <2>4 DEF ProposalInv
<1> QED  BY <1>9, <1>10

LEMMA ProposalStutter ==
    ASSUME ProposalInv, UNCHANGED vars
    PROVE  ProposalInv'
<1>1. /\ UNCHANGED searchVars /\ UNCHANGED <<maxChecks, verdict, used>>
      /\ pc' = pc /\ chosen' = chosen /\ result' = result /\ verdict' = verdict
      /\ used' = used /\ maxChecks' = maxChecks
  BY DEF vars, proposalVars
<1>2. SearchInv /\ Books /\ Stage /\ Promises  BY DEF ProposalInv
<1>3. SearchInv' /\ UNCHANGED inputs /\ Scope' = Scope /\ Yielded' = Yielded
  BY <1>1, <1>2, SearchUntouched
<1>4. /\ Present' = Present
      /\ \A F : Without(F)' = Without(F)
      /\ \A F, G : /\ CostsNoMore(F, G)' <=> CostsNoMore(F, G)
                   /\ SameCost(F, G)' <=> SameCost(F, G)
      /\ \A F, G : RankLess(key, Omitted(F), Omitted(G))'
                       <=> RankLess(key, Omitted(F), Omitted(G))
  BY <1>3, Frame
<1>5. /\ key' = key /\ Omitted(chosen)' = Omitted(chosen)
      /\ \A F : Omitted(F)' = Omitted(F)
  BY <1>1, <1>3 DEF inputs, Omitted
<1>6. Books'  BY <1>1, <1>2, <1>4 DEF Books
<1>7. Without(chosen)' = Without(chosen)
  BY <1>4, <1>5 DEF Without, Attempted
<1>8. Stage'
  <2>1. Searched => Searched'
    BY <1>1, <1>3, <1>4, <1>7 DEF Searched, Checked, Fixed
  <2> QED  BY <1>1, <1>2, <1>3, <1>4, <2>1 DEF Stage
<1>9. AppliedStateVerified'
  BY <1>1, <1>2, <1>4 DEF Promises, AppliedStateVerified, AfterApplying, Decided, Checked
<1>10. UniqueCheapest'
  BY <1>1, <1>2, <1>3, <1>4, <1>5, <1>7
  DEF Promises, UniqueCheapest, Decided, Checked, CostsNoMore
<1>11. NoRepairMissed'
  BY <1>1, <1>2, <1>3, <1>4 DEF Promises, NoRepairMissed, Checked
<1>12. ReasonJustified'
  BY <1>1, <1>2, <1>3, <1>4, <1>5, <1>7
  DEF Promises, ReasonJustified, Checked, SameCost, Relevant, Fixed
<1>13. Promises'  BY <1>1, <1>2, <1>3, <1>9, <1>10, <1>11, <1>12 DEF Promises
<1> QED  BY <1>3, <1>6, <1>8, <1>13 DEF ProposalInv

LEMMA NextKeepsProposalInv == ProposalInv /\ [ProposalNext]_vars => ProposalInv'
<1> SUFFICES ASSUME ProposalInv, [ProposalNext]_vars PROVE ProposalInv'
  OBVIOUS
<1>1. ASSUME NEW v \in Statuses, CheckOriginal(v)  PROVE ProposalInv'
  BY <1>1, StepOriginal
<1>2. ASSUME NEW v \in Statuses, CheckInitial(v)  PROVE ProposalInv'
  BY <1>2, StepInitial
<1>3. ASSUME NEW v \in Statuses, CheckFixed(v)  PROVE ProposalInv'
  BY <1>3, StepFixed
<1>4. ASSUME NEW v \in Statuses, TrialRejection(v)  PROVE ProposalInv'
  BY <1>4, StepRejection
<1>5. ASSUME NEW v \in Statuses, NEW E \in frontier, TrialWithdrawal(E, v)
      PROVE  ProposalInv'
  BY <1>5, StepWithdrawal
<1>6. CASE NoBudgetForFixed  BY <1>6, StepNoBudgetForFixed
<1>7. ASSUME NEW E \in frontier, NoBudgetForTrial(E)  PROVE ProposalInv'
  BY <1>7, StepNoBudgetForTrial
<1>8. ASSUME NEW E \in frontier, StopAtNextRank(E)  PROVE ProposalInv'
  BY <1>8, StepStopAtNextRank
<1>9. CASE StopExhausted  BY <1>9, StepStopExhausted
<1>10. CASE UNCHANGED vars  BY <1>10, ProposalStutter
<1> QED
  BY <1>1, <1>2, <1>3, <1>4, <1>5, <1>6, <1>7, <1>8, <1>9, <1>10 DEF ProposalNext

(***************************************************************************)
(* What the proposal promises.                                             *)
(***************************************************************************)

LEMMA InvHasTypes == ProposalInv => ProposalTypeOK
<1> SUFFICES ASSUME ProposalInv PROVE ProposalTypeOK
  OBVIOUS
<1>1. /\ TypeOK /\ Books
      /\ pc \in {"original", "initial", "fixed", "search", "done"}
      /\ chosen \in Scope \cup {NoChoice}
      /\ result.decision \in {None, "unchanged", "proposed", "deferred"}
  BY DEF ProposalInv, SearchInv, Stage, Promises
<1>2. used \in 0 .. maxChecks /\ maxChecks \in CheckBudgets
  BY <1>1, BudgetAssumption DEF Books
<1>3. \A S \in DOMAIN verdict : S \subseteq Present /\ verdict[S] \in Statuses
  BY <1>1 DEF Books
<1> QED  BY <1>1, <1>2, <1>3 DEF ProposalTypeOK

(* The state of a proposal has its types.                                  *)
THEOREM ProposalTypes == ProposalSpec => []ProposalTypeOK
BY InvHasTypes, InitProposalInv, NextKeepsProposalInv, PTL DEF ProposalSpec

(* What the consumer is told to apply was checked as a whole and found      *)
(* satisfiable; a deferral changes nothing.                                *)
THEOREM ProposalIsVerified == ProposalSpec => []AppliedStateVerified
<1>1. ProposalInv => AppliedStateVerified  BY DEF ProposalInv, Promises
<1> QED  BY <1>1, InitProposalInv, NextKeepsProposalInv, PTL DEF ProposalSpec

(* The omission chosen is the unique cheapest repair in the scope.         *)
THEOREM ProposalIsUniqueCheapest == ProposalSpec => []UniqueCheapest
<1>1. ProposalInv => UniqueCheapest  BY DEF ProposalInv, Promises
<1> QED  BY <1>1, InitProposalInv, NextKeepsProposalInv, PTL DEF ProposalSpec

(* The search gives up only when every omission was tried and refuted.     *)
THEOREM ProposalMissesNoRepair == ProposalSpec => []NoRepairMissed
<1>1. ProposalInv => NoRepairMissed  BY DEF ProposalInv, Promises
<1> QED  BY <1>1, InitProposalInv, NextKeepsProposalInv, PTL DEF ProposalSpec

(* Every deferral has its reason, wherever there is an adopted record.     *)
THEOREM ProposalDefersWithReason ==
    ASSUME NumRecords # 0
    PROVE  ProposalSpec => []DeferralJustified
<1>1. ProposalInv => DeferralJustified
  BY InvHasTypes DEF ProposalInv, Promises, Books, ReasonJustified, DeferralJustified
<1> QED  BY <1>1, InitProposalInv, NextKeepsProposalInv, PTL DEF ProposalSpec
=============================================================================
