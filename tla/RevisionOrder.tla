--------------------------- MODULE RevisionOrder ---------------------------
(***************************************************************************)
(* The cost order of the revision search (governance/_revision_search.py). *)
(*                                                                         *)
(* A record (an Assertion or a Rule) counts through two numbers only: the  *)
(* priority its policy gives it and its confidence.  Both are kept as      *)
(* levels, small naturals, because the code only ever compares them.       *)
(*                                                                         *)
(* The code ranks a set of omitted records by a pair of tuples: how many   *)
(* records it omits in each priority layer, the most important layer       *)
(* first, and then the omitted confidences of each layer, the largest      *)
(* first.  RankLess compares such pairs without building them; module      *)
(* RankTuples builds them, and the two are compared.                       *)
(***************************************************************************)
EXTENDS Integers, FiniteSets

CONSTANTS
    MaxPriority,    \* the largest priority level a policy may give
    MaxConfidence   \* the largest confidence level a record may have

ASSUME LevelsAssumption == MaxPriority \in Nat /\ MaxConfidence \in Nat

Priorities  == 0 .. MaxPriority
Confidences == 0 .. MaxConfidence
Keys        == [pri : Priorities, conf : Confidences]

\* The order of two sort keys, before the record's kind and id break a tie.
KeyLess(a, b) == \/ a.pri < b.pri
                 \/ a.pri = b.pri /\ a.conf < b.conf

(* The omitted records of one layer, and of one confidence in that layer.  *)
Layer(keys, S, p)       == {r \in S : keys[r].pri = p}
LayerAt(keys, S, p, c)  == {r \in S : keys[r].pri = p /\ keys[r].conf = c}

CountIn(keys, S, p)     == Cardinality(Layer(keys, S, p))
CountAt(keys, S, p, c)  == Cardinality(LayerAt(keys, S, p, c))

\* The first tuples of the two ranks are equal.
SameCounts(keys, S, T) ==
    \A p \in Priorities : CountIn(keys, S, p) = CountIn(keys, T, p)

\* The two ranks are equal.
RankEqual(keys, S, T) ==
    /\ SameCounts(keys, S, T)
    /\ \A p \in Priorities, c \in Confidences :
          CountAt(keys, S, p, c) = CountAt(keys, T, p, c)

\* A slip: the least important layer is compared first.
FewerInLayersUpward(keys, S, T) ==
    \E p \in Priorities :
        /\ CountIn(keys, S, p) < CountIn(keys, T, p)
        /\ \A q \in Priorities : q < p => CountIn(keys, S, q) = CountIn(keys, T, q)

\* S omits fewer records than T in the most important layer where they differ.
FewerInLayers(keys, S, T) ==
    \E p \in Priorities :
        /\ CountIn(keys, S, p) < CountIn(keys, T, p)
        /\ \A q \in Priorities : q > p => CountIn(keys, S, q) = CountIn(keys, T, q)

\* S omits fewer records than T at the first (priority, confidence), from the
\* largest down, where they differ.
LowerConfidences(keys, S, T) ==
    \E p \in Priorities, c \in Confidences :
        /\ CountAt(keys, S, p, c) < CountAt(keys, T, p, c)
        /\ \A q \in Priorities, d \in Confidences :
              KeyLess([pri |-> p, conf |-> c], [pri |-> q, conf |-> d])
                  => CountAt(keys, S, q, d) = CountAt(keys, T, q, d)

\* S is strictly cheaper to omit than T.
RankLess(keys, S, T) ==
    \/ FewerInLayers(keys, S, T)
    \/ SameCounts(keys, S, T) /\ LowerConfidences(keys, S, T)

RankLeq(keys, S, T) == RankLess(keys, S, T) \/ RankEqual(keys, S, T)
=============================================================================
