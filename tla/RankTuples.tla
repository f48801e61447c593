----------------------------- MODULE RankTuples -----------------------------
(***************************************************************************)
(* The rank of a set of omitted records as ordered_omissions builds it      *)
(* (governance/_revision_search.py): how many records it omits in each      *)
(* layer, from the largest priority down, and then the confidences omitted  *)
(* in each layer, the largest first; and Python's order of such pairs of    *)
(* tuples.  A layer the code has no record of is one more that is empty in  *)
(* every rank.                                                             *)
(***************************************************************************)
EXTENDS RevisionOrder, Sequences

\* sorted(priorities, reverse=True)
LayerOrder == [i \in 1 .. MaxPriority + 1 |-> MaxPriority + 1 - i]

CountTuple(keys, S) == [i \in DOMAIN LayerOrder |-> CountIn(keys, S, LayerOrder[i])]

\* f lists the confidences S omits in layer p, each as often as it occurs,
\* the largest first.
SortsConfidences(f, keys, S, p) ==
    /\ \A i, j \in DOMAIN f : i < j => f[i] >= f[j]
    /\ \A c \in Confidences :
          Cardinality({i \in DOMAIN f : f[i] = c}) = CountAt(keys, S, p, c)

\* sorted(layers[priority], reverse=True)
SortedConfidences(keys, S, p) ==
    CHOOSE f \in [1 .. CountIn(keys, S, p) -> Confidences] : SortsConfidences(f, keys, S, p)

ConfidenceTuples(keys, S) ==
    [i \in DOMAIN LayerOrder |-> SortedConfidences(keys, S, LayerOrder[i])]

\* Python's order of two tuples of numbers.
TupleLess(s, t) ==
    \/ \E i \in DOMAIN s \cap DOMAIN t :
          s[i] < t[i] /\ \A j \in 1 .. i - 1 : s[j] = t[j]
    \/ Len(s) < Len(t) /\ \A j \in DOMAIN s : s[j] = t[j]

\* Python's order of two tuples of tuples, of the same length.
NestedLess(s, t) ==
    \E i \in DOMAIN s \cap DOMAIN t :
        TupleLess(s[i], t[i]) /\ \A j \in 1 .. i - 1 : s[j] = t[j]

TuplesLess(keys, S, T) ==
    \/ TupleLess(CountTuple(keys, S), CountTuple(keys, T))
    \/ /\ CountTuple(keys, S) = CountTuple(keys, T)
       /\ NestedLess(ConfidenceTuples(keys, S), ConfidenceTuples(keys, T))

TuplesEqual(keys, S, T) ==
    /\ CountTuple(keys, S) = CountTuple(keys, T)
    /\ ConfidenceTuples(keys, S) = ConfidenceTuples(keys, T)
=============================================================================
