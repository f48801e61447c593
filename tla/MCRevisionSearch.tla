------------------------- MODULE MCRevisionSearch -------------------------
(***************************************************************************)
(* Instances of RevisionSearch: four records already sorted by cost, which  *)
(* loses nothing (the search only sees eligible), and two in any order,    *)
(* protected or not, with the others protected.                            *)
(***************************************************************************)
EXTENDS RevisionSearch

InOrder == \A r, s \in Records : r < s => SortsBefore(r, s)
\* With a candidate, the confidences are those below the highest, which bounds the run.
Sorted  == /\ protected = {} /\ InOrder
           /\ hasCandidate => \A r \in Present : key[r].conf < MaxConfidence
Few     == \A r \in Records : r > 2 => r \in protected /\ key[r] = [pri |-> 0, conf |-> 0]

\* The records are chosen before Init would enumerate their orders.
MCInit == /\ hasCandidate \in BOOLEAN
          /\ key \in [Present -> Keys]
          /\ protected \in SUBSET Present
          /\ Sorted \/ Few
          /\ Init
MCSpec == MCInit /\ [][Next]_searchVars /\ WF_searchVars(Next)
=============================================================================
