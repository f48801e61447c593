--------------------------- MODULE RevisionSearch ---------------------------
(***************************************************************************)
(* The generator ordered_omissions (governance/_revision_search.py): a heap *)
(* enumerates, cheapest first, the sets of at most limit unprotected        *)
(* records that a revision may withdraw, and, on its own, the rejection of  *)
(* the candidate.                                                          *)
(*                                                                         *)
(* An entry of the heap is a strictly increasing sequence of positions in  *)
(* eligible, the records sorted by cost.  The empty sequence stands for the *)
(* rejection of the candidate, as the empty tuple does in the code.  The   *)
(* heap itself is a set: FreshSuccessors says that nothing is pushed twice.*)
(***************************************************************************)
EXTENDS RankTuples

CONSTANTS
    NumRecords,   \* the number of adopted records; they are 1 .. NumRecords
    Limits        \* the values of max_withdrawals to consider

ASSUME SearchAssumption == NumRecords \in Nat /\ Limits \subseteq Nat \ {0}

Records   == 1 .. NumRecords   \* in the order of (kind, id)
Candidate == 0
Rejection == <<>>

VARIABLES
    hasCandidate,  \* whether the revision proposes a candidate record
    key,           \* the priority and the confidence of each record
    protected,     \* the targets the policy protects
    limit,         \* max_withdrawals
    eligible,      \* the unprotected adopted records, sorted
    frontier,      \* the entries in the heap
    yielded        \* the entries the consumer has received, in order

inputs == <<hasCandidate, key, protected, limit, eligible>>
searchVars == <<hasCandidate, key, protected, limit, eligible, frontier, yielded>>

Present == IF hasCandidate THEN Records \cup {Candidate} ELSE Records
Size    == Len(eligible)

SortsBefore(r, s) == \/ KeyLess(key[r], key[s])
                     \/ key[r] = key[s] /\ r < s

IsSorted(s) == \A i, j \in DOMAIN s : i < j => SortsBefore(s[i], s[j])

(***************************************************************************)
(* Entries, and what they stand for.                                       *)
(***************************************************************************)
Increasing(E) == \A i, j \in DOMAIN E : i < j => E[i] < E[j]

\* The position sequences the heap may hold.
Positions == {E \in UNION {[1 .. k -> 1 .. Size] : k \in 1 .. limit} : Increasing(E)}

RejectionEntries == IF hasCandidate /\ Candidate \notin protected THEN {Rejection} ELSE {}

\* Every entry the generator may yield.
Scope == Positions \cup RejectionEntries

\* The records an entry omits.
Omitted(E) == IF E = Rejection THEN {Candidate} ELSE {eligible[E[i]] : i \in DOMAIN E}

CostsNoMore(E, F) == RankLeq(key, Omitted(E), Omitted(F))
SameCost(E, F)    == RankEqual(key, Omitted(E), Omitted(F))

\* Python's order of two index tuples, which breaks a tie between equal ranks.
IndexLess(E, F) ==
    \/ \E i \in DOMAIN E \cap DOMAIN F :
          E[i] < F[i] /\ \A j \in 1 .. i - 1 : E[j] = F[j]
    \/ Len(E) < Len(F) /\ \A j \in DOMAIN E : E[j] = F[j]

\* A slip: the heap is ordered by index only.
PopsBeforeByIndex(E, F) == IndexLess(E, F)

\* E leaves the heap before F.
PopsBefore(E, F) == \/ RankLess(key, Omitted(E), Omitted(F))
                    \/ SameCost(E, F) /\ IndexLess(E, F)

(***************************************************************************)
(* The two successors of a position sequence: its last position replaced   *)
(* by the next one, and the next one appended.                             *)
(***************************************************************************)
LastOf(E)   == E[Len(E)]
Replaced(E) == [E EXCEPT ![Len(E)] = LastOf(E) + 1]
Appended(E) == Append(E, LastOf(E) + 1)

\* Slips: a position is appended but never replaced; every later position is
\* appended, not only the next.
SuccessorsAppendOnly(E) ==
    IF E = Rejection \/ LastOf(E) = Size \/ Len(E) = limit THEN {} ELSE {Appended(E)}
SuccessorsAnyLater(E) ==
    IF E = Rejection \/ LastOf(E) = Size THEN {}
    ELSE {Replaced(E)} \cup
         (IF Len(E) < limit THEN {Append(E, j) : j \in LastOf(E) + 1 .. Size} ELSE {})

Successors(E) ==
    IF E = Rejection \/ LastOf(E) = Size THEN {}
    ELSE {Replaced(E)} \cup (IF Len(E) < limit THEN {Appended(E)} ELSE {})

(***************************************************************************)
(* The generator.                                                          *)
(***************************************************************************)
InitInputs ==
    /\ hasCandidate \in BOOLEAN
    /\ key \in [Present -> Keys]
    /\ protected \in SUBSET Present
    /\ limit \in Limits
    /\ eligible \in [1 .. Cardinality(Records \ protected) -> Records \ protected]
    /\ IsSorted(eligible)

InitSearch ==
    /\ frontier = (IF Size > 0 THEN {<<1>>} ELSE {}) \cup RejectionEntries
    /\ yielded = <<>>

Init == InitInputs /\ InitSearch

\* A slip: the heap is a queue, and any entry may come first.
YieldAny(E) ==
    /\ E \in frontier
    /\ yielded' = Append(yielded, E)
    /\ frontier' = (frontier \ {E}) \cup Successors(E)
    /\ UNCHANGED inputs

\* The consumer asks for the next omission: the cheapest entry is popped and
\* yielded, and its successors are pushed before the next pop.  The consumer
\* cannot see the heap, so the push that follows the yield is part of the step.
Yield(E) ==
    /\ E \in frontier
    /\ \A F \in frontier \ {E} : PopsBefore(E, F)
    /\ yielded' = Append(yielded, E)
    /\ frontier' = (frontier \ {E}) \cup Successors(E)
    /\ UNCHANGED inputs

Next == \E E \in frontier : Yield(E)

\* A consumer that never stops asking.
Spec == Init /\ [][Next]_searchVars /\ WF_searchVars(Next)

(***************************************************************************)
(* Properties.                                                             *)
(***************************************************************************)
Yielded == {yielded[i] : i \in DOMAIN yielded}

TypeOK ==
    /\ hasCandidate \in BOOLEAN
    /\ key \in [Present -> Keys]
    /\ protected \subseteq Present
    /\ limit \in Limits
    /\ eligible \in Seq(Records \ protected)
    /\ IsSorted(eligible)
    /\ frontier \subseteq Scope
    /\ yielded \in Seq(Scope)

\* E is F or one of the entries from which F is reached by Successors.
Reaches(E, F) ==
    IF E = Rejection THEN F = Rejection
    ELSE /\ F # Rejection
         /\ Len(E) <= Len(F)
         /\ \A i \in 1 .. Len(E) - 1 : E[i] = F[i]
         /\ LastOf(E) <= F[Len(E)]

(* RankLess and RankEqual are the order and the equality of the rank tuples *)
(* the code builds, for every two sets of records that may be given up: the *)
(* search orders its heap by the one and _search compares ranks by the      *)
(* other.  Nothing the search does changes a key, so TLC may look once.     *)
RankIsTupleOrder ==
    yielded = <<>> =>
        \A S, T \in SUBSET (Present \ protected) :
            /\ RankLess(key, S, T)  <=> TuplesLess(key, S, T)
            /\ RankEqual(key, S, T) <=> TuplesEqual(key, S, T)

(* No omission is lost: one not yet yielded is still reachable from the     *)
(* heap.  A wrong successor would silently drop whole families of repairs. *)
NothingLost ==
    \A F \in Scope \ Yielded : \E E \in frontier : Reaches(E, F)

(* No omission is met twice: what is reachable from one entry of the heap   *)
(* was not yielded and is not reachable from another.  The docstring says   *)
(* that each subset has one parent.                                        *)
OneParent ==
    /\ \A E \in frontier : \A F \in Yielded : ~Reaches(E, F)
    /\ \A E1, E2 \in frontier : E1 # E2 =>
          \A F \in Scope : ~(Reaches(E1, F) /\ Reaches(E2, F))

\* The successors pushed are not in the heap and never were, so a heap with
\* duplicates and the set frontier hold the same.
FreshSuccessors ==
    [][\A E \in frontier : Yield(E) => Successors(E) \cap (frontier \cup Yielded) = {}]_searchVars

(* Best first: whatever is not yet yielded costs at least as much as all    *)
(* that was.  _search stops at the first change of rank because of it.     *)
BestFirstOrder ==
    \A F \in Scope \ Yielded : \A i \in DOMAIN yielded : CostsNoMore(yielded[i], F)

(* The heap grows by at most one entry for each omission yielded.          *)
FrontierBound == Cardinality(frontier) <= Len(yielded) + 2

(* When the generator is exhausted it has yielded all of the scope.        *)
ExhaustedIsComplete == frontier = {} => Yielded = Scope

(* The generator implements the abstract best-first enumeration.           *)
Abstract == INSTANCE BestFirst WITH
    CostsNoMore <- RankLeq,
    scope <- [E \in Scope |-> Omitted(E)],
    emitted <- yielded
ImplementsBestFirst == Abstract!Spec
=============================================================================
