---------------------------- MODULE DecisionHeap ----------------------------
(***************************************************************************)
(* The order in which the SAT solver decides variables: VSIDS activities    *)
(* and a lazily cleaned heap (solver/sat/solver.py).  A variable may have   *)
(* several entries in the heap, all but the last of them out of date; an    *)
(* assigned variable may still have its entry; an unassigned one must have  *)
(* one, or _decide would run out of entries and return NULL_LITERAL, which  *)
(* check would push on the trail as if it were a literal.                   *)
(*                                                                         *)
(* The trail is the set of assigned variables: levels, values and reasons   *)
(* are in module CDCL, whose Decide chooses any free literal.  Activities   *)
(* and the increment are natural numbers; rescaling divides them by Scale,  *)
(* which, like the rounding of the floats, may make different ones equal.   *)
(* Two equal entries of a variable never meet (see Entries), so the heap is *)
(* a set.                                                                  *)
(***************************************************************************)
EXTENDS Integers

CONSTANTS
    NumVars,      \* how many variables are ever added
    Limit,        \* the increment above which everything is rescaled (1e100)
    Scale,        \* what activities are divided by (1e100)
    MaxActivity   \* bound: no activity is bumped above it

ASSUME HeapAssumption ==
    /\ NumVars \in Nat
    /\ Limit \in Nat \ {0}
    /\ Scale \in 1 .. Limit + 1
    /\ MaxActivity \in Nat

VARIABLES
    count,      \* number of variables added; they are 0 .. count - 1
    activity,   \* activity of every variable, 0 until it is added
    inc,        \* bump_inc
    heap,       \* order_heap: pairs <<activity when pushed, variable>>
    inHeap,     \* in_heap: the variable has an entry with its activity
    assigned,   \* variables on the trail
    deciding    \* _decide is in its loop

heapVars == <<count, activity, inc, heap, inHeap, assigned, deciding>>

-----------------------------------------------------------------------------
AllVars == 0 .. NumVars - 1
Known == 0 .. count - 1
Free == Known \ assigned

(* The entry pops before the others: highest activity, then lowest variable. *)
PopsFirst(e) ==
    \A f \in heap : \/ f[1] < e[1]
                    \/ f[1] = e[1] /\ e[2] <= f[2]

Outdated(e) == e[1] < activity[e[2]]

Scaled(x) == x \div Scale

(* The heap that holds just one entry for each variable marked in.          *)
Rebuilt(act, in) == {<<act[v], v>> : v \in {w \in Known : in[w]}}

-----------------------------------------------------------------------------
HeapInit ==
    /\ count = 0
    /\ activity = [v \in AllVars |-> 0]
    /\ inc = 1
    /\ heap = {}
    /\ inHeap = [v \in AllVars |-> FALSE]
    /\ assigned = {}
    /\ deciding = FALSE

AddVariable ==
    /\ ~deciding /\ count < NumVars
    /\ count' = count + 1
    /\ inHeap' = [inHeap EXCEPT ![count] = TRUE]
    /\ heap' = heap \cup {<<0, count>>}
    /\ UNCHANGED <<activity, inc, assigned, deciding>>

(* A unit, a propagated literal or an assumption: assigned without a look   *)
(* at the heap.                                                            *)
Assign(v) ==
    /\ ~deciding /\ v \in Free
    /\ assigned' = assigned \cup {v}
    /\ UNCHANGED <<count, activity, inc, heap, inHeap, deciding>>

(* _decide after its assumptions; check only calls it with a free variable. *)
BeginDecide ==
    /\ ~deciding /\ Free # {}
    /\ deciding' = TRUE
    /\ UNCHANGED <<count, activity, inc, heap, inHeap, assigned>>

DropOutdated(e) ==
    /\ deciding /\ PopsFirst(e) /\ Outdated(e)
    /\ heap' = heap \ {e}
    /\ UNCHANGED <<count, activity, inc, inHeap, assigned, deciding>>

SkipAssigned(e) ==
    /\ deciding /\ PopsFirst(e) /\ ~Outdated(e) /\ e[2] \in assigned
    /\ heap' = heap \ {e}
    /\ inHeap' = [inHeap EXCEPT ![e[2]] = FALSE]
    /\ UNCHANGED <<count, activity, inc, assigned, deciding>>

(* The variable is returned, and check puts it on the trail.               *)
Choose(e) ==
    /\ deciding /\ PopsFirst(e) /\ ~Outdated(e) /\ e[2] \notin assigned
    /\ heap' = heap \ {e}
    /\ inHeap' = [inHeap EXCEPT ![e[2]] = FALSE]
    /\ assigned' = assigned \cup {e[2]}
    /\ deciding' = FALSE
    /\ UNCHANGED <<count, activity, inc>>

(* slip: a variable whose entry is in the heap is bumped in place *)
BumpInPlace(v) ==
    /\ ~deciding /\ v \in assigned /\ activity[v] + inc <= MaxActivity
    /\ inc <= Limit
    /\ activity' = [activity EXCEPT ![v] = @ + inc]
    /\ inHeap' = [inHeap EXCEPT ![v] = TRUE]
    /\ heap' = IF inHeap[v] THEN heap ELSE heap \cup {<<activity'[v], v>>}
    /\ UNCHANGED <<count, inc, assigned, deciding>>

(* A variable of a conflict, with the increment still within its limit.    *)
Bump(v) ==
    /\ ~deciding /\ v \in assigned /\ activity[v] + inc <= MaxActivity
    /\ inc <= Limit
    /\ activity' = [activity EXCEPT ![v] = @ + inc]
    /\ inHeap' = [inHeap EXCEPT ![v] = TRUE]
    /\ heap' = heap \cup {<<activity'[v], v>>}
    /\ UNCHANGED <<count, inc, assigned, deciding>>

(* slip: activities are rescaled under the entries of the heap *)
BumpAndRescaleUnder(v) ==
    /\ ~deciding /\ v \in assigned /\ activity[v] + inc <= MaxActivity
    /\ inc > Limit
    /\ activity' = [w \in AllVars |->
                        Scaled(IF w = v THEN activity[w] + inc ELSE activity[w])]
    /\ inHeap' = [inHeap EXCEPT ![v] = TRUE]
    /\ inc' = Scaled(inc)
    /\ heap' = heap \cup {<<activity[v] + inc, v>>}
    /\ UNCHANGED <<count, assigned, deciding>>

(* The same with the increment above its limit: everything is divided, and *)
(* the heap rebuilt from the variables marked in it.                       *)
BumpAndRescale(v) ==
    /\ ~deciding /\ v \in assigned /\ activity[v] + inc <= MaxActivity
    /\ inc > Limit
    /\ activity' = [w \in AllVars |->
                        Scaled(IF w = v THEN activity[w] + inc ELSE activity[w])]
    /\ inHeap' = [inHeap EXCEPT ![v] = TRUE]
    /\ inc' = Scaled(inc)
    /\ heap' = Rebuilt(activity', inHeap')
    /\ UNCHANGED <<count, assigned, deciding>>

(* The end of a conflict; a conflict bumps some variable before, so the     *)
(* increment grows only once above the limit.                              *)
Decay ==
    /\ ~deciding /\ inc <= Limit
    /\ inc' = inc + inc
    /\ UNCHANGED <<count, activity, heap, inHeap, assigned, deciding>>

(* slip: variables are pushed back whether or not they have an entry, with  *)
(* no mark                                                                 *)
BacktrackUnmarked(kept) ==
    LET freed == assigned \ kept IN
    /\ ~deciding /\ freed # {}
    /\ heap' = heap \cup {<<activity[v], v>> : v \in {w \in freed : ~inHeap[w]}}
    /\ assigned' = kept
    /\ UNCHANGED <<count, activity, inc, inHeap, deciding>>

(* The trail is cut: the variables that lose their value go back.          *)
Backtrack(kept) ==
    LET pushed == {v \in assigned \ kept : ~inHeap[v]} IN
    /\ ~deciding /\ assigned \ kept # {}
    /\ inHeap' = [v \in AllVars |-> inHeap[v] \/ v \in pushed]
    /\ heap' = heap \cup {<<activity[v], v>> : v \in pushed}
    /\ assigned' = kept
    /\ UNCHANGED <<count, activity, inc, deciding>>

HeapNext ==
    \/ AddVariable
    \/ \E v \in Known : Assign(v) \/ Bump(v) \/ BumpAndRescale(v)
    \/ BeginDecide
    \/ \E e \in heap : DropOutdated(e) \/ SkipAssigned(e) \/ Choose(e)
    \/ Decay
    \/ \E kept \in SUBSET assigned : Backtrack(kept)

HeapSpec == HeapInit /\ [][HeapNext]_heapVars

-----------------------------------------------------------------------------
(* Type invariant.                                                         *)
HeapTypeOK ==
    /\ count \in 0 .. NumVars
    /\ activity \in [AllVars -> Nat]
    /\ inc \in Nat \ {0}
    /\ heap \subseteq Nat \X Known
    /\ inHeap \in [AllVars -> BOOLEAN]
    /\ assigned \subseteq Known
    /\ deciding \in BOOLEAN

(* The marks are true: in_heap says exactly which variables have an entry   *)
(* with their activity, no entry exceeds the activity of its variable, and  *)
(* every free variable is marked.                                          *)
Entries ==
    /\ \A e \in heap : e[1] <= activity[e[2]]
    /\ \A v \in Known : inHeap[v] <=> <<activity[v], v>> \in heap
    /\ \A v \in Free : inHeap[v]

(* _decide never runs out of entries while a variable is free: it cannot    *)
(* return NULL_LITERAL when check calls it, whatever was bumped, rescaled,  *)
(* assigned and undone before.                                             *)
NeverNull == deciding => heap # {}

(* The variable decided is the most active of the free ones, the lowest of  *)
(* them: no out-of-date entry ever wins over a current one.                *)
MostActive ==
    [][deciding /\ ~deciding' =>
         \A v \in assigned' \ assigned, w \in Free :
             \/ activity[w] < activity[v]
             \/ activity[w] = activity[v] /\ v <= w]_heapVars
=============================================================================
