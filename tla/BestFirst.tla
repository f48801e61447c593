----------------------------- MODULE BestFirst -----------------------------
(***************************************************************************)
(* What ordered_omissions promises its consumer: it emits every member of  *)
(* the search scope once, and never one while a strictly cheaper one waits.*)
(***************************************************************************)
EXTENDS Naturals, Sequences

CONSTANT CostsNoMore(_, _, _)   \* by these keys, omitting S costs no more than T

VARIABLES
    key,      \* the priority and the confidence of each record
    scope,    \* the omissions the search may propose: name -> records omitted
    emitted   \* the names emitted so far, in order

vars == <<key, scope, emitted>>

Emitted == {emitted[i] : i \in DOMAIN emitted}
Waiting == DOMAIN scope \ Emitted

Init == emitted = <<>>

Emit(E) == /\ E \in Waiting
           /\ \A F \in Waiting : CostsNoMore(key, scope[E], scope[F])
           /\ emitted' = Append(emitted, E)
           /\ UNCHANGED <<key, scope>>

Next == \E E \in DOMAIN scope : Emit(E)
Spec == Init /\ [][Next]_vars /\ WF_vars(Next)
=============================================================================
