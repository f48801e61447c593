------------------------------ MODULE EUFTraced ------------------------------
(***************************************************************************)
(* EUF with two variables that remember: what the lists were at each push,   *)
(* and which equalities held when the call that is running began.           *)
(***************************************************************************)
EXTENDS EUF

VARIABLES
    saved,  \* what the lists and disequalities were at each push
    before  \* the equalities that held before the last call

tracedVars == <<vars, saved, before>>

TracedInit == Init /\ saved = <<>> /\ before = {}

\* The equalities that held when the call that is running began.
Held == IF Ready THEN Holding ELSE before

Remember ==
    /\ saved' = IF Len(limits') > Len(limits) THEN Append(saved, Here)
                                              ELSE SubSeq(saved, 1, Len(limits'))
    /\ before' = Held

Complete == registered = Terms /\ known = Equalities

\* One formula, encoded and registered before it is checked.
EarlyNext == Next /\ Remember /\ (Complete \/ ~Ready \/ <<registered, known>>' # <<registered, known>>)
EarlySpec == TracedInit /\ [][EarlyNext]_tracedVars

\* Formulas added between checks.
LateNext == Next /\ Remember
LateSpec == TracedInit /\ [][LateNext]_tracedVars

\* pop leaves the union-find, its lists, its edges and the disequalities exactly as they
\* were at the push it returns to, whatever was merged in between.
RollbackIsExact ==
    [][Len(limits') < Len(limits) => Here' = saved[Len(limits') + 1]]_tracedVars

\* A call that asserts a literal ends, with all congruences that follow.
Ends == Ready' /\ (Cardinality(Trail') > Cardinality(Trail) \/ (~Ready /\ Trail # {}))

\* Every pair of terms with an equality that an assertion makes equal, through however many
\* congruences, is reported to the SAT solver, once: by the variable registered last for it.
PropagationsComplete ==
    [][Ends => /\ props' = (Holding' \ Held) \cap reporting'
               /\ \A e \in Holding' \ Held : \E d \in props' : SamePair(d, e)]_tracedVars

\* What a theory solver promises: every equality that became true is reported.  It fails for
\* two equalities with exchanged sides, of which eq_to_lit keeps one.
AllReported == [][Ends => props' = Holding' \ Held]_tracedVars
==============================================================================
