------------------------------ MODULE EngineUse ------------------------------
(***************************************************************************)
(* The uses of an engine for which its verdicts are right: a universal rule  *)
(* is a formula of its own, outside every scope, and a solver that answered  *)
(* UNKNOWN, or refuted what does not depend on assumptions, is dropped.     *)
(***************************************************************************)
EXTENDS Engine

VARIABLE spoiled   \* the solver is dropped
useVars == <<vars, spoiled>>

\* A rule stands alone.
Apart(f) == f.rules # {} => scopes = <<>> /\ f.lits = {} /\ Cardinality(f.rules) = 1
ApartNext == Next /\ (assertions' # assertions => Apart(Last(assertions').formula))
ApartSpec == Init /\ [][ApartNext]_vars

Spoils == answer'.verdict = "UNKNOWN" \/ (answer'.verdict = "UNSAT" /\ answer'.core = {})

UseInit == Init /\ spoiled = FALSE
UseNext == ApartNext /\ ~spoiled /\ spoiled' = Spoils
UseSpec == UseInit /\ [][UseNext]_useVars
===============================================================================
