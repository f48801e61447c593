------------------------------- MODULE MCChecks -------------------------------
(* A functional predicate with two values, a proposition and a rule for Checks. *)
EXTENDS Checks

Red == [predicate |-> "color", args |-> <<"x", "red">>]
Blue == [predicate |-> "color", args |-> <<"x", "blue">>]
Lit == [predicate |-> "lit", args |-> <<>>]

MCAtoms == {Red, Blue, Lit}
MCRecords ==
    {[id |-> "a", atom |-> Red, truth |-> TRUE], [id |-> "b", atom |-> Red, truth |-> TRUE],
     [id |-> "c", atom |-> Blue, truth |-> TRUE], [id |-> "d", atom |-> Lit, truth |-> FALSE]}
MCRules == {{v \in SUBSET MCAtoms : Red \in v => Lit \in v}}
MCQueries == {{v \in SUBSET MCAtoms : Lit \notin v}}
===============================================================================
