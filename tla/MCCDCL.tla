------------------------------- MODULE MCCDCL -------------------------------
(***************************************************************************)
(* Small problems for module CDCL.                                         *)
(***************************************************************************)
EXTENDS CDCL

\* Every clause over two variables: refuted by analysis, unit by unit, with a restart after any conflict.
Binary == [vars |-> 2, clauses |-> <<<<1, 2>>, <<1, -2>>, <<-1, 2>>, <<-1, -2>>>>,
           lemmas |-> {}, stops |-> 2 .. 4, assumed |-> {{}, {1, 2}, {1, -1}},
           checks |-> 2, cooldown |-> 1, threshold |-> 2000, spacing |-> 500]

\* With the constants of the code, which a search as small as this never reaches.
\* Under 1 and 2 the other variables are propagated into a conflict, from which
\* a binary clause is learned by two resolutions; the last clause is a unit.
Chain == [vars |-> 4,
          clauses |-> <<<<-1, -2, 3>>, <<-1, -3, 4>>, <<-2, -3, -4>>, <<1, 2, -4>>, <<2>>>>,
          lemmas |-> {}, stops |-> {4, 5}, assumed |-> {{}, {1, 2}, {1, -1}},
          checks |-> 2, cooldown |-> 50, threshold |-> 2000, spacing |-> 500]

\* The same with restarts, where the assumptions leave few decisions.
Restarted == [Chain EXCEPT !.assumed = {{1, 2}, {1, -1}}, !.cooldown = 1]

\* 1, 2, 3 are the equalities of three terms, and equality is transitive.
Triangle == [vars |-> 3, clauses |-> <<<<1, 2>>, <<-3, -1>>, <<1, 3>>>>,
             lemmas |-> {{-1, -2, 3}, {-1, 2, -3}, {1, -2, -3}},
             stops |-> {2, 3}, assumed |-> {{}, {1, 2}, {1, -1}},
             checks |-> 1, cooldown |-> 2, threshold |-> 2000, spacing |-> 500]

\* Under 1, 2 and 3, two conflicts: a clause of four levels is learned by the
\* first and may be deleted by the second.
Wide == [vars |-> 5,
         clauses |-> <<<<-1, -2, -3, -4, 5>>, <<-1, -2, -3, -4, -5>>,
                       <<-1, -2, -3, 4, 5>>, <<-1, -2, -3, 4, -5>>>>,
         lemmas |-> {}, stops |-> {4}, assumed |-> {{1, 2, 3}},
         checks |-> 2, cooldown |-> 1, threshold |-> 2, spacing |-> 2]

\* Under 1, 2 and 3 a search of many conflicts, with clauses of four levels in both
\* branches of 4 and 5: at any second conflict learned
\* clauses may be deleted and the search may restart, twice and more in one search.
Recurring == [vars |-> 6,
              clauses |-> <<<<-1, -4, -5, 6>>, <<-2, -5, -6>>, <<-3, -4, 5, 6>>,
                            <<5, -6>>, <<4, -5>>, <<4, 5, 6>>>>,
              lemmas |-> {}, stops |-> {6}, assumed |-> {{1, 2, 3}},
              checks |-> 1, cooldown |-> 2, threshold |-> 4, spacing |-> 4]

Problems == {Binary, Chain, Restarted, Triangle, Wide, Recurring}
Tight    == {[Binary EXCEPT !.assumed = {{}}, !.checks = 3, !.cooldown = 50]}
=============================================================================
