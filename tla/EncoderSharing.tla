---------------------------- MODULE EncoderSharing ----------------------------
(***************************************************************************)
(* Encoder, for the callers whose formulas never share a definition that    *)
(* the preprocessor has eliminated: a variable remembers those.  Without    *)
(* this restriction a check may answer SAT wrongly: run                     *)
(* encoder_shared_definition shows it.                                     *)
(***************************************************************************)
EXTENDS Encoder

CONSTANT Size   \* how large each expression is

AtomsOf(es) == {e \in es : e[1] = "atom"}

\* What mk_app builds: expressions are finite, negations are of what is neither a constant
\* nor a negation, and junctions have arguments, none of them a constant.
ASSUME SizeAssumption ==
    /\ Size \in [Exprs -> Nat]
    /\ \A e \in Exprs : \A a \in Args(e) : Size[a] < Size[e]
ASSUME SimplifiedAssumption ==
    \A e \in Exprs :
      \/ e \in {True, False}
      \/ e[1] = "atom"
      \/ e[1] = "not" /\ e[2] \notin {True, False} /\ e[2][1] # "not"
      \/ e[1] \in {"and", "or"} /\ e[2] # {} /\ e[2] \cap {True, False} = {}

\* The atoms are independent: what they mean together is the theories' concern.
ASSUME IndependentAssumption ==
    \A s \in SUBSET AtomsOf(Exprs) : \E val \in Valuations : \A e \in AtomsOf(Exprs) : val[e] = (e \in s)

VARIABLE lost   \* the variables that the preprocessor eliminated
keptVars == <<vars, lost>>

KeptInit == Init /\ lost = {}
Lose == lost' = lost \cup (IF phase = "pure" THEN {l[1] : l \in Pure} ELSE {})

\* A formula may share the definitions that are still there, and no constant is assumed.
Shares(f) == Parts[f] \cap lost # {}
KeptNext ==
    /\ \/ \E f \in Formulas : ~Shares(f) /\ AddFormula(f)
       \/ \E f \in Assumable \ {True, False} : ~Shares(f) /\ Assume(f)
       \/ EndCheck \/ Preprocess
    /\ Lose
KeptSpec == KeptInit /\ [][KeptNext]_keptVars
===============================================================================
