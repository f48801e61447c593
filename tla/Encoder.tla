-------------------------------- MODULE Encoder --------------------------------
(***************************************************************************)
(* From formulas to the clauses of the SAT solver: the simplifications of    *)
(* mk_app (ast/context.py), the incremental Tseitin encoder                 *)
(* (tactic/encoder.py) and the preprocessor run over the clauses of each     *)
(* formula (tactic/preprocess.py), as add_formula and check of the engine    *)
(* call them.                                                              *)
(*                                                                         *)
(* An expression is a tuple: <<"atom", a>> for what keeps its variable (a   *)
(* symbol, an equality, a predicate, a quantifier), <<"true">>, <<"false">>, *)
(* <<"not", e>>, <<"and", args>> or <<"or", args>>.  Expressions are hash-   *)
(* consed, so an expression is its own Boolean variable.                   *)
(***************************************************************************)
EXTENDS Integers, FiniteSets

CONSTANTS
    Exprs,       \* the expressions, with their subexpressions
    Valuations,  \* what the expressions may mean: functions from Exprs to BOOLEAN
    Formulas,    \* the formulas that may be added: skolemized, negations on the atoms
    Assumable,   \* those that a check may assume
    MaxAdded, MaxAssumed   \* bounds: formulas added, assumptions encoded in all

True == <<"true">>
False == <<"false">>
Args(e) == IF e[1] \in {"and", "or"} THEN e[2] ELSE IF e[1] = "not" THEN {e[2]} ELSE {}

\* The meaning of each connective.
Respects(val, e) ==
    CASE e = True -> val[e]
      [] e = False -> ~val[e]
      [] e[1] = "not" -> val[e] = ~val[e[2]]
      [] e[1] = "and" -> val[e] = \A a \in e[2] : val[a]
      [] e[1] = "or" -> val[e] = \E a \in e[2] : val[a]
      [] OTHER -> TRUE

ASSUME ExprsAssumption == Formulas \cup Assumable \subseteq Exprs /\ \A e \in Exprs : Args(e) \subseteq Exprs
ASSUME ValuationsAssumption ==
    \A val \in Valuations : val \in [Exprs -> BOOLEAN] /\ \A e \in Exprs : Respects(val, e)
ASSUME BoundsAssumption == MaxAdded \in Nat /\ MaxAssumed \in Nat

VARIABLES
    added,     \* the formulas added
    assumed,   \* the assumptions of the check that is running
    assumings, \* how many assumptions were encoded
    encoded,   \* expr_to_var: the expressions that have a variable
    clauses,   \* the clauses handed to the SAT solver
    work,      \* the clauses of the formula that is being preprocessed
    protected, \* protected_vars
    changed,   \* whether this round of the preprocessor changed anything
    phase      \* "idle", or what the preprocessor does next
vars == <<added, assumed, assumings, encoded, clauses, work, protected, changed, phase>>

(***************************************************************************)
(* mk_app: nested junctions are flattened, constants and duplicates go.      *)
(***************************************************************************)
MkNot(e) == CASE e = True -> False [] e = False -> True [] e[1] = "not" -> e[2] [] OTHER -> <<"not", e>>

Junction(op, unit, zero, es) ==
    LET args == (UNION {IF e[1] = op THEN e[2] ELSE {e} : e \in es}) \ {unit}
    IN  CASE zero \in args -> zero
          [] args = {} -> unit
          [] Cardinality(args) = 1 -> CHOOSE e \in args : TRUE
          [] OTHER -> <<op, args>>
MkAnd(es) == Junction("and", True, False, es)
MkOr(es) == Junction("or", False, True, es)

(***************************************************************************)
(* Encoding.                                                               *)
(***************************************************************************)
\* get_lit: a literal is a variable and its sign.
Lit(e) == IF e[1] = "not" THEN <<e[2], FALSE>> ELSE <<e, TRUE>>
Negated(l) == <<l[1], ~l[2]>>

\* The clauses that make the variable of e equal to what e says.
Definition(e) ==
    CASE e = True -> {{<<e, TRUE>>}}
      [] e = False -> {{<<e, FALSE>>}}
      [] e[1] = "and" -> {{<<e, FALSE>>, Lit(a)} : a \in e[2]}
                           \cup {{<<e, TRUE>>} \cup {Negated(Lit(a)) : a \in e[2]}}
      [] e[1] = "or" -> {{<<e, TRUE>>, Negated(Lit(a))} : a \in e[2]}
                          \cup {{<<e, FALSE>>} \cup {Lit(a) : a \in e[2]}}
      [] OTHER -> {}

Parts[e \in Exprs] == {e} \cup UNION {Parts[a] : a \in Args(e)}

\* The expressions that get a variable, and with it their definition.
New(e) == {d \in Exprs : d \in Parts[e] /\ d[1] # "not" /\ d \notin encoded}

\* _encode_and_simplify: what was known before and what is not a connective is protected.
Encode(e, root) ==
    /\ work' = (UNION {Definition(d) : d \in New(e)}) \cup root
    /\ encoded' = encoded \cup New(e)
    /\ protected' = encoded \cup {d \in New(e) : d[1] = "atom"}
    /\ changed' = FALSE
    /\ phase' = "units"

\* Formulas of the caller and instances of its rules; the unit clause of the root asserts it.
AddFormula(f) ==
    /\ phase = "idle" /\ Cardinality(added) < MaxAdded
    /\ added' = added \cup {f}
    /\ assumed' = {}
    /\ Encode(f, {{Lit(f)}})
    /\ UNCHANGED <<assumings, clauses>>

\* A slip: what a check assumes is asserted.
AssumeAsserting(f) ==
    /\ phase = "idle" /\ assumings < MaxAssumed
    /\ assumed' = assumed \cup {f}
    /\ assumings' = assumings + 1
    /\ Encode(f, {{Lit(f)}})
    /\ UNCHANGED <<added, clauses>>

\* An assumption of a check: defined for good, its literal assumed by this check only.
Assume(f) ==
    /\ phase = "idle" /\ assumings < MaxAssumed
    /\ assumed' = assumed \cup {f}
    /\ assumings' = assumings + 1
    /\ Encode(f, {})
    /\ UNCHANGED <<added, clauses>>

EndCheck ==
    /\ phase = "idle" /\ assumed # {}
    /\ assumed' = {}
    /\ UNCHANGED <<added, assumings, encoded, clauses, work, protected, changed, phase>>

(***************************************************************************)
(* The preprocessor: unit clauses and pure literals in turn.               *)
(***************************************************************************)
Units == {l \in UNION work : {l} \in work}

\* A clause with a true literal goes, unless it is the unit clause; false literals go.
Reduced(units) ==
    {c \ {Negated(l) : l \in units} : c \in {c \in work : c \cap units = {} \/ Cardinality(c) = 1}}

ApplyUnits ==
    /\ phase = "units"
    /\ LET reduced == Reduced(Units)
           contradiction == {} \in reduced \/ \E l \in Units : Negated(l) \in Units
       IN  /\ work' = IF contradiction THEN {{}} ELSE reduced
           /\ changed' = (work' # work)
           /\ phase' = IF contradiction THEN "assert" ELSE "pure"
    /\ UNCHANGED <<added, assumed, assumings, encoded, clauses, protected>>

\* A slip: pure literals of any variable.
PureAny == {l \in UNION work : Negated(l) \notin UNION work}

Pure == {l \in UNION work : Negated(l) \notin UNION work /\ l[1] \notin protected}

ApplyPure ==
    /\ phase = "pure"
    /\ work' = {c \in work : c \cap Pure = {}}
    /\ phase' = IF changed \/ work' # work THEN "units" ELSE "assert"
    /\ UNCHANGED <<added, assumed, assumings, encoded, clauses, protected, changed>>

\* _assert_to_sat
Assert ==
    /\ phase = "assert"
    /\ clauses' = clauses \cup work
    /\ work' = {} /\ phase' = "idle"
    /\ UNCHANGED <<added, assumed, assumings, encoded, protected, changed>>

Init ==
    /\ added = {} /\ assumed = {} /\ assumings = 0
    /\ encoded = {} /\ clauses = {} /\ work = {} /\ protected = {}
    /\ changed = FALSE /\ phase = "idle"

Preprocess == ApplyUnits \/ ApplyPure \/ Assert

Next ==
    \/ \E f \in Formulas : AddFormula(f)
    \/ \E f \in Assumable : Assume(f)
    \/ EndCheck
    \/ Preprocess

Spec == Init /\ [][Next]_vars

(***************************************************************************)
(* What the clauses say.                                                   *)
(***************************************************************************)
IsTrue(val, l) == val[l[1]] = l[2]
Satisfies(val, cs) == \A c \in cs : \E l \in c : IsTrue(val, l)

\* Type invariant: clauses are sets of literals over the expressions.
TypeOK ==
    /\ added \subseteq Formulas /\ assumed \subseteq Assumable /\ assumings \in Nat
    /\ encoded \subseteq Exprs /\ protected \subseteq Exprs /\ changed \in BOOLEAN
    /\ phase \in {"idle", "units", "pure", "assert"}
    /\ clauses \subseteq SUBSET (Exprs \X BOOLEAN)
    /\ work \subseteq SUBSET (Exprs \X BOOLEAN)

(***************************************************************************)
(* The clauses never ask for more than the formulas: each valuation of the  *)
(* formulas added, with every variable equal to what its expression says,   *)
(* satisfies the clauses of the SAT solver and those in the preprocessor.   *)
(* UNSAT is then never an artefact of the encoding, and an assumed literal  *)
(* is the assumed formula.                                                 *)
(***************************************************************************)
NothingForbidden ==
    \A val \in Valuations :
      (\A f \in added : val[f]) => Satisfies(val, clauses) /\ Satisfies(val, work)

(***************************************************************************)
(* The clauses never ask for less: an assignment of the variables that      *)
(* satisfies the clauses and the assumed literals is, on the atoms, a       *)
(* valuation of the formulas added and assumed.  SAT is an artefact of the  *)
(* encoding where this fails.                                              *)
(***************************************************************************)
Assignments ==
    {m \in {[e \in encoded |-> e \in s] : s \in SUBSET encoded} :
       Satisfies(m, clauses) /\ \A f \in assumed : IsTrue(m, Lit(f))}
NothingAdmitted ==
    phase = "idle" =>
      \A m \in Assignments : \E val \in Valuations :
        /\ \A e \in encoded : e[1] = "atom" => val[e] = m[e]
        /\ \A f \in added \cup assumed : val[f]
===============================================================================
