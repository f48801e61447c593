--------------------------------- MODULE EMatch ---------------------------------
(***************************************************************************)
(* The E-matcher (solver/quantifiers/ematch.py) over the terms and classes   *)
(* of the congruence closure (theories/euf.py, whose inside is module EUF):  *)
(* the patterns of a rule, nested patterns modulo equality, repeated         *)
(* variables, patterns of several expressions, and the budget of one call.   *)
(*                                                                         *)
(* Expressions are names.  A call of match is a sequence of steps, one for   *)
(* each application that a loop considers and each binding that is handed    *)
(* on: the running calls of _match_multi_pattern and _match_arg, and their   *)
(* loops over arguments, are the frames of a stack, the innermost first.     *)
(***************************************************************************)
EXTENDS Integers, Sequences, FiniteSets, SequencesExt

CONSTANTS
    Exprs,        \* the expressions: terms, patterns, bodies of rules, and their parts
    Terms,        \* those without bound variables or connectives
    Variables,    \* the bound variables
    Decl,         \* [Exprs -> STRING]: the declaration an application applies
    ArgsOf,       \* [Exprs -> Seq(Exprs)]
    Size,         \* [Exprs -> Nat], larger than that of any argument
    Registrable,  \* the terms that may be registered, each with its depth
    Equations,    \* the sets of equalities that may be asserted, as sets of pairs
    Rules,        \* the universally quantified rules: variables, body, patterns
    Budgets,      \* the values of max_matches
    MaxDepth,     \* max_depth of the matcher
    MaxRules, MaxCalls  \* bounds: rules added, calls of match

Unlimited == -1
Connectives == {"And", "Or", "Not", "Eq", "Implies"}
Patterns == Seq(Seq(Exprs \ Variables) \ {<<>>})  \* no expression of a pattern is a bare variable

ASSUME EMatchAssumption ==
    /\ Terms \cup Variables \subseteq Exprs /\ Terms \cap Variables = {}
    /\ Decl \in [Exprs -> STRING] /\ ArgsOf \in [Exprs -> Seq(Exprs)] /\ Size \in [Exprs -> Nat]
    /\ \A e \in Exprs : \A i \in DOMAIN ArgsOf[e] :
         Size[ArgsOf[e][i]] < Size[e] /\ (e \in Terms => ArgsOf[e][i] \in Terms)
    /\ \A x \in Variables : ArgsOf[x] = <<>>
    /\ \A d, e \in Exprs \ Variables :   \* a declaration has one arity
         Decl[d] = Decl[e] => Len(ArgsOf[d]) = Len(ArgsOf[e])
    /\ Registrable \subseteq Terms \X Nat
    /\ Rules \subseteq [vars : SUBSET Variables, body : Exprs, patterns : Patterns]
    /\ \A rule \in Rules : IsFiniteSet(rule.vars)
    /\ Budgets \subseteq Nat \cup {Unlimited}
    /\ {MaxDepth, MaxRules, MaxCalls} \subseteq Nat

VARIABLES
    apps,         \* term_to_app: the applications registered, in order
    entering,     \* the terms that the running register_term has still to enter
    equations,    \* the equalities asserted
    depth,        \* term_depth
    rules,        \* the rules, with their patterns, in order
    instantiated, \* the instances already produced
    calls,        \* how many calls of match there were
    class,        \* find, in the running or last call: the class of each application
    search,       \* where that call is, its budget, and what it returns
    stack         \* the loops of that call that are not done
registry == <<apps, entering, equations, depth, rules>>
vars == <<registry, instantiated, calls, class, search, stack>>

NoSearch == [phase |-> "none"]
Idle == search.phase # "running" /\ entering = <<>>

(***************************************************************************)
(* The congruence closure, as the matcher sees it.                         *)
(***************************************************************************)
\* The engine registers a formula's terms, with the depth of the instance it comes from.
Register(t, d) ==
    /\ Idle /\ t \notin DOMAIN depth
    /\ entering' = <<t>>
    /\ depth' = [u \in DOMAIN depth \cup {t} |-> IF u = t THEN d ELSE depth[u]]
    /\ search' = NoSearch
    /\ UNCHANGED <<apps, equations, rules, instantiated, calls, class, stack>>

\* register_term enters an application before its arguments.
Enter ==
    /\ entering # <<>>
    /\ LET t == Head(entering)
       IN  IF Contains(apps, t) THEN entering' = Tail(entering) /\ UNCHANGED apps
           ELSE entering' = ArgsOf[t] \o Tail(entering) /\ apps' = Append(apps, t)
    /\ UNCHANGED <<equations, depth, rules, instantiated, calls, class, search, stack>>

\* The SAT solver asserts equalities and takes them back.
SetEquations(eqs) ==
    /\ Idle /\ eqs # equations
    /\ \A tu \in eqs : Contains(apps, tu[1]) /\ Contains(apps, tu[2])
    /\ equations' = eqs
    /\ search' = NoSearch
    /\ UNCHANGED <<apps, entering, depth, rules, instantiated, calls, class, stack>>

\* The classes of the terms ts under the equalities eqs: each term's class is a set.
Classes(ts, eqs) ==
    LET Congruent(f, t, u) == Decl[t] = Decl[u] /\ \A i \in DOMAIN ArgsOf[t] : f[ArgsOf[t][i]] = f[ArgsOf[u][i]]
        Join(f, t, u) == [x \in ts |-> IF f[x] \in {f[t], f[u]} THEN f[t] \cup f[u] ELSE f[x]]
        Apart(f) == {tu \in ts \X ts : /\ f[tu[1]] # f[tu[2]]
                                       /\ tu \in eqs \/ Congruent(f, tu[1], tu[2])}
        close[f \in [ts -> SUBSET ts]] ==
          IF Apart(f) = {} THEN f ELSE LET tu == CHOOSE tu \in Apart(f) : TRUE IN close[Join(f, tu[1], tu[2])]
    IN  close[[t \in ts |-> {t}]]

(***************************************************************************)
(* add_rule: a rule without patterns gets one for each application in its   *)
(* body that has a bound variable among its arguments, in the order of a set. *)
(***************************************************************************)
Subterms[e \in Exprs] == {e} \cup UNION {Subterms[ArgsOf[e][i]] : i \in DOMAIN ArgsOf[e]}
VariablesOf(e) == Subterms[e] \cap Variables

Candidates(rule) ==
    {e \in Subterms[rule.body] : e \notin Variables /\ Decl[e] \notin Connectives /\ VariablesOf(e) # {}}

AddRule(rule) ==
    /\ Idle /\ Len(rules) < MaxRules /\ \A r \in DOMAIN rules : rules[r].body # rule.body
    /\ \E order \in SetToSeqs(Candidates(rule)) :
         rules' = Append(rules, IF rule.patterns # <<>> THEN rule
                                ELSE [rule EXCEPT !.patterns = [i \in DOMAIN order |-> <<order[i]>>]])
    /\ search' = NoSearch
    /\ UNCHANGED <<apps, entering, equations, depth, instantiated, calls, class, stack>>

(***************************************************************************)
(* A frame is a loop over the expressions pats: the expressions of a pattern *)
(* (outer), each to be met by any application, or the arguments of a pattern, *)
(* to be met by those of an application.  It stands at the expression place; *)
(* the bindings thetas wait for it, the first with its loop over applications *)
(* at number at, and it made next of those before.  A binding is a function *)
(* from the bound variables met to terms.                                  *)
(***************************************************************************)
Frame(pats, targets, place, theta) ==
    [outer |-> targets = <<>> /\ pats # <<>>, pats |-> pats, targets |-> targets, place |-> place,
     thetas |-> <<theta>>, next |-> <<>>, at |-> 1]

Top == Head(stack)
Pattern == Top.pats[Top.place]
Theta == Head(Top.thetas)
Replace(frame) == stack' = <<frame>> \o Tail(stack)

\* A slip: the search stops without saying so.
SpendSilently(s) ==
    IF s.left = Unlimited \/ s.left = 0 THEN s ELSE [s EXCEPT !.left = @ - 1, !.used = @ + 1]

\* _spend
Spend(s) ==
    CASE s.left = Unlimited -> s
      [] s.left = 0 -> [s EXCEPT !.truncated = TRUE]
      [] OTHER -> [s EXCEPT !.left = @ - 1, !.used = @ + 1]

Bind(theta, x, t) == [y \in DOMAIN theta \cup {x} |-> IF y = x THEN t ELSE theta[y]]
Agrees(theta, x, t) == class[theta[x]] = class[t]

Waiting == stack # <<>> /\ Top.place \in DOMAIN Top.pats /\ Top.thetas # <<>> /\ (Top.outer => Top.next = <<>>)

\* _match_arg of a bound variable.
MatchVariable ==
    /\ Waiting /\ Pattern \in Variables
    /\ LET t == Top.targets[Top.place]
           made == IF Pattern \notin DOMAIN Theta THEN <<Bind(Theta, Pattern, t)>>
                   ELSE IF Agrees(Theta, Pattern, t) THEN <<Theta>> ELSE <<>>
       IN  Replace([Top EXCEPT !.thetas = Tail(@), !.next = @ \o made])
    /\ UNCHANGED <<registry, instantiated, calls, class, search>>

\* Each application considered costs a unit; one that may match has its arguments matched.
Meets(x) == Decl[x] = Decl[Pattern] /\ (Top.outer \/ class[x] = class[Top.targets[Top.place]])
Consider ==
    /\ Waiting /\ Pattern \notin Variables /\ Top.at \in DOMAIN apps /\ search.left # 0
    /\ search' = Spend(search)
    /\ LET x == apps[Top.at]
           here == <<[Top EXCEPT !.at = @ + 1]>> \o Tail(stack)
       IN  stack' = IF Meets(x) THEN <<Frame(ArgsOf[Pattern], ArgsOf[x], 1, Theta)>> \o here ELSE here
    /\ UNCHANGED <<registry, instantiated, calls, class>>

\* The loop over applications ends, or is left with the budget spent.
LeaveLoop ==
    /\ Waiting /\ Pattern \notin Variables
    /\ \/ Top.at \notin DOMAIN apps /\ UNCHANGED search
       \/ Top.at \in DOMAIN apps /\ search.left = 0 /\ search' = Spend(search)
    /\ Replace([Top EXCEPT !.thetas = Tail(@), !.at = 1])
    /\ UNCHANGED <<registry, instantiated, calls, class>>

\* The next argument, for the bindings made at this one.
NextArgument ==
    /\ stack # <<>> /\ ~Top.outer /\ Top.place \in DOMAIN Top.pats /\ Top.thetas = <<>>
    /\ Replace([Top EXCEPT !.place = @ + 1, !.thetas = Top.next, !.next = <<>>])
    /\ UNCHANGED <<registry, instantiated, calls, class, search>>

\* The arguments of an application are matched: its loop goes on with one more result.
Return ==
    /\ stack # <<>> /\ Top.place \notin DOMAIN Top.pats
    /\ stack' = <<[stack[2] EXCEPT !.next = @ \o Top.thetas]>> \o Tail(Tail(stack))
    /\ UNCHANGED <<registry, instantiated, calls, class, search>>

Largest(S) == CHOOSE x \in S \cup {0} : \A y \in S : y <= x
Depth(t) == IF t \in DOMAIN depth THEN depth[t] ELSE 0
NewDepth(theta) == Largest({Depth(theta[x]) : x \in DOMAIN theta}) + 1

\* A slip: a binding that leaves a variable open makes an instance.
YieldsOpen(rule, theta) == NewDepth(theta) <= MaxDepth

\* _instantiate: deep and uncovering bindings are skipped.
Yields(rule, theta) == NewDepth(theta) <= MaxDepth /\ DOMAIN theta = rule.vars

\* A binding of one expression of the pattern: on to the next one, or an instance, each once.
Continue ==
    /\ stack # <<>> /\ Top.outer /\ Top.next # <<>>
    /\ LET theta == Head(Top.next)
           rest == <<[Top EXCEPT !.next = Tail(@)]>> \o Tail(stack)
           instance == <<rules[search.rule], theta>>
       IN  IF Top.place < Len(Top.pats)
           THEN /\ stack' = <<Frame(Top.pats, <<>>, Top.place + 1, theta)>> \o rest
                /\ UNCHANGED <<instantiated, search>>
           ELSE /\ stack' = rest
                /\ IF Yields(rules[search.rule], theta) /\ instance \notin instantiated
                   THEN /\ instantiated' = instantiated \cup {instance}
                        /\ search' = [search EXCEPT !.new = @ \cup {instance}]
                   ELSE UNCHANGED <<instantiated, search>>
    /\ UNCHANGED <<registry, calls, class>>

\* A loop of _match_multi_pattern has ended.
EndExpression ==
    /\ stack # <<>> /\ Top.outer /\ Top.thetas = <<>> /\ Top.next = <<>>
    /\ stack' = Tail(stack)
    /\ UNCHANGED <<registry, instantiated, calls, class, search>>

\* match: rule by rule and pattern by pattern, until the search is cut.
BeginMatch(budget) ==
    /\ Idle /\ calls < MaxCalls
    /\ calls' = calls + 1
    /\ class' = Classes(Range(apps), equations)
    /\ search' = [phase |-> "running", budget |-> budget, left |-> budget, used |-> 0, truncated |-> FALSE,
                  rule |-> 1, pattern |-> 0, new |-> {}]
    /\ UNCHANGED <<registry, instantiated, stack>>

NextPattern ==
    /\ search.phase = "running" /\ stack = <<>> /\ ~search.truncated /\ search.rule \in DOMAIN rules
    /\ LET patterns == rules[search.rule].patterns
       IN  IF search.pattern < Len(patterns)
           THEN /\ search' = [search EXCEPT !.pattern = @ + 1]
                /\ stack' = <<Frame(patterns[search.pattern + 1], <<>>, 1, <<>>)>>
           ELSE search' = [search EXCEPT !.rule = @ + 1, !.pattern = 0] /\ UNCHANGED stack
    /\ UNCHANGED <<registry, instantiated, calls, class>>

EndMatch ==
    /\ search.phase = "running" /\ stack = <<>> /\ (search.truncated \/ search.rule \notin DOMAIN rules)
    /\ search' = [search EXCEPT !.phase = "done"]
    /\ UNCHANGED <<registry, instantiated, calls, class, stack>>

Init ==
    /\ apps = <<>> /\ entering = <<>> /\ equations = {} /\ depth = <<>> /\ rules = <<>>
    /\ instantiated = {} /\ calls = 0 /\ class = <<>> /\ search = NoSearch /\ stack = <<>>

Match ==
    \/ MatchVariable \/ Consider \/ LeaveLoop \/ NextArgument \/ Return \/ Continue \/ EndExpression
    \/ NextPattern \/ EndMatch

Next ==
    \/ \E td \in Registrable : Register(td[1], td[2])
    \/ Enter
    \/ \E eqs \in Equations : SetEquations(eqs)
    \/ \E rule \in Rules : AddRule(rule)
    \/ \E budget \in Budgets : BeginMatch(budget)
    \/ Match

Spec == Init /\ [][Next]_vars

(***************************************************************************)
(* What a match is: the classes that an expression denotes under a binding,  *)
(* none if no registered application is congruent to it.                   *)
(***************************************************************************)
Denoted(theta) ==
    LET den[e \in Exprs] ==
          IF e \in Variables THEN {class[theta[x]] : x \in {e} \cap DOMAIN theta}
          ELSE {class[x] : x \in {y \in Range(apps) :
                  /\ Decl[y] = Decl[e]
                  /\ \A i \in DOMAIN ArgsOf[e] : class[ArgsOf[y][i]] \in den[ArgsOf[e][i]]}}
    IN  den

Fits(pattern, theta) == \A i \in DOMAIN pattern : Denoted(theta)[pattern[i]] # {}
Covers(pattern, rule) == UNION {VariablesOf(pattern[i]) : i \in DOMAIN pattern} = rule.vars
Bindings(rule) == [rule.vars -> Range(apps)]
Alike(theta, other) == \A x \in DOMAIN theta : class[theta[x]] = class[other[x]]
Matched(rule, theta) ==
    \E other \in Bindings(rule) :
      Alike(theta, other) /\ (<<rule, other>> \in instantiated \/ NewDepth(other) > MaxDepth)

(***************************************************************************)
(* A call that was not cut has found everything: whatever fits a pattern     *)
(* that covers the rule, modulo the equalities, has an instance with equal   *)
(* terms, or one too deep.  And only a spent budget cuts a call.  This is    *)
(* what lets the engine answer SAT when match returns nothing.             *)
(***************************************************************************)
Saturated ==
    search.phase = "done" =>
      /\ search.truncated => search.used = search.budget
      /\ ~search.truncated =>
           \A r \in DOMAIN rules : \A i \in DOMAIN rules[r].patterns :
             Covers(rules[r].patterns[i], rules[r]) =>
               \A theta \in Bindings(rules[r]) :
                 Fits(rules[r].patterns[i], theta) => Matched(rules[r], theta)

(***************************************************************************)
(* A call, cut or not, produces only instances that fit one of the rule's    *)
(* patterns modulo the equalities of that moment, and that are not too deep. *)
(***************************************************************************)
OnlyMatches ==
    [][\A inst \in instantiated' \ instantiated :
         /\ inst[2] \in Bindings(inst[1])
         /\ \A x \in DOMAIN inst[2] : Depth(inst[2][x]) < MaxDepth
         /\ \E r \in DOMAIN rules : /\ rules[r] = inst[1]
                                    /\ \E i \in DOMAIN rules[r].patterns : Fits(rules[r].patterns[i], inst[2])]_vars
===============================================================================
