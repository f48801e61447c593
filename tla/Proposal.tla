------------------------------ MODULE Proposal ------------------------------
(***************************************************************************)
(* propose_revision and _search (governance/proposal.py): the bounded       *)
(* search for the unique cheapest omission that restores consistency.      *)
(*                                                                         *)
(* The proposal consumes the generator of module RevisionSearch and calls   *)
(* check_consistency on sets of records.  What a check answers is not       *)
(* known: verdict records each answer when it is given, and Plausible says  *)
(* what the answers must have in common when the solver is sound.          *)
(***************************************************************************)
EXTENDS RevisionSearch

CONSTANT CheckBudgets   \* the values of max_checks to consider

ASSUME BudgetAssumption == CheckBudgets \subseteq Nat \ {0, 1}

Statuses == {"SAT", "UNSAT", "UNKNOWN"}
None     == "none"
NoChoice == <<0>>       \* not an entry of the search

Withdraw(r) == [op |-> "withdraw", record |-> r]
Adopt(r)    == [op |-> "adopt", record |-> r]

VARIABLES
    maxChecks,  \* max_checks
    pc,         \* what the code does next
    verdict,    \* the answers so far: set of records checked -> status
    used,       \* _Checks.used
    chosen,     \* the omission of the first satisfiable trial
    result      \* the RevisionResult once pc = "done"

proposalVars == <<maxChecks, pc, verdict, used, chosen, result>>
vars == <<searchVars, proposalVars>>

NoResult == [decision |-> None, reason |-> None, changes |-> {}, final |-> None]
Deferred(why) == [decision |-> "deferred", reason |-> why, changes |-> {}, final |-> None]

\* The sets checked: the candidate-inclusive state, and it without an omission.
Attempted  == Present
Without(E) == Attempted \ Omitted(E)
Fixed      == {}

(***************************************************************************)
(* check_consistency is a function of the records it is given, and a sound *)
(* SAT or UNSAT bounds the answers on smaller and on larger sets: every    *)
(* check of one proposal has the same axioms and functional scope.         *)
(***************************************************************************)
Plausible(S, v) ==
    /\ S \in DOMAIN verdict => v = verdict[S]
    /\ v = "SAT"   => ~ \E T \in DOMAIN verdict : T \subseteq S /\ verdict[T] = "UNSAT"
    /\ v = "UNSAT" => ~ \E T \in DOMAIN verdict : S \subseteq T /\ verdict[T] = "SAT"

Record(S, v) == verdict' = [T \in DOMAIN verdict \cup {S} |-> IF T = S THEN v ELSE verdict[T]]

Answer(S, v) == v \in Statuses /\ Plausible(S, v) /\ Record(S, v)

Finish(r) == pc' = "done" /\ result' = r

(***************************************************************************)
(* propose_revision up to the search.                                      *)
(***************************************************************************)
ProposalInit ==
    /\ Init
    /\ maxChecks \in CheckBudgets
    /\ pc = "original" /\ used = 0
    /\ verdict = <<>> /\ chosen = NoChoice /\ result = NoResult

\* The two diagnostics run before the budget exists, which starts at 1 or 2.
CheckOriginal(v) ==
    /\ pc = "original"
    /\ Answer(Records, v)
    /\ used' = 1
    /\ pc' = "initial"
    /\ UNCHANGED <<searchVars, maxChecks, chosen, result>>

AfterInitial(v) ==
    \/ /\ v = "SAT"
       /\ Finish(IF hasCandidate
                 THEN [decision |-> "proposed", reason |-> "candidate_consistent",
                       changes |-> {Adopt(Candidate)}, final |-> v]
                 ELSE [decision |-> "unchanged", reason |-> "already_consistent",
                       changes |-> {}, final |-> v])
    \/ v = "UNKNOWN" /\ Finish(Deferred("initial_unknown"))
    \/ v = "UNSAT"   /\ pc' = "fixed" /\ UNCHANGED result

CheckInitial(v) ==
    /\ pc = "initial"
    /\ IF hasCandidate
       THEN Answer(Attempted, v) /\ used' = 2
       ELSE v = verdict[Records] /\ UNCHANGED <<verdict, used>>
    /\ AfterInitial(v)
    /\ UNCHANGED <<searchVars, maxChecks, chosen>>

CanCheck == used < maxChecks

CheckFixed(v) ==
    /\ pc = "fixed" /\ CanCheck
    /\ Answer(Fixed, v)
    /\ used' = used + 1
    /\ \/ v = "UNSAT"   /\ Finish(Deferred("fixed_base_unsat"))
       \/ v = "UNKNOWN" /\ Finish(Deferred("fixed_base_unknown"))
       \/ /\ v = "SAT"
          /\ IF Attempted \subseteq protected
             THEN Finish(Deferred("no_eligible_target"))
             ELSE pc' = "search" /\ UNCHANGED result
    /\ UNCHANGED <<searchVars, maxChecks, chosen>>

NoBudgetForFixed ==
    /\ pc = "fixed" /\ ~CanCheck
    /\ Finish(Deferred("check_budget_exhausted"))
    /\ UNCHANGED <<searchVars, maxChecks, verdict, used, chosen>>

(***************************************************************************)
(* The loop of _search: one iteration is one omission of the generator.     *)
(***************************************************************************)
\* A slip: the candidate is not adopted along with the withdrawals.
SelectedWithoutAdopt ==
    IF chosen = Rejection
    THEN [decision |-> "unchanged", reason |-> "candidate_rejected",
          changes |-> {}, final |-> "SAT"]
    ELSE [decision |-> "proposed", reason |-> "unique_verified_revision",
          changes |-> {Withdraw(r) : r \in Omitted(chosen)}, final |-> "SAT"]

Selected ==
    IF chosen = Rejection
    THEN [decision |-> "unchanged", reason |-> "candidate_rejected",
          changes |-> {}, final |-> "SAT"]
    ELSE [decision |-> "proposed", reason |-> "unique_verified_revision",
          changes |-> {Withdraw(r) : r \in Omitted(chosen)}
                        \cup (IF hasCandidate THEN {Adopt(Candidate)} ELSE {}),
          final |-> "SAT"]

\* Slips: the first repair ends the search; any two repairs tie.
RelevantUntilChosen(E) == chosen = NoChoice
RelevantAlways(E)      == TRUE

\* The omission E is relevant: nothing is chosen yet, or E has the same rank.
Relevant(E) == IF chosen = NoChoice THEN TRUE ELSE SameCost(E, chosen)

\* A slip: an UNKNOWN trial is passed over like an UNSAT one.
AfterTrialUnknownPassed(E, v) ==
    IF v # "SAT" THEN UNCHANGED <<pc, result, chosen>>
    ELSE IF chosen # NoChoice
         THEN Finish(Deferred("same_rank_tie")) /\ UNCHANGED chosen
         ELSE chosen' = E /\ UNCHANGED <<pc, result>>

AfterTrial(E, v) ==
    \/ v = "UNKNOWN" /\ Finish(Deferred("trial_unknown")) /\ UNCHANGED chosen
    \/ v = "UNSAT"   /\ UNCHANGED <<pc, result, chosen>>
    \/ /\ v = "SAT"
       /\ IF chosen # NoChoice
          THEN Finish(Deferred("same_rank_tie")) /\ UNCHANGED chosen
          ELSE chosen' = E /\ UNCHANGED <<pc, result>>

\* Omitting the candidate reuses the verdict on the original state.
TrialRejection(v) ==
    /\ pc = "search" /\ Rejection \in frontier /\ Relevant(Rejection)
    /\ Yield(Rejection)
    /\ v = verdict[Records]
    /\ AfterTrial(Rejection, v)
    /\ UNCHANGED <<maxChecks, verdict, used>>

TrialWithdrawal(E, v) ==
    /\ pc = "search" /\ Relevant(E) /\ E # Rejection /\ CanCheck
    /\ Yield(E)
    /\ Answer(Without(E), v)
    /\ used' = used + 1
    /\ AfterTrial(E, v)
    /\ UNCHANGED maxChecks

NoBudgetForTrial(E) ==
    /\ pc = "search" /\ Relevant(E) /\ E # Rejection /\ ~CanCheck
    /\ Yield(E)
    /\ Finish(Deferred("check_budget_exhausted"))
    /\ UNCHANGED <<maxChecks, verdict, used, chosen>>

\* The first omission of another rank ends the loop.
StopAtNextRank(E) ==
    /\ pc = "search" /\ ~Relevant(E)
    /\ Yield(E)
    /\ Finish(Selected)
    /\ UNCHANGED <<maxChecks, verdict, used, chosen>>

\* A slip: the last omission is chosen and the loop has no exit for it.
StopExhaustedUnchosen ==
    /\ pc = "search" /\ frontier = {} /\ chosen = NoChoice
    /\ Finish(Deferred("no_verified_revision"))
    /\ UNCHANGED <<searchVars, maxChecks, verdict, used, chosen>>

StopExhausted ==
    /\ pc = "search" /\ frontier = {}
    /\ Finish(IF chosen # NoChoice THEN Selected
              ELSE Deferred(IF limit = 1 THEN "no_verified_single_revision"
                                         ELSE "no_verified_revision"))
    /\ UNCHANGED <<searchVars, maxChecks, verdict, used, chosen>>

ProposalNext ==
    \/ \E v \in Statuses : \/ CheckOriginal(v)
                           \/ CheckInitial(v)
                           \/ CheckFixed(v)
                           \/ TrialRejection(v)
                           \/ \E E \in frontier : TrialWithdrawal(E, v)
    \/ NoBudgetForFixed
    \/ \E E \in frontier : NoBudgetForTrial(E) \/ StopAtNextRank(E)
    \/ StopExhausted

\* One caller runs the proposal to its end.
ProposalSpec == ProposalInit /\ [][ProposalNext]_vars /\ WF_vars(ProposalNext)

(***************************************************************************)
(* Properties.                                                             *)
(***************************************************************************)
\* Type invariant.
ProposalTypeOK ==
    /\ TypeOK
    /\ maxChecks \in CheckBudgets /\ used \in 0 .. maxChecks
    /\ pc \in {"original", "initial", "fixed", "search", "done"}
    /\ \A S \in DOMAIN verdict : S \subseteq Present /\ verdict[S] \in Statuses
    /\ chosen \in Scope \cup {NoChoice}
    /\ result.decision \in {None, "unchanged", "proposed", "deferred"}

Checked(S, v) == S \in DOMAIN verdict /\ verdict[S] = v
Decided == pc = "done" /\ result.decision # "deferred"

\* The records adopted after the consumer applies the changes.
AfterApplying ==
    (Records \ {r \in Records : Withdraw(r) \in result.changes})
        \cup {r \in Present : Adopt(r) \in result.changes}

(* What the consumer is told to apply was itself checked, as a whole, and   *)
(* found satisfiable; a deferral changes nothing.                          *)
AppliedStateVerified ==
    pc = "done" =>
        IF Decided THEN Checked(AfterApplying, "SAT") /\ result.final = "SAT"
                   ELSE result.changes = {} /\ result.final = None

(* The chosen omission is the unique cheapest repair: all the others in the *)
(* scope that cost no more were checked and found unsatisfiable.           *)
UniqueCheapest ==
    Decided /\ chosen # NoChoice =>
        /\ Checked(Without(chosen), "SAT")
        /\ \A E \in Scope \ {chosen} :
              CostsNoMore(E, chosen) => Checked(Without(E), "UNSAT")

(* Giving up means that every omission in the scope was tried and refuted. *)
NoRepairMissed ==
    result.reason \in {"no_eligible_target", "no_verified_single_revision",
                       "no_verified_revision"} =>
        \A E \in Scope : Checked(Without(E), "UNSAT")

(* A deferral is never idle: a tie is between two repairs of one rank and   *)
(* nothing cheaper repairs; an exhausted budget leaves unchecked a set that *)
(* could still change the outcome; an UNKNOWN is the answer on such a set. *)
(* The books the deferral rests on are in order, and no set was asked       *)
(* about without being counted.                                            *)
DeferralJustified ==
    /\ ProposalTypeOK
    /\ Cardinality(DOMAIN verdict) <= used
    /\ result.reason = "same_rank_tie" =>
          \E E \in Scope \ {chosen} :
             /\ SameCost(E, chosen)
             /\ Checked(Without(E), "SAT") /\ Checked(Without(chosen), "SAT")
             /\ \A F \in Scope :
                   RankLess(key, Omitted(F), Omitted(E)) => Checked(Without(F), "UNSAT")
    /\ result.reason = "check_budget_exhausted" =>
          /\ used = maxChecks
          /\ \/ Fixed \notin DOMAIN verdict
             \/ \E E \in Scope : Relevant(E) /\ ~Checked(Without(E), "UNSAT")
                                             /\ E # chosen
    /\ result.reason = "trial_unknown" =>
          \E E \in Scope \ {chosen} : Relevant(E) /\ Checked(Without(E), "UNKNOWN")

(* Every proposal comes to a decision.                                     *)
Decides == <>(pc = "done")
=============================================================================
