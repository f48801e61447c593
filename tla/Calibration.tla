------------------------------ MODULE Calibration ------------------------------
(***************************************************************************)
(* The calibration instruments (instruments/calibration/): the cumulative    *)
(* accounting of predictions, epistemic statuses and questions that a host   *)
(* feeds live, and the recomputation of the same counters, window by window, *)
(* from the rows that the host logged meanwhile.                           *)
(*                                                                         *)
(* Probabilities are multiples of 1/Scale and errors are kept times Scale^2; *)
(* the sums are exact, where the program's are floats.                      *)
(***************************************************************************)
EXTENDS Integers, Sequences, FiniteSets

CONSTANTS
    Targets,   \* the beliefs whose status the host classifies
    Others,    \* the rows that the host may log beside those of the statuses
    Scale,     \* predicted probabilities are 0 .. Scale
    Sizes,     \* the window sizes asked for
    MaxRows    \* bound: rows logged

ASSUME CalibrationAssumption ==
    Scale \in Nat /\ Sizes \subseteq Nat \ {0} /\ MaxRows \in Nat

VARIABLES
    status,   \* the host's: the status of each target, or None
    rows,     \* the host's: the rows logged, in the order of time
    live,     \* the live instruments before the first row and after each row
    reading,  \* a recomputation is running
    metric,   \* of which stream
    size,     \* in windows of how many observations
    until,    \* over how many rows
    pos,      \* of which so many are read
    window,   \* the accumulators of the current window
    length,   \* the observations in it
    index,    \* how many windows are reported
    reported  \* what they add up to
host == <<status, rows, live>>
replay == <<reading, metric, size, until, pos, window, length, index, reported>>
vars == <<host, replay>>

None == "None"
Statuses == {"known", "uncertain", "unknown"}
Outcomes == {"affirmed", "denied", "timed_out"}
Metrics == {"competence", "knowledge", "ask"}

Counters == {"known_ever", "known_to_nonknown", "nonknown_ever", "nonknown_to_known",
             "affirmed", "denied", "timed_out", "sum_squared_error", "count"}
Zero == [c \in Counters |-> 0]

(***************************************************************************)
(* Rows.  A row whose payload cannot be parsed or lacks the field that the   *)
(* metric needs yields no observation.                                     *)
(***************************************************************************)
Predictions == [metric : {"competence"}, usable : {TRUE}, probability : 0 .. Scale, success : BOOLEAN]
Answers == [metric : {"ask"}, usable : {TRUE}, outcome : Outcomes]
Unusable == [metric : Metrics, usable : {FALSE}]

ASSUME OthersAssumption == Others \subseteq Predictions \cup Answers \cup Unusable

(***************************************************************************)
(* The accumulators: counters, and the targets seen so far.                 *)
(***************************************************************************)
Fresh == [stats |-> Zero, known |-> {}, nonknown |-> {}]

One(condition) == IF condition THEN 1 ELSE 0
Square(n) == n * n

\* A slip: a first classification counts as a confirmation.
TransitionFromNone(row, acc) ==
    [c \in Counters |->
       CASE c = "known_ever" -> One(row.status = "known" /\ row.target \notin acc.known)
         [] c = "nonknown_ever" -> One(row.status # "known" /\ row.target \notin acc.nonknown)
         [] c = "known_to_nonknown" -> One(row.previous = "known" /\ row.status # "known")
         [] c = "nonknown_to_known" -> One(row.previous # "known" /\ row.status = "known")
         [] OTHER -> 0]

\* KnowledgeCalibrationStats.observe_transition; its caller tells the first times.
Transition(row, acc) ==
    [c \in Counters |->
       CASE c = "known_ever" -> One(row.status = "known" /\ row.target \notin acc.known)
         [] c = "nonknown_ever" -> One(row.status # "known" /\ row.target \notin acc.nonknown)
         [] c = "known_to_nonknown" -> One(row.previous = "known" /\ row.status # "known")
         [] c = "nonknown_to_known" -> One(row.previous \notin {None, "known"} /\ row.status = "known")
         [] OTHER -> 0]

\* BrierAccumulator.observe and AskOutcomeCounts.observe.
Prediction(row) ==
    [c \in Counters |->
       CASE c = "sum_squared_error" -> Square(row.probability - (IF row.success THEN Scale ELSE 0))
         [] c = "count" -> 1
         [] OTHER -> 0]
Answer(row) == [c \in Counters |-> One(c = row.outcome)]

Gain(row, acc) ==
    CASE row.metric = "knowledge" -> Transition(row, acc)
      [] row.metric = "competence" -> Prediction(row)
      [] OTHER -> Answer(row)

Add(stats, gain) == [c \in Counters |-> stats[c] + gain[c]]

Seen(row, kind) == IF row.metric = "knowledge" /\ (row.status = "known") = kind THEN {row.target} ELSE {}

Observe(acc, row) ==
    [stats |-> Add(acc.stats, Gain(row, acc)),
     known |-> acc.known \cup Seen(row, TRUE),
     nonknown |-> acc.nonknown \cup Seen(row, FALSE)]

(***************************************************************************)
(* The host logs a row and feeds its live instruments, which skip what the   *)
(* recomputation skips.                                                    *)
(***************************************************************************)
Live == live[Len(live)]
Log(row) ==
    /\ Len(rows) < MaxRows
    /\ rows' = Append(rows, row)
    /\ live' = Append(live, IF row.usable THEN Observe(Live, row) ELSE Live)
    /\ UNCHANGED replay

Classify(target, next) ==
    /\ Log([metric |-> "knowledge", usable |-> TRUE, target |-> target,
            previous |-> status[target], status |-> next])
    /\ status' = [status EXCEPT ![target] = next]

Record(row) == Log(row) /\ UNCHANGED status

(***************************************************************************)
(* observations_from_rows and the windowed functions, over the rows there    *)
(* are when it begins.                                                     *)
(***************************************************************************)
BeginReplay(m, n) ==
    /\ ~reading
    /\ reading' = TRUE /\ metric' = m /\ size' = n /\ until' = Len(rows)
    /\ pos' = 0 /\ window' = Fresh /\ length' = 0 /\ index' = 0 /\ reported' = Zero
    /\ UNCHANGED host

\* One row: an observation of the stream is folded into the current window.
ReadRow ==
    /\ reading /\ pos < until /\ length < size
    /\ pos' = pos + 1
    /\ LET row == rows[pos + 1]
       IN  IF row.usable /\ row.metric = metric
           THEN window' = Observe(window, row) /\ length' = length + 1
           ELSE UNCHANGED <<window, length>>
    /\ UNCHANGED <<host, reading, metric, size, until, index, reported>>

\* A slip: the last, partial window is not reported.
ReportFull ==
    /\ reading /\ (length = size \/ (pos = until /\ length > 0))
    /\ reported' = IF length = size THEN Add(reported, window.stats) ELSE reported
    /\ window' = Fresh /\ length' = 0 /\ index' = index + 1
    /\ UNCHANGED <<host, reading, metric, size, until, pos>>

\* A window is full, or it is the last one; the next starts afresh.
ReportWindow ==
    /\ reading /\ (length = size \/ (pos = until /\ length > 0))
    /\ reported' = Add(reported, window.stats)
    /\ window' = Fresh /\ length' = 0 /\ index' = index + 1
    /\ UNCHANGED <<host, reading, metric, size, until, pos>>

EndReplay ==
    /\ reading /\ pos = until /\ length = 0
    /\ reading' = FALSE
    /\ UNCHANGED <<host, metric, size, until, pos, window, length, index, reported>>

Init ==
    /\ status = [t \in Targets |-> None] /\ rows = <<>> /\ live = <<Fresh>>
    /\ reading = FALSE /\ metric = "ask" /\ size = 1 /\ until = 0 /\ pos = 0
    /\ window = Fresh /\ length = 0 /\ index = 0 /\ reported = Zero

Next ==
    \/ \E t \in Targets, s \in Statuses : Classify(t, s)
    \/ \E row \in Others : Record(row)
    \/ \E m \in Metrics, n \in Sizes : BeginReplay(m, n)
    \/ ReadRow \/ ReportWindow \/ EndReplay

Spec == Init /\ [][Next]_vars

(***************************************************************************)
(* What the recomputation and the live side have in common.                 *)
(***************************************************************************)
\* The counters of a metric, and those of them that do not depend on first times.
CountersOf(m) ==
    CASE m = "competence" -> {"sum_squared_error", "count"}
      [] m = "ask" -> Outcomes
      [] OTHER -> {"known_ever", "known_to_nonknown", "nonknown_ever", "nonknown_to_known"}
FirstTimes == {"known_ever", "nonknown_ever"}

Recomputed(c) == reported[c] + window.stats[c]

(***************************************************************************)
(* At every point of a recomputation, whatever the window size and whatever *)
(* rows are malformed: the windows have counted each error, outcome and      *)
(* status transition that the live instruments had counted after the same    *)
(* rows, no more and no less.  Targets are counted once in each window, so   *)
(* at least as often as live, and exactly as often in the first window.     *)
(***************************************************************************)
ReplayMatchesLive ==
    /\ \A c \in CountersOf(metric) \ FirstTimes : Recomputed(c) = live[pos + 1].stats[c]
    /\ \A c \in CountersOf(metric) \cap FirstTimes :
         /\ Recomputed(c) >= live[pos + 1].stats[c]
         /\ index = 0 => Recomputed(c) = live[pos + 1].stats[c]

(***************************************************************************)
(* Targets that leave "known" were known: every departure that the live      *)
(* instruments count is a departure of a target counted in known_ever, for   *)
(* the first time or after a confirmation.  The overconfidence rate exceeds  *)
(* 1 only by targets that came back.  And likewise for the other boundary.  *)
(***************************************************************************)
DeparturesBounded ==
    /\ Live.stats["known_to_nonknown"] <= Live.stats["known_ever"] + Live.stats["nonknown_to_known"]
    /\ Live.stats["nonknown_to_known"] <= Live.stats["nonknown_ever"] + Live.stats["known_to_nonknown"]

Signals == [metric : {"knowledge"}, usable : {TRUE}, target : Targets,
            previous : Statuses \cup {None}, status : Statuses]
Rows == Signals \cup Others
Accumulators == [stats : [Counters -> Int], known : SUBSET Targets, nonknown : SUBSET Targets]

\* Type invariant: the live side keeps pace with the log, a recomputation stays within it.
TypeOK ==
    /\ status \in [Targets -> Statuses \cup {None}]
    /\ rows \in Seq(Rows) /\ live \in Seq(Accumulators) /\ Len(live) = Len(rows) + 1
    /\ reading \in BOOLEAN /\ metric \in Metrics /\ size \in Nat \ {0}
    /\ until \in 0 .. Len(rows) /\ pos \in 0 .. until
    /\ window \in Accumulators /\ length \in 0 .. size /\ index \in Nat
    /\ reported \in [Counters -> Int]
===============================================================================
