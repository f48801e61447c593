--------------------------- MODULE CalibrationProofs ---------------------------
(* The windows of a recomputation count what the live instruments counted.   *)
EXTENDS Calibration, FiniteSetTheorems, TLAPS

(***************************************************************************)
(* Accumulators.                                                           *)
(***************************************************************************)
KnowledgeCounters == {"known_ever", "known_to_nonknown", "nonknown_ever", "nonknown_to_known"}

\* A row that yields an observation is of one of the three kinds.
LEMMA RowKinds ==
    \A row \in Rows : row.usable =>
      \/ row \in Signals /\ row.metric = "knowledge"
      \/ row \in Predictions /\ row.metric = "competence"
      \/ row \in Answers /\ row.metric = "ask"
<1> SUFFICES ASSUME NEW row \in Rows, row.usable
             PROVE  \/ row \in Signals /\ row.metric = "knowledge"
                    \/ row \in Predictions /\ row.metric = "competence"
                    \/ row \in Answers /\ row.metric = "ask"
  OBVIOUS
<1>1. row \in Signals \/ row \in Predictions \/ row \in Answers \/ row \in Unusable
  BY OthersAssumption DEF Rows
<1>2. row \notin Unusable
  BY DEF Unusable
<1> QED
  BY <1>1, <1>2 DEF Signals, Predictions, Answers

\* What an observation adds is a number, for each counter.
LEMMA GainTyped ==
    ASSUME NEW row \in Rows, row.usable, NEW acc \in Accumulators
    PROVE  Gain(row, acc) \in [Counters -> Int]
<1>1. CASE row \in Signals /\ row.metric = "knowledge"
  <2>1. Gain(row, acc) = Transition(row, acc)
    BY <1>1 DEF Gain
  <2>2. \A condition : One(condition) \in Int
    BY DEF One
  <2>3. Transition(row, acc) \in [Counters -> Int]
    BY <2>2 DEF Transition
  <2> QED
    BY <2>1, <2>3
<1>2. CASE row \in Predictions /\ row.metric = "competence"
  <2>1. Gain(row, acc) = Prediction(row)
    BY <1>2 DEF Gain
  <2>2. Square(row.probability - (IF row.success THEN Scale ELSE 0)) \in Int
    <3>1. row.probability - (IF row.success THEN Scale ELSE 0) \in Int
      BY <1>2, CalibrationAssumption DEF Predictions
    <3>2. \A n \in Int : Square(n) \in Int
      BY DEF Square
    <3> QED
      BY <3>1, <3>2
  <2> QED
    BY <2>1, <2>2 DEF Prediction
<1>3. CASE row \in Answers /\ row.metric = "ask"
  <2>1. Gain(row, acc) = Answer(row)
    BY <1>3 DEF Gain
  <2>2. \A condition : One(condition) \in Int
    BY DEF One
  <2> QED
    BY <2>1, <2>2 DEF Answer
<1> QED
  BY <1>1, <1>2, <1>3, RowKinds

LEMMA ObserveTyped ==
    ASSUME NEW row \in Rows, row.usable, NEW acc \in Accumulators
    PROVE  /\ Observe(acc, row) \in Accumulators
           /\ Observe(acc, row).known = acc.known \cup Seen(row, TRUE)
           /\ Observe(acc, row).nonknown = acc.nonknown \cup Seen(row, FALSE)
           /\ \A c \in Counters : Observe(acc, row).stats[c] = acc.stats[c] + Gain(row, acc)[c]
<1>1. Gain(row, acc) \in [Counters -> Int]
  BY GainTyped
<1>2. Add(acc.stats, Gain(row, acc)) \in [Counters -> Int]
  BY <1>1 DEF Add, Accumulators
<1>3. Seen(row, TRUE) \subseteq Targets /\ Seen(row, FALSE) \subseteq Targets
  BY RowKinds DEF Seen, Signals
<1>4. acc.known \subseteq Targets /\ acc.nonknown \subseteq Targets
  BY DEF Accumulators
<1> QED
  BY <1>2, <1>3, <1>4 DEF Observe, Accumulators, Add

\* An observation adds nothing to the counters of another metric.
LEMMA GainElsewhere ==
    ASSUME NEW row \in Rows, row.usable, NEW acc \in Accumulators,
           NEW m \in Metrics, row.metric # m, NEW c \in CountersOf(m)
    PROVE  Gain(row, acc)[c] = 0
<1>0. c \in Counters
  BY DEF CountersOf, Counters, Metrics, Outcomes
<1>1. CASE row \in Signals /\ row.metric = "knowledge"
  <2>1. Gain(row, acc) = Transition(row, acc)
    BY <1>1 DEF Gain
  <2>2. c \in {"sum_squared_error", "count", "affirmed", "denied", "timed_out"}
    BY <1>1 DEF CountersOf, Metrics, Outcomes
  <2> QED
    BY <1>0, <2>1, <2>2 DEF Transition
<1>2. CASE row \in Predictions /\ row.metric = "competence"
  <2>1. Gain(row, acc) = Prediction(row)
    BY <1>2 DEF Gain
  <2>2. c # "sum_squared_error" /\ c # "count"
    BY <1>2 DEF CountersOf, Metrics, Outcomes
  <2> QED
    BY <1>0, <2>1, <2>2 DEF Prediction
<1>3. CASE row \in Answers /\ row.metric = "ask"
  <2>1. Gain(row, acc) = Answer(row)
    BY <1>3 DEF Gain
  <2>2. c \notin Outcomes
    BY <1>3 DEF CountersOf, Metrics, Outcomes
  <2>3. row.outcome \in Outcomes
    BY <1>3 DEF Answers
  <2> QED
    BY <1>0, <2>1, <2>2, <2>3 DEF Answer, One
<1> QED
  BY <1>1, <1>2, <1>3, RowKinds

\* To counters other than those of first times it adds the same whatever was seen before.
LEMMA GainShared ==
    ASSUME NEW row \in Rows, row.usable, NEW a \in Accumulators, NEW b \in Accumulators,
           NEW c \in Counters \ FirstTimes
    PROVE  Gain(row, a)[c] = Gain(row, b)[c]
<1>1. CASE row.metric = "knowledge"
  BY <1>1 DEF Gain, Transition, FirstTimes
<1>2. CASE row.metric = "competence"
  BY <1>2 DEF Gain
<1>3. CASE row.metric # "knowledge" /\ row.metric # "competence"
  BY <1>3 DEF Gain
<1> QED
  BY <1>1, <1>2, <1>3

\* To those of first times it adds no less if less was seen before.
LEMMA GainFirst ==
    ASSUME NEW row \in Rows, row.usable, row.metric = "knowledge",
           NEW a \in Accumulators, NEW b \in Accumulators,
           a.known \subseteq b.known, a.nonknown \subseteq b.nonknown,
           NEW c \in FirstTimes
    PROVE  /\ Gain(row, a)[c] >= Gain(row, b)[c]
           /\ a.known = b.known /\ a.nonknown = b.nonknown => Gain(row, a)[c] = Gain(row, b)[c]
<1>1. Gain(row, a) = Transition(row, a) /\ Gain(row, b) = Transition(row, b)
  BY DEF Gain
<1>2. CASE c = "known_ever"
  <2>1. /\ Transition(row, a)[c] = One(row.status = "known" /\ row.target \notin a.known)
        /\ Transition(row, b)[c] = One(row.status = "known" /\ row.target \notin b.known)
    BY <1>2 DEF Transition, Counters
  <2> QED
    BY <1>1, <2>1 DEF One
<1>3. CASE c = "nonknown_ever"
  <2>1. /\ Transition(row, a)[c] = One(row.status # "known" /\ row.target \notin a.nonknown)
        /\ Transition(row, b)[c] = One(row.status # "known" /\ row.target \notin b.nonknown)
    BY <1>3 DEF Transition, Counters
  <2> QED
    BY <1>1, <2>1 DEF One
<1> QED
  BY <1>2, <1>3 DEF FirstTimes

(***************************************************************************)
(* The inductive invariant: the live side is the fold of the log, and a      *)
(* window has seen no target that the live side had not seen after the same  *)
(* rows, and the same targets as long as it is the first.                    *)
(***************************************************************************)
History ==
    /\ live[1] = Fresh
    /\ \A i \in 1 .. Len(rows) :
         live[i + 1] = IF rows[i].usable THEN Observe(live[i], rows[i]) ELSE live[i]

SeenInWindow ==
    metric = "knowledge" =>
      /\ window.known \subseteq live[pos + 1].known
      /\ window.nonknown \subseteq live[pos + 1].nonknown
      /\ index = 0 => window.known = live[pos + 1].known /\ window.nonknown = live[pos + 1].nonknown

Inv == TypeOK /\ History /\ SeenInWindow /\ ReplayMatchesLive

LEMMA FreshTyped == Fresh \in Accumulators
BY DEF Fresh, Zero, Accumulators

LEMMA CountersOfTyped == \A m \in Metrics : CountersOf(m) \subseteq Counters
BY DEF CountersOf, Counters, Outcomes

\* The rows and the accumulators that the log holds, by place.
LEMMA LogTyped ==
    ASSUME TypeOK
    PROVE  /\ \A i \in 1 .. Len(rows) : rows[i] \in Rows
           /\ \A i \in 1 .. Len(rows) + 1 : live[i] \in Accumulators
           /\ Len(rows) \in Nat /\ pos \in Nat /\ until \in Nat /\ pos <= until /\ until <= Len(rows)
           /\ Live \in Accumulators
BY DEF TypeOK, Live

\* What the host does leaves the past as it was.
LEMMA LogSteps ==
    ASSUME TypeOK, History, NEW row \in Rows, Log(row)
    PROVE  /\ rows' \in Seq(Rows) /\ live' \in Seq(Accumulators)
           /\ Len(rows') = Len(rows) + 1 /\ Len(live') = Len(rows') + 1
           /\ \A i \in 1 .. Len(rows) : rows'[i] = rows[i]
           /\ \A i \in 1 .. Len(rows) + 1 : live'[i] = live[i]
           /\ History'
<1> DEFINE entry == IF row.usable THEN Observe(Live, row) ELSE Live
<1>1. entry \in Accumulators
  BY LogTyped, ObserveTyped
<1>2. rows' = Append(rows, row) /\ live' = Append(live, entry)
  BY DEF Log
<1>3. rows \in Seq(Rows) /\ live \in Seq(Accumulators) /\ Len(live) = Len(rows) + 1
  BY DEF TypeOK
<1>4. Live = live[Len(rows) + 1]
  BY <1>3 DEF Live
<1> HIDE DEF entry
<1>5. /\ rows' \in Seq(Rows) /\ live' \in Seq(Accumulators)
      /\ Len(rows') = Len(rows) + 1 /\ Len(live') = Len(rows') + 1
      /\ \A i \in 1 .. Len(rows) : rows'[i] = rows[i]
      /\ \A i \in 1 .. Len(rows) + 1 : live'[i] = live[i]
      /\ rows'[Len(rows) + 1] = row /\ live'[Len(rows) + 2] = entry
  BY <1>1, <1>2, <1>3
<1>6. Len(rows) \in Nat
  BY <1>3
<1>7. live'[1] = Fresh
  BY <1>5, <1>6 DEF History
<1>8. ASSUME NEW i \in 1 .. Len(rows')
      PROVE  live'[i + 1] = IF rows'[i].usable THEN Observe(live'[i], rows'[i]) ELSE live'[i]
  <2>1. CASE i \in 1 .. Len(rows)
    <3>1. live'[i + 1] = live[i + 1] /\ live'[i] = live[i] /\ rows'[i] = rows[i]
      BY <1>5, <1>6, <2>1
    <3> QED
      BY <2>1, <3>1 DEF History
  <2>2. CASE i = Len(rows) + 1
    <3>1. live'[i + 1] = entry /\ live'[i] = Live /\ rows'[i] = row
      BY <1>4, <1>5, <1>6, <2>2
    <3> QED
      BY <3>1 DEF entry
  <2> QED
    BY <1>5, <1>6, <2>1, <2>2
<1> QED
  BY <1>5, <1>7, <1>8 DEF History

LEMMA LogInv ==
    ASSUME Inv, NEW row \in Rows, Log(row), status' \in [Targets -> Statuses \cup {None}]
    PROVE  Inv'
<1> USE DEF Inv
<1>1. /\ rows' \in Seq(Rows) /\ live' \in Seq(Accumulators)
      /\ Len(rows') = Len(rows) + 1 /\ Len(live') = Len(rows') + 1
      /\ \A i \in 1 .. Len(rows) + 1 : live'[i] = live[i]
      /\ History'
  BY LogSteps
<1>2. UNCHANGED replay
  BY DEF Log
<1>3. TypeOK'
  BY <1>1, <1>2, LogTyped DEF TypeOK, replay
<1>4. live'[pos' + 1] = live[pos + 1]
  BY <1>1, <1>2, LogTyped DEF replay
<1>5. SeenInWindow'
  BY <1>2, <1>4 DEF SeenInWindow, replay
<1>6. ReplayMatchesLive'
  BY <1>2, <1>4 DEF ReplayMatchesLive, Recomputed, replay
<1> QED
  BY <1>1, <1>3, <1>5, <1>6

LEMMA BeginInv ==
    ASSUME Inv, NEW m \in Metrics, NEW n \in Sizes, BeginReplay(m, n)
    PROVE  Inv'
<1> USE DEF Inv
<1>1. TypeOK'
  BY FreshTyped, CalibrationAssumption, LogTyped DEF BeginReplay, host, TypeOK, Zero
<1>2. History'
  BY DEF BeginReplay, host, History
<1>3. live'[pos' + 1] = Fresh /\ window' = Fresh /\ reported' = Zero /\ metric' \in Metrics
  BY DEF BeginReplay, host, History
<1>4. SeenInWindow'
  BY <1>3 DEF SeenInWindow
<1>5. ASSUME NEW c \in Counters
      PROVE  reported'[c] + window'.stats[c] = 0 /\ live'[pos' + 1].stats[c] = 0
  BY <1>3 DEF Fresh, Zero
<1>6. ReplayMatchesLive'
  BY <1>3, <1>5, CountersOfTyped DEF ReplayMatchesLive, Recomputed
<1> QED
  BY <1>1, <1>2, <1>4, <1>6

LEMMA ReportInv ==
    ASSUME Inv, ReportWindow
    PROVE  Inv'
<1> USE DEF Inv
<1>1. reported' \in [Counters -> Int] /\ \A c \in Counters : reported'[c] = reported[c] + window.stats[c]
  BY DEF ReportWindow, Add, TypeOK, Accumulators
<1>2. TypeOK'
  BY <1>1, FreshTyped DEF ReportWindow, host, TypeOK
<1>3. History'
  BY DEF ReportWindow, host, History
<1>4. index' # 0 /\ live'[pos' + 1] = live[pos + 1] /\ metric' = metric /\ window' = Fresh
  BY DEF ReportWindow, host, TypeOK
<1>5. SeenInWindow'
  BY <1>4 DEF SeenInWindow, Fresh
<1>6. ASSUME NEW c \in Counters
      PROVE  Recomputed(c)' = Recomputed(c)
  <2>1. window'.stats[c] = 0
    BY <1>4 DEF Fresh, Zero
  <2>2. reported[c] \in Int /\ window.stats[c] \in Int
    BY DEF TypeOK, Accumulators
  <2> QED
    BY <1>1, <2>1, <2>2 DEF Recomputed
<1>7. CountersOf(metric) \subseteq Counters
  BY CountersOfTyped DEF TypeOK
<1>8. ReplayMatchesLive'
  BY <1>4, <1>6, <1>7 DEF ReplayMatchesLive
<1> QED
  BY <1>2, <1>3, <1>5, <1>8

\* Reading a row takes the window as far as that row took the live instruments.
LEMMA ReadInv ==
    ASSUME Inv, ReadRow
    PROVE  Inv'
<1> USE DEF Inv
<1> DEFINE row == rows[pos + 1]
           before == live[pos + 1]
           after == live[pos + 2]
<1>1. /\ row \in Rows /\ before \in Accumulators /\ after \in Accumulators
      /\ pos' = pos + 1 /\ pos + 1 \in 1 .. Len(rows) /\ pos + 1 \in 0 .. until
      /\ UNCHANGED <<status, rows, live, reading, metric, size, until, index, reported>>
  BY LogTyped DEF ReadRow, host
<1>2. after = IF row.usable THEN Observe(before, row) ELSE before
  BY <1>1, LogTyped DEF History
<1>3. live'[pos' + 1] = after
  BY <1>1, LogTyped
<1>4. History'
  BY <1>1 DEF History
<1>5. window \in Accumulators /\ metric \in Metrics /\ reported \in [Counters -> Int]
  BY DEF TypeOK
<1>6. CountersOf(metric) \subseteq Counters
  BY <1>5, CountersOfTyped
<1>7. \A c \in Counters : reported[c] \in Int /\ window.stats[c] \in Int /\ before.stats[c] \in Int
  BY <1>1, <1>5 DEF Accumulators
<1>8. CASE row.usable /\ row.metric = metric
  <2>1. window' = Observe(window, row) /\ length' = length + 1 /\ length + 1 \in 0 .. size
    BY <1>8 DEF ReadRow, TypeOK
  <2> HIDE DEF row, before, after
  <2>2. /\ window' \in Accumulators /\ after = Observe(before, row)
        /\ window'.known = window.known \cup Seen(row, TRUE)
        /\ window'.nonknown = window.nonknown \cup Seen(row, FALSE)
        /\ after.known = before.known \cup Seen(row, TRUE)
        /\ after.nonknown = before.nonknown \cup Seen(row, FALSE)
        /\ \A c \in Counters : /\ window'.stats[c] = window.stats[c] + Gain(row, window)[c]
                               /\ after.stats[c] = before.stats[c] + Gain(row, before)[c]
    BY <1>1, <1>2, <1>5, <1>8, <2>1, ObserveTyped
  <2>3. TypeOK'
    BY <1>1, <2>1, <2>2 DEF TypeOK
  <2>4. SeenInWindow'
    BY <1>1, <1>3, <2>2 DEF SeenInWindow, before
  <2>5. \A c \in Counters : Gain(row, window)[c] \in Int /\ Gain(row, before)[c] \in Int
    BY <1>1, <1>5, <1>8, GainTyped
  <2>6. \A c \in Counters : Recomputed(c) \in Int /\ Recomputed(c)' = Recomputed(c) + Gain(row, window)[c]
    BY <1>1, <1>7, <2>2, <2>5 DEF Recomputed
  <2>7. ASSUME NEW c \in CountersOf(metric) \ FirstTimes
        PROVE  Recomputed(c)' = after.stats[c]
    <3>1. Gain(row, window)[c] = Gain(row, before)[c]
      BY <1>1, <1>5, <1>6, <1>8, GainShared
    <3>2. Recomputed(c) = before.stats[c]
      BY DEF ReplayMatchesLive, before
    <3> QED
      BY <1>6, <2>2, <2>6, <3>1, <3>2
  <2>8. ASSUME NEW c \in CountersOf(metric) \cap FirstTimes
        PROVE  /\ Recomputed(c)' >= after.stats[c]
               /\ index = 0 => Recomputed(c)' = after.stats[c]
    <3>1. metric = "knowledge"
      BY <1>5 DEF CountersOf, FirstTimes, Metrics, Outcomes
    <3>2. /\ Gain(row, window)[c] >= Gain(row, before)[c]
          /\ index = 0 => Gain(row, window)[c] = Gain(row, before)[c]
      BY <1>1, <1>5, <1>8, <3>1, GainFirst DEF SeenInWindow, before
    <3>3. /\ Recomputed(c) >= before.stats[c]
          /\ index = 0 => Recomputed(c) = before.stats[c]
      BY DEF ReplayMatchesLive, before
    <3> QED
      BY <1>6, <1>7, <2>2, <2>5, <2>6, <3>2, <3>3
  <2>9. ReplayMatchesLive'
    BY <1>1, <1>3, <2>7, <2>8 DEF ReplayMatchesLive
  <2> QED
    BY <1>4, <2>3, <2>4, <2>9
<1>9. CASE ~(row.usable /\ row.metric = metric)
  <2>1. UNCHANGED <<window, length>>
    BY <1>9 DEF ReadRow
  <2> HIDE DEF row, before, after
  <2>2. \A c \in CountersOf(metric) : after.stats[c] = before.stats[c]
    <3>1. CASE row.usable
      <4> SUFFICES ASSUME NEW c \in CountersOf(metric)
                   PROVE  after.stats[c] = before.stats[c]
        OBVIOUS
      <4>1. Gain(row, before)[c] = 0
        BY <1>1, <1>5, <1>9, <3>1, GainElsewhere
      <4>2. c \in Counters
        BY <1>6
      <4>3. after.stats[c] = before.stats[c] + Gain(row, before)[c]
        BY <1>1, <1>2, <3>1, <4>2, ObserveTyped
      <4>4. before.stats[c] \in Int
        BY <1>7, <4>2
      <4> QED
        BY <4>1, <4>3, <4>4
    <3> QED
      BY <1>2, <3>1
  <2>3. metric = "knowledge" => after.known = before.known /\ after.nonknown = before.nonknown
    BY <1>1, <1>2, <1>9, ObserveTyped DEF Seen
  <2>4. TypeOK'
    BY <1>1, <2>1 DEF TypeOK
  <2>5. SeenInWindow'
    BY <1>1, <1>3, <2>1, <2>3 DEF SeenInWindow, before
  <2>6. ReplayMatchesLive'
    BY <1>1, <1>3, <2>1, <2>2 DEF ReplayMatchesLive, Recomputed, before
  <2> QED
    BY <1>4, <2>4, <2>5, <2>6
<1> QED
  BY <1>8, <1>9

LEMMA InvInit == Init => Inv
<1> SUFFICES ASSUME Init PROVE Inv
  OBVIOUS
<1>1. TypeOK
  <2>1. rows \in Seq(Rows) /\ live \in Seq(Accumulators) /\ Len(live) = 1 /\ Len(rows) = 0
    BY FreshTyped DEF Init
  <2>2. window \in Accumulators /\ reported \in [Counters -> Int] /\ metric \in Metrics
    BY FreshTyped DEF Init, Zero, Metrics
  <2>3. status \in [Targets -> Statuses \cup {None}]
    BY DEF Init
  <2>4. size \in Nat \ {0} /\ index \in Nat /\ length \in 0 .. size
    BY DEF Init
  <2>6. reading \in BOOLEAN
    BY Zenon DEF Init
  <2>5. until \in 0 .. Len(rows) /\ pos \in 0 .. until
    BY <2>1 DEF Init
  <2> QED
    BY <2>1, <2>2, <2>3, <2>4, <2>5, <2>6 DEF TypeOK
<1>2. History /\ SeenInWindow
  BY DEF Init, History, SeenInWindow
<1>3. ReplayMatchesLive
  BY CountersOfTyped DEF Init, Metrics, ReplayMatchesLive, Recomputed, Fresh, Zero
<1> QED
  BY <1>1, <1>2, <1>3 DEF Inv

LEMMA InvNext == Inv /\ [Next]_vars => Inv'
<1> SUFFICES ASSUME Inv, [Next]_vars PROVE Inv'
  OBVIOUS
<1>1. ASSUME NEW t \in Targets, NEW s \in Statuses, Classify(t, s) PROVE Inv'
  <2> DEFINE row == [metric |-> "knowledge", usable |-> TRUE, target |-> t,
                     previous |-> status[t], status |-> s]
  <2>1. row \in Rows
    BY DEF Inv, TypeOK, Rows, Signals
  <2>2. Log(row) /\ status' \in [Targets -> Statuses \cup {None}]
    BY <1>1 DEF Classify, Inv, TypeOK
  <2> QED
    BY <2>1, <2>2, LogInv
<1>2. ASSUME NEW row \in Others, Record(row) PROVE Inv'
  BY <1>2, LogInv DEF Record, Rows, Inv, TypeOK
<1>3. ASSUME NEW m \in Metrics, NEW n \in Sizes, BeginReplay(m, n) PROVE Inv'
  BY <1>3, BeginInv
<1>4. CASE EndReplay
  BY <1>4 DEF EndReplay, host, Inv, TypeOK, History, SeenInWindow, ReplayMatchesLive, Recomputed
<1>5. CASE UNCHANGED vars
  BY <1>5 DEF vars, host, replay, Inv, TypeOK, History, SeenInWindow, ReplayMatchesLive, Recomputed
<1> QED
  BY <1>1, <1>2, <1>3, <1>4, <1>5, ReadInv, ReportInv DEF Next

\* Type correctness: the live side keeps pace with the log (knowledge.py, windowed.py).
THEOREM TypeCorrect == Spec => []TypeOK
<1>1. Inv => TypeOK
  BY DEF Inv
<1> QED
  BY <1>1, InvInit, InvNext, PTL DEF Spec

\* The windows of a recomputation, of whatever size, add up to what the live
\* instruments counted after the same rows (windowed.py, replay.py).
THEOREM WindowsAddUp == Spec => []ReplayMatchesLive
<1>1. Inv => ReplayMatchesLive
  BY DEF Inv
<1> QED
  BY <1>1, InvInit, InvNext, PTL DEF Spec

(***************************************************************************)
(* Departures.  The bound is inductive once the targets that are known (and  *)
(* those that are classified otherwise) now are counted among the departures *)
(* still to come.                                                          *)
(***************************************************************************)
KnownNow == {t \in Targets : status[t] = "known"}
OtherNow == {t \in Targets : status[t] \notin {None, "known"}}

Balance ==
    /\ IsFiniteSet(KnownNow) /\ IsFiniteSet(OtherNow)
    /\ Live.stats["known_to_nonknown"] + Cardinality(KnownNow)
         <= Live.stats["known_ever"] + Live.stats["nonknown_to_known"]
    /\ Live.stats["nonknown_to_known"] + Cardinality(OtherNow)
         <= Live.stats["nonknown_ever"] + Live.stats["known_to_nonknown"]
    /\ \A t \in Targets : status[t] = None => t \notin Live.known /\ t \notin Live.nonknown

LEMMA KnowledgeCountersTyped ==
    ASSUME NEW acc \in Accumulators
    PROVE  \A c \in KnowledgeCounters : acc.stats[c] \in Int
BY DEF KnowledgeCounters, Counters, Accumulators

LEMMA LogLive ==
    ASSUME TypeOK, NEW row \in Rows, Log(row)
    PROVE  Live' = IF row.usable THEN Observe(Live, row) ELSE Live
<1> DEFINE entry == IF row.usable THEN Observe(Live, row) ELSE Live
<1>1. entry \in Accumulators
  BY LogTyped, ObserveTyped
<1>2. live' = Append(live, entry)
  BY DEF Log
<1> HIDE DEF entry
<1>3. live'[Len(live')] = entry
  BY <1>1, <1>2 DEF TypeOK
<1> QED
  BY <1>3 DEF Live, entry

LEMMA ClassifyBalance ==
    ASSUME TypeOK, Balance, NEW t \in Targets, NEW s \in Statuses, Classify(t, s)
    PROVE  Balance'
<1> DEFINE row == [metric |-> "knowledge", usable |-> TRUE, target |-> t,
                   previous |-> status[t], status |-> s]
           stats == Live.stats
           known == Cardinality(KnownNow)
           other == Cardinality(OtherNow)
<1>1. row \in Rows /\ Log(row) /\ status' = [status EXCEPT ![t] = s] /\ status \in [Targets -> Statuses \cup {None}]
  BY DEF Classify, TypeOK, Rows, Signals
<1>2. Live \in Accumulators
  BY LogTyped
<1>3. Live' = Observe(Live, row)
  BY <1>1, LogLive
<1>4. \A c \in KnowledgeCounters : Live'.stats[c] = stats[c] + Transition(row, Live)[c] /\ stats[c] \in Int
  <2>1. Gain(row, Live) = Transition(row, Live)
    BY DEF Gain
  <2>2. KnowledgeCounters \subseteq Counters
    BY DEF KnowledgeCounters, Counters
  <2>3. row.usable
    OBVIOUS
  <2> HIDE DEF row
  <2>4. \A c \in Counters : Observe(Live, row).stats[c] = Live.stats[c] + Gain(row, Live)[c]
    BY <1>1, <1>2, <2>3, ObserveTyped
  <2>5. \A c \in KnowledgeCounters : Live.stats[c] \in Int
    BY <1>2, KnowledgeCountersTyped
  <2> QED
    BY <1>3, <2>1, <2>2, <2>4, <2>5
<1>5. /\ Transition(row, Live)["known_ever"] = One(s = "known" /\ t \notin Live.known)
      /\ Transition(row, Live)["nonknown_ever"] = One(s # "known" /\ t \notin Live.nonknown)
      /\ Transition(row, Live)["known_to_nonknown"] = One(status[t] = "known" /\ s # "known")
      /\ Transition(row, Live)["nonknown_to_known"] = One(status[t] \notin {None, "known"} /\ s = "known")
  BY DEF Transition, Counters
<1>6. /\ KnownNow' = IF s = "known" THEN KnownNow \cup {t} ELSE KnownNow \ {t}
      /\ OtherNow' = IF s = "known" THEN OtherNow \ {t} ELSE OtherNow \cup {t}
      /\ t \in KnownNow <=> status[t] = "known"
      /\ t \in OtherNow <=> status[t] \notin {None, "known"}
  <2>1. s # None
    BY DEF Statuses, None
  <2> QED
    BY <1>1, <2>1 DEF KnownNow, OtherNow
<1>7. IsFiniteSet(KnownNow) /\ IsFiniteSet(OtherNow) /\ known \in Nat /\ other \in Nat
  BY FS_CardinalityType DEF Balance
<1>8. IsFiniteSet(KnownNow') /\ IsFiniteSet(OtherNow')
  BY <1>6, <1>7, FS_AddElement, FS_RemoveElement
<1>9. Cardinality(KnownNow') =
        CASE s = "known" /\ status[t] # "known" -> known + 1
          [] s # "known" /\ status[t] = "known" -> known - 1
          [] OTHER -> known
  BY <1>6, <1>7, FS_AddElement, FS_RemoveElement
<1>10. Cardinality(OtherNow') =
        CASE s # "known" /\ status[t] \in {None, "known"} -> other + 1
          [] s = "known" /\ status[t] \notin {None, "known"} -> other - 1
          [] OTHER -> other
  BY <1>6, <1>7, FS_AddElement, FS_RemoveElement
<1>11. Live'.known = Live.known \cup Seen(row, TRUE) /\ Live'.nonknown = Live.nonknown \cup Seen(row, FALSE)
  BY <1>1, <1>2, <1>3, ObserveTyped
<1>12. \A u \in Targets : status'[u] = None => u \notin Live'.known /\ u \notin Live'.nonknown
  <2>1. s # None
    BY DEF Statuses, None
  <2>2. Seen(row, TRUE) \subseteq {t} /\ Seen(row, FALSE) \subseteq {t}
    BY DEF Seen
  <2> QED
    BY <1>1, <1>11, <2>1, <2>2 DEF Balance
<1> HIDE DEF row, stats, known, other
<1>13. /\ stats["known_to_nonknown"] + known <= stats["known_ever"] + stats["nonknown_to_known"]
       /\ stats["nonknown_to_known"] + other <= stats["nonknown_ever"] + stats["known_to_nonknown"]
       /\ status[t] = None => t \notin Live.known /\ t \notin Live.nonknown
  BY DEF Balance, stats, known, other
<1>14. \A c \in KnowledgeCounters : stats[c] \in Int
  BY <1>4
<1>15. /\ Live'.stats["known_to_nonknown"] + Cardinality(KnownNow')
            <= Live'.stats["known_ever"] + Live'.stats["nonknown_to_known"]
       /\ Live'.stats["nonknown_to_known"] + Cardinality(OtherNow')
            <= Live'.stats["nonknown_ever"] + Live'.stats["known_to_nonknown"]
  BY <1>4, <1>5, <1>7, <1>9, <1>10, <1>13 DEF KnowledgeCounters, One, Statuses
<1> QED
  BY <1>8, <1>12, <1>15 DEF Balance

LEMMA RecordBalance ==
    ASSUME TypeOK, Balance, NEW row \in Others, Record(row)
    PROVE  Balance'
<1>1. row \in Rows /\ Log(row) /\ status' = status /\ Live \in Accumulators
  BY LogTyped DEF Record, Rows
<1>2. row.usable => row.metric # "knowledge"
  BY OthersAssumption DEF Predictions, Answers, Unusable
<1>3. Live' = IF row.usable THEN Observe(Live, row) ELSE Live
  BY <1>1, LogLive
<1>4. Live'.known = Live.known /\ Live'.nonknown = Live.nonknown
  BY <1>1, <1>2, <1>3, ObserveTyped DEF Seen
<1>5. \A c \in KnowledgeCounters : Live'.stats[c] = Live.stats[c]
  <2> SUFFICES ASSUME NEW c \in KnowledgeCounters
               PROVE  Live'.stats[c] = Live.stats[c]
    OBVIOUS
  <2>1. c \in CountersOf("knowledge") /\ c \in Counters /\ "knowledge" \in Metrics
    BY DEF KnowledgeCounters, CountersOf, Counters, Metrics
  <2>2. CASE row.usable
    <3>1. Gain(row, Live)[c] = 0
      BY <1>1, <1>2, <2>1, <2>2, GainElsewhere
    <3>2. Live'.stats[c] = Live.stats[c] + Gain(row, Live)[c]
      BY <1>1, <1>3, <2>1, <2>2, ObserveTyped
    <3>3. Live.stats[c] \in Int
      BY <1>1, KnowledgeCountersTyped
    <3> QED
      BY <3>1, <3>2, <3>3
  <2> QED
    BY <1>3, <2>2
<1>6. KnownNow' = KnownNow /\ OtherNow' = OtherNow
  BY <1>1 DEF KnownNow, OtherNow
<1> QED
  BY <1>1, <1>4, <1>5, <1>6 DEF Balance, KnowledgeCounters

LEMMA BalanceInit == Init => Balance
<1> SUFFICES ASSUME Init PROVE Balance
  OBVIOUS
<1>1. KnownNow = {} /\ OtherNow = {}
  BY DEF Init, KnownNow, OtherNow, None
<1>2. Live = Fresh
  BY DEF Init, Live
<1> QED
  BY <1>1, <1>2, FS_EmptySet DEF Balance, Fresh, Zero, Counters

LEMMA BalanceNext == Inv /\ Balance /\ [Next]_vars => Balance'
<1> SUFFICES ASSUME Inv, Balance, [Next]_vars PROVE Balance'
  OBVIOUS
<1>1. ASSUME NEW t \in Targets, NEW s \in Statuses, Classify(t, s) PROVE Balance'
  BY <1>1, ClassifyBalance DEF Inv
<1>2. ASSUME NEW row \in Others, Record(row) PROVE Balance'
  BY <1>2, RecordBalance DEF Inv
<1>3. ASSUME UNCHANGED host PROVE Balance'
  BY <1>3 DEF host, Balance, KnownNow, OtherNow, Live
<1>4. CASE ReadRow \/ ReportWindow \/ EndReplay \/ UNCHANGED vars
  BY <1>3, <1>4 DEF ReadRow, ReportWindow, EndReplay, vars
<1>5. ASSUME NEW m \in Metrics, NEW n \in Sizes, BeginReplay(m, n) PROVE Balance'
  BY <1>3, <1>5 DEF BeginReplay
<1> QED
  BY <1>1, <1>2, <1>4, <1>5 DEF Next

\* Live, the departures from "known" are at most the targets ever known and their
\* confirmations, and likewise for the other boundary (knowledge.py:32-68).
THEOREM DeparturesAreBounded == Spec => []DeparturesBounded
<1>1. Inv /\ Balance => DeparturesBounded
  <2> SUFFICES ASSUME Inv, Balance PROVE DeparturesBounded
    OBVIOUS
  <2>1. \A c \in KnowledgeCounters : Live.stats[c] \in Int
    BY LogTyped, KnowledgeCountersTyped DEF Inv
  <2>2. Cardinality(KnownNow) \in Nat /\ Cardinality(OtherNow) \in Nat
    BY FS_CardinalityType DEF Balance
  <2> QED
    BY <2>1, <2>2 DEF Balance, DeparturesBounded, KnowledgeCounters
<1>2. Inv /\ Balance /\ [Next]_vars => Inv' /\ Balance'
  BY InvNext, BalanceNext
<1>3. Init => Inv /\ Balance
  BY InvInit, BalanceInit
<1> QED
  BY <1>1, <1>2, <1>3, PTL DEF Spec
===============================================================================
