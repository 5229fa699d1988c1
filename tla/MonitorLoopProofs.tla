--------------------------- MODULE MonitorLoopProofs ---------------------------
(***************************************************************************)
(* That the monitor loop uses the pipeline as MetricsPipeline says, and    *)
(* what it promises about predictions and alerts, for any intervals,       *)
(* lifetimes and streaks.                                                  *)
(***************************************************************************)
EXTENDS MonitorLoop, MetricsPipelineProofs

\* The last attempt was usable: no more ticks ago than the schedule allows.
PredictionOK ==
  /\ attempt = "none" => source = "WARMING UP"
  /\ attempt # "none" => HandedOver >= AiWindow
  /\ attempt = "usable" => /\ predictedAt > 0
                           /\ HandedOver - predictedAt <= (HandedOver - 1) % Interval
  /\ predictedAt \in 0 .. HandedOver
  /\ FallbackAfterFailure

\* How many ticks the streaks have had since the last alert.
AlarmOK ==
  /\ alertedAt \in 0 .. HandedOver
  /\ high \in 0 .. HandedOver /\ low \in 0 .. HandedOver
  /\ alert => alertedAt > 0 /\ alertedAt + low <= HandedOver
  /\ ~alert /\ alertedAt > 0 => alertedAt + ClearStreak + high <= HandedOver

LoopValues ==
  /\ source \in {"WARMING UP", "MODEL", "FALLBACK"}
  /\ attempt \in {"none", "usable", "failed"}
  /\ alert \in BOOLEAN

LoopInv == IInv /\ LoopValues /\ PredictionOK /\ AlarmOK

-----------------------------------------------------------------------------
\* Every step of the loop is a step of the pipeline, or none.
LEMMA StepRefines == ASSUME [LoopNext]_loopVars PROVE [Next]_vars
BY DEF LoopNext, Quiet, Evaluation, Evaluate, Next, Window, MonitorStep, WorkerStep, loopVars

\* The monitor loop is a user of the pipeline as MetricsPipeline describes it:
\* what is proved of the pipeline holds of the whole.
THEOREM LoopImplementsPipeline == LoopSpec => Spec
BY StepRefines, PTL DEF LoopSpec, LoopInit, Spec

LEMMA InitKeepsLoop == ASSUME LoopInit, IInv PROVE LoopInv
<1>1. HandedOver = 0
  BY DEF LoopInit, Init, HandedOver
<1>2. 0 \in 0 .. HandedOver
  BY <1>1
<1>3. LoopValues
  BY DEF LoopInit, LoopValues
<1>4. PredictionOK
  <2>1. attempt = "none" /\ source = "WARMING UP" /\ predictedAt \in 0 .. HandedOver
    BY <1>2 DEF LoopInit
  <2>2. attempt # "usable" /\ source # "FALLBACK"
    BY <2>1
  <2> QED  BY <2>1, <2>2, Zenon DEF PredictionOK, FallbackAfterFailure
<1>5. AlarmOK
  <2>1. alertedAt \in 0 .. HandedOver /\ high \in 0 .. HandedOver /\ low \in 0 .. HandedOver
    BY <1>2 DEF LoopInit
  <2>2. ~(alertedAt > 0)
    <3>1. alertedAt = 0
      BY DEF LoopInit
    <3> QED  BY <3>1
  <2>3. ~alert
    BY DEF LoopInit
  <2> QED  BY <2>1, <2>2, <2>3, Zenon DEF AlarmOK
<1> QED  BY <1>3, <1>4, <1>5 DEF LoopInv

-----------------------------------------------------------------------------
(* Arithmetic. *)

LEMMA Division ==
  ASSUME NEW a \in Nat, NEW n \in Nat \ {0}
  PROVE  /\ a = n * (a \div n) + (a % n)
         /\ a % n \in 0 .. n - 1 /\ a \div n \in Nat
OBVIOUS

\* A multiple other than zero is not between -n and n.
LEMMA MultipleAbove == ASSUME NEW k \in Int, NEW n \in Nat \ {0}, k >= 1 PROVE n * k >= n
<1>1. n * (k - 1) >= 0
  OBVIOUS
<1>2. n * k = n * (k - 1) + n
  OBVIOUS
<1> QED  BY <1>1, <1>2

LEMMA MultipleBelow == ASSUME NEW k \in Int, NEW n \in Nat \ {0}, k <= -1 PROVE n * k <= -n
<1>1. n * (k + 1) <= 0
  OBVIOUS
<1>2. n * k = n * (k + 1) - n
  OBVIOUS
<1> QED  BY <1>1, <1>2

LEMMA SuccessorRemainder ==
  ASSUME NEW x \in Int, NEW y \in Int, NEW n \in Nat \ {0},
         NEW r \in 0 .. n - 1, NEW s \in 1 .. n - 1, n * x + r + 1 = n * y + s
  PROVE  s = r + 1
<1>1. n * (y - x) = r + 1 - s
  OBVIOUS
<1>2. CASE y - x = 0
  BY <1>1, <1>2
<1>3. CASE y - x >= 1
  <2>1. n * (y - x) >= n
    BY <1>3, MultipleAbove
  <2> QED  BY <1>1, <2>1
<1>4. CASE y - x <= -1
  <2>1. n * (y - x) <= -n
    BY <1>4, MultipleBelow
  <2> QED  BY <1>1, <2>1
<1> QED  BY <1>2, <1>3, <1>4

\* A remainder that is not zero is one more than the one before.
LEMMA NextRemainder ==
  ASSUME NEW a \in Nat, NEW n \in Nat \ {0}, (a + 1) % n # 0
  PROVE  (a + 1) % n = (a % n) + 1
<1> DEFINE x == a \div n
           y == (a + 1) \div n
           r == a % n
           s == (a + 1) % n
<1>1. a = n * x + r /\ r \in 0 .. n - 1 /\ x \in Nat
  BY Division
<1>2. a + 1 = n * y + s /\ s \in 0 .. n - 1 /\ y \in Nat
  BY Division
<1>3. s \in 1 .. n - 1
  BY <1>2
<1> HIDE DEF x, y, r, s
<1>4. n * x + r + 1 = n * y + s
  BY <1>1, <1>2
<1>5. s = r + 1
  BY <1>1, <1>2, <1>3, <1>4, SuccessorRemainder
<1> QED  BY <1>5 DEF r, s

-----------------------------------------------------------------------------
\* What is at most a remainder old is not older than a longer lifetime.
LEMMA WithinInterval ==
  ASSUME NEW now \in Nat, NEW then \in 0 .. now, NEW n \in Nat \ {0}, NEW ttl \in Nat, ttl >= n,
         NEW rest \in 0 .. n - 1, now - then <= rest
  PROVE  now - then <= ttl
OBVIOUS

\* What an evaluation finds: a snapshot more has been handed over.
LEMMA EvaluationHands ==
  ASSUME IInv, Enqueue
  PROVE  /\ HandedOver \in Nat /\ taken = HandedOver + 1 /\ taken' = taken
         /\ HandedOver' = taken
<1>1. taken \in Nat /\ taken > 0
  BY DEF IInv, TypeOK, ControlOK, Enqueue
<1>2. taken' = taken /\ monitor = "enqueue" /\ monitor' # "enqueue"
  BY DEF Enqueue
<1> QED  BY <1>1, <1>2 DEF HandedOver

\* No other step of the loop changes how many snapshots were handed over.
LEMMA OthersHandNothing ==
  ASSUME IInv, [LoopNext]_loopVars, ~Evaluation
  PROVE  HandedOver' = HandedOver /\ UNCHANGED <<prediction, alarm>>
<1>1. UNCHANGED <<prediction, alarm>>
  BY DEF LoopNext, Quiet, loopVars
<1>2. taken \in Nat
  BY DEF IInv, TypeOK
<1>3. CASE MonitorWait
  BY <1>1, <1>2, <1>3 DEF MonitorWait, HandedOver
<1>4. CASE UNCHANGED <<monitor, taken>>
  BY <1>1, <1>4 DEF HandedOver
<1>5. CASE StartMonitor \/ DismissAlert
  BY <1>1, <1>5 DEF StartMonitor, DismissAlert, HandedOver, IInv, ControlOK, Starting
<1>6. MonitorWait \/ UNCHANGED <<monitor, taken>> \/ StartMonitor \/ DismissAlert
  BY DEF LoopNext, Quiet, loopVars, vars, OpenStorage, StartPipeline, Destroy, JoinMonitor,
         StopPipeline, JoinWorker, CloseStorage, WorkerCheck, WorkerTake, WorkerWrite
<1> QED  BY <1>1, <1>3, <1>4, <1>5, <1>6

\* A usable prediction is at most one interval old when the next is attempted.
LEMMA PredictKeeps ==
  ASSUME LoopInv, NEW usable \in BOOLEAN, Enqueue, Predict(usable)
  PROVE  PredictionOK' /\ source' \in {"WARMING UP", "MODEL", "FALLBACK"}
         /\ attempt' \in {"none", "usable", "failed"}
<1>1. /\ HandedOver \in Nat /\ taken = HandedOver + 1 /\ taken' = taken /\ HandedOver' = taken
  BY EvaluationHands DEF LoopInv
<1>2. source' \in {"WARMING UP", "MODEL", "FALLBACK"} /\ attempt' \in {"none", "usable", "failed"}
  BY DEF LoopInv, LoopValues, Predict
<1>3. predictedAt \in 0 .. HandedOver /\ predictedAt' \in {predictedAt, taken}
  BY DEF LoopInv, PredictionOK, Predict
<1>11. predictedAt' \in 0 .. taken /\ taken \in Nat
  BY <1>1, <1>3
<1>4. Interval \in Nat \ {0} /\ CacheTtl \in Nat /\ CacheTtl >= Interval
  BY MonitorAssumption DEF CacheTtl
<1>5. (taken - 1) % Interval \in 0 .. Interval - 1
  BY <1>1, <1>4, Division
<1>6. attempt' = "none" => source' = "WARMING UP"
  BY DEF LoopInv, PredictionOK, Predict, ShouldRunModel
<1>7. ASSUME attempt' = "usable"
      PROVE  predictedAt' > 0 /\ taken - predictedAt' <= (taken - 1) % Interval
  <2>1. CASE usable
    <3>1. predictedAt' = taken
      BY <2>1 DEF Predict
    <3> DEFINE age == (taken - 1) % Interval
    <3>2. age \in 0 .. Interval - 1
      BY <1>5
    <3> HIDE DEF age
    <3>3. predictedAt' > 0 /\ taken - predictedAt' <= age
      BY <1>1, <1>4, <3>1, <3>2
    <3> QED  BY <3>3 DEF age
  <2>2. CASE ~usable
    <3>1. /\ attempt = "usable" /\ ~ShouldRunModel /\ predictedAt' = predictedAt
      BY <1>7, <2>2 DEF Predict
    <3>2. predictedAt > 0 /\ HandedOver - predictedAt <= (HandedOver - 1) % Interval
      BY <3>1 DEF LoopInv, PredictionOK
    <3>3. CASE HasWindow
      <4>1. (taken - 1) % Interval # 0
        BY <3>1, <3>3 DEF ShouldRunModel
      <4>2. HandedOver - 1 \in Nat /\ (HandedOver - 1) + 1 = taken - 1
        BY <1>1, <1>3, <3>2
      <4>3. (taken - 1) % Interval = ((HandedOver - 1) % Interval) + 1
        BY <1>4, <4>1, <4>2, NextRemainder
      <4>4. (HandedOver - 1) % Interval \in Nat
        BY <1>4, <4>2, Division
      <4> QED  BY <1>1, <1>3, <3>1, <3>2, <4>3, <4>4
    <3>4. HasWindow
      BY <1>1, <3>1, MonitorAssumption DEF LoopInv, PredictionOK, HasWindow
    <3> QED  BY <3>3, <3>4
  <2> QED  BY <2>1, <2>2
<1>8. ASSUME source' = "FALLBACK", attempt' = "usable" PROVE FALSE
  <2>1. predictedAt' > 0 /\ taken - predictedAt' <= (taken - 1) % Interval
    BY <1>7, <1>8
  <2>2. taken - predictedAt' <= CacheTtl
    BY <1>4, <1>5, <1>11, <2>1, WithinInterval
  <2> QED  BY <1>8, <2>1, <2>2 DEF Predict
<1>9. attempt # "none" => HandedOver >= AiWindow
  BY DEF LoopInv, PredictionOK
<1>10. attempt' # "none" => taken >= AiWindow
  <2>1. attempt' = attempt \/ HasWindow
    BY DEF Predict, ShouldRunModel
  <2> QED  BY <1>1, <1>9, <2>1, MonitorAssumption DEF HasWindow
<1> QED  BY <1>1, <1>2, <1>6, <1>7, <1>8, <1>10, <1>11 DEF PredictionOK, FallbackAfterFailure

\* The streaks never count more than the ticks since the last alert.
LEMMA AlarmKeeps ==
  ASSUME LoopInv, NEW level \in Levels, Enqueue, Alarm(level)
  PROVE  /\ AlarmOK' /\ alert' \in BOOLEAN
         /\ alertedAt > 0 /\ alertedAt' # alertedAt =>
              alertedAt' - alertedAt >= ClearStreak + TriggerStreak
<1>1. /\ HandedOver \in Nat /\ taken = HandedOver + 1 /\ taken' = taken /\ HandedOver' = taken
  BY EvaluationHands DEF LoopInv
<1> DEFINE highNow == IF level = "critical" THEN high + 1 ELSE 0
           lowNow == IF level = "low" THEN low + 1 ELSE 0
           raised == ~alert /\ highNow >= TriggerStreak
           cleared == alert /\ lowNow >= ClearStreak
<1>2. /\ alert' = (raised \/ (alert /\ ~cleared))
      /\ high' = IF cleared THEN 0 ELSE highNow
      /\ low' = IF raised THEN 0 ELSE lowNow
      /\ alertedAt' = IF raised THEN taken ELSE alertedAt
  BY DEF Alarm
<1>3. /\ alertedAt \in 0 .. HandedOver /\ high \in 0 .. HandedOver /\ low \in 0 .. HandedOver
      /\ alert => alertedAt > 0 /\ alertedAt + low <= HandedOver
      /\ ~alert /\ alertedAt > 0 => alertedAt + ClearStreak + high <= HandedOver
      /\ alert \in BOOLEAN
  BY DEF LoopInv, AlarmOK, LoopValues
<1>4. TriggerStreak \in Nat \ {0} /\ ClearStreak \in Nat \ {0}
  BY MonitorAssumption
<1>5. highNow \in 0 .. taken /\ lowNow \in 0 .. taken /\ highNow <= high + 1 /\ lowNow <= low + 1
  BY <1>1, <1>3
<1> HIDE DEF highNow, lowNow
<1>6. CASE raised
  <2>1. alert' /\ high' = highNow /\ low' = 0 /\ alertedAt' = taken /\ highNow >= TriggerStreak /\ ~alert
    BY <1>2, <1>6
  <2>2. AlarmOK' /\ alert' \in BOOLEAN
    BY <1>1, <1>2, <1>3, <1>4, <1>5, <2>1 DEF AlarmOK
  <2>3. alertedAt > 0 => taken - alertedAt >= ClearStreak + TriggerStreak
    BY <1>1, <1>3, <1>4, <1>5, <2>1
  <2> QED  BY <2>1, <2>2, <2>3
<1>7. CASE cleared
  BY <1>1, <1>2, <1>3, <1>4, <1>5, <1>7 DEF AlarmOK
<1>8. CASE ~raised /\ ~cleared
  BY <1>1, <1>2, <1>3, <1>4, <1>5, <1>8 DEF AlarmOK
<1> QED  BY <1>6, <1>7, <1>8

LEMMA StepKeepsLoop ==
  ASSUME LoopInv, IInv', [LoopNext]_loopVars
  PROVE  LoopInv'
<1>1. CASE Evaluation
  <2>1. PICK usable \in BOOLEAN, level \in Levels : Evaluate(usable, level)
    BY <1>1 DEF Evaluation
  <2>2. PredictionOK' /\ LoopValues' /\ AlarmOK'
    BY <2>1, PredictKeeps, AlarmKeeps DEF Evaluate, LoopValues
  <2> QED  BY <2>2 DEF LoopInv
<1>2. CASE ~Evaluation
  <2>1. HandedOver' = HandedOver /\ UNCHANGED <<prediction, alarm>>
    BY <1>2, OthersHandNothing DEF LoopInv
  <2>2. PredictionOK' /\ LoopValues' /\ AlarmOK'
    BY <2>1 DEF LoopInv, PredictionOK, LoopValues, AlarmOK, FallbackAfterFailure, prediction, alarm
  <2> QED  BY <2>2 DEF LoopInv
<1> QED  BY <1>1, <1>2

LEMMA LoopInvariant == LoopSpec => []LoopInv
<1>1. LoopSpec => []IInv
  BY LoopImplementsPipeline, Invariant, PTL
<1>2. LoopInit /\ IInv => LoopInv
  BY InitKeepsLoop
<1>3. LoopInv /\ IInv' /\ [LoopNext]_loopVars => LoopInv'
  BY StepKeepsLoop
<1> QED  BY <1>1, <1>2, <1>3, PTL DEF LoopSpec

-----------------------------------------------------------------------------
\* The variables of the loop and of the pipeline keep their types.
THEOREM LoopTypes == LoopSpec => []LoopTypeOK
<1>1. LoopInv => LoopTypeOK
  <2> SUFFICES ASSUME LoopInv PROVE LoopTypeOK
    OBVIOUS
  <2>1. taken \in 0 .. MaxSnapshots /\ (monitor = "enqueue" => taken > 0)
    BY DEF LoopInv, IInv, TypeOK, ControlOK
  <2>2. HandedOver \in 0 .. MaxSnapshots /\ HandedOver <= taken
    BY <2>1, PipelineAssumption DEF HandedOver
  <2>3. predictedAt \in 0 .. taken /\ alertedAt \in 0 .. taken
        /\ high \in 0 .. MaxSnapshots /\ low \in 0 .. MaxSnapshots
    <3>1. predictedAt \in 0 .. HandedOver
      BY DEF LoopInv, PredictionOK
    <3>2. alertedAt \in 0 .. HandedOver /\ high \in 0 .. HandedOver /\ low \in 0 .. HandedOver
      BY DEF LoopInv, AlarmOK
    <3> QED  BY <2>1, <2>2, <3>1, <3>2, PipelineAssumption
  <2> QED  BY <2>3 DEF LoopInv, IInv, LoopValues, LoopTypeOK
<1> QED  BY LoopInvariant, <1>1, PTL

\* The thresholds never replace a model that answers when it is asked, for any
\* interval, any configured lifetime and any length of the warm-up.
THEOREM FallbackOnlyAfterFailure == LoopSpec => []FallbackAfterFailure
<1>1. LoopInv => FallbackAfterFailure
  BY DEF LoopInv, PredictionOK
<1> QED  BY LoopInvariant, <1>1, PTL

\* Two alerts are never closer than the streaks that clear and raise one.
THEOREM AlertsAreSpaced == LoopSpec => AlertsSpaced
<1> DEFINE Spaced == alertedAt > 0 /\ alertedAt' # alertedAt =>
                       alertedAt' - alertedAt >= ClearStreak + TriggerStreak
<1>1. ASSUME LoopInv, [LoopNext]_loopVars PROVE [Spaced]_loopVars
  <2>1. CASE Evaluation
    BY <1>1, <2>1, AlarmKeeps DEF Evaluation, Evaluate
  <2>2. CASE ~Evaluation
    BY <1>1, <2>2, OthersHandNothing DEF LoopInv, alarm
  <2> QED  BY <2>1, <2>2
<1> QED  BY LoopInvariant, <1>1, PTL DEF LoopSpec, AlertsSpaced
=============================================================================
