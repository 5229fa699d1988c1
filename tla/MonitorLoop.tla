----------------------------- MODULE MonitorLoop -----------------------------
(***************************************************************************)
(* MetricsPipeline with what the monitor thread computes between handing a *)
(* snapshot over and showing an alert (main.cpp, MonitorThread): which     *)
(* prediction the tick goes by, and whether the risk has lasted long       *)
(* enough to alert the user.  g_tick is taken - 1 during a tick.           *)
(***************************************************************************)
EXTENDS MetricsPipeline

CONSTANTS
  AiWindow,      \* AI_WINDOW: snapshots a prediction needs
  Interval,      \* aiPredictIntervalTicks
  ConfiguredTtl, \* AI_MODEL_CACHE_TTL_TICKS
  TriggerStreak, \* aiAlertTriggerStreak
  ClearStreak    \* aiAlertClearStreak

ASSUME MonitorAssumption ==
  /\ AiWindow \in Nat \ {0} /\ Interval \in Nat \ {0} /\ ConfiguredTtl \in Nat
  /\ TriggerStreak \in Nat \ {0} /\ ClearStreak \in Nat \ {0}

VARIABLES
  source,      \* g_aiSource
  predictedAt, \* snapshot of lastModelPrediction, 0 without one
  alert,       \* alertState
  high,        \* highRiskStreak
  low,         \* lowRiskStreak
  attempt,     \* history: the outcome of the last attempt to predict
  alertedAt    \* history: the snapshot of the last alert, 0 without one

prediction == <<source, predictedAt, attempt>>
alarm == <<alert, high, low, alertedAt>>
loopVars == <<vars, prediction, alarm>>

-----------------------------------------------------------------------------
\* Fault: the lifetime is what the configuration says.
CacheTtl_Unclamped == ConfiguredTtl

\* modelCacheTtlTicks
CacheTtl == IF ConfiguredTtl < Interval THEN Interval ELSE ConfiguredTtl

HasWindow == taken >= AiWindow
ShouldRunModel == HasWindow /\ ((taken - 1) % Interval = 0 \/ source = "WARMING UP")

\* The prediction of a tick: fresh, kept from an earlier tick, or replaced by
\* the thresholds.
Predict(usable) ==
  /\ usable => ShouldRunModel
  /\ attempt' = IF ShouldRunModel THEN (IF usable THEN "usable" ELSE "failed") ELSE attempt
  /\ predictedAt' = IF usable THEN taken ELSE predictedAt
  /\ source' = IF ~HasWindow THEN "WARMING UP"
               ELSE IF predictedAt' > 0 /\ taken - predictedAt' <= CacheTtl THEN "MODEL"
               ELSE "FALLBACK"

\* Fault: the alert goes off with the streak that raised it.
Alarm_NoHysteresis(level) ==
  /\ high' = IF level = "critical" THEN high + 1 ELSE 0
  /\ low' = IF level = "low" THEN low + 1 ELSE 0
  /\ alert' = (high' >= TriggerStreak)
  /\ alertedAt' = IF alert' /\ ~alert THEN taken ELSE alertedAt

\* The streaks and the alert; "low" is a Normal level or a score that is at
\* most the clear threshold.
Alarm(level) ==
  LET highNow == IF level = "critical" THEN high + 1 ELSE 0
      lowNow == IF level = "low" THEN low + 1 ELSE 0
      raised == ~alert /\ highNow >= TriggerStreak
      cleared == alert /\ lowNow >= ClearStreak
  IN  /\ alert' = (raised \/ (alert /\ ~cleared))
      /\ high' = IF cleared THEN 0 ELSE highNow
      /\ low' = IF raised THEN 0 ELSE lowNow
      /\ alertedAt' = IF raised THEN taken ELSE alertedAt

\* The rest of a tick; the box of a new alert is shown at once.
Evaluate(usable, level) ==
  /\ Enqueue
  /\ Predict(usable)
  /\ Alarm(level)
  /\ monitor' = "alert" <=> alert' /\ ~alert

-----------------------------------------------------------------------------
LoopInit ==
  /\ Init
  /\ source = "WARMING UP" /\ predictedAt = 0 /\ attempt = "none"
  /\ alert = FALSE /\ high = 0 /\ low = 0 /\ alertedAt = 0

Levels == {"critical", "elevated", "low"}
Evaluation == \E usable \in BOOLEAN, level \in Levels : Evaluate(usable, level)
Quiet(A) == A /\ UNCHANGED <<prediction, alarm>>

LoopNext ==
  \/ Quiet(OpenStorage) \/ Quiet(StartPipeline) \/ Quiet(StartMonitor)
  \/ Quiet(Destroy) \/ Quiet(JoinMonitor) \/ Quiet(StopPipeline)
  \/ Quiet(JoinWorker) \/ Quiet(CloseStorage)
  \/ Quiet(MonitorWait) \/ Evaluation \/ Quiet(DismissAlert)
  \/ Quiet(WorkerCheck) \/ Quiet(WorkerTake) \/ Quiet(WorkerWrite)

LoopSpec == LoopInit /\ [][LoopNext]_loopVars

\* The three threads are scheduled, and the user answers an alert; when the
\* user closes the application is up to the user.
LoopFairness ==
  /\ WF_loopVars(Quiet(Window))
  /\ WF_loopVars(Quiet(MonitorWait) \/ Evaluation)
  /\ WF_loopVars(Quiet(WorkerStep))
  /\ WF_loopVars(Quiet(DismissAlert))

LoopFairSpec == LoopSpec /\ LoopFairness

-----------------------------------------------------------------------------
\* The values of the variables; a streak that has done its work starts again.
LoopTypeOK ==
  /\ TypeOK
  /\ source \in {"WARMING UP", "MODEL", "FALLBACK"}
  /\ predictedAt \in 0 .. taken /\ alertedAt \in 0 .. taken
  /\ attempt \in {"none", "usable", "failed"}
  /\ alert \in BOOLEAN
  /\ high \in 0 .. MaxSnapshots /\ low \in 0 .. MaxSnapshots

\* The thresholds replace the model only after the model was asked in vain:
\* whatever lifetime the configuration gives a prediction, it bridges the ticks
\* to the next attempt, the first, unscheduled one at the end of the warm-up too.
FallbackAfterFailure == source = "FALLBACK" => attempt = "failed"

\* The user is not alerted again before the risk has been low for ClearStreak
\* ticks and critical for TriggerStreak ticks, however it wavers in between.
AlertsSpaced ==
  [][alertedAt > 0 /\ alertedAt' # alertedAt =>
       alertedAt' - alertedAt >= ClearStreak + TriggerStreak]_loopVars
=============================================================================
