-------------------------- MODULE ObserverSampling --------------------------
(***************************************************************************)
(* When the monitor measures the quality of experience: one tick of        *)
(* MonitorThread (main.cpp) asks AdaptiveSamplingController whether the    *)
(* collector is due, ObserverEffectGovernor how much the monitor itself    *)
(* costs, and EvidenceBudgetScheduler whether the measurement is worth it; *)
(* only a measurement that is taken tells the three how long it took.      *)
(*                                                                         *)
(* Time is counted in ticks.  RecordCollectorFailure, which nobody calls,  *)
(* and the failure backoff it would start are left out.                    *)
(***************************************************************************)
EXTENDS Naturals, Sequences, FiniteSets

CONSTANTS
  Foregrounds,      \* process ids the user may bring to the foreground
  Durations,        \* durations of a measurement, in milliseconds
  StableInterval,   \* stableIntervalMs, in ticks
  ElevatedInterval, \* elevatedRiskIntervalMs
  MinImmediate,     \* minimumImmediateIntervalMs
  MaxBurst,         \* maximumFocusedBurstMs
  Backoff,          \* overloadBackoffMultiplier
  CollectorBudget,  \* withinOverheadBudget of a measurement, in milliseconds
  P95Budget,        \* OBSERVER_MAX_COLLECTOR_P95_MS
  Recovery,         \* recoverySamplesRequired
  Window            \* measurements CollectorCostRegistry keeps

VARIABLES
  since,       \* ticks since the last capture, 0 before the first one
  sampled,     \* hasQoeSample
  burst,       \* ticks since the focused burst began as the next one sees them,
               \* 0 when there is none
  overload,    \* overloadBackoff_
  samples,     \* the durations CollectorCostRegistry keeps
  over,        \* decision_.overBudget of the governor
  healthy,     \* consecutiveHealthySamples_
  lastForeground, \* lastQoeForegroundPid
  tick         \* what the last tick saw and did

vars == <<since, sampled, burst, overload, samples, over, healthy, lastForeground, tick>>

\* The counters of time stop where no comparison tells them apart.
Least(a, b) == IF a <= b THEN a ELSE b
Longest == StableInterval * Backoff

-----------------------------------------------------------------------------
\* CollectorCostRegistry::Percentile at 0.95: ceil(0.95 * (n - 1)) of the
\* measurements are no longer than the result, the others no shorter.
P95(s) ==
  LET above(v) == Cardinality({i \in 1 .. Len(s) : s[i] > v})
      spared == (Len(s) - 1) - ((95 * (Len(s) - 1) + 99) \div 100)
  IN  IF s = <<>> THEN 0
      ELSE CHOOSE v \in {s[i] : i \in 1 .. Len(s)} :
             /\ above(v) <= spared
             /\ \A i \in 1 .. Len(s) : s[i] < v => above(s[i]) > spared

Record(s, d) == IF Len(s) < Window THEN Append(s, d) ELSE Append(Tail(s), d)

\* EvidenceBudgetScheduler: the risk a measurement may reduce, over its cost
\* max(0.1, p95 / 10) + p95 / 10, is at least 0.20.
Worth(risk, p95) ==
  50 * (CASE risk = "severe" -> 100 [] risk = "elevated" -> 20 [] OTHER -> 1)
    >= (IF p95 > 1 THEN p95 ELSE 1) + p95

\* EffectiveIntervalMs.
Interval(risk, changed) ==
  LET base == IF risk # "calm" \/ changed THEN ElevatedInterval ELSE StableInterval
  IN  IF overload /\ risk # "severe" THEN base * Backoff ELSE base

\* AdaptiveSamplingController::Next after the first sample: whether the collector
\* is due, the tier of the measurement, and the burst.
Forced(risk, changed) == risk = "severe" \/ changed
Focused(risk, changed) == Forced(risk, changed) \/ risk = "elevated"
Immediate(risk, changed) == Forced(risk, changed) /\ since >= MinImmediate
BurstExpired(risk) == burst >= MaxBurst /\ risk # "severe"

Due(risk, changed) ==
  \/ ~sampled
  \/ Immediate(risk, changed)
  \/ /\ Focused(risk, changed) /\ BurstExpired(risk)
     /\ since >= (IF overload THEN StableInterval * Backoff ELSE StableInterval)
  \/ /\ ~(Focused(risk, changed) /\ BurstExpired(risk))
     /\ since >= Interval(risk, changed)

Tier(risk, changed) ==
  IF ~Focused(risk, changed) THEN 0
  ELSE IF sampled /\ ~Immediate(risk, changed) /\ BurstExpired(risk) THEN 1 ELSE 2

NextBurst(risk, changed) ==
  IF sampled /\ Focused(risk, changed) /\ (burst > 0 \/ ~Immediate(risk, changed))
    THEN Least(burst + 1, MaxBurst)
    ELSE 0

\* ObserverEffectGovernor::Observe; other: the processor, memory, storage or
\* inference of the monitor is over its budget.
Observe(other) ==
  IF P95(samples) > P95Budget \/ other
    THEN over' = TRUE /\ healthy' = 0
    ELSE /\ over' = (over /\ healthy + 1 < Recovery)
         /\ healthy' = IF over THEN Least(healthy + 1, Recovery) ELSE healthy

\* EvidenceBudgetScheduler::Decide, on what the governor has just decided.
Collected(risk, changed) ==
  risk = "severe" \/ ((over' => Tier(risk, changed) <= 1) /\ Worth(risk, P95(samples)))

\* The part of a tick of MonitorThread that measures, or reuses the last sample.
Tick(risk, foreground, other, duration) ==
  LET changed == sampled /\ foreground # lastForeground
      captured == Due(risk, changed) /\ Collected(risk, changed)
  IN  /\ Observe(other)
      /\ burst' = NextBurst(risk, changed)
      /\ tick' = [risk |-> risk, other |-> other, due |-> since >= MinImmediate \/ ~sampled,
                  tier |-> Tier(risk, changed), captured |-> captured]
      /\ IF captured
           THEN /\ since' = 1
                /\ sampled' = TRUE
                /\ overload' = (duration > CollectorBudget)
                /\ samples' = Record(samples, duration)
                /\ lastForeground' = foreground
           ELSE /\ since' = IF sampled THEN Least(since + 1, Longest) ELSE since
                /\ UNCHANGED <<sampled, overload, samples, lastForeground>>

-----------------------------------------------------------------------------
Init ==
  /\ since = 0 /\ sampled = FALSE /\ burst = 0 /\ overload = FALSE
  /\ samples = <<>> /\ over = FALSE /\ healthy = 0
  /\ lastForeground \in Foregrounds
  /\ tick = [risk |-> "calm", other |-> FALSE, due |-> FALSE, tier |-> 0, captured |-> FALSE]

Risks == {"calm", "elevated", "severe"}

Next == \E risk \in Risks, foreground \in Foregrounds, other \in BOOLEAN, duration \in Durations :
          Tick(risk, foreground, other, duration)

Spec == Init /\ [][Next]_vars

\* The monitor thread keeps ticking.
FairSpec == Spec /\ WF_vars(Next)

-----------------------------------------------------------------------------
\* The values of the variables.
TypeOK ==
  /\ since \in 0 .. Longest /\ burst \in 0 .. MaxBurst
  /\ sampled \in BOOLEAN /\ overload \in BOOLEAN /\ over \in BOOLEAN
  /\ samples \in Seq(Durations)
  /\ healthy \in 0 .. Recovery
  /\ lastForeground \in Foregrounds
  /\ tick \in [risk : Risks, other : BOOLEAN, due : BOOLEAN, tier : 0 .. 2, captured : BOOLEAN]

\* Whatever the governor has capped and the scheduler thinks of the cost, a tick
\* under severe pressure is measured as soon as the minimum interval has passed.
SevereMeasured == tick.risk = "severe" /\ tick.due => tick.captured

\* While the monitor is over one of its budgets, nothing of the focused tier is
\* measured but under severe pressure.
CapHolds == tick.captured /\ over => tick.tier <= 1 \/ tick.risk = "severe"

\* docs/OBSERVER_EFFECT_GOVERNOR.md: a monitor over its budget "slows optional
\* collection through the evidence budget decision".  Slowed, it still measures:
\* as long as nothing but the collector itself was over budget in the end.
SlowedNotStopped == <>[](~tick.other) => []<>(tick.captured)
=============================================================================
