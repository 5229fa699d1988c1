------------------------- MODULE ObserverSamplingProofs -------------------------
(***************************************************************************)
(* What the three deciders of ObserverSampling guarantee together, and how *)
(* the starvation that TLC finds lasts, for any constants.                 *)
(***************************************************************************)
EXTENDS ObserverSampling, TLAPS

\* A tick of the severe kind is due and collected as soon as it may be.
LEMMA SevereTick ==
  ASSUME NEW foreground, NEW other, NEW duration, Tick("severe", foreground, other, duration)
  PROVE  tick'.due => tick'.captured
<1> DEFINE changed == sampled /\ foreground # lastForeground
           captured == Due("severe", changed) /\ Collected("severe", changed)
<1>1. tick' = [risk |-> "severe", other |-> other, due |-> since >= MinImmediate \/ ~sampled,
               tier |-> Tier("severe", changed), captured |-> captured]
  BY DEF Tick
<1>2. Collected("severe", changed)
  BY DEF Collected
<1>3. since >= MinImmediate \/ ~sampled => Due("severe", changed)
  BY DEF Due, Immediate, Forced
<1> QED  BY <1>1, <1>2, <1>3

\* What is collected beyond the cap of the governor is collected for severe
\* pressure.
LEMMA CappedTick ==
  ASSUME NEW risk, NEW foreground, NEW other, NEW duration, Tick(risk, foreground, other, duration)
  PROVE  CapHolds'
<1> DEFINE changed == sampled /\ foreground # lastForeground
           captured == Due(risk, changed) /\ Collected(risk, changed)
<1>1. /\ tick'.risk = risk /\ tick'.tier = Tier(risk, changed) /\ tick'.captured = captured
  BY DEF Tick
<1>2. captured /\ over' => Tier(risk, changed) <= 1 \/ risk = "severe"
  BY DEF Collected
<1> QED  BY <1>1, <1>2 DEF CapHolds

-----------------------------------------------------------------------------
\* The governor and the scheduler never keep the monitor from measuring a
\* machine under severe pressure, whatever the measurements have cost.
THEOREM SevereAlwaysMeasured == Spec => []SevereMeasured
<1>1. Init => SevereMeasured
  BY DEF Init, SevereMeasured
<1>2. ASSUME SevereMeasured, [Next]_vars PROVE SevereMeasured'
  <2>1. ASSUME NEW risk \in Risks, NEW foreground \in Foregrounds, NEW other \in BOOLEAN,
               NEW duration \in Durations, Tick(risk, foreground, other, duration)
        PROVE  SevereMeasured'
    <3>1. tick'.risk = risk
      BY <2>1 DEF Tick
    <3> QED  BY <2>1, <3>1, SevereTick DEF SevereMeasured
  <2>2. CASE UNCHANGED vars
    BY <1>2, <2>2 DEF vars, SevereMeasured
  <2> QED  BY <1>2, <2>1, <2>2 DEF Next
<1> QED  BY <1>1, <1>2, PTL DEF Spec

\* A monitor over its budget measures nothing of the focused tier but under
\* severe pressure.
THEOREM CapAlwaysHolds == Spec => []CapHolds
<1>1. Init => CapHolds
  BY DEF Init, CapHolds
<1>2. ASSUME CapHolds, [Next]_vars PROVE CapHolds'
  <2>1. CASE UNCHANGED vars
    BY <1>2, <2>1 DEF vars, CapHolds
  <2> QED  BY <1>2, <2>1, CappedTick DEF Next
<1> QED  BY <1>1, <1>2, PTL DEF Spec

-----------------------------------------------------------------------------
\* The percentile of the last measurements is over budget, and a tick is never
\* too early for an immediate measurement.
Starving ==
  /\ sampled /\ P95(samples) > P95Budget
  /\ since \in Nat /\ since >= MinImmediate

\* How long the starvation of run sampling_starved lasts: in every tick that is
\* not under severe pressure and finds another application in the foreground
\* than the last measurement did, nothing is measured, and so nothing changes
\* the percentile and the application that the next tick compares with.
THEOREM StarvationPersists ==
  ASSUME Starving, Longest \in Nat, MinImmediate \in Nat, MinImmediate <= Longest,
         NEW risk \in {"calm", "elevated"}, NEW foreground, foreground # lastForeground,
         NEW other \in BOOLEAN, NEW duration, Tick(risk, foreground, other, duration)
  PROVE  Starving' /\ ~tick'.captured /\ lastForeground' = lastForeground
<1> DEFINE changed == sampled /\ foreground # lastForeground
           captured == Due(risk, changed) /\ Collected(risk, changed)
<1>1. changed
  BY DEF Starving
<1>2. over' = TRUE
  BY DEF Tick, Observe, Starving
<1>3. Immediate(risk, changed) /\ Focused(risk, changed)
  BY <1>1 DEF Immediate, Forced, Focused, Starving
<1>4. Tier(risk, changed) = 2
  BY <1>3 DEF Tier
<1>5. ~Collected(risk, changed)
  BY <1>2, <1>4 DEF Collected
<1>6. /\ tick'.captured = captured
      /\ since' = (IF sampled THEN Least(since + 1, Longest) ELSE since)
      /\ UNCHANGED <<sampled, samples, lastForeground>>
  BY <1>5 DEF Tick
<1>7. since' \in Nat /\ since' >= MinImmediate
  BY <1>6 DEF Starving, Least
<1> QED  BY <1>5, <1>6, <1>7 DEF Starving
===============================================================================
