\* One target, a cooldown that outlasts an action and a gap between ticks.
SPECIFICATION FairSpec
CONSTANTS
  Keys = {k1}
  Txs = {t1, t2}
  MaxActions = 1
  Window = 4
  Cooldown = 3
  MaxDuration = 2
  Observation = 1
  MaxGap = 1
  MaxTime = 5
  MaxInc = 2
  MaxRestarts = 1
  None = None
INVARIANTS TypeOK NotLeftLowered DeadlineKept HourlyBudget
PROPERTIES LearnedInForce StopRestoresObserved ClickServed
