\* The loop stands still for longer than the cooldown.
SPECIFICATION Spec
CONSTANTS
  Keys = {k1}
  Txs = {t1, t2}
  MaxActions = 2
  Window = 4
  Cooldown = 3
  MaxDuration = 2
  Observation = 1
  MaxGap = 6
  MaxTime = 6
  MaxInc = 1
  MaxRestarts = 0
  None = None
INVARIANT NotLeftLowered
