\* Quick Restore after a verification.
SPECIFICATION Spec
CONSTANTS
  Keys = {k1}
  Txs = {t1, t2}
  MaxActions = 1
  Window = 4
  Cooldown = 3
  MaxDuration = 2
  Observation = 1
  MaxGap = 1
  MaxTime = 6
  MaxInc = 1
  MaxRestarts = 0
  None = None
PROPERTY QuickRestoreRollsBack
