\* A crash, a restart and a reuse of the pid, with a journal that can be opened.
SPECIFICATION FairSpec
CONSTANTS
  Pids = {p1}
  Txs = {t1, t2}
  Callers = {monitor}
  Monitor = monitor
  Actions = {"LowerPriority"}
  MaxIncarnation = 2
  MaxCrashes = 1
  Faults = {"save"}
  None = None
INVARIANTS NoOrphan OriginalRestored
PROPERTIES SettledRowsFinal EventuallyReleased
