\* The class's contract: a second thread uses the coordinator concurrently.
SPECIFICATION Spec
CONSTANTS
  Pids = {p1}
  Txs = {t1, t2}
  Callers = {monitor, client}
  Monitor = monitor
  Actions = {"LowerPriority"}
  MaxIncarnation = 1
  MaxCrashes = 1
  Faults = {"capture", "apply", "restore", "save", "open", "load"}
  None = None
SYMMETRY Symmetry
INVARIANTS TypeOK UndoRecordKept NoOrphan OriginalRestored
PROPERTIES KeepsPromise
