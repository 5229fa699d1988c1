\* Six snapshots in batches of two; the database may refuse any batch, and
\* the application is closed at any point of its life.
SPECIFICATION LoopFairSpec
CONSTANTS
  BatchSize = 2
  MaxSnapshots = 6
  Faults = {"open", "write"}
  AiWindow = 2
  Interval = 3
  ConfiguredTtl = 1
  TriggerStreak = 2
  ClearStreak = 2
INVARIANTS LoopTypeOK InOrder NothingLost StorageOutlivesWriters FallbackAfterFailure
PROPERTIES Shutdown AlertsSpaced
CHECK_DEADLOCK FALSE
