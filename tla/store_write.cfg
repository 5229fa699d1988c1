\* The write lock may be taken, any statement may fail, the process may crash.
SPECIFICATION Spec
CONSTANTS
  work = work
  play = play
  Contexts = {work, play}
  Rows = {1, 2, 3, 4, 5}
  Second = 2
  MaxTime = 10
  Retention = 4
  Faults = {"busy", "write", "close"}
  MaxCrashes = 1
  None = None
SYMMETRY Symmetry
INVARIANTS TypeOK EpisodeIsolation
PROPERTIES ClosedEpisodesFinal
