\* One statement of a change of context fails.
SPECIFICATION Spec
CONSTANTS
  work = work
  play = play
  Contexts = {work, play}
  Rows = {1, 2, 3, 4}
  Second = 2
  MaxTime = 8
  Retention = 8
  Faults = {"write"}
  MaxCrashes = 0
  None = None
INVARIANT OpenIsActive
