\* No statement fails: a crash leaves an episode open.
SPECIFICATION Spec
CONSTANTS
  work = work
  play = play
  Contexts = {work, play}
  Rows = {1, 2, 3, 4}
  Second = 2
  MaxTime = 12
  Retention = 4
  Faults = {}
  MaxCrashes = 1
  None = None
PROPERTY RetentionEnforced
