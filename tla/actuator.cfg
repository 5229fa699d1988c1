\* A session of two requests about two proofs, a service started three times.
SPECIFICATION Spec
CONSTANTS
  Proofs = {p1, p2}
  Sessions = {s1}
  None = None
  Life = 2
  Skew = 1
  MaxRequests = 2
  MaxTime = 3
  MaxStarts = 3
  Faults = {"crash", "ledger", "open"}
SYMMETRY Symmetry
INVARIANTS TypeOK ClaimedOnce ClaimsJustified ClaimsConcluded
PROPERTIES LedgerForward
CHECK_DEADLOCK FALSE
