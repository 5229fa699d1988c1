\* A tab, a discard, three of the starts of the application and the requests to
\* restore; the host dies, the browser restarts, the application dies or stops.
SPECIFICATION FairSpec
CONSTANTS
  Txs = {x1}
  Tabs = {a}
  None = None
  MaxPosted = 1
  MaxOwner = 3
  MaxFaults = 1
  Faults = {"host", "browser", "api", "pipe", "app"}
INVARIANTS TypeOK DiscardedOnce RecordKept StillKnown AuditFaithful OutcomeAccounted
PROPERTIES StopReturns
CHECK_DEADLOCK FALSE
