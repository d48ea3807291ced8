\* Two runs of one process, two changes of two messages, one page a run, one fault.
CONSTANTS
  r1 = r1
  r2 = r2
  p1 = p1
  Run = {r1, r2}
  Process = {p1}
  HostOf <- MCHostOf
  None = None
  NamesAccount = TRUE
  Msg = {m1, m2}
  MaxChange = 2
  MaxPages = 1
  MaxFaults = 1
SPECIFICATION Spec
INVARIANT SyncInv
INVARIANT NothingSkipped
INVARIANT ReplaysAreSilent
PROPERTY RowsFollowFolder
CHECK_DEADLOCK FALSE
