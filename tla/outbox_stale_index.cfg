\* The outbox beside what the adapter takes a 409 for.
CONSTANTS
  j1 = j1
  j2 = j2
  p1 = p1
  Job = {j1, j2}
  Process = {p1}
  HostOf <- MCHostOf
  NoOwner = NoOwner
  MaxVersion = 2
  MaxAttempts = 2
  MaxTries = 2
  MaxFaults = 1
SPECIFICATION Spec
INVARIANT DoneIsIndexed
CHECK_DEADLOCK FALSE
