\* The lease: two jobs of one process, two attempts, two faults.
CONSTANTS
  j1 = j1
  j2 = j2
  p1 = p1
  Job = {j1, j2}
  Process = {p1}
  HostOf <- MCHostOf
  NoOwner = NoOwner
  MaxVersion = 2
  MaxAttempts = 2
  MaxTries = 2
  MaxFaults = 2
SPECIFICATION Spec
INVARIANT OutboxInv
INVARIANT SingleHolder
INVARIANT AttemptBudget
INVARIANT DoneIsFenced
INVARIANT VectorNotOlder
PROPERTY DecidedByLastClaim
CHECK_DEADLOCK FALSE
