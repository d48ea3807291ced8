\* What the index holds: two versions, two attempts at most, one fault, and fair scheduling.
CONSTANTS
  j1 = j1
  j2 = j2
  p1 = p1
  Job = {j1, j2}
  Process = {p1}
  HostOf <- MCHostOf
  NoOwner = NoOwner
  MaxVersion = 2
  MaxAttempts = 2
  MaxTries = 2
  MaxFaults = 1
SPECIFICATION FairSpec
INVARIANT DoneIsIndexedOrEmbedded
PROPERTY KeepsPromise
PROPERTY EventuallyDecided
CHECK_DEADLOCK FALSE
