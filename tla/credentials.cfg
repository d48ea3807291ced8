\* Two folders of one account in one process, three pairs after the first, two faults.
CONSTANTS
  f1 = f1
  f2 = f2
  p1 = p1
  Folder = {f1, f2}
  Process = {p1}
  HostOf <- MCHostOf
  None = None
  Explains = TRUE
  MaxPairs = 3
  MaxFaults = 2
SPECIFICATION Spec
INVARIANT CredentialInv
INVARIANT RefreshNotRepeated
INVARIANT PairNotLost
INVARIANT ReauthHasCause
PROPERTY NeverOlderPair
CHECK_DEADLOCK FALSE
