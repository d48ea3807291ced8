\* No faults; the folder is of the class mip_models defines.
CONSTANTS
  r1 = r1
  r2 = r2
  p1 = p1
  Run = {r1}
  Process = {p1}
  HostOf <- MCHostOf
  None = None
  NamesAccount = FALSE
  Msg = {m1}
  MaxChange = 2
  MaxPages = 1
  MaxFaults = 0
SPECIFICATION FairSpec
PROPERTY EventuallySettled
CHECK_DEADLOCK FALSE
