\* Two sessions, two requests at once, four tokens, one fault.  A session lives one unit
\* of the clock's two and may be idle for one, so that one that was used meanwhile ends
\* for its age and one that was not for both.
CONSTANTS
  s1 = s1
  s2 = s2
  r1 = r1
  r2 = r2
  Session = {s1, s2}
  Request = {r1, r2}
  None = None
  Lifetimes <- MCLifetimes
  IdleTimeout = 1
  MaxToken = 4
  MaxTime = 2
  MaxFaults = 1
SPECIFICATION Spec
INVARIANT SessionInv
INVARIANT ChainHasOneEnd
INVARIANT HolderKeepsAccess
INVARIANT CirclesAreOfRevocations
SYMMETRY Interchangeable
PROPERTY RevokedIsFinal
PROPERTY RevokedForCause
CHECK_DEADLOCK FALSE
