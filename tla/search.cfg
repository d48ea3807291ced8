\* Pages of two over four messages, with a change of the index or a midnight in between.
CONSTANTS
  m1 = m1  m2 = m2  m3 = m3  m4 = m4
  Message = {m1, m2, m3, m4}
  Age <- MCAge
  Id <- MCId
  Late = {m2}
  Mentions = {m1, m3}
  Near <- MCNear
  PageSize = 2
  Starts <- MCStarts
  Zones <- MCZones
  Plans <- MCPlans
  MaxChanges = 1
\* A reading comes to an end.
CHECK_DEADLOCK FALSE
SPECIFICATION Spec
INVARIANT SearchInv
INVARIANT PagesMakeTheList
INVARIANT WindowsAreRight
