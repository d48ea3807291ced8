\* Two requests of one session over one connection, a role of the system and one of the tenant.
CONSTANTS
  s1 = s1  q1 = q1  q2 = q2
  viewer = viewer  auditor = auditor
  read = read
  contoso = contoso  fabrikam = fabrikam
  Session = {s1}
  Request = {q1, q2}
  SystemRole = {viewer}
  TenantRole = {auditor}
  Permission = {read}
  Seeded <- MCSeeded
  Org = {contoso, fabrikam}
  PoolSize = 1
  MaxChanges = 2
\* The system stops when the requests are answered; that they are is the property below.
CHECK_DEADLOCK FALSE
SPECIFICATION Spec
INVARIANT AdmissionInv
INVARIANT ContextWasInForce
INVARIANT RefusedForCause
PROPERTY EveryRequestIsAnswered
