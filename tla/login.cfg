\* Two callbacks of two login attempts; either of two people may sign in for either.
CONSTANTS
  st1 = st1  st2 = st2
  c1 = c1  c2 = c2
  ann = ann  bob = bob
  mail1 = mail1  mail2 = mail2  admin = admin
  State = {st1, st2}
  Callback = {c1, c2}
  Person = {ann, bob}
  Email = {mail1, mail2, admin}
  EmailsOf <- MCEmailsOf
  Taken = {admin}
  MaxFaults = 1
  MaxChanges = 1
\* The system stops when the callbacks are answered; that they are is the property below.
CHECK_DEADLOCK FALSE
SPECIFICATION Spec
INVARIANT LoginInv
INVARIANT ProvisioningIsWhole
INVARIANT KeptTokensNotReplayed
PROPERTY EveryCallbackIsAnswered
