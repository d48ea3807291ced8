\* A second login of a person who has one, without any fault.
CONSTANTS
  st1 = st1  st2 = st2
  c1 = c1  c2 = c2
  ann = ann  bob = bob
  mail1 = mail1  mail2 = mail2  admin = admin
  State = {st1, st2}
  Callback = {c1, c2}
  Person = {ann, bob}
  Email = {mail1, mail2, admin}
  EmailsOf <- MCEmailsOf
  Taken = {admin}
  MaxFaults = 0
  MaxChanges = 0
\* The system stops when the callbacks are answered.
CHECK_DEADLOCK FALSE
SPECIFICATION Spec
PROPERTY ReturningUserGoesOn
