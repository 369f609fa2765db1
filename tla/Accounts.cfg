CONSTANTS
  User = {u1}
  Password = {p1, p2}
  Http = {h1}
  Ctl = {w1}
  Registration = TRUE
  None = None
SPECIFICATION Spec
INVARIANTS
  TypeOK
  AcknowledgedStays
