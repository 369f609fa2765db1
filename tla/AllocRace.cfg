SPECIFICATION Spec
CONSTANTS
  User = {u1, u2}
  NoUser = NoUser
  Address = {1, 2}
  NoAddress = NoAddress
  Key = {k1, k2, k3, k4}
  NoKey = NoKey
  Overlapping = TRUE
  Deleting = FALSE
  Faults = {"lookup", "save", "list", "create", "peer", "crash"}
INVARIANTS
  TypeOK
  IssuedIsRecorded
  StoredKeyIsAccepted
PROPERTIES
  LeaseSpec
