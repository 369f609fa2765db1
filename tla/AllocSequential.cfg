SPECIFICATION Spec
CONSTANTS
  User = {u1, u2, u3}
  NoUser = NoUser
  Address = {1, 2}
  NoAddress = NoAddress
  Key = {k1, k2, k3}
  NoKey = NoKey
  Overlapping = FALSE
  Deleting = TRUE
  Faults = {"save", "list", "create", "delete"}
INVARIANTS
  OneAddressPerUser
CHECK_DEADLOCK FALSE
