CONSTANTS
  User = {u1}
  Tunnel = {t1, t2}
  Node = {n1}
  Admin = {a1, a2}
  None = None
  Faults = {"delete", "create"}
SYMMETRY Symmetry
SPECIFICATION Spec
INVARIANTS
  TypeOK
  RestrictionHolds
  TunnelStateStays
