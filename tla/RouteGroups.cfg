CONSTANTS
  User = {u1}
  Group = {g1, g2}
  Route = {r1, r2}
  Call = {h1, w1}
  Ctl = {w1}
  None = None
  Faults = {"delete", "query"}
SYMMETRY Symmetry
SPECIFICATION Spec
INVARIANTS
  TypeOK
  OrphansExplained
  RoutesPushed
