SPECIFICATION Spec
CONSTANTS
  Rule = {1, 2}
  Foreign = {1}
  Yaml = {1, 2}
  Http = {h1, h2}
  Ctl = {w1}
  MaxCopies = 2
  MaxAtOnce = 2
  Faults = {"read", "forward", "check", "add", "delete", "kill"}
INVARIANTS
  TypeOK
  ForeignKept
  CopiesTracked
  RulesApplied
  NoDuplicate
SYMMETRY Symmetry
VIEW View
