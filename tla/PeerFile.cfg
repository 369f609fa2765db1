SPECIFICATION Spec
CONSTANTS
  Peer = {p1, p2}
  Call = {c1, c2, c3}
  MaxKeys = 3
INVARIANTS
  TypeOK
  FileListsDevice
  KeySurvives
  DatabaseKeyMatches
CHECK_DEADLOCK FALSE
