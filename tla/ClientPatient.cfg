SPECIFICATION Spec
CONSTANTS
  Attempt = {a1, a2}
  NoAttempt = NoAttempt
  Handler = {h1}
  Route = {r1, r2}
  Default = Default
  Patient = TRUE
  Faults = {"auth", "dial", "tun", "configure", "crash"}
INVARIANTS
  NoOrphan
  ConnectedIsWhole
  ReportedRoutesInstalled
PROPERTIES
  SessionSpec
