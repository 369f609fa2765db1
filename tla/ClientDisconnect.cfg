SPECIFICATION Spec
CONSTANTS
  Attempt = {a1, a2}
  NoAttempt = NoAttempt
  Handler = {}
  Route = {r1}
  Default = Default
  Patient = FALSE
  Faults = {}
PROPERTIES
  DisconnectStays
CHECK_DEADLOCK FALSE
