SPECIFICATION Spec
CONSTANTS
  Attempt = {a1}
  NoAttempt = NoAttempt
  Handler = {h1, h2}
  Route = {r1, r2}
  Default = Default
  Patient = FALSE
  Faults = {"disk"}
INVARIANTS
  TypeOK
  PeerComesBack
  AcceptedIsRouted
SYMMETRY Symmetry
