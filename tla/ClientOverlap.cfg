SPECIFICATION FairSpec
CONSTANTS
  Attempt = {a1, a2}
  NoAttempt = NoAttempt
  Handler = {}
  Route = {r1}
  Default = Default
  Patient = FALSE
  Faults = {"auth", "dial", "tun", "configure", "routes", "disk", "ipc", "crash"}
INVARIANTS
  FailedAttemptReleases
  PublishedInterfaceIsUp
  ConnectingHasWorker
PROPERTIES
  AttemptEnds
