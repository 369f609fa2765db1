\* Each device sends two numbered datagrams; sockets and connection hold one.
CONSTANTS
  Capacity = 1
  MaxSent = 2
  Faults = {"dial", "udp", "refused", "cut", "exit"}
SPECIFICATION FairSpec
INVARIANTS
  TypeOK
  ReplyHasAddress
  SilenceIsNoEnd
  NothingLost
PROPERTIES
  PipeSpec
  EndSpreads
  TrafficFlows
