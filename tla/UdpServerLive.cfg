\* Two sessions of one client, under the fairness of the goroutines.
SPECIFICATION FairSpec
CONSTANTS
  Sessions = {s1, s2}
  Ids = {x}
  AppCloses = {}
  ShutsDown = FALSE
  None = None
PROPERTIES
  HandshakeResolves
  DeadIsReported
CHECK_DEADLOCK FALSE
