\* One session of each peer.
SPECIFICATION FairSpec
CONSTANTS
  Source = Source
  Target = Target
  Reconnecting = {}
  MaxConns = 1
PROPERTIES
  WaitEnds
CHECK_DEADLOCK FALSE
