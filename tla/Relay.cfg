\* One session of each peer, which may be lost; the broker link fails once and the
\* record goes.  Requests that wait on the relay are assumed nothing of: their
\* timer does not end them.
SPECIFICATION LiveSpec
CONSTANTS
  Source = Source
  Target = Target
  Reconnecting = {}
  MaxConns = 1
INVARIANTS
  TypeOK
  TableHoldsTheOpenOne
  OkMeansPartner
  NeverBothWait
PROPERTIES
  
  ConnectEnds
CHECK_DEADLOCK FALSE
