\* Two tries to connect and two to reconnect, three sessions: a first one, a
\* reconnection, and a reconnection of that.
SPECIFICATION FairSpec
CONSTANTS
  ConnectTries = 2
  ReconnectTries = 2
  MaxSessions = 3
INVARIANTS
  TypeOK
  OneMessageLoop
  ConnectedIsWatched
  NoOrphanSession
  EndIsFinal
PROPERTIES
  NeverAdrift
  CloseHappens
CHECK_DEADLOCK FALSE
