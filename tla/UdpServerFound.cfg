\* A client reconnects while its old session is being closed.
SPECIFICATION Spec
CONSTANTS
  Sessions = {s1, s2}
  Ids = {x}
  AppCloses = {}
  ShutsDown = FALSE
  None = None
INVARIANTS
  ConnectedIsFound
CHECK_DEADLOCK FALSE
