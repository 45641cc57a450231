\* Two threads close one client.
SPECIFICATION Spec
CONSTANTS
  Sessions = {s1, s2}
  Ids = {x}
  AppCloses = {}
  ShutsDown = FALSE
  None = None
INVARIANTS
  NoCrash
CHECK_DEADLOCK FALSE
