\* Two sessions, of one client or of two; the application may close either,
\* and Server.Close runs beside them.
SPECIFICATION Spec
CONSTANTS
  Sessions = {s1, s2}
  Ids = {x, y}
  AppCloses = {s1, s2}
  ShutsDown = TRUE
  None = None
SYMMETRY Symmetry
INVARIANTS
  TypeOK
  RegisteredUnderItsId
  
PROPERTIES
  TakeoverClosesOld
  ShutdownEmptiesRegistry
CHECK_DEADLOCK FALSE
