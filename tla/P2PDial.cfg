\* The target has two addresses, reached over one path or over two; one of the
\* clients may reconnect.  The network loses any session.
SPECIFICATION Spec
CONSTANTS
  Dials = {d1, d2}
  Reconnecting = {d1}
INVARIANTS
  TypeOK
  WinnerIsKept
  NoStrayClient
  EveryoneReturns
  ExitIsNoticed
\* The connection is made once.
CHECK_DEADLOCK FALSE
