\* One stream, over either kind of connection.
SPECIFICATION FairSpec
CONSTANTS
  Modes = {"direct", "relay"}
INVARIANTS
  TypeOK
PROPERTIES
  EndsTogether
  ErrorIsUndone
  RefinesStreamService
\* The stream is opened once.
CHECK_DEADLOCK FALSE
