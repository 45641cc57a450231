\* One connection, direct or through a relay.
SPECIFICATION FairSpec
CONSTANTS
  Modes = {"p2p", "relay"}
INVARIANTS
  TypeOK
  SourceIsNotTooEarly
PROPERTIES
  AbandonedIsForgotten
  LostLinkClosesTarget
CHECK_DEADLOCK FALSE
