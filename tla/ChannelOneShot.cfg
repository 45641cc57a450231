\* A channel nobody reads but its SendAndRead calls.
SPECIFICATION PromptSpec
CONSTANTS
  AckSends = {a1, a2}
  PlainSends = {}
  ReadingSends = {a1, a2}
  Listeners = {}
  Pushes = {}
  UnknownPushes = {}
  Nobody = Nobody
PROPERTIES
  SingleReadSuffices
CHECK_DEADLOCK FALSE
