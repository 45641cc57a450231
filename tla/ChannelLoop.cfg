\* A channel with a read loop, as udp/client and udp/server keep one: two
\* requests, a plain message, and two pushes of which one is unknown.
\* Timers may never fire.
SPECIFICATION PromptSpec
CONSTANTS
  AckSends = {a1, a2}
  PlainSends = {p1}
  ReadingSends = {}
  Listeners = {loop}
  Pushes = {hello, junk}
  UnknownPushes = {junk}
  Nobody = Nobody
INVARIANTS
  TypeOK
  RepliesCorrelated
  NoClosedChannelPanic
  TableIsExact
PROPERTIES
  ReturnsWithoutTimer
  RefinesRequestReply
\* Every call is made once: the system stops.
CHECK_DEADLOCK FALSE
