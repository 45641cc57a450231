------------------------------ MODULE Channel ------------------------------
(***************************************************************************)
(* network.Channel: request/reply over one QUIC stream, seen from one end. *)
(*                                                                         *)
(* Any number of goroutines call Send.  A Send that asks for an            *)
(* acknowledgement enters a result channel in the table acks, writes its   *)
(* frame, and waits for the result channel or for its timer.  Readers take *)
(* frames off the stream under rmutex; an ACKR frame goes to the result    *)
(* channel of its id, every other frame is returned to the caller of Read. *)
(* Close closes every result channel that is still in the table.           *)
(*                                                                         *)
(* A message id is a fresh uuid, so a call of Send stands for its id.  A   *)
(* frame is written by one Write under wmutex and read under rmutex: it is *)
(* never torn, and its header and encoding are left out.                   *)
(***************************************************************************)
EXTENDS Naturals, Sequences

CONSTANTS
  AckSends,      \* the calls of Send whose message asks for a reply
  PlainSends,    \* the calls of Send whose message does not
  ReadingSends,  \* the AckSends made by SendAndRead: each starts a Read(false)
  Listeners,     \* the goroutines that loop on Read(true): none or one
  Pushes,        \* the messages the peer sends of its own accord
  UnknownPushes, \* the Pushes whose type no unmarshaler knows
  Nobody         \* no call, no reader, no frame

ASSUME ChannelAssumption ==
  /\ ReadingSends \subseteq AckSends
  /\ UnknownPushes \subseteq Pushes
  /\ AckSends \cap PlainSends = {}
  /\ Listeners \cap AckSends = {}
  /\ Nobody \notin AckSends \cup PlainSends \cup Listeners \cup Pushes

VARIABLES
  call,       \* where each Send stands
  outcome,    \* what each Send returned
  answer,     \* the id of the reply each AckSend returned
  acks,       \* Channel.acks: the ids with a result channel in the table
  resChan,    \* what the buffered result channel of each AckSend holds
  shut,       \* the result channels that were closed
  reader,     \* where each Read stands
  rmutex,     \* the reader that holds Channel.rmutex
  frame,      \* the frame that reader has taken off the stream
  inbox,      \* the frames the peer has written and nobody has read
  asked,      \* the requests that reached the stream
  answered,   \* the requests the peer has replied to
  pushed,     \* the pushes the peer has sent
  closed,     \* Channel.Close was called: the stream refuses writes
  link,       \* "up" until the QUIC session under the stream dies
  panicked    \* a send on, or a second close of, a closed Go channel

callVars   == <<call, outcome, answer>>
tableVars  == <<acks, resChan, shut, panicked>>
readerVars == <<reader, rmutex, frame>>
peerVars   == <<inbox, answered, pushed>>
vars == <<callVars, tableVars, readerVars, peerVars, asked, closed, link>>

Sends   == AckSends \cup PlainSends
Readers == Listeners \cup ReadingSends

\* The kinds of model.HeaderData_Type: an ACKR carries the id of its request.
ReplyFrame(s) == [type |-> "ACKR", id |-> s]
PushFrame(p)  == [type |-> "NORMAL", id |-> p]
Frames == [type : {"ACKR"}, id : AckSends] \cup [type : {"NORMAL"}, id : Pushes]

Init ==
  /\ call = [s \in Sends |-> "idle"]
  /\ outcome = [s \in Sends |-> "none"]
  /\ answer = [s \in AckSends |-> Nobody]
  /\ acks = {}
  /\ resChan = [s \in AckSends |-> Nobody]
  /\ shut = {}
  /\ reader = [r \in Readers |-> IF r \in Listeners THEN "ready" ELSE "off"]
  /\ rmutex = Nobody
  /\ frame = Nobody
  /\ inbox = <<>>
  /\ asked = {}
  /\ answered = {}
  /\ pushed = {}
  /\ closed = FALSE
  /\ link = "up"
  /\ panicked = FALSE

-----------------------------------------------------------------------------
(* Send *)

\* Mutant: SendAndRead starts no Read.
RegisterOnly(s) ==
  /\ call[s] = "idle"
  /\ call' = [call EXCEPT ![s] = "registered"]
  /\ acks' = acks \cup {s}
  /\ UNCHANGED <<outcome, answer, resChan, shut, panicked, readerVars>>
  /\ UNCHANGED <<peerVars, asked, closed, link>>

\* A Send with Ack enters its result channel in the table, under amutex;
\* SendAndRead has started a Read(false) before it.
Register(s) ==
  /\ call[s] = "idle"
  /\ call' = [call EXCEPT ![s] = "registered"]
  /\ acks' = acks \cup {s}
  /\ reader' = IF s \in ReadingSends THEN [reader EXCEPT ![s] = "ready"] ELSE reader
  /\ UNCHANGED <<outcome, answer, resChan, shut, panicked, rmutex, frame>>
  /\ UNCHANGED <<peerVars, asked, closed, link>>

CanWrite == ~closed /\ link = "up"

\* The frame reaches the stream and the call waits for its reply.
WriteRequest(s) ==
  /\ call[s] = "registered"
  /\ CanWrite
  /\ call' = [call EXCEPT ![s] = "waiting"]
  /\ asked' = asked \cup {s}
  /\ UNCHANGED <<outcome, answer, tableVars, readerVars, peerVars, closed, link>>

\* The write fails: Send returns at once and leaves its entry in the table.
WriteFails(s) ==
  /\ \/ s \in AckSends /\ call[s] = "registered"
     \/ s \in PlainSends /\ call[s] = "idle"
  /\ ~CanWrite
  /\ call' = [call EXCEPT ![s] = "returned"]
  /\ outcome' = [outcome EXCEPT ![s] = "error"]
  /\ UNCHANGED <<answer, tableVars, readerVars, peerVars, asked, closed, link>>

\* Mutant: every message gets an entry in the table.
WritePlainWithEntry(s) ==
  /\ call[s] = "idle"
  /\ CanWrite
  /\ call' = [call EXCEPT ![s] = "returned"]
  /\ outcome' = [outcome EXCEPT ![s] = "sent"]
  /\ acks' = acks \cup {s}
  /\ UNCHANGED <<answer, resChan, shut, panicked, readerVars, peerVars, asked, closed, link>>

\* A message that needs no reply: Send returns after the write.
WritePlain(s) ==
  /\ call[s] = "idle"
  /\ CanWrite
  /\ call' = [call EXCEPT ![s] = "returned"]
  /\ outcome' = [outcome EXCEPT ![s] = "sent"]
  /\ UNCHANGED <<answer, tableVars, readerVars, peerVars, asked, closed, link>>

\* The select of Send takes the buffered reply, ...
TakeReply(s) ==
  /\ call[s] = "waiting"
  /\ resChan[s] # Nobody
  /\ call' = [call EXCEPT ![s] = "leaving"]
  /\ outcome' = [outcome EXCEPT ![s] = "reply"]
  /\ answer' = [answer EXCEPT ![s] = resChan[s]]
  /\ resChan' = [resChan EXCEPT ![s] = Nobody]
  /\ UNCHANGED <<acks, shut, panicked, readerVars, peerVars, asked, closed, link>>

\* Mutant: a closed result channel counts as a reply.
TakeClosedAsReply(s) ==
  /\ call[s] = "waiting"
  /\ resChan[s] = Nobody
  /\ s \in shut
  /\ call' = [call EXCEPT ![s] = "leaving"]
  /\ outcome' = [outcome EXCEPT ![s] = "reply"]
  /\ UNCHANGED <<answer, tableVars, readerVars, peerVars, asked, closed, link>>

\* ... or finds the channel closed and empty, ...
TakeClosed(s) ==
  /\ call[s] = "waiting"
  /\ resChan[s] = Nobody
  /\ s \in shut
  /\ call' = [call EXCEPT ![s] = "leaving"]
  /\ outcome' = [outcome EXCEPT ![s] = "closed"]
  /\ UNCHANGED <<answer, tableVars, readerVars, peerVars, asked, closed, link>>

\* ... or its timer fires.
Timeout(s) ==
  /\ call[s] = "waiting"
  /\ call' = [call EXCEPT ![s] = "leaving"]
  /\ outcome' = [outcome EXCEPT ![s] = "timeout"]
  /\ UNCHANGED <<answer, tableVars, readerVars, peerVars, asked, closed, link>>

\* The entry is deleted under amutex and Send returns.
Leave(s) ==
  /\ call[s] = "leaving"
  /\ call' = [call EXCEPT ![s] = "returned"]
  /\ acks' = acks \ {s}
  /\ UNCHANGED <<outcome, answer, resChan, shut, panicked>>
  /\ UNCHANGED <<readerVars, peerVars, asked, closed, link>>

-----------------------------------------------------------------------------
(* Read *)

LockRead(r) ==
  /\ reader[r] = "ready"
  /\ rmutex = Nobody
  /\ rmutex' = r
  /\ reader' = [reader EXCEPT ![r] = "reading"]
  /\ UNCHANGED <<callVars, tableVars, frame, peerVars, asked, closed, link>>

TakeFrame(r) ==
  /\ reader[r] = "reading"
  /\ link = "up"
  /\ inbox # <<>>
  /\ frame' = Head(inbox)
  /\ inbox' = Tail(inbox)
  /\ reader' = [reader EXCEPT ![r] = "holding"]
  /\ UNCHANGED <<callVars, tableVars, rmutex, answered, pushed, asked, closed, link>>

\* Mutant: a reply goes to whichever call waits.
DeliverToAny(s) ==
  IF acks = {}
  THEN UNCHANGED <<resChan, panicked>>
  ELSE \E w \in acks :
         /\ panicked' = (panicked \/ w \in shut)
         /\ resChan' = IF resChan[w] = Nobody THEN [resChan EXCEPT ![w] = s] ELSE resChan

\* The reply goes to the result channel of its id, if the id is still in the
\* table; the buffered send drops it when the buffer is full.
Deliver(s) ==
  IF s \notin acks
  THEN UNCHANGED <<resChan, panicked>>
  ELSE /\ panicked' = (panicked \/ s \in shut)
       /\ resChan' = IF resChan[s] = Nobody THEN [resChan EXCEPT ![s] = s] ELSE resChan

\* An ACKR frame: Read(true) goes on reading under rmutex, Read(false) returns.
HandleReply(r) ==
  /\ reader[r] = "holding"
  /\ frame.type = "ACKR"
  /\ Deliver(frame.id)
  /\ frame' = Nobody
  /\ IF r \in Listeners
     THEN reader' = [reader EXCEPT ![r] = "reading"] /\ UNCHANGED rmutex
     ELSE reader' = [reader EXCEPT ![r] = "done"] /\ rmutex' = Nobody
  /\ UNCHANGED <<callVars, acks, shut, peerVars, asked, closed, link>>

\* Mutant: Read returns without unlocking rmutex.
HandlePushLocked(r) ==
  /\ reader[r] = "holding"
  /\ frame.type = "NORMAL"
  /\ frame' = Nobody
  /\ reader' = [reader EXCEPT ![r] =
       IF r \in Listeners /\ frame.id \notin UnknownPushes THEN "ready" ELSE "done"]
  /\ UNCHANGED <<rmutex, callVars, tableVars, peerVars, asked, closed, link>>

\* Any other frame is returned to the caller of Read: the loop dispatches it
\* and reads again, SendAndRead's Read(false) drops it.  A frame no
\* unmarshaler knows makes Read return an error, which ends the loop.
HandlePush(r) ==
  /\ reader[r] = "holding"
  /\ frame.type = "NORMAL"
  /\ rmutex' = Nobody
  /\ frame' = Nobody
  /\ reader' = [reader EXCEPT ![r] =
       IF r \in Listeners /\ frame.id \notin UnknownPushes THEN "ready" ELSE "done"]
  /\ UNCHANGED <<callVars, tableVars, peerVars, asked, closed, link>>

\* The session died: io.ReadFull fails and Read returns its error.
ReadFails(r) ==
  /\ reader[r] = "reading"
  /\ link = "down"
  /\ rmutex' = Nobody
  /\ reader' = [reader EXCEPT ![r] = "done"]
  /\ UNCHANGED <<callVars, tableVars, frame, peerVars, asked, closed, link>>

-----------------------------------------------------------------------------
(* Close, and the world around the channel *)

\* Mutants: Close leaves the closed channels in the table; Close only empties
\* the table.
CloseWithoutDelete ==
  /\ ~closed \/ acks # {}
  /\ panicked' = (panicked \/ acks \cap shut # {})
  /\ shut' = shut \cup acks
  /\ closed' = TRUE
  /\ UNCHANGED <<acks, callVars, resChan, readerVars, peerVars, asked, link>>

CloseWithoutShut ==
  /\ ~closed \/ acks # {}
  /\ acks' = {}
  /\ closed' = TRUE
  /\ UNCHANGED <<callVars, shut, panicked, resChan, readerVars, peerVars, asked, link>>

\* Close closes and deletes every entry of the table under amutex, then the
\* stream's sending side; Read is not interrupted.
Close ==
  /\ ~closed \/ acks # {}
  /\ panicked' = (panicked \/ acks \cap shut # {})
  /\ shut' = shut \cup acks
  /\ acks' = {}
  /\ closed' = TRUE
  /\ UNCHANGED <<callVars, resChan, readerVars, peerVars, asked, link>>

\* The owner of the channel closes it once its read loop has ended.
OwnerCloses == (\E r \in Listeners : reader[r] = "done") /\ Close

\* The peer's handlers run concurrently: replies come in any order, or never.
PeerReplies(s) ==
  /\ link = "up"
  /\ s \in asked \ answered
  /\ answered' = answered \cup {s}
  /\ inbox' = Append(inbox, ReplyFrame(s))
  /\ UNCHANGED <<callVars, tableVars, readerVars, pushed, asked, closed, link>>

PeerPushes(p) ==
  /\ link = "up"
  /\ p \notin pushed
  /\ pushed' = pushed \cup {p}
  /\ inbox' = Append(inbox, PushFrame(p))
  /\ UNCHANGED <<callVars, tableVars, readerVars, answered, asked, closed, link>>

LinkDies ==
  /\ link = "up"
  /\ link' = "down"
  /\ UNCHANGED <<callVars, tableVars, readerVars, peerVars, asked, closed>>

-----------------------------------------------------------------------------

AckStep(s) ==
  \/ Register(s)
  \/ WriteRequest(s)
  \/ TakeReply(s)
  \/ TakeClosed(s)
  \/ Timeout(s)
  \/ Leave(s)

ReadStep(r) ==
  \/ LockRead(r)
  \/ TakeFrame(r)
  \/ HandleReply(r)
  \/ HandlePush(r)
  \/ ReadFails(r)

Next ==
  \/ \E s \in AckSends : AckStep(s) \/ PeerReplies(s)
  \/ \E s \in PlainSends : WritePlain(s)
  \/ \E s \in Sends : WriteFails(s)
  \/ \E r \in Readers : ReadStep(r)
  \/ \E p \in Pushes : PeerPushes(p)
  \/ Close
  \/ LinkDies

Spec == Init /\ [][Next]_vars

\* Goroutines that can run are scheduled, and an owner whose loop ended
\* closes the channel.  Nothing is assumed of the peer, the link or timers.
Scheduling ==
  /\ \A s \in AckSends :
       WF_vars(WriteRequest(s) \/ WriteFails(s) \/ TakeReply(s) \/ TakeClosed(s) \/ Leave(s))
  /\ \A r \in Readers : WF_vars(ReadStep(r))
  /\ WF_vars(OwnerCloses)

PromptSpec == Spec /\ Scheduling

-----------------------------------------------------------------------------
(* Properties *)

TypeOK ==
  /\ call \in [Sends -> {"idle", "registered", "waiting", "leaving", "returned"}]
  /\ outcome \in [Sends -> {"none", "reply", "closed", "timeout", "error", "sent"}]
  /\ answer \in [AckSends -> AckSends \cup {Nobody}]
  /\ acks \subseteq AckSends
  /\ resChan \in [AckSends -> AckSends \cup {Nobody}]
  /\ shut \subseteq AckSends
  /\ reader \in [Readers -> {"off", "ready", "reading", "holding", "done"}]
  /\ rmutex \in Readers \cup {Nobody}
  /\ frame \in Frames \cup {Nobody}
  /\ inbox \in Seq(Frames)
  /\ asked \subseteq AckSends
  /\ answered \subseteq AckSends
  /\ pushed \subseteq Pushes
  /\ closed \in BOOLEAN
  /\ link \in {"up", "down"}
  /\ panicked \in BOOLEAN

\* However replies, timeouts and closes interleave, a Send that returns a
\* reply returns the reply to its own request, which the peer really gave.
RepliesCorrelated ==
  \A s \in AckSends :
    outcome[s] = "reply" => answer[s] = s /\ s \in answered

\* Read never sends on a result channel that Close has closed, and Close
\* never closes one twice: Go would panic, and nothing recovers there.
NoClosedChannelPanic == ~panicked

\* Once the channel is closed no Send is left to its timer: a call that still
\* waits has a reply in its buffer or a closed result channel.
CloseReleasesWaiters ==
  \A s \in AckSends :
    closed /\ call[s] = "waiting" => resChan[s] # Nobody \/ s \in shut

\* The table holds no entry of a finished call, except one whose write failed:
\* that return path of Send forgets the delete.
EntriesBelongToCalls ==
  \A s \in acks :
    call[s] \in {"registered", "waiting", "leaving"} \/ outcome[s] = "error"

\* The table and the calls agree, also after Close.
TableIsExact == EntriesBelongToCalls /\ CloseReleasesWaiters

\* On a channel with a read loop no Send needs its timer once the peer has
\* replied or the channel was closed: that alone makes it return.
ReturnsWithoutTimer ==
  \A s \in AckSends :
    call[s] = "waiting" /\ (closed \/ s \in answered) ~> call[s] = "returned"

\* SendAndRead on a channel nobody else reads ("sends and reads a single
\* message"): a reply the peer has given is read while the session lives.
SingleReadSuffices ==
  \A s \in ReadingSends :
    call[s] = "waiting" /\ s \in answered ~> call[s] = "returned" \/ link = "down"

\* How a Send looks to the goroutine that called it.
RequestState(s) ==
  CASE call[s] = "idle" -> "idle"
    [] call[s] = "returned" -> IF outcome[s] = "reply" THEN "replied" ELSE "failed"
    [] OTHER -> "pending"

Contract == INSTANCE RequestReply WITH
  Requests <- AckSends,
  request  <- [s \in AckSends |-> RequestState(s)],
  served   <- answered

\* The channel implements the request/reply contract: each Send ends once, and
\* with a reply only if the peer gave one to this Send.
RefinesRequestReply == Contract!RRSpec

=============================================================================
