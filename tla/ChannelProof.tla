---------------------------- MODULE ChannelProof ----------------------------
(***************************************************************************)
(* Proofs about Channel, for any number of calls, readers and pushes.      *)
(*                                                                         *)
(* None of the invariants of Channel is inductive.  What makes them hold   *)
(* is how three places agree about a request: the result-channel table,    *)
(* the buffered result channel, and the reply frames on their way to it.   *)
(* IInv states that agreement; it is its own inductive strengthening.      *)
(***************************************************************************)
EXTENDS Channel, TLAPS

\* An entry of the table is open and belongs to a call that has started; a
\* call that has not left its select has an entry, or Close has shut it.
TableInv ==
  \A s \in AckSends :
    /\ s \in acks => s \notin shut
    /\ s \in acks \cup shut \cup asked => call[s] # "idle"
    /\ call[s] \in {"registered", "waiting"} => s \in acks \cup shut

\* After Close an entry is one that entered the table too late to be written.
LateEntryInv ==
  \A s \in AckSends : closed /\ s \in acks => call[s] = "registered" \/ outcome[s] = "error"

\* A call has an outcome only once its select or its write is over.
OutcomeInv ==
  \A s \in Sends : outcome[s] # "none" => call[s] \in {"leaving", "returned"}

\* What sits in a result channel is the reply to its own request.
BufferInv ==
  \A s \in AckSends : resChan[s] # Nobody => resChan[s] = s /\ s \in answered

\* A reply frame on the stream is one the peer has written.
Genuine(f) == f.type = "ACKR" => f.id \in answered

InboxInv == \A i \in 1..Len(inbox) : Genuine(inbox[i])

\* At most the holder of rmutex is inside Read, and what it holds is a frame.
ReaderInv ==
  \A r \in Readers :
    /\ reader[r] \in {"reading", "holding"} => rmutex = r
    /\ reader[r] = "holding" => frame \in Frames /\ Genuine(frame)

IInv ==
  /\ TypeOK
  /\ TableInv
  /\ LateEntryInv
  /\ OutcomeInv
  /\ BufferInv
  /\ InboxInv
  /\ ReaderInv
  /\ RepliesCorrelated
  /\ EntriesBelongToCalls
  /\ NoClosedChannelPanic

-----------------------------------------------------------------------------
(* The invariant is inductive. *)

\* A fresh channel: empty table, empty stream, no reader inside Read.
LEMMA InitInv == Init => IInv
<1> SUFFICES ASSUME Init PROVE IInv
  OBVIOUS
<1>1. TypeOK
  <2>1. inbox \in Seq(Frames)
    BY DEF Init
  <2>2. reader \in [Readers -> {"off", "ready", "reading", "holding", "done"}]
    BY DEF Init
  <2>3. call \in [Sends -> {"idle", "registered", "waiting", "leaving", "returned"}]
    BY DEF Init
  <2>4. outcome \in [Sends -> {"none", "reply", "closed", "timeout", "error", "sent"}]
    BY DEF Init
  <2> QED
    BY <2>1, <2>2, <2>3, <2>4 DEF Init, TypeOK
<1>2. TableInv /\ LateEntryInv /\ OutcomeInv /\ BufferInv /\ RepliesCorrelated
  BY DEF Init, TableInv, LateEntryInv, OutcomeInv, BufferInv, RepliesCorrelated, Sends
<1>3. InboxInv /\ EntriesBelongToCalls /\ NoClosedChannelPanic
  BY DEF Init, InboxInv, EntriesBelongToCalls, NoClosedChannelPanic
<1>4. ReaderInv
  BY DEF Init, ReaderInv
<1> QED
  BY <1>1, <1>2, <1>3, <1>4 DEF IInv

\* Every operation of the channel, and every move of the peer and the link,
\* keeps the table, the buffers and the frames in agreement.
LEMMA StepInv == IInv /\ [Next]_vars => IInv'
<1> SUFFICES ASSUME IInv, [Next]_vars PROVE IInv'
  OBVIOUS
<1> USE ChannelAssumption DEF vars, callVars, tableVars, readerVars, peerVars,
  Sends, Readers, Frames, ReplyFrame, PushFrame, CanWrite
<1>1. ASSUME NEW s \in AckSends, Register(s) PROVE IInv'
  <2>1. TypeOK'
    BY <1>1 DEF Register, IInv, TypeOK
  <2>2. TableInv'
    BY <1>1 DEF Register, IInv, TypeOK, TableInv
  <2>3. LateEntryInv'
    BY <1>1 DEF Register, IInv, TypeOK, LateEntryInv
  <2>4. OutcomeInv'
    BY <1>1 DEF Register, IInv, TypeOK, OutcomeInv
  <2>5. ReaderInv'
    BY <1>1 DEF Register, IInv, TypeOK, ReaderInv, Genuine
  <2>6. EntriesBelongToCalls'
    BY <1>1 DEF Register, IInv, TypeOK, EntriesBelongToCalls
  <2> QED
    BY <1>1, <2>1, <2>2, <2>3, <2>4, <2>5, <2>6 DEF Register, IInv,
      BufferInv, InboxInv, RepliesCorrelated, NoClosedChannelPanic, Genuine
<1>2. ASSUME NEW s \in AckSends, WriteRequest(s) PROVE IInv'
  <2>1. TypeOK'
    BY <1>2 DEF WriteRequest, IInv, TypeOK
  <2>2. TableInv'
    BY <1>2 DEF WriteRequest, IInv, TypeOK, TableInv
  <2>3. LateEntryInv'
    BY <1>2 DEF WriteRequest, IInv, TypeOK, LateEntryInv
  <2>4. OutcomeInv'
    BY <1>2 DEF WriteRequest, IInv, TypeOK, OutcomeInv
  <2>5. EntriesBelongToCalls'
    BY <1>2 DEF WriteRequest, IInv, TypeOK, EntriesBelongToCalls
  <2> QED
    BY <1>2, <2>1, <2>2, <2>3, <2>4, <2>5 DEF WriteRequest, IInv, BufferInv,
      InboxInv, ReaderInv, RepliesCorrelated, NoClosedChannelPanic, Genuine
<1>3. ASSUME NEW s \in Sends, WriteFails(s) PROVE IInv'
  <2>1. TypeOK'
    BY <1>3 DEF WriteFails, IInv, TypeOK
  <2>2. TableInv'
    BY <1>3 DEF WriteFails, IInv, TypeOK, TableInv
  <2>3. LateEntryInv'
    BY <1>3 DEF WriteFails, IInv, TypeOK, LateEntryInv
  <2>4. OutcomeInv'
    BY <1>3 DEF WriteFails, IInv, TypeOK, OutcomeInv
  <2>5. RepliesCorrelated'
    BY <1>3 DEF WriteFails, IInv, TypeOK, RepliesCorrelated
  <2>6. EntriesBelongToCalls'
    BY <1>3 DEF WriteFails, IInv, TypeOK, EntriesBelongToCalls
  <2> QED
    BY <1>3, <2>1, <2>2, <2>3, <2>4, <2>5, <2>6 DEF WriteFails, IInv,
      BufferInv, InboxInv, ReaderInv, NoClosedChannelPanic, Genuine
<1>4. ASSUME NEW s \in PlainSends, WritePlain(s) PROVE IInv'
  <2>1. TypeOK'
    BY <1>4 DEF WritePlain, IInv, TypeOK
  <2>2. TableInv'
    BY <1>4 DEF WritePlain, IInv, TypeOK, TableInv
  <2>3. LateEntryInv'
    BY <1>4 DEF WritePlain, IInv, TypeOK, LateEntryInv
  <2>4. OutcomeInv'
    BY <1>4 DEF WritePlain, IInv, TypeOK, OutcomeInv
  <2>5. RepliesCorrelated'
    BY <1>4 DEF WritePlain, IInv, TypeOK, RepliesCorrelated
  <2>6. EntriesBelongToCalls'
    BY <1>4 DEF WritePlain, IInv, TypeOK, EntriesBelongToCalls
  <2> QED
    BY <1>4, <2>1, <2>2, <2>3, <2>4, <2>5, <2>6 DEF WritePlain, IInv,
      BufferInv, InboxInv, ReaderInv, NoClosedChannelPanic, Genuine
<1>5. ASSUME NEW s \in AckSends, TakeReply(s) PROVE IInv'
  <2>1. TypeOK'
    BY <1>5 DEF TakeReply, IInv, TypeOK
  <2>2. TableInv'
    BY <1>5 DEF TakeReply, IInv, TypeOK, TableInv
  <2>3. LateEntryInv'
    BY <1>5 DEF TakeReply, IInv, TypeOK, LateEntryInv, OutcomeInv
  <2>4. OutcomeInv'
    BY <1>5 DEF TakeReply, IInv, TypeOK, OutcomeInv
  <2>5. BufferInv'
    BY <1>5 DEF TakeReply, IInv, TypeOK, BufferInv
  <2>6. RepliesCorrelated'
    BY <1>5 DEF TakeReply, IInv, TypeOK, RepliesCorrelated, BufferInv
  <2>7. EntriesBelongToCalls'
    BY <1>5 DEF TakeReply, IInv, TypeOK, EntriesBelongToCalls
  <2> QED
    BY <1>5, <2>1, <2>2, <2>3, <2>4, <2>5, <2>6, <2>7 DEF TakeReply, IInv,
      InboxInv, ReaderInv, NoClosedChannelPanic, Genuine
<1>6. ASSUME NEW s \in AckSends, TakeClosed(s) PROVE IInv'
  <2>1. TypeOK'
    BY <1>6 DEF TakeClosed, IInv, TypeOK
  <2>2. TableInv'
    BY <1>6 DEF TakeClosed, IInv, TypeOK, TableInv
  <2>3. LateEntryInv'
    BY <1>6 DEF TakeClosed, IInv, TypeOK, LateEntryInv, OutcomeInv
  <2>4. OutcomeInv'
    BY <1>6 DEF TakeClosed, IInv, TypeOK, OutcomeInv
  <2>5. RepliesCorrelated'
    BY <1>6 DEF TakeClosed, IInv, TypeOK, RepliesCorrelated
  <2>6. EntriesBelongToCalls'
    BY <1>6 DEF TakeClosed, IInv, TypeOK, EntriesBelongToCalls
  <2> QED
    BY <1>6, <2>1, <2>2, <2>3, <2>4, <2>5, <2>6 DEF TakeClosed, IInv,
      BufferInv, InboxInv, ReaderInv, NoClosedChannelPanic, Genuine
<1>7. ASSUME NEW s \in AckSends, Timeout(s) PROVE IInv'
  <2>1. TypeOK'
    BY <1>7 DEF Timeout, IInv, TypeOK
  <2>2. TableInv'
    BY <1>7 DEF Timeout, IInv, TypeOK, TableInv
  <2>3. LateEntryInv'
    BY <1>7 DEF Timeout, IInv, TypeOK, LateEntryInv, OutcomeInv
  <2>4. OutcomeInv'
    BY <1>7 DEF Timeout, IInv, TypeOK, OutcomeInv
  <2>5. RepliesCorrelated'
    BY <1>7 DEF Timeout, IInv, TypeOK, RepliesCorrelated
  <2>6. EntriesBelongToCalls'
    BY <1>7 DEF Timeout, IInv, TypeOK, EntriesBelongToCalls
  <2> QED
    BY <1>7, <2>1, <2>2, <2>3, <2>4, <2>5, <2>6 DEF Timeout, IInv,
      BufferInv, InboxInv, ReaderInv, NoClosedChannelPanic, Genuine
<1>8. ASSUME NEW s \in AckSends, Leave(s) PROVE IInv'
  <2>1. TypeOK'
    BY <1>8 DEF Leave, IInv, TypeOK
  <2>2. TableInv'
    BY <1>8 DEF Leave, IInv, TypeOK, TableInv
  <2>3. LateEntryInv'
    BY <1>8 DEF Leave, IInv, TypeOK, LateEntryInv
  <2>4. OutcomeInv'
    BY <1>8 DEF Leave, IInv, TypeOK, OutcomeInv
  <2>5. EntriesBelongToCalls'
    BY <1>8 DEF Leave, IInv, TypeOK, EntriesBelongToCalls
  <2> QED
    BY <1>8, <2>1, <2>2, <2>3, <2>4, <2>5 DEF Leave, IInv, BufferInv,
      InboxInv, ReaderInv, RepliesCorrelated, NoClosedChannelPanic, Genuine
<1>9. ASSUME NEW r \in Readers, LockRead(r) PROVE IInv'
  <2>1. TypeOK'
    BY <1>9 DEF LockRead, IInv, TypeOK
  <2>2. ReaderInv'
    BY <1>9 DEF LockRead, IInv, TypeOK, ReaderInv, Genuine
  <2> QED
    BY <1>9, <2>1, <2>2 DEF LockRead, IInv, TableInv, LateEntryInv,
      OutcomeInv, BufferInv, InboxInv, RepliesCorrelated,
      EntriesBelongToCalls, NoClosedChannelPanic, Genuine
<1>10. ASSUME NEW r \in Readers, TakeFrame(r) PROVE IInv'
  <2>1. TypeOK'
    BY <1>10 DEF TakeFrame, IInv, TypeOK, ReaderInv
  <2>2. InboxInv'
    <3>1. inbox \in Seq(Frames) /\ inbox # <<>> /\ inbox' = Tail(inbox)
      BY <1>10 DEF TakeFrame, IInv, TypeOK
    <3>2. \A i \in 1..Len(inbox') : i + 1 \in 1..Len(inbox) /\ inbox'[i] = inbox[i + 1]
      BY <3>1 DEF Frames
    <3> QED
      BY <3>2, <1>10 DEF TakeFrame, IInv, InboxInv, Genuine
  <2>3. ReaderInv'
    BY <1>10 DEF TakeFrame, IInv, TypeOK, ReaderInv, InboxInv, Genuine
  <2> QED
    BY <1>10, <2>1, <2>2, <2>3 DEF TakeFrame, IInv, TableInv, LateEntryInv,
      OutcomeInv, BufferInv, RepliesCorrelated, EntriesBelongToCalls,
      NoClosedChannelPanic
<1>11. ASSUME NEW r \in Readers, HandleReply(r) PROVE IInv'
  <2>1. TypeOK'
    <3>1. TypeOK /\ frame.id \in AckSends
      BY <1>11 DEF HandleReply, IInv, TypeOK, ReaderInv
    <3>2. resChan' \in [AckSends -> AckSends \cup {Nobody}] /\ panicked' \in BOOLEAN
      BY <1>11, <3>1 DEF HandleReply, Deliver, TypeOK
    <3>3. /\ reader' \in [Readers -> {"off", "ready", "reading", "holding", "done"}]
          /\ rmutex' \in Readers \cup {Nobody}
          /\ frame' \in Frames \cup {Nobody}
      BY <1>11, <3>1 DEF HandleReply, TypeOK
    <3> QED
      BY <1>11, <3>1, <3>2, <3>3 DEF HandleReply, TypeOK
  <2>2. BufferInv'
    BY <1>11 DEF HandleReply, Deliver, IInv, TypeOK, BufferInv, ReaderInv,
      Genuine
  <2>3. ReaderInv'
    BY <1>11 DEF HandleReply, Deliver, IInv, TypeOK, ReaderInv, Genuine
  <2>4. NoClosedChannelPanic'
    BY <1>11 DEF HandleReply, Deliver, IInv, TypeOK, NoClosedChannelPanic,
      ReaderInv, TableInv, Genuine
  <2> QED
    BY <1>11, <2>1, <2>2, <2>3, <2>4 DEF HandleReply, IInv, TableInv,
      LateEntryInv, OutcomeInv, InboxInv, RepliesCorrelated,
      EntriesBelongToCalls, Genuine
<1>12. ASSUME NEW r \in Readers, HandlePush(r) PROVE IInv'
  <2>1. TypeOK'
    BY <1>12 DEF HandlePush, IInv, TypeOK
  <2>2. ReaderInv'
    BY <1>12 DEF HandlePush, IInv, TypeOK, ReaderInv, Genuine
  <2> QED
    BY <1>12, <2>1, <2>2 DEF HandlePush, IInv, TableInv, LateEntryInv,
      OutcomeInv, BufferInv, InboxInv, RepliesCorrelated,
      EntriesBelongToCalls, NoClosedChannelPanic, Genuine
<1>13. ASSUME NEW r \in Readers, ReadFails(r) PROVE IInv'
  <2>1. TypeOK'
    BY <1>13 DEF ReadFails, IInv, TypeOK
  <2>2. ReaderInv'
    BY <1>13 DEF ReadFails, IInv, TypeOK, ReaderInv, Genuine
  <2> QED
    BY <1>13, <2>1, <2>2 DEF ReadFails, IInv, TableInv, LateEntryInv,
      OutcomeInv, BufferInv, InboxInv, RepliesCorrelated,
      EntriesBelongToCalls, NoClosedChannelPanic, Genuine
<1>14. ASSUME Close PROVE IInv'
  <2>1. TypeOK'
    BY <1>14 DEF Close, IInv, TypeOK
  <2>2. TableInv'
    BY <1>14 DEF Close, IInv, TypeOK, TableInv
  <2>3. LateEntryInv'
    BY <1>14 DEF Close, IInv, TypeOK, LateEntryInv
  <2>4. EntriesBelongToCalls'
    BY <1>14 DEF Close, IInv, TypeOK, EntriesBelongToCalls
  <2>5. NoClosedChannelPanic'
    BY <1>14 DEF Close, IInv, TypeOK, NoClosedChannelPanic, TableInv
  <2> QED
    BY <1>14, <2>1, <2>2, <2>3, <2>4, <2>5 DEF Close, IInv, OutcomeInv,
      BufferInv, InboxInv, ReaderInv, RepliesCorrelated, Genuine
<1>15. ASSUME NEW s \in AckSends, PeerReplies(s) PROVE IInv'
  <2>1. TypeOK'
    BY <1>15 DEF PeerReplies, IInv, TypeOK
  <2>2. BufferInv'
    BY <1>15 DEF PeerReplies, IInv, TypeOK, BufferInv
  <2>3. InboxInv'
    BY <1>15 DEF PeerReplies, IInv, TypeOK, InboxInv, Genuine
  <2>4. ReaderInv'
    BY <1>15 DEF PeerReplies, IInv, TypeOK, ReaderInv, Genuine
  <2>5. RepliesCorrelated'
    BY <1>15 DEF PeerReplies, IInv, TypeOK, RepliesCorrelated
  <2> QED
    BY <1>15, <2>1, <2>2, <2>3, <2>4, <2>5 DEF PeerReplies, IInv, TableInv,
      LateEntryInv, OutcomeInv, EntriesBelongToCalls, NoClosedChannelPanic
<1>16. ASSUME NEW p \in Pushes, PeerPushes(p) PROVE IInv'
  <2>1. TypeOK'
    BY <1>16 DEF PeerPushes, IInv, TypeOK
  <2>2. InboxInv'
    BY <1>16 DEF PeerPushes, IInv, TypeOK, InboxInv, Genuine
  <2> QED
    BY <1>16, <2>1, <2>2 DEF PeerPushes, IInv, TableInv, LateEntryInv,
      OutcomeInv, BufferInv, ReaderInv, RepliesCorrelated,
      EntriesBelongToCalls, NoClosedChannelPanic, Genuine
<1>17. ASSUME LinkDies PROVE IInv'
  <2>1. TypeOK'
    BY <1>17 DEF LinkDies, IInv, TypeOK
  <2> QED
    BY <1>17, <2>1 DEF LinkDies, IInv, TableInv, LateEntryInv, OutcomeInv,
      BufferInv, InboxInv, ReaderInv, RepliesCorrelated,
      EntriesBelongToCalls, NoClosedChannelPanic, Genuine
<1>18. CASE UNCHANGED vars
  BY <1>18 DEF IInv, TypeOK, TableInv, LateEntryInv, OutcomeInv, BufferInv,
    InboxInv, ReaderInv, RepliesCorrelated, EntriesBelongToCalls,
    NoClosedChannelPanic, Genuine
<1> QED
  BY <1>1, <1>2, <1>3, <1>4, <1>5, <1>6, <1>7, <1>8, <1>9, <1>10, <1>11,
    <1>12, <1>13, <1>14, <1>15, <1>16, <1>17, <1>18 DEF Next, AckStep,
    ReadStep

\* So the agreement holds in every behaviour.
LEMMA Invariance == Spec => []IInv
<1>1. Init => IInv
  BY InitInv
<1>2. IInv /\ [Next]_vars => IInv'
  BY StepInv
<1> QED
  BY <1>1, <1>2, PTL DEF Spec

-----------------------------------------------------------------------------
(* The properties of Channel. *)

\* Every variable keeps its type.
THEOREM TypeCorrect == Spec => []TypeOK
<1>1. IInv => TypeOK
  BY DEF IInv
<1> QED
  BY <1>1, Invariance, PTL

\* A Send that returns a reply returns the peer's reply to its own message.
THEOREM Correlation == Spec => []RepliesCorrelated
<1>1. IInv => RepliesCorrelated
  BY DEF IInv
<1> QED
  BY <1>1, Invariance, PTL

\* Neither Read nor Close touches a result channel that is closed.
THEOREM NoPanic == Spec => []NoClosedChannelPanic
<1>1. IInv => NoClosedChannelPanic
  BY DEF IInv
<1> QED
  BY <1>1, Invariance, PTL

\* Close leaves no waiting Send to its timer: its entry was in the table, so
\* Close shut it; an entry that came later never got past its write.
LEMMA CloseReleases == IInv => CloseReleasesWaiters
<1> SUFFICES ASSUME IInv, NEW s \in AckSends, closed, call[s] = "waiting"
             PROVE  s \in shut
  BY DEF CloseReleasesWaiters
<1>1. s \in acks \cup shut
  BY DEF IInv, TableInv
<1>2. outcome[s] = "none"
  BY DEF IInv, OutcomeInv, Sends
<1>3. s \notin acks
  BY <1>2 DEF IInv, LateEntryInv
<1> QED
  BY <1>1, <1>3

\* The table holds entries of running calls, and of calls that failed to write;
\* Close releases all that wait.
THEOREM TableExact == Spec => []TableIsExact
<1>1. IInv => TableIsExact
  BY CloseReleases DEF IInv, TableIsExact
<1> QED
  BY <1>1, Invariance, PTL

-----------------------------------------------------------------------------
(* Channel implements RequestReply. *)

\* A step of the channel is a step of the contract, or one it does not see.
LEMMA StepRefines ==
  IInv /\ IInv' /\ [Next]_vars => [Contract!RRNext]_(Contract!rrVars)
<1> SUFFICES ASSUME IInv, IInv', [Next]_vars
             PROVE  [Contract!RRNext]_(Contract!rrVars)
  OBVIOUS
<1> USE DEF vars, callVars, tableVars, readerVars, peerVars
<1>1. ASSUME NEW s \in AckSends, Register(s) PROVE Contract!Issue(s)
  BY <1>1 DEF Register, Contract!Issue, RequestState, IInv, TypeOK, Sends
<1>2. ASSUME NEW s \in AckSends, PeerReplies(s) PROVE Contract!Serve(s)
  BY <1>2 DEF PeerReplies, Contract!Serve, RequestState, IInv, TypeOK, TableInv, Sends
<1>3. ASSUME NEW s \in AckSends, Leave(s), outcome[s] = "reply" PROVE Contract!Complete(s)
  <2>1. s \in answered
    BY <1>3 DEF IInv, RepliesCorrelated
  <2>2. RequestState(s) = "pending"
    BY <1>3 DEF Leave, RequestState
  <2>3. \A t \in AckSends :
          RequestState(t)' = IF t = s THEN "replied" ELSE RequestState(t)
    BY <1>3 DEF Leave, RequestState, IInv, TypeOK, Sends
  <2> QED
    BY <1>3, <2>1, <2>2, <2>3 DEF Leave, Contract!Complete
<1>4. ASSUME NEW s \in AckSends, Leave(s), outcome[s] # "reply" PROVE Contract!Abandon(s)
  BY <1>4 DEF Leave, Contract!Abandon, RequestState, IInv, TypeOK, Sends
<1>5. ASSUME NEW s \in AckSends, WriteFails(s) PROVE Contract!Abandon(s)
  <2>1. RequestState(s) = "pending"
    BY <1>5, ChannelAssumption DEF WriteFails, RequestState
  <2>2. \A t \in AckSends :
          RequestState(t)' = IF t = s THEN "failed" ELSE RequestState(t)
    BY <1>5 DEF WriteFails, RequestState, IInv, TypeOK, Sends
  <2> QED
    BY <1>5, <2>1, <2>2 DEF WriteFails, Contract!Abandon
<1>6. ASSUME NEW s \in Sends, WriteFails(s), s \notin AckSends
      PROVE  UNCHANGED Contract!rrVars
  BY <1>6 DEF WriteFails, Contract!rrVars, RequestState, IInv, TypeOK
<1>7. ASSUME NEW s \in PlainSends, WritePlain(s) PROVE UNCHANGED Contract!rrVars
  BY <1>7, ChannelAssumption DEF WritePlain, Contract!rrVars, RequestState, IInv, TypeOK
<1>8. ASSUME NEW s \in AckSends,
             WriteRequest(s) \/ TakeReply(s) \/ TakeClosed(s) \/ Timeout(s)
      PROVE  UNCHANGED Contract!rrVars
  BY <1>8 DEF WriteRequest, TakeReply, TakeClosed, Timeout, Contract!rrVars,
    RequestState, IInv, TypeOK, Sends
<1>9. ASSUME NEW r \in Readers, ReadStep(r) PROVE UNCHANGED Contract!rrVars
  BY <1>9 DEF ReadStep, LockRead, TakeFrame, HandleReply, HandlePush, ReadFails,
    Contract!rrVars, RequestState
<1>10. ASSUME NEW p \in Pushes, PeerPushes(p) PROVE UNCHANGED Contract!rrVars
  BY <1>10 DEF PeerPushes, Contract!rrVars, RequestState
<1>11. ASSUME Close \/ LinkDies \/ UNCHANGED vars PROVE UNCHANGED Contract!rrVars
  BY <1>11 DEF Close, LinkDies, Contract!rrVars, RequestState
<1> QED
  BY <1>1, <1>2, <1>3, <1>4, <1>5, <1>6, <1>7, <1>8, <1>9, <1>10, <1>11
  DEF Next, AckStep, Contract!RRNext

\* A Send of the channel ends once, with the peer's reply or with an error.
THEOREM Refinement == Spec => RefinesRequestReply
<1>1. Init => Contract!RRInit
  BY DEF Init, Contract!RRInit, RequestState, Sends
<1>2. IInv /\ IInv' /\ [Next]_vars => [Contract!RRNext]_(Contract!rrVars)
  BY StepRefines
<1> QED
  BY <1>1, <1>2, Invariance, PTL DEF Spec, RefinesRequestReply, Contract!RRSpec

=============================================================================
