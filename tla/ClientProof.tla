---------------------------- MODULE ClientProof -----------------------------
(***************************************************************************)
(* Proofs about UdpClient, for any limits on the tries and any number of   *)
(* sessions.                                                               *)
(*                                                                         *)
(* Client.mutex keeps Connect, reconnect and Close apart, but the loops of *)
(* the sessions read what these write without it.  IInv says who holds the *)
(* mutex (LockInv), how far a retry loop is (TriesInv), which message loop *)
(* there is while it runs (LoopInv), and what it has already taken down    *)
(* (DialInv).                                                              *)
(***************************************************************************)
EXTENDS UdpClient, TLAPS

\* The mutex is held exactly during Connect, reconnect and a Close at work.
LockInv ==
  /\ phase # "none" <=> owner \in {"connect", "reconnect"}
  /\ owner = "connect" <=> connecting = "trying"
  /\ connecting = "no" => owner # "reconnect"
  /\ \A k \in Closers : closing[k] = "reset" <=> owner = k

\* A try that is under way was allowed; without a limit none is counted.
TriesInv ==
  phase # "none" =>
    /\ Limit = 0 => tries = 0
    /\ Limit # 0 => tries <= Limit
    /\ phase \in {"dial", "init"} => MayTry

NoLoop == \A g \in Sess : ~Running(g)

\* No loop runs while Connect does, or once the server has said no; while
\* reconnect does, the loop that called it is the only one.
LoopInv ==
  /\ connecting \in {"no", "trying"} => NoLoop
  /\ Data = "rejected" => NoLoop /\ connecting # "no"
  /\ \A g \in Sess : messages[g] = "reconnecting" => owner = "reconnect"
  /\ owner = "reconnect" => \A g \in Sess : Running(g) => messages[g] = "reconnecting"

\* The first try takes the old connection down; nothing puts it back before the
\* server accepts the client.  A loop starts once, with its session.
DialInv ==
  /\ phase \in {"dial", "init"} => ~Connected
  /\ phase = "try" /\ tries > 0 => ~Connected
  /\ phase = "dial" => alive = {}
  /\ phase = "init" =>
       /\ sessionId \in Sess /\ session = sessionId /\ channel = sessionId
       /\ messages[sessionId] = "off"
  /\ \A g \in Sess : messages[g] # "off" => g <= dialled
  /\ sessionId <= dialled
  /\ owner \in Closers => ~Connected /\ session = 0 /\ channel = 0

IInv ==
  /\ TypeOK
  /\ LockInv
  /\ TriesInv
  /\ LoopInv
  /\ DialInv
  /\ OneMessageLoop
  /\ ConnectedIsWatched
  /\ NoOrphanSession
  /\ EndIsFinal

-----------------------------------------------------------------------------
(* The invariant is inductive. *)

\* A client nobody has connected yet.
LEMMA InitInv == Init => IInv
<1> SUFFICES ASSUME Init PROVE IInv
  OBVIOUS
<1> USE ClientAssumption DEF Init, Closers
<1>1. TypeOK
  <2>1. /\ messages \in [Sess -> {"off", "reading", "ended", "lock", "reconnecting", "done"}]
        /\ pings \in [Sess -> {"off", "on", "done"}]
        /\ streams \in [Sess -> {"off", "on", "done"}]
    OBVIOUS
  <2>2. tries \in 0..ConnectTries /\ {dialled, session, channel, sessionId} \subseteq 0..MaxSessions
    OBVIOUS
  <2> QED
    BY <2>1, <2>2 DEF TypeOK
<1>2. LockInv /\ TriesInv /\ LoopInv /\ DialInv
  BY DEF LockInv, TriesInv, LoopInv, NoLoop, Running, DialInv
<1>3. OneMessageLoop /\ ConnectedIsWatched /\ NoOrphanSession /\ EndIsFinal
  BY DEF OneMessageLoop, Running, ConnectedIsWatched, NoOrphanSession, EndIsFinal
<1> QED
  BY <1>1, <1>2, <1>3 DEF IInv

\* The numbers among the variables.
LEMMA Numbers ==
  ASSUME TypeOK
  PROVE  /\ tries \in Nat /\ Limit \in Nat
         /\ dialled \in 0..MaxSessions /\ session \in 0..MaxSessions
         /\ channel \in 0..MaxSessions /\ sessionId \in 0..MaxSessions
BY ClientAssumption DEF TypeOK, Limit

\* Connect and reconnect end no loop but the one that called reconnect.
LEMMA ReturnsEnds ==
  ASSUME TypeOK, NEW r, Returns(r)
  PROVE  \A g \in Sess : messages'[g] \in {messages[g], "done"}
BY DEF Returns, TypeOK

\* Every step of the retry loops, of the session's loops, of a Close and of the
\* network keeps the mutex, the loops and the connection in agreement.
LEMMA StepInv == IInv /\ [Next]_vars => IInv'
<1> SUFFICES ASSUME IInv, [Next]_vars PROVE IInv'
  OBVIOUS
<1> USE ClientAssumption, Numbers DEF vars, loopVars, connVars, workers, Closers, Sess,
  Limit, MayTry, NoLoop, Running
<1>1. ASSUME CallsConnect PROVE IInv'
  <2>1. TypeOK'
    BY <1>1 DEF CallsConnect, Enter, IInv, TypeOK
  <2>2. LockInv'
    BY <1>1 DEF CallsConnect, Enter, IInv, TypeOK, LockInv
  <2>3. TriesInv'
    BY <1>1 DEF CallsConnect, Enter, IInv, TypeOK, TriesInv
  <2>4. LoopInv'
    BY <1>1 DEF CallsConnect, Enter, IInv, TypeOK, LoopInv
  <2>5. DialInv'
    BY <1>1 DEF CallsConnect, Enter, IInv, TypeOK, DialInv
  <2>6. EndIsFinal'
    BY <1>1 DEF CallsConnect, Enter, IInv, TypeOK, EndIsFinal, LoopInv
  <2> QED
    BY <1>1, <2>1, <2>2, <2>3, <2>4, <2>5, <2>6 DEF CallsConnect, Enter, IInv,
      OneMessageLoop, ConnectedIsWatched, NoOrphanSession
<1>2. ASSUME NEW g \in Sess, Reconnects(g) PROVE IInv'
  <2>1. TypeOK'
    <3>1. messages' \in [Sess -> {"off", "reading", "ended", "lock", "reconnecting", "done"}]
      BY <1>2 DEF Reconnects, IInv, TypeOK
    <3>2. loopVars' = loopVars \/ Enter("reconnect")
      BY <1>2 DEF Reconnects
    <3> QED
      BY <1>2, <3>1, <3>2 DEF Reconnects, Enter, IInv, TypeOK
  <2>2. LockInv'
    BY <1>2 DEF Reconnects, Enter, IInv, TypeOK, LockInv, LoopInv
  <2>3. TriesInv'
    BY <1>2 DEF Reconnects, Enter, IInv, TypeOK, TriesInv
  <2>4. LoopInv'
    BY <1>2 DEF Reconnects, Enter, IInv, TypeOK, LoopInv, OneMessageLoop
  <2>5. DialInv'
    BY <1>2 DEF Reconnects, Enter, IInv, TypeOK, DialInv
  <2>6. OneMessageLoop'
    BY <1>2 DEF Reconnects, Enter, IInv, TypeOK, OneMessageLoop
  <2>7. ConnectedIsWatched'
    BY <1>2 DEF Reconnects, Enter, IInv, TypeOK, ConnectedIsWatched, EndIsFinal
  <2>8. EndIsFinal'
    BY <1>2 DEF Reconnects, Enter, IInv, TypeOK, EndIsFinal, LoopInv
  <2> QED
    BY <1>2, <2>1, <2>2, <2>3, <2>4, <2>5, <2>6, <2>7, <2>8 DEF Reconnects, Enter,
      IInv, NoOrphanSession
<1>3. ASSUME Tries PROVE IInv'
  <2>1. TypeOK'
    <3>1. {dialled', session', channel', sessionId'} \subseteq 0..MaxSessions
      BY <1>3 DEF Tries, reset, IInv
    <3>2. alive' \subseteq Sess
      BY <1>3 DEF Tries, reset, IInv, TypeOK
    <3> QED
      BY <1>3, <3>1, <3>2 DEF Tries, reset, IInv, TypeOK
  <2>2. LockInv'
    BY <1>3 DEF Tries, reset, IInv, TypeOK, LockInv
  <2>3. TriesInv'
    BY <1>3 DEF Tries, reset, IInv, TypeOK, TriesInv
  <2>4. DialInv'
    BY <1>3 DEF Tries, reset, IInv, TypeOK, DialInv, NoOrphanSession
  <2>5. OneMessageLoop'
    BY <1>3 DEF Tries, reset, IInv, TypeOK, OneMessageLoop
  <2>6. ConnectedIsWatched'
    BY <1>3 DEF Tries, reset, IInv, TypeOK, ConnectedIsWatched
  <2>7. NoOrphanSession'
    BY <1>3 DEF Tries, reset, IInv, TypeOK, NoOrphanSession
  <2>8. EndIsFinal'
    BY <1>3 DEF Tries, reset, IInv, TypeOK, EndIsFinal
  <2> QED
    BY <1>3, <2>1, <2>2, <2>3, <2>4, <2>5, <2>6, <2>7, <2>8 DEF Tries, reset, IInv,
      LoopInv
<1>4. ASSUME DialFails PROVE IInv'
  <2>1. TypeOK'
    BY <1>4 DEF DialFails, NextTry, IInv, TypeOK, TriesInv
  <2>2. LockInv'
    BY <1>4 DEF DialFails, NextTry, IInv, TypeOK, LockInv
  <2>3. TriesInv'
    BY <1>4 DEF DialFails, NextTry, IInv, TypeOK, TriesInv
  <2>4. DialInv'
    BY <1>4 DEF DialFails, NextTry, IInv, TypeOK, DialInv
  <2>5. EndIsFinal'
    BY <1>4 DEF DialFails, NextTry, IInv, TypeOK, EndIsFinal
  <2> QED
    BY <1>4, <2>1, <2>2, <2>3, <2>4, <2>5 DEF DialFails, NextTry, IInv, LoopInv,
      OneMessageLoop, ConnectedIsWatched, NoOrphanSession
<1>5. ASSUME StreamFails PROVE IInv'
  <2>1. TypeOK'
    BY <1>5 DEF StreamFails, NextTry, IInv, TypeOK, TriesInv
  <2>2. LockInv'
    BY <1>5 DEF StreamFails, NextTry, IInv, TypeOK, LockInv
  <2>3. TriesInv'
    BY <1>5 DEF StreamFails, NextTry, IInv, TypeOK, TriesInv
  <2>4. DialInv'
    BY <1>5 DEF StreamFails, NextTry, IInv, TypeOK, DialInv, LockInv
  <2>5. ConnectedIsWatched'
    BY <1>5 DEF StreamFails, NextTry, IInv, TypeOK, ConnectedIsWatched, DialInv
  <2>6. NoOrphanSession'
    BY <1>5 DEF StreamFails, NextTry, IInv, TypeOK, NoOrphanSession, DialInv
  <2>7. EndIsFinal'
    BY <1>5 DEF StreamFails, NextTry, IInv, TypeOK, EndIsFinal
  <2> QED
    BY <1>5, <2>1, <2>2, <2>3, <2>4, <2>5, <2>6, <2>7 DEF StreamFails, NextTry, IInv,
      LoopInv, OneMessageLoop
<1>6. ASSUME Dials PROVE IInv'
  <2>1. TypeOK'
    <3>1. {dialled', session', channel', sessionId'} \subseteq 0..MaxSessions /\ dialled' \in Sess
      BY <1>6 DEF Dials, IInv
    <3>2. alive' \subseteq Sess
      BY <1>6, <3>1 DEF Dials, IInv, TypeOK
    <3> QED
      BY <1>6, <3>1, <3>2 DEF Dials, IInv, TypeOK
  <2>2. LockInv'
    BY <1>6 DEF Dials, IInv, TypeOK, LockInv
  <2>3. TriesInv'
    BY <1>6 DEF Dials, IInv, TypeOK, TriesInv
  <2>4. DialInv'
    BY <1>6 DEF Dials, IInv, TypeOK, DialInv, LockInv
  <2>5. OneMessageLoop'
    BY <1>6 DEF Dials, IInv, TypeOK, OneMessageLoop, LockInv, LoopInv
  <2>6. ConnectedIsWatched'
    BY <1>6 DEF Dials, IInv, TypeOK, ConnectedIsWatched, DialInv
  <2>7. NoOrphanSession'
    BY <1>6 DEF Dials, IInv, TypeOK, NoOrphanSession, DialInv
  <2>8. EndIsFinal'
    BY <1>6 DEF Dials, IInv, TypeOK, EndIsFinal
  <2> QED
    BY <1>6, <2>1, <2>2, <2>3, <2>4, <2>5, <2>6, <2>7, <2>8 DEF Dials, IInv, LoopInv
<1>7. ASSUME Initializes PROVE IInv'
  <2>1. TypeOK'
    <3>1. messages' \in [Sess -> {"off", "reading", "ended", "lock", "reconnecting", "done"}]
      BY <1>7 DEF Initializes, IInv, TypeOK
    <3>2. pings' \in [Sess -> {"off", "on", "done"}] /\ streams' \in [Sess -> {"off", "on", "done"}]
      BY <1>7 DEF Initializes, IInv, TypeOK
    <3> QED
      BY <1>7, <3>1, <3>2 DEF Initializes, Leave, IInv, TypeOK
  <2>2. LockInv'
    BY <1>7 DEF Initializes, Leave, IInv, TypeOK, LockInv
  <2>3. TriesInv'
    BY <1>7 DEF Initializes, Leave, IInv, TypeOK, TriesInv
  <2>4. LoopInv'
    BY <1>7 DEF Initializes, Leave, IInv, TypeOK, LoopInv, LockInv
  <2>5. DialInv'
    BY <1>7 DEF Initializes, Leave, IInv, TypeOK, DialInv
  <2>6. OneMessageLoop'
    BY <1>7 DEF Initializes, Leave, IInv, TypeOK, OneMessageLoop, LockInv, LoopInv,
      DialInv
  <2>7. ConnectedIsWatched'
    <3>1. session' = sessionId' /\ sessionId' \in Sess
      BY <1>7 DEF Initializes, IInv, DialInv
    <3>2. messages'[sessionId'] = "reading"
      BY <1>7, <3>1 DEF Initializes, IInv, DialInv
    <3> QED
      BY <3>1, <3>2 DEF ConnectedIsWatched
  <2>8. EndIsFinal'
    BY <1>7 DEF Initializes, Leave, IInv, TypeOK, EndIsFinal
  <2> QED
    BY <1>7, <2>1, <2>2, <2>3, <2>4, <2>5, <2>6, <2>7, <2>8 DEF Initializes, Leave,
      IInv, NoOrphanSession
<1>8. ASSUME IsRejected PROVE IInv'
  <2>1. TypeOK'
    BY <1>8 DEF IsRejected, Returns, Leave, StartClose, IInv, TypeOK
  <2>2. LockInv'
    BY <1>8 DEF IsRejected, Returns, Leave, StartClose, IInv, TypeOK, LockInv
  <2>3. TriesInv'
    BY <1>8 DEF IsRejected, Returns, Leave, StartClose, IInv, TypeOK, TriesInv
  <2>4. LoopInv'
    BY <1>8 DEF IsRejected, Returns, Leave, StartClose, IInv, TypeOK, LoopInv, LockInv
  <2>5. DialInv'
    BY <1>8 DEF IsRejected, Returns, Leave, StartClose, IInv, TypeOK, DialInv
  <2>6. OneMessageLoop'
    <3>1. \A g \in Sess : messages'[g] \in {messages[g], "done"}
      BY <1>8, ReturnsEnds DEF IsRejected, IInv
    <3>2. UNCHANGED <<sessionId, channel>>
      BY <1>8 DEF IsRejected
    <3> QED
      BY <3>1, <3>2 DEF IInv, OneMessageLoop
  <2>7. ConnectedIsWatched'
    BY <1>8 DEF IsRejected, Returns, Leave, StartClose, IInv, TypeOK,
      ConnectedIsWatched, DialInv
  <2>8. EndIsFinal'
    BY <1>8 DEF IsRejected, Returns, Leave, StartClose, IInv, TypeOK, EndIsFinal
  <2> QED
    BY <1>8, <2>1, <2>2, <2>3, <2>4, <2>5, <2>6, <2>7, <2>8 DEF IsRejected, Returns,
      Leave, StartClose, IInv, NoOrphanSession
<1>9. ASSUME InitFails PROVE IInv'
  <2>1. TypeOK'
    BY <1>9 DEF InitFails, Returns, Leave, StartClose, NextTry, IInv, TypeOK, TriesInv
  <2>2. LockInv'
    BY <1>9 DEF InitFails, Returns, Leave, StartClose, NextTry, IInv, TypeOK, LockInv
  <2>3. TriesInv'
    BY <1>9 DEF InitFails, Returns, Leave, StartClose, NextTry, IInv, TypeOK, TriesInv
  <2>4. LoopInv'
    BY <1>9 DEF InitFails, Returns, Leave, StartClose, NextTry, IInv, TypeOK, LoopInv
  <2>5. DialInv'
    BY <1>9 DEF InitFails, Returns, Leave, StartClose, NextTry, IInv, TypeOK, DialInv
  <2>6. OneMessageLoop'
    <3>1. \A g \in Sess : messages'[g] \in {messages[g], "done"}
      BY <1>9, ReturnsEnds DEF InitFails, IInv
    <3>2. UNCHANGED <<sessionId, channel>>
      BY <1>9 DEF InitFails
    <3> QED
      BY <3>1, <3>2 DEF IInv, OneMessageLoop
  <2>7. ConnectedIsWatched'
    BY <1>9 DEF InitFails, Returns, Leave, StartClose, NextTry, IInv, TypeOK,
      ConnectedIsWatched, DialInv
  <2>8. EndIsFinal'
    BY <1>9 DEF InitFails, Returns, Leave, StartClose, NextTry, IInv, TypeOK, EndIsFinal
  <2> QED
    BY <1>9, <2>1, <2>2, <2>3, <2>4, <2>5, <2>6, <2>7, <2>8 DEF InitFails, Returns,
      Leave, StartClose, NextTry, IInv, NoOrphanSession
<1>10. ASSUME GivesUp PROVE IInv'
  <2>1. TypeOK'
    BY <1>10 DEF GivesUp, Returns, Leave, StartClose, IInv, TypeOK
  <2>2. LockInv'
    BY <1>10 DEF GivesUp, Returns, Leave, StartClose, IInv, TypeOK, LockInv
  <2>3. TriesInv'
    BY <1>10 DEF GivesUp, Returns, Leave, StartClose, IInv, TypeOK, TriesInv
  <2>4. LoopInv'
    BY <1>10 DEF GivesUp, Returns, Leave, StartClose, IInv, TypeOK, LoopInv
  <2>5. DialInv'
    BY <1>10 DEF GivesUp, Returns, Leave, StartClose, IInv, TypeOK, DialInv
  <2>6. OneMessageLoop'
    <3>1. \A g \in Sess : messages'[g] \in {messages[g], "done"}
      BY <1>10, ReturnsEnds DEF GivesUp, IInv
    <3>2. UNCHANGED <<sessionId, channel>>
      BY <1>10 DEF GivesUp
    <3> QED
      BY <3>1, <3>2 DEF IInv, OneMessageLoop
  <2>7. ConnectedIsWatched'
    BY <1>10 DEF GivesUp, Returns, Leave, StartClose, IInv, TypeOK,
      ConnectedIsWatched, TriesInv, DialInv
  <2>8. EndIsFinal'
    BY <1>10 DEF GivesUp, Returns, Leave, StartClose, IInv, TypeOK, EndIsFinal
  <2> QED
    BY <1>10, <2>1, <2>2, <2>3, <2>4, <2>5, <2>6, <2>7, <2>8 DEF GivesUp, Returns,
      Leave, StartClose, IInv, NoOrphanSession
<1>11. ASSUME NEW g \in Sess, ReadFails(g) PROVE IInv'
  <2>1. TypeOK'
    BY <1>11 DEF ReadFails, IInv, TypeOK
  <2>2. LoopInv'
    BY <1>11 DEF ReadFails, IInv, TypeOK, LoopInv
  <2>3. DialInv'
    BY <1>11 DEF ReadFails, IInv, TypeOK, DialInv
  <2>4. OneMessageLoop'
    BY <1>11 DEF ReadFails, IInv, TypeOK, OneMessageLoop
  <2>5. ConnectedIsWatched'
    BY <1>11 DEF ReadFails, IInv, TypeOK, ConnectedIsWatched
  <2> QED
    BY <1>11, <2>1, <2>2, <2>3, <2>4, <2>5 DEF ReadFails, IInv, LockInv, TriesInv,
      NoOrphanSession, EndIsFinal
<1>12. ASSUME NEW g \in Sess, MessagesEnd(g) PROVE IInv'
  <2>1. TypeOK'
    BY <1>12 DEF MessagesEnd, IInv, TypeOK
  <2>2. LoopInv'
    BY <1>12 DEF MessagesEnd, IInv, TypeOK, LoopInv
  <2>3. DialInv'
    BY <1>12 DEF MessagesEnd, IInv, TypeOK, DialInv
  <2>4. OneMessageLoop'
    BY <1>12 DEF MessagesEnd, IInv, TypeOK, OneMessageLoop
  <2>5. ConnectedIsWatched'
    BY <1>12 DEF MessagesEnd, IInv, TypeOK, ConnectedIsWatched, EndIsFinal
  <2> QED
    BY <1>12, <2>1, <2>2, <2>3, <2>4, <2>5 DEF MessagesEnd, IInv, LockInv, TriesInv,
      NoOrphanSession, EndIsFinal
<1>13. ASSUME NEW g \in Sess, PingsEnd(g) PROVE IInv'
  <2>1. TypeOK'
    BY <1>13 DEF PingsEnd, IInv, TypeOK
  <2> QED
    BY <1>13, <2>1 DEF PingsEnd, IInv, LockInv, TriesInv, LoopInv, DialInv,
      OneMessageLoop, ConnectedIsWatched, NoOrphanSession, EndIsFinal
<1>14. ASSUME NEW g \in Sess, StreamsEnd(g) PROVE IInv'
  <2>1. TypeOK'
    BY <1>14 DEF StreamsEnd, IInv, TypeOK
  <2> QED
    BY <1>14, <2>1 DEF StreamsEnd, IInv, LockInv, TriesInv, LoopInv, DialInv,
      OneMessageLoop, ConnectedIsWatched, NoOrphanSession, EndIsFinal
<1>15. ASSUME UserCloses PROVE IInv'
  <2>1. TypeOK'
    BY <1>15 DEF UserCloses, IInv, TypeOK
  <2>2. LockInv'
    BY <1>15 DEF UserCloses, IInv, TypeOK, LockInv
  <2> QED
    BY <1>15, <2>1, <2>2 DEF UserCloses, IInv, TriesInv, LoopInv, DialInv,
      OneMessageLoop, ConnectedIsWatched, NoOrphanSession, EndIsFinal
<1>16. ASSUME NEW k \in Closers, CloseResets(k) PROVE IInv'
  <2>1. TypeOK'
    <3>1. {dialled', session', channel', sessionId'} \subseteq 0..MaxSessions
      BY <1>16 DEF CloseResets, reset, IInv
    <3>2. alive' \subseteq Sess
      BY <1>16 DEF CloseResets, reset, IInv, TypeOK
    <3>3. closing' \in [Closers -> {"off", "lock", "reset", "done"}]
      BY <1>16 DEF CloseResets, IInv, TypeOK
    <3>4. /\ owner' \in {"nobody", "connect", "reconnect"} \cup Closers
          /\ Connected' \in BOOLEAN
      BY <1>16 DEF CloseResets, reset, IInv, TypeOK
    <3> QED
      BY <1>16, <3>1, <3>2, <3>3, <3>4 DEF CloseResets, IInv, TypeOK
  <2>2. LockInv'
    BY <1>16 DEF CloseResets, reset, IInv, TypeOK, LockInv
  <2>3. TriesInv'
    BY <1>16 DEF CloseResets, reset, IInv, TypeOK, TriesInv
  <2>4. LoopInv'
    BY <1>16 DEF CloseResets, reset, IInv, TypeOK, LoopInv
  <2>5. DialInv'
    BY <1>16 DEF CloseResets, reset, IInv, TypeOK, DialInv, LockInv
  <2>6. OneMessageLoop'
    BY <1>16 DEF CloseResets, reset, IInv, TypeOK, OneMessageLoop
  <2>7. ConnectedIsWatched'
    BY <1>16 DEF CloseResets, reset, IInv, TypeOK, ConnectedIsWatched
  <2>8. NoOrphanSession'
    BY <1>16 DEF CloseResets, reset, IInv, TypeOK, NoOrphanSession
  <2>9. EndIsFinal'
    BY <1>16 DEF CloseResets, reset, IInv, TypeOK, EndIsFinal
  <2> QED
    BY <1>16, <2>1, <2>2, <2>3, <2>4, <2>5, <2>6, <2>7, <2>8, <2>9 DEF CloseResets,
      reset, IInv
<1>17. ASSUME NEW k \in Closers, CloseFinishes(k) PROVE IInv'
  <2>1. TypeOK'
    BY <1>17 DEF CloseFinishes, IInv, TypeOK
  <2>2. LockInv'
    BY <1>17 DEF CloseFinishes, IInv, TypeOK, LockInv
  <2>3. TriesInv'
    BY <1>17 DEF CloseFinishes, IInv, TypeOK, TriesInv, LockInv
  <2>4. LoopInv'
    BY <1>17 DEF CloseFinishes, IInv, TypeOK, LoopInv, LockInv
  <2>5. DialInv'
    BY <1>17 DEF CloseFinishes, IInv, TypeOK, DialInv
  <2>6. EndIsFinal'
    BY <1>17 DEF CloseFinishes, IInv, TypeOK, EndIsFinal, LockInv, DialInv
  <2> QED
    BY <1>17, <2>1, <2>2, <2>3, <2>4, <2>5, <2>6 DEF CloseFinishes, IInv,
      OneMessageLoop, ConnectedIsWatched, NoOrphanSession
<1>18. ASSUME NEW g \in Sess, LinkDies(g) PROVE IInv'
  <2>1. TypeOK'
    BY <1>18 DEF LinkDies, IInv, TypeOK
  <2>2. DialInv'
    BY <1>18 DEF LinkDies, IInv, TypeOK, DialInv
  <2>3. NoOrphanSession'
    BY <1>18 DEF LinkDies, IInv, TypeOK, NoOrphanSession
  <2> QED
    BY <1>18, <2>1, <2>2, <2>3 DEF LinkDies, IInv, LockInv, TriesInv, LoopInv,
      OneMessageLoop, ConnectedIsWatched, EndIsFinal
<1>19. CASE UNCHANGED vars
  BY <1>19 DEF IInv, TypeOK, LockInv, TriesInv, LoopInv, DialInv, OneMessageLoop,
    ConnectedIsWatched, NoOrphanSession, EndIsFinal
<1> QED
  BY <1>1, <1>2, <1>3, <1>4, <1>5, <1>6, <1>7, <1>8, <1>9, <1>10, <1>11, <1>12, <1>13,
    <1>14, <1>15, <1>16, <1>17, <1>18, <1>19
  DEF Next, DialStep, InitStep, Retry, SessionStep

LEMMA Invariance == Spec => []IInv
<1>1. Init => IInv
  BY InitInv
<1>2. IInv /\ [Next]_vars => IInv'
  BY StepInv
<1> QED
  BY <1>1, <1>2, PTL DEF Spec

-----------------------------------------------------------------------------
(* The properties *)

\* Every variable keeps its type: in particular no retry loop counts past its
\* limit.
THEOREM ClientTypes == Spec => []TypeOK
<1>1. IInv => TypeOK
  BY DEF IInv
<1> QED
  BY <1>1, Invariance, PTL

\* There is one message loop at most, and it reads the session of its own,
\* although it reads Client.channel without the mutex.
THEOREM ClientLoop == Spec => []OneMessageLoop
<1>1. IInv => OneMessageLoop
  BY DEF IInv
<1> QED
  BY <1>1, Invariance, PTL

\* A client that says it is connected has a loop that will notice the loss.
THEOREM ClientWatched == Spec => []ConnectedIsWatched
<1>1. IInv => ConnectedIsWatched
  BY DEF IInv
<1> QED
  BY <1>1, Invariance, PTL

\* However often Connect and reconnect dial, only the session the client holds
\* can be open.
THEOREM ClientNoOrphan == Spec => []NoOrphanSession
<1>1. IInv => NoOrphanSession
  BY DEF IInv
<1> QED
  BY <1>1, Invariance, PTL

\* Close and the server's no are final, whatever retry loop was under way.
THEOREM ClientEnd == Spec => []EndIsFinal
<1>1. IInv => EndIsFinal
  BY DEF IInv
<1> QED
  BY <1>1, Invariance, PTL

=============================================================================
