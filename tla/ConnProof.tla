----------------------------- MODULE ConnProof -----------------------------
(***************************************************************************)
(* Proofs about ConnLifecycle, for any of its modes.                       *)
(*                                                                         *)
(* The source may connect because the broker answers it after it has       *)
(* stored the Connection, which it does after the target has stored its    *)
(* own.  HandlerInv, AnswerInv and DueInv follow that order through the    *)
(* broker's handler, its answer and the target's table.                    *)
(***************************************************************************)
EXTENDS ConnLifecycle, TLAPS

\* The broker's Connection has been stored, and its target's one before it.
Established == record \in {"open", "closed"} /\ ask = "ok"

\* How far the broker's handler has brought the Connection.
HandlerInv ==
  /\ handler = "off" => record = "none" /\ ask = "none"
  /\ handler = "ask" => record = "made"
  /\ handler = "reply" => Established

\* A source has been told to connect by a handler that was through.
AnswerInv ==
  asked = "created" \/ conn[Source] \in {"connecting", "connected"}
    => handler = "done" /\ Established

\* A target that has still to store its connection has not answered.
DueInv == known[Target] = "due" => ask = "held"

IInv ==
  /\ TypeOK
  /\ HandlerInv
  /\ AnswerInv
  /\ DueInv

-----------------------------------------------------------------------------
(* The invariant is inductive. *)

\* Nothing has been asked for yet.
LEMMA InitInv == Init => IInv
<1> SUFFICES ASSUME Init PROVE IInv
  OBVIOUS
<1>1. TypeOK
  BY DEF Init, TypeOK
<1>2. HandlerInv /\ AnswerInv /\ DueInv
  BY DEF Init, HandlerInv, AnswerInv, DueInv, Peers, Source, Target
<1> QED
  BY <1>1, <1>2 DEF IInv

\* Every step of the broker, its ticker, the clients, the relay and the link
\* keeps the order of request and answer.
LEMMA StepInv == IInv /\ [Next]_vars => IInv'
<1> SUFFICES ASSUME IInv, [Next]_vars PROVE IInv'
  OBVIOUS
<1> USE ModesAssumption DEF vars, broker, clients, direct, Peers, Source, Target,
  Established
<1>1. ASSUME Asks PROVE IInv'
  <2>1. TypeOK'
    BY <1>1 DEF Asks, IInv, TypeOK
  <2>2. AnswerInv'
    BY <1>1 DEF Asks, IInv, TypeOK, AnswerInv
  <2> QED
    BY <1>1, <2>1, <2>2 DEF Asks, IInv, HandlerInv, DueInv
<1>2. ASSUME Learns PROVE IInv'
  <2>1. TypeOK'
    BY <1>2 DEF Learns, IInv, TypeOK
  <2>2. AnswerInv'
    BY <1>2 DEF Learns, IInv, TypeOK, AnswerInv
  <2> QED
    BY <1>2, <2>1, <2>2 DEF Learns, IInv, HandlerInv, DueInv
<1>3. ASSUME Accepts PROVE IInv'
  <2>1. TypeOK'
    BY <1>3 DEF Accepts, IInv, TypeOK
  <2>2. HandlerInv'
    BY <1>3 DEF Accepts, IInv, TypeOK, HandlerInv
  <2>3. AnswerInv'
    BY <1>3 DEF Accepts, IInv, TypeOK, AnswerInv
  <2>4. DueInv'
    BY <1>3 DEF Accepts, IInv, TypeOK, DueInv
  <2> QED
    BY <1>3, <2>1, <2>2, <2>3, <2>4 DEF Accepts, IInv
<1>4. ASSUME Declines PROVE IInv'
  <2>1. TypeOK'
    BY <1>4 DEF Declines, IInv, TypeOK
  <2>2. HandlerInv'
    BY <1>4 DEF Declines, IInv, TypeOK, HandlerInv
  <2>3. AnswerInv'
    BY <1>4 DEF Declines, IInv, TypeOK, AnswerInv
  <2>4. DueInv'
    BY <1>4 DEF Declines, IInv, TypeOK, DueInv
  <2> QED
    BY <1>4, <2>1, <2>2, <2>3, <2>4 DEF Declines, IInv
<1>5. ASSUME Refuses PROVE IInv'
  <2>1. TypeOK'
    BY <1>5 DEF Refuses, AnswersSource, IInv, TypeOK
  <2>2. HandlerInv'
    BY <1>5 DEF Refuses, AnswersSource, IInv, TypeOK, HandlerInv
  <2>3. AnswerInv'
    BY <1>5 DEF Refuses, AnswersSource, IInv, TypeOK, AnswerInv
  <2> QED
    BY <1>5, <2>1, <2>2, <2>3 DEF Refuses, AnswersSource, IInv, DueInv
<1>6. ASSUME Makes PROVE IInv'
  <2>1. TypeOK'
    BY <1>6 DEF Makes, IInv, TypeOK
  <2>2. HandlerInv'
    BY <1>6 DEF Makes, IInv, TypeOK, HandlerInv
  <2>3. AnswerInv'
    BY <1>6 DEF Makes, IInv, TypeOK, AnswerInv
  <2>4. DueInv'
    BY <1>6 DEF Makes, IInv, TypeOK, DueInv, HandlerInv
  <2> QED
    BY <1>6, <2>1, <2>2, <2>3, <2>4 DEF Makes, IInv
<1>7. ASSUME Fails PROVE IInv'
  <2>1. TypeOK'
    BY <1>7 DEF Fails, AnswersSource, IInv, TypeOK
  <2>2. HandlerInv'
    BY <1>7 DEF Fails, AnswersSource, IInv, TypeOK, HandlerInv
  <2>3. AnswerInv'
    BY <1>7 DEF Fails, AnswersSource, IInv, TypeOK, AnswerInv
  <2> QED
    BY <1>7, <2>1, <2>2, <2>3 DEF Fails, AnswersSource, IInv, DueInv
<1>8. ASSUME Stores PROVE IInv'
  <2>1. TypeOK'
    BY <1>8 DEF Stores, IInv, TypeOK
  <2>2. HandlerInv'
    BY <1>8 DEF Stores, IInv, TypeOK, HandlerInv
  <2>3. AnswerInv'
    BY <1>8 DEF Stores, IInv, TypeOK, AnswerInv
  <2> QED
    BY <1>8, <2>1, <2>2, <2>3 DEF Stores, IInv, DueInv
<1>9. ASSUME Answers PROVE IInv'
  <2>1. TypeOK'
    BY <1>9 DEF Answers, AnswersSource, IInv, TypeOK, HandlerInv
  <2>2. HandlerInv'
    BY <1>9 DEF Answers, AnswersSource, IInv, TypeOK, HandlerInv
  <2>3. AnswerInv'
    BY <1>9 DEF Answers, AnswersSource, IInv, TypeOK, AnswerInv, HandlerInv
  <2> QED
    BY <1>9, <2>1, <2>2, <2>3 DEF Answers, AnswersSource, IInv, DueInv
<1>10. ASSUME TickerStarts PROVE IInv'
  <2>1. TypeOK'
    BY <1>10 DEF TickerStarts, IInv, TypeOK
  <2> QED
    BY <1>10, <2>1 DEF TickerStarts, IInv, HandlerInv, AnswerInv, DueInv
<1>11. ASSUME TickBegins PROVE IInv'
  <2>1. TypeOK'
    BY <1>11 DEF TickBegins, CloseConnection, IInv, TypeOK
  <2>2. HandlerInv'
    BY <1>11 DEF TickBegins, CloseConnection, IInv, TypeOK, HandlerInv
  <2>3. AnswerInv'
    BY <1>11 DEF TickBegins, CloseConnection, IInv, TypeOK, AnswerInv
  <2> QED
    BY <1>11, <2>1, <2>2, <2>3 DEF TickBegins, CloseConnection, IInv, DueInv
<1>12. ASSUME NEW p \in Peers, ChecksStatus(p) PROVE IInv'
  <2>1. TypeOK'
    BY <1>12 DEF ChecksStatus, CloseConnection, IInv, TypeOK
  <2>2. HandlerInv'
    BY <1>12 DEF ChecksStatus, CloseConnection, IInv, TypeOK, HandlerInv
  <2>3. AnswerInv'
    BY <1>12 DEF ChecksStatus, CloseConnection, IInv, TypeOK, AnswerInv
  <2> QED
    BY <1>12, <2>1, <2>2, <2>3 DEF ChecksStatus, CloseConnection, IInv, DueInv
<1>13. ASSUME NEW p \in Peers, TickPanics(p) PROVE IInv'
  <2>1. TypeOK'
    BY <1>13 DEF TickPanics, IInv, TypeOK
  <2> QED
    BY <1>13, <2>1 DEF TickPanics, IInv, HandlerInv, AnswerInv, DueInv
<1>14. ASSUME ClosesAll PROVE IInv'
  <2>1. TypeOK'
    BY <1>14 DEF ClosesAll, CloseConnection, IInv, TypeOK
  <2>2. HandlerInv'
    BY <1>14 DEF ClosesAll, CloseConnection, IInv, TypeOK, HandlerInv
  <2>3. AnswerInv'
    BY <1>14 DEF ClosesAll, CloseConnection, IInv, TypeOK, AnswerInv
  <2> QED
    BY <1>14, <2>1, <2>2, <2>3 DEF ClosesAll, CloseConnection, IInv, DueInv
<1>15. ASSUME Dials PROVE IInv'
  <2>1. TypeOK'
    BY <1>15 DEF Dials, IInv, TypeOK
  <2> QED
    BY <1>15, <2>1 DEF Dials, IInv, HandlerInv, AnswerInv, DueInv
<1>16. ASSUME ChecksIn PROVE IInv'
  <2>1. TypeOK'
    BY <1>16 DEF ChecksIn, IInv, TypeOK
  <2> QED
    BY <1>16, <2>1 DEF ChecksIn, IInv, HandlerInv, AnswerInv, DueInv
<1>17. ASSUME ChecksInLate PROVE IInv'
  <2>1. TypeOK'
    BY <1>17 DEF ChecksInLate, Crash, IInv, TypeOK
  <2>2. AnswerInv'
    BY <1>17 DEF ChecksInLate, Crash, IInv, TypeOK, AnswerInv
  <2>3. DueInv'
    BY <1>17 DEF ChecksInLate, Crash, IInv, TypeOK, DueInv
  <2> QED
    BY <1>17, <2>1, <2>2, <2>3 DEF ChecksInLate, Crash, IInv, HandlerInv
<1>18. ASSUME Activates PROVE IInv'
  <2>1. TypeOK'
    BY <1>18 DEF Activates, IInv, TypeOK
  <2> QED
    BY <1>18, <2>1 DEF Activates, IInv, HandlerInv, AnswerInv, DueInv
<1>19. ASSUME SourceConnects PROVE IInv'
  <2>1. TypeOK'
    BY <1>19 DEF SourceConnects, Connected, IInv, TypeOK
  <2>2. AnswerInv'
    BY <1>19 DEF SourceConnects, Connected, IInv, TypeOK, AnswerInv
  <2>3. DueInv'
    BY <1>19 DEF SourceConnects, Connected, IInv, TypeOK, DueInv
  <2> QED
    BY <1>19, <2>1, <2>2, <2>3 DEF SourceConnects, Connected, IInv, HandlerInv
<1>20. ASSUME TargetConnects PROVE IInv'
  <2>1. TypeOK'
    <3>1. conn' \in [Peers -> {"none", "asking", "connecting", "connected", "closed", "crashed"}]
      BY <1>20 DEF TargetConnects, Connected, IInv, TypeOK
    <3>2. watch' \in [Peers -> {"none", "starting", "on"}] /\ known' = known
      BY <1>20 DEF TargetConnects, Connected, IInv, TypeOK
    <3>3. checkin' \in BOOLEAN
      BY <1>20, Zenon DEF TargetConnects
    <3>4. UNCHANGED <<mode, session, asked, handler, record, ask, ticker, joined, link, notice>>
      BY <1>20 DEF TargetConnects
    <3> QED
      BY <3>1, <3>2, <3>3, <3>4 DEF IInv, TypeOK
  <2>2. AnswerInv'
    BY <1>20 DEF TargetConnects, Connected, IInv, TypeOK, AnswerInv
  <2>3. DueInv'
    BY <1>20 DEF TargetConnects, Connected, IInv, TypeOK, DueInv
  <2> QED
    BY <1>20, <2>1, <2>2, <2>3 DEF TargetConnects, Connected, IInv, HandlerInv
<1>21. ASSUME LinkDies PROVE IInv'
  <2>1. TypeOK'
    BY <1>21 DEF LinkDies, LinkLost, IInv, TypeOK
  <2> QED
    BY <1>21, <2>1 DEF LinkDies, LinkLost, IInv, HandlerInv, AnswerInv, DueInv
<1>22. ASSUME Reconnects PROVE IInv'
  <2>1. TypeOK'
    BY <1>22 DEF Reconnects, IInv, TypeOK
  <2> QED
    BY <1>22, <2>1 DEF Reconnects, IInv, HandlerInv, AnswerInv, DueInv
<1>23. ASSUME Disconnected PROVE IInv'
  <2>1. TypeOK'
    <3>1. known' \in [Peers -> {"no", "due", "yes", "closing"}]
      BY <1>23 DEF Disconnected, IInv, TypeOK
    <3>2. notice' \in BOOLEAN
      BY <1>23, Zenon DEF Disconnected
    <3>3. UNCHANGED <<mode, session, asked, handler, record, ask, ticker,
                      conn, watch, joined, link, checkin>>
      BY <1>23 DEF Disconnected
    <3> QED
      BY <3>1, <3>2, <3>3 DEF IInv, TypeOK
  <2>2. DueInv'
    BY <1>23 DEF Disconnected, IInv, TypeOK, DueInv
  <2> QED
    BY <1>23, <2>1, <2>2 DEF Disconnected, IInv, HandlerInv, AnswerInv
<1>24. ASSUME NEW p \in Peers, StoresConn(p) PROVE IInv'
  <2>1. TypeOK'
    BY <1>24 DEF StoresConn, IInv, TypeOK
  <2>2. HandlerInv'
    BY <1>24 DEF StoresConn, IInv, TypeOK, HandlerInv, DueInv
  <2>3. AnswerInv'
    BY <1>24 DEF StoresConn, IInv, TypeOK, AnswerInv
  <2>4. DueInv'
    BY <1>24 DEF StoresConn, IInv, TypeOK, DueInv
  <2> QED
    BY <1>24, <2>1, <2>2, <2>3, <2>4 DEF StoresConn, IInv
<1>25. ASSUME NEW p \in Peers, GivesUp(p) PROVE IInv'
  <2>1. TypeOK'
    BY <1>25 DEF GivesUp, IInv, TypeOK
  <2>2. AnswerInv'
    BY <1>25 DEF GivesUp, IInv, TypeOK, AnswerInv
  <2> QED
    BY <1>25, <2>1, <2>2 DEF GivesUp, IInv, HandlerInv, DueInv
<1>26. ASSUME NEW p \in Peers, RelayValidates(p) PROVE IInv'
  <2>1. TypeOK'
    <3>1. conn' \in [Peers -> {"none", "asking", "connecting", "connected", "closed", "crashed"}] /\ joined' \subseteq Peers
      BY <1>26 DEF RelayValidates, IInv, TypeOK
    <3> QED
      BY <1>26, <3>1 DEF RelayValidates, IInv, TypeOK
  <2>2. AnswerInv'
    BY <1>26 DEF RelayValidates, IInv, TypeOK, AnswerInv
  <2> QED
    BY <1>26, <2>1, <2>2 DEF RelayValidates, IInv, HandlerInv, DueInv
<1>27. ASSUME NEW p \in Peers, RelayConnects(p) PROVE IInv'
  <2>1. TypeOK'
    BY <1>27 DEF RelayConnects, Connected, IInv, TypeOK
  <2>2. AnswerInv'
    BY <1>27 DEF RelayConnects, Connected, IInv, TypeOK, AnswerInv
  <2>3. DueInv'
    BY <1>27 DEF RelayConnects, Connected, IInv, TypeOK, DueInv
  <2> QED
    BY <1>27, <2>1, <2>2, <2>3 DEF RelayConnects, Connected, IInv, HandlerInv
<1>28. ASSUME NEW p \in Peers, WatchStarts(p) PROVE IInv'
  <2>1. TypeOK'
    BY <1>28 DEF WatchStarts, IInv, TypeOK
  <2> QED
    BY <1>28, <2>1 DEF WatchStarts, IInv, HandlerInv, AnswerInv, DueInv
<1>29. ASSUME NEW p \in Peers, WatchPanics(p) PROVE IInv'
  <2>1. TypeOK'
    BY <1>29 DEF WatchPanics, Crash, IInv, TypeOK
  <2>2. AnswerInv'
    BY <1>29 DEF WatchPanics, Crash, IInv, TypeOK, AnswerInv
  <2>3. DueInv'
    BY <1>29 DEF WatchPanics, Crash, IInv, TypeOK, DueInv
  <2> QED
    BY <1>29, <2>1, <2>2, <2>3 DEF WatchPanics, Crash, IInv, HandlerInv
<1>30. ASSUME NEW p \in Peers, UserDeletes(p) PROVE IInv'
  <2>1. TypeOK'
    BY <1>30 DEF UserDeletes, IInv, TypeOK
  <2>2. DueInv'
    BY <1>30 DEF UserDeletes, IInv, TypeOK, DueInv
  <2> QED
    BY <1>30, <2>1, <2>2 DEF UserDeletes, IInv, HandlerInv, AnswerInv
<1>31. ASSUME NEW p \in Peers, SessionDies(p) PROVE IInv'
  <2>1. TypeOK'
    BY <1>31 DEF SessionDies, IInv, TypeOK
  <2> QED
    BY <1>31, <2>1 DEF SessionDies, IInv, HandlerInv, AnswerInv, DueInv
<1>32. ASSUME NEW p \in Peers, Close(p) PROVE IInv'
  <2>1. TypeOK'
    <3>1. conn' \in [Peers -> {"none", "asking", "connecting", "connected", "closed", "crashed"}]
      BY <1>32 DEF Close, IInv, TypeOK
    <3>2. link' \in {"none", "valid", "in", "active", "dead", "reborn"} /\ notice' \in BOOLEAN
      BY <1>32 DEF Close, LinkLost, IInv, TypeOK
    <3> QED
      BY <1>32, <3>1, <3>2 DEF Close, IInv, TypeOK
  <2>2. AnswerInv'
    BY <1>32 DEF Close, LinkLost, IInv, TypeOK, AnswerInv
  <2> QED
    BY <1>32, <2>1, <2>2 DEF Close, LinkLost, IInv, HandlerInv, DueInv
<1>33. ASSUME NEW p \in Peers, TransportEnds(p) PROVE IInv'
  BY <1>33, <1>32 DEF TransportEnds
<1>34. ASSUME NEW p \in Peers, ClosesDeleted(p) PROVE IInv'
  BY <1>34, <1>32 DEF ClosesDeleted
<1>35. CASE UNCHANGED vars
  BY <1>35 DEF IInv, TypeOK, HandlerInv, AnswerInv, DueInv
<1> QED
  BY <1>1, <1>2, <1>3, <1>4, <1>5, <1>6, <1>7, <1>8, <1>9, <1>10, <1>11, <1>12, <1>13,
    <1>14, <1>15, <1>16, <1>17, <1>18, <1>19, <1>20, <1>21, <1>22, <1>23, <1>24,
    <1>25, <1>26, <1>27, <1>28, <1>29, <1>30, <1>31, <1>32, <1>33, <1>34, <1>35
  DEF Next, BrokerStep, TickStep, ConnectStep, DirectStep, EndStep

\* The inductive invariant holds in every reachable state.
LEMMA Invariance == Spec => []IInv
<1> QED
  BY InitInv, StepInv, PTL DEF Spec

\* Both tables, the broker's record, its handler and the peers' direct link keep
\* their types, whichever of the two kinds of connection is asked for.
THEOREM ConnTypes == Spec => []TypeOK
<1>1. IInv => TypeOK
  BY DEF IInv
<1> QED
  BY <1>1, Invariance, PTL

\* The source connects only when the broker has stored the Connection and the
\* target has stored its own: the reply of the broker's handler comes last.
THEOREM ConnSourceNotEarly == Spec => []SourceIsNotTooEarly
<1>1. IInv => SourceIsNotTooEarly
  BY DEF IInv, TypeOK, AnswerInv, DueInv, Established, SourceIsNotTooEarly
<1> QED
  BY <1>1, Invariance, PTL

=============================================================================
