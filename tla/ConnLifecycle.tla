---------------------------- MODULE ConnLifecycle ----------------------------
(***************************************************************************)
(* p2p/server and p2p/client: one connection between two broker clients.   *)
(*                                                                         *)
(* The source asks the broker for a connection.  The broker makes its      *)
(* Connection, asks the target, stores the Connection and answers.  Both   *)
(* clients connect: directly, where the source dials the target and checks *)
(* in, or through a relay, which asks the broker about each of them.  The  *)
(* broker's ticker asks both for the state of the connection and drops it  *)
(* when one of them has none.                                              *)
(*                                                                         *)
(* What is below a Connection is reduced to what it shows here: p2pConn to *)
(* one dial, relayConn to the relay's validation and the end of connect,   *)
(* and the broker's udps.Client of each peer to whether it is Closed.      *)
(***************************************************************************)

CONSTANT Modes  \* the connection modes a source may ask for

ASSUME ModesAssumption == Modes \subseteq {"p2p", "relay"}

VARIABLES
  mode,     \* Connection.mode
  session,  \* the peers whose broker client is open
  asked,    \* the source's request: "none", "sent", or the broker's answer
  handler,  \* where the broker's connectionRequestHandler stands
  record,   \* the broker's Connection: "open" in Manager.conns, or not there
  ask,      \* the broker's request to the target: "none", "sent", "held", answer
  ticker,   \* the broker's ticker: between ticks, or at the peer it is asking
  conn,     \* each client's Connection
  known,    \* its entry in the client's Manager.conns: "due" to be stored
  watch,    \* the goroutine that waits for the transport to exit
  joined,   \* the peers the relay has validated
  link,     \* the session the source has dialled to the target
  checkin,  \* p2pConn.remoteClientChan of the target is full
  notice    \* the target's clientDisconnectedHandler is due

broker  == <<asked, handler, record, ask, ticker>>
clients == <<conn, known, watch>>
direct  == <<link, checkin, notice>>
vars == <<mode, session, broker, clients, joined, direct>>

Source == "source"
Target == "target"
Peers == {Source, Target}

Init ==
  /\ mode \in Modes
  /\ session = Peers
  /\ asked = "none"
  /\ handler = "off"
  /\ record = "none"
  /\ ask = "none"
  /\ ticker = "none"
  /\ conn = [p \in Peers |-> "none"]
  /\ known = [p \in Peers |-> "no"]
  /\ watch = [p \in Peers |-> "none"]
  /\ joined = {}
  /\ link = "none"
  /\ checkin = FALSE
  /\ notice = FALSE

-----------------------------------------------------------------------------
(* The request: createConnection of the source and of the broker *)

Asks ==
  /\ conn[Source] = "none"
  /\ Source \in session
  /\ conn' = [conn EXCEPT ![Source] = "asking"]
  /\ asked' = "sent"
  /\ UNCHANGED <<mode, session, handler, record, ask, ticker, known, watch, joined, direct>>

\* An answer to a source that has left is lost.
AnswersSource(a) == asked' = IF Source \in session THEN a ELSE asked

\* The target is not there, or the request is not valid.
Refuses ==
  /\ asked = "sent"
  /\ handler = "off"
  /\ handler' = "done"
  /\ AnswersSource("refused")
  /\ UNCHANGED <<mode, session, record, ask, ticker, clients, joined, direct>>

\* newConnection arms the timer that will start the ticker.
Makes ==
  /\ asked = "sent"
  /\ handler = "off"
  /\ Peers \subseteq session
  /\ record' = "made"
  /\ ticker' = "timer"
  /\ ask' = "sent"
  /\ handler' = "ask"
  /\ UNCHANGED <<mode, session, asked, clients, joined, direct>>

\* Mutant: the Connection is left as it was made.
FailsUnmarked ==
  /\ handler = "ask"
  /\ handler' = "done"
  /\ AnswersSource("refused")
  /\ UNCHANGED <<mode, session, record, ask, ticker, clients, joined, direct>>

\* The target refused, or its answer did not come in time.  CloseConnection
\* finds no entry to close: the timer and the ticker go on.
Fails ==
  /\ handler = "ask"
  /\ record' = "failed"
  /\ handler' = "done"
  /\ AnswersSource("refused")
  /\ UNCHANGED <<mode, session, ask, ticker, clients, joined, direct>>

\* Mutant: the source is answered before the Connection is stored.
AnswersFirst ==
  /\ handler = "ask"
  /\ ask = "ok"
  /\ AnswersSource("created")
  /\ handler' = "reply"
  /\ UNCHANGED <<mode, session, record, ask, ticker, clients, joined, direct>>

Stores ==
  /\ handler = "ask"
  /\ ask = "ok"
  /\ record' = "open"
  /\ handler' = "reply"
  /\ UNCHANGED <<mode, session, asked, ask, ticker, clients, joined, direct>>

Answers ==
  /\ handler = "reply"
  /\ handler' = "done"
  /\ AnswersSource("created")
  /\ UNCHANGED <<mode, session, record, ask, ticker, clients, joined, direct>>

\* connectionRequestHandler of the target: acceptConnection starts to connect
\* in a goroutine of its own, ...
Accepts ==
  /\ ask = "sent"
  /\ Target \in session
  /\ ask' = "held"
  /\ conn' = [conn EXCEPT ![Target] = "connecting"]
  /\ known' = [known EXCEPT ![Target] = "due"]
  /\ UNCHANGED <<mode, session, asked, handler, record, ticker, watch, joined, direct>>

Declines ==
  /\ ask = "sent"
  /\ Target \in session
  /\ ask' = "refused"
  /\ UNCHANGED <<mode, session, asked, handler, record, ticker, clients, joined, direct>>

\* ... and the handler stores the connection and answers; so does ConnectById,
\* once it has connected, without an answer.
StoresConn(p) ==
  /\ known[p] = "due"
  /\ known' = [known EXCEPT ![p] = "yes"]
  /\ ask' = IF p = Target /\ Target \in session THEN "ok" ELSE ask
  /\ UNCHANGED <<mode, session, asked, handler, record, ticker, conn, watch, joined, direct>>

\* The answer reaches the source, or its timer fires, ...
Learns ==
  /\ conn[Source] = "asking"
  /\ asked \in {"created", "refused"}
  /\ conn' = [conn EXCEPT ![Source] = IF asked = "created" THEN "connecting" ELSE "closed"]
  /\ UNCHANGED <<mode, session, broker, known, watch, joined, direct>>

\* ... as the timer of connect may, at either peer.  What it has dialled is
\* not closed then: localClient and remoteClient are not set yet.
GivesUp(p) ==
  /\ conn[p] \in {"asking", "connecting"}
  /\ conn' = [conn EXCEPT ![p] = "closed"]
  /\ UNCHANGED <<mode, session, broker, known, watch, joined, direct>>

-----------------------------------------------------------------------------
(* Connection.connect *)

\* The connection is up, and its watcher is about to start.  The source's
\* ConnectById will store it; the target's handler does so anyway.
Connected(p) ==
  /\ conn' = [conn EXCEPT ![p] = "connected"]
  /\ watch' = [watch EXCEPT ![p] = "starting"]
  /\ known' = IF p = Source THEN [known EXCEPT ![p] = "due"] ELSE known

\* The relay asks the broker about the peer, which refuses a connection it has
\* not stored yet, or has closed: the peer does not try again.
RelayValidates(p) ==
  /\ mode = "relay"
  /\ conn[p] = "connecting"
  /\ p \notin joined
  /\ IF record = "open"
     THEN joined' = joined \cup {p} /\ UNCHANGED conn
     ELSE conn' = [conn EXCEPT ![p] = "closed"] /\ UNCHANGED joined
  /\ UNCHANGED <<mode, session, broker, known, watch, direct>>

RelayConnects(p) ==
  /\ mode = "relay"
  /\ conn[p] = "connecting"
  /\ p \in joined
  /\ Connected(p)
  /\ UNCHANGED <<mode, session, broker, joined, direct>>

\* The target's p2pConn is not nil.
Ready == conn[Target] \in {"connecting", "connected"}

\* The source dials, and the target's clientValidateHandler finds both its
\* connection and its p2pConn.
Dials ==
  /\ mode = "p2p"
  /\ conn[Source] = "connecting"
  /\ link = "none"
  /\ known[Target] = "yes"
  /\ Ready
  /\ link' = "valid"
  /\ UNCHANGED <<mode, session, broker, clients, joined, checkin, notice>>

\* The process of p panics in a goroutine that does not recover.
Crash(p) ==
  /\ conn' = [conn EXCEPT ![p] = "crashed"]
  /\ known' = [known EXCEPT ![p] = "no"]
  /\ watch' = [watch EXCEPT ![p] = "none"]
  /\ session' = session \ {p}
  /\ notice' = (notice \/ link = "active")
  /\ link' = IF link = "none" THEN "none" ELSE "dead"
  /\ checkin' = (checkin /\ p # Target)

\* clientInitHandler puts the session into the channel of p2pConn.
ChecksIn ==
  /\ link = "valid"
  /\ conn[Source] = "connecting"
  /\ known[Target] = "yes"
  /\ Ready
  /\ link' = "in"
  /\ checkin' = TRUE
  /\ UNCHANGED <<mode, session, broker, clients, joined, notice>>

\* By now the target may have given up: its p2pConn is nil.
ChecksInLate ==
  /\ link = "valid"
  /\ conn[Source] = "connecting"
  /\ known[Target] = "yes"
  /\ conn[Target] = "closed"
  /\ Crash(Target)
  /\ UNCHANGED <<mode, broker, joined>>

\* The session is marked active, and the source is answered.
Activates ==
  /\ link = "in"
  /\ link' = "active"
  /\ UNCHANGED <<mode, session, broker, clients, joined, checkin, notice>>

SourceConnects ==
  /\ link = "active"
  /\ conn[Source] = "connecting"
  /\ Connected(Source)
  /\ UNCHANGED <<mode, session, broker, joined, direct>>

\* awaitRemoteConnection takes the session, whether it is still alive or not.
TargetConnects ==
  /\ checkin
  /\ conn[Target] = "connecting"
  /\ Connected(Target)
  /\ checkin' = FALSE
  /\ UNCHANGED <<mode, session, broker, joined, link, notice>>

-----------------------------------------------------------------------------
(* The end of a connection at its clients *)

\* The watcher reads c.p2pConn or c.relayConn, which Close may have set to nil.
WatchStarts(p) ==
  /\ watch[p] = "starting"
  /\ conn[p] = "connected"
  /\ watch' = [watch EXCEPT ![p] = "on"]
  /\ UNCHANGED <<mode, session, broker, conn, known, joined, direct>>

WatchPanics(p) ==
  /\ watch[p] = "starting"
  /\ conn[p] = "closed"
  /\ Crash(p)
  /\ UNCHANGED <<mode, broker, joined>>

\* The link is lost.  The target's udp server starts its disconnected handler,
\* which ignores a session that has not been marked active.
LinkLost ==
  /\ notice' = (notice \/ link = "active")
  /\ link' = IF link = "none" THEN "none" ELSE "dead"

LinkDies ==
  /\ link \notin {"none", "dead"}
  /\ LinkLost
  /\ UNCHANGED <<mode, session, broker, clients, joined, checkin>>

\* Connection.Close of a connected peer closes the session it holds.  The target
\* does not hold one that the source has reconnected.
Close(p) ==
  /\ conn[p] = "connected"
  /\ conn' = [conn EXCEPT ![p] = "closed"]
  /\ IF p = Target /\ link = "reborn" THEN UNCHANGED <<link, notice>> ELSE LinkLost
  /\ UNCHANGED <<mode, session, broker, known, watch, joined, checkin>>

\* The transport has ended, and the watcher closes the connection: the session
\* to the relay is lost or closed, or the source's dialled session is lost.
TransportEnds(p) ==
  /\ watch[p] = "on"
  /\ mode = "relay" \/ (p = Source /\ link = "dead")
  /\ Close(p)

\* The source's udp client reconnects before the target has noticed the loss.
Reconnects ==
  /\ conn[Source] = "connected"
  /\ link = "dead"
  /\ known[Target] = "yes"
  /\ Ready
  /\ link' = "reborn"
  /\ UNCHANGED <<mode, session, broker, clients, joined, checkin, notice>>

\* Mutant: the connection is taken out of the table only.
DisconnectedDeletes ==
  /\ notice
  /\ notice' = FALSE
  /\ known' = [known EXCEPT ![Target] = IF @ = "yes" THEN "no" ELSE @]
  /\ UNCHANGED <<mode, session, broker, conn, watch, joined, link, checkin>>

\* CloseConnection deletes the entry and closes the connection, which waits for
\* a connect under way: "closing".
Disconnected ==
  /\ notice
  /\ notice' = FALSE
  /\ known' = [known EXCEPT ![Target] = IF @ = "yes" THEN "closing" ELSE @]
  /\ UNCHANGED <<mode, session, broker, conn, watch, joined, link, checkin>>

\* The user closes the connection by its id, too.
UserDeletes(p) ==
  /\ known[p] = "yes"
  /\ known' = [known EXCEPT ![p] = "closing"]
  /\ UNCHANGED <<mode, session, broker, conn, watch, joined, direct>>

ClosesDeleted(p) ==
  /\ known[p] = "closing"
  /\ Close(p)

SessionDies(p) ==
  /\ p \in session
  /\ session' = session \ {p}
  /\ UNCHANGED <<mode, broker, clients, joined, direct>>

-----------------------------------------------------------------------------
(* The broker's ticker *)

TickerStarts ==
  /\ ticker = "timer"
  /\ ticker' = "idle"
  /\ UNCHANGED <<mode, session, asked, handler, record, ask, clients, joined, direct>>

\* Manager.CloseConnection closes the Connection it finds.  The ticker of a
\* closed Connection does nothing any more.
CloseConnection ==
  IF record = "open"
  THEN record' = "closed" /\ ticker' = "off"
  ELSE UNCHANGED record /\ ticker' = "idle"

TickBegins ==
  /\ ticker = "idle"
  /\ IF Peers \subseteq session
     THEN ticker' = Source /\ UNCHANGED record
     ELSE CloseConnection
  /\ UNCHANGED <<mode, session, asked, handler, ask, clients, joined, direct>>

\* Mutant: a connection that is found counts as connected.
IsThere(p) == p \in session /\ known[p] = "yes"

\* connectionStatusHandler of a client: is the connection stored and connected?
IsConnected(p) == p \in session /\ known[p] = "yes" /\ conn[p] = "connected"

\* A peer without a session does not answer.
ChecksStatus(p) ==
  /\ ticker = p
  /\ IF IsConnected(p)
     THEN ticker' = (IF p = Source THEN Target ELSE "idle") /\ UNCHANGED record
     ELSE CloseConnection
  /\ UNCHANGED <<mode, session, asked, handler, ask, clients, joined, direct>>

\* Client.Send reads a channel that Client.Close has just set to nil: the ticker
\* recovers, and stops itself.
TickPanics(p) ==
  /\ ticker = p
  /\ p \notin session
  /\ ticker' = "stopped"
  /\ UNCHANGED <<mode, session, asked, handler, record, ask, clients, joined, direct>>

\* CloseAllConnections.
ClosesAll ==
  /\ record = "open"
  /\ CloseConnection
  /\ UNCHANGED <<mode, session, asked, handler, ask, clients, joined, direct>>

-----------------------------------------------------------------------------

BrokerStep == Refuses \/ Makes \/ Stores \/ Answers \/ Fails

TickStep ==
  TickerStarts \/ TickBegins \/ (\E p \in Peers : ChecksStatus(p) \/ TickPanics(p))

ConnectStep(p) == RelayValidates(p) \/ RelayConnects(p) \/ GivesUp(p)

DirectStep ==
  \/ Dials \/ ChecksIn \/ ChecksInLate \/ Activates
  \/ SourceConnects \/ TargetConnects
  \/ LinkDies \/ Reconnects

EndStep(p) == WatchStarts(p) \/ WatchPanics(p) \/ TransportEnds(p)

Next ==
  \/ Asks \/ Learns \/ Accepts \/ Declines
  \/ BrokerStep \/ TickStep \/ ClosesAll
  \/ DirectStep \/ Disconnected
  \/ \E p \in Peers :
       \/ StoresConn(p) \/ ConnectStep(p) \/ EndStep(p)
       \/ ClosesDeleted(p) \/ UserDeletes(p) \/ Close(p) \/ SessionDies(p)

Spec == Init /\ [][Next]_vars

\* Tickers and timers fire, and goroutines run.  Nothing is assumed of the
\* users, the sessions, the link and the relay.
Fairness ==
  /\ WF_vars(TickStep)
  /\ WF_vars(Disconnected)
  /\ \A p \in Peers : WF_vars(StoresConn(p)) /\ WF_vars(ConnectStep(p)) /\ WF_vars(ClosesDeleted(p))

FairSpec == Spec /\ Fairness

-----------------------------------------------------------------------------
(* Properties *)

Down(p) == p \notin session \/ conn[p] \in {"closed", "crashed"}

TypeOK ==
  /\ mode \in Modes
  /\ session \subseteq Peers
  /\ asked \in {"none", "sent", "created", "refused"}
  /\ handler \in {"off", "ask", "reply", "done"}
  /\ record \in {"none", "made", "open", "closed", "failed"}
  /\ ask \in {"none", "sent", "held", "ok", "refused"}
  /\ ticker \in {"none", "timer", "idle", "off", "stopped"} \cup Peers
  /\ conn \in [Peers -> {"none", "asking", "connecting", "connected", "closed", "crashed"}]
  /\ known \in [Peers -> {"no", "due", "yes", "closing"}]
  /\ watch \in [Peers -> {"none", "starting", "on"}]
  /\ joined \subseteq Peers
  /\ link \in {"none", "valid", "in", "active", "dead", "reborn"}
  /\ checkin \in BOOLEAN
  /\ notice \in BOOLEAN
  /\ record = "made" => handler \in {"ask", "reply"}

\* A source that connects is not too early: neither the relay, or a later request,
\* finds that the broker does not know the connection yet, nor does it dial a
\* target that has not stored it, and would refuse it for good.
SourceIsNotTooEarly ==
  /\ conn[Source] \in {"connecting", "connected"} => record \in {"open", "closed"}
  /\ mode = "p2p" /\ conn[Source] = "connecting" => known[Target] # "due"

\* A connection that one of its peers has closed or lost is dropped by the
\* broker, unless a panic has stopped its ticker.
AbandonedIsForgotten ==
  \A p \in Peers : record = "open" /\ Down(p) ~> record = "closed" \/ ticker = "stopped"

\* The loss of an active link closes the target's connection, even one that is
\* still connecting.
LostLinkClosesTarget == notice ~> conn[Target] \in {"closed", "crashed"}

=============================================================================
