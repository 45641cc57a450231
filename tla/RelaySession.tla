---------------------------- MODULE RelaySession ----------------------------
(***************************************************************************)
(* p2p/relay and p2p/client/relay.go: two peers meet on a relay.           *)
(*                                                                         *)
(* Each peer opens a session to the relay.  The relay asks the broker      *)
(* whether it knows the connection, finds or creates its Connection object *)
(* and registers the peer.  The peer then asks the relay to wait for the   *)
(* other one.  A ticker per Connection asks the broker whether it still    *)
(* knows the connection; if not, or if the broker cannot be asked, it      *)
(* closes the Connection and both peers' sessions.                         *)
(*                                                                         *)
(* One connection id: the objects that have been created for it are        *)
(* numbered, 0 is none.  So are the sessions of each peer.  A peer of the  *)
(* udp packages is reduced to what UdpClient and UdpServer show of it: it  *)
(* has one session at a time, and the relay's registry one entry for it.   *)
(***************************************************************************)
EXTENDS Naturals

CONSTANTS
  Source, Target,  \* the two peers of the connection
  Reconnecting,    \* the peers that may open a second session: a bound
  MaxConns         \* bound on the Connections made while the broker has the record

Nobody == "nobody"

ASSUME RelayAssumption ==
  /\ Source # Target
  /\ Nobody \notin {Source, Target}
  /\ Reconnecting \subseteq {Source, Target}
  /\ MaxConns \in Nat \ {0}

VARIABLES
  record,     \* the broker has the connection
  conn,       \* Server.conns for this id
  made,       \* the Connections created so far
  stage,      \* how far Close of each Connection has come
  validator,  \* the peer whose validation holds the mutexes
  relay,      \* p2pc.relayConn of each peer
  dial,       \* its udpc.Client, and the validation it is waiting for
  sessions,   \* how many sessions it has opened: the last is the current one
  alive,      \* the current session is up
  registry,   \* the session of each peer in udpServer.clients
  met,        \* the peers that have ever been registered
  await,      \* where awaitPeerConnection for each peer stands
  bus,        \* the Connection whose peerConnBus it uses
  buffer,     \* its subscription holds the other peer's id
  late,       \* its timer has set err
  answer      \* what it replies

conns   == <<conn, made, stage>>
clients == <<relay, dial, sessions, alive>>
server  == <<validator, registry, met>>
waits   == <<await, bus, buffer, late, answer>>
vars == <<record, conns, clients, server, waits>>

Peers == {Source, Target}
Other(p) == IF p = Source THEN Target ELSE Source
MaxSessions(p) == IF p \in Reconnecting THEN 2 ELSE 1

\* While the broker has the record every Connection but the last may be lost
\* to a broken broker link; a validation that was granted before the record
\* went may create one more.
Gens == 1..(MaxConns + 1)

Init ==
  /\ record = TRUE
  /\ conn = 0
  /\ made = 0
  /\ stage = [g \in Gens |-> "none"]
  /\ validator = Nobody
  /\ relay = [p \in Peers |-> "idle"]
  /\ dial = [p \in Peers |-> "none"]
  /\ sessions = [p \in Peers |-> 0]
  /\ alive = [p \in Peers |-> FALSE]
  /\ registry = [p \in Peers |-> 0]
  /\ met = {}
  /\ await = [p \in Peers |-> "off"]
  /\ bus = [p \in Peers |-> 0]
  /\ buffer = [p \in Peers |-> FALSE]
  /\ late = [p \in Peers |-> FALSE]
  /\ answer = [p \in Peers |-> "none"]

-----------------------------------------------------------------------------
(* The broker and the network *)

RecordGoes ==
  /\ record
  /\ record' = FALSE
  /\ UNCHANGED <<conns, clients, server, waits>>

SessionDies(p) ==
  /\ alive[p]
  /\ alive' = [alive EXCEPT ![p] = FALSE]
  /\ UNCHANGED <<record, conns, relay, dial, sessions, server, waits>>

-----------------------------------------------------------------------------
(* The peer: relayConn.connect, and Connect and reconnect below it *)

\* relayConn.connect starts.
Connects(p) ==
  /\ relay[p] = "idle"
  /\ relay' = [relay EXCEPT ![p] = "connecting"]
  /\ dial' = [dial EXCEPT ![p] = "dial"]
  /\ UNCHANGED <<record, conns, sessions, alive, server, waits>>

Dials(p) ==
  /\ dial[p] = "dial"
  /\ sessions[p] < MaxSessions(p)
  /\ sessions' = [sessions EXCEPT ![p] = @ + 1]
  /\ alive' = [alive EXCEPT ![p] = TRUE]
  /\ dial' = [dial EXCEPT ![p] = "lock"]
  /\ UNCHANGED <<record, conns, relay, server, waits>>

\* The udp client is closed; a relayConn that is connecting fails with it.
GiveUp(p) ==
  /\ dial' = [dial EXCEPT ![p] = "closed"]
  /\ alive' = [alive EXCEPT ![p] = FALSE]
  /\ relay' = IF relay[p] = "connecting" THEN [relay EXCEPT ![p] = "closed"] ELSE relay

\* The relay is out of reach until the tries are used up.
DialFails(p) ==
  /\ dial[p] = "dial"
  /\ GiveUp(p)
  /\ UNCHANGED <<record, conns, sessions, server, waits>>

\* The reply to the validation arrives: on the first session, the peer asks the
\* relay to wait for the other one.
Validated(p) ==
  /\ dial[p] = "stored"
  /\ alive[p]
  /\ dial' = [dial EXCEPT ![p] = "up"]
  /\ IF relay[p] = "connecting"
     THEN /\ relay' = [relay EXCEPT ![p] = "awaiting"]
          /\ await' = [await EXCEPT ![p] = "sent"]
     ELSE UNCHANGED <<relay, await>>
  /\ UNCHANGED <<record, conns, sessions, alive, server, bus, buffer, late, answer>>

\* The reply is lost with its session: Connect fails, reconnect tries again.
ValidationLost(p) ==
  /\ dial[p] = "stored"
  /\ ~alive[p]
  /\ IF relay[p] = "connecting"
     THEN GiveUp(p)
     ELSE dial' = [dial EXCEPT ![p] = "dial"] /\ UNCHANGED <<relay, alive>>
  /\ UNCHANGED <<record, conns, sessions, server, waits>>

\* The message loop of the client notices the loss of the session and
\* reconnects: reset closes the channel under a waiting Send.
Reconnects(p) ==
  /\ dial[p] = "up"
  /\ ~alive[p]
  /\ dial' = [dial EXCEPT ![p] = "dial"]
  /\ UNCHANGED <<record, conns, relay, sessions, alive, server, waits>>

\* awaitPeer of the peer returns with the reply, whatever its Status, ...
GetsReply(p) ==
  /\ relay[p] = "awaiting"
  /\ await[p] = "replied"
  /\ relay' = [relay EXCEPT ![p] = "connected"]
  /\ UNCHANGED <<record, conns, dial, sessions, alive, server, waits>>

\* ... or because its channel was closed, ...
AwaitLost(p) ==
  /\ relay[p] = "awaiting"
  /\ dial[p] # "up" \/ sessions[p] > 1
  /\ relay' = [relay EXCEPT ![p] = "closing"]
  /\ UNCHANGED <<record, conns, dial, sessions, alive, server, waits>>

\* ... or by its timer.
AwaitTimesOut(p) ==
  /\ relay[p] = "awaiting"
  /\ relay' = [relay EXCEPT ![p] = "closing"]
  /\ UNCHANGED <<record, conns, dial, sessions, alive, server, waits>>

\* The user closes the connection.
Leaves(p) ==
  /\ relay[p] = "connected"
  /\ relay' = [relay EXCEPT ![p] = "closing"]
  /\ UNCHANGED <<record, conns, dial, sessions, alive, server, waits>>

\* The udp client is closed, which waits for a reconnect under way.
ClosesClient(p) ==
  /\ relay[p] = "closing"
  /\ dial[p] \in {"up", "closed"}
  /\ dial' = [dial EXCEPT ![p] = "closed"]
  /\ alive' = [alive EXCEPT ![p] = FALSE]
  /\ relay' = [relay EXCEPT ![p] = "closed"]
  /\ UNCHANGED <<record, conns, sessions, server, waits>>

\* The udp client has given up and signalled Exit.
Exits(p) ==
  /\ relay[p] = "connected"
  /\ dial[p] = "closed"
  /\ relay' = [relay EXCEPT ![p] = "closed"]
  /\ UNCHANGED <<record, conns, dial, sessions, alive, server, waits>>

-----------------------------------------------------------------------------
(* The relay: clientValidateHandler, under connsMutex and the server's mutex *)

\* The mutexes are free, and the broker knows the connection.
Grants(p) ==
  /\ dial[p] = "lock"
  /\ validator = Nobody
  /\ record
  /\ validator' = p
  /\ dial' = [dial EXCEPT ![p] = "granted"]
  /\ UNCHANGED <<record, conns, relay, sessions, alive, registry, met, waits>>

\* Mutant: the refusal leaves the mutexes locked.
RefusesLocked(p) ==
  /\ dial[p] = "lock"
  /\ validator = Nobody
  /\ GiveUp(p)
  /\ validator' = p
  /\ UNCHANGED <<record, conns, sessions, registry, met, waits>>

\* The broker does not know the connection, or cannot be asked: the peer is told
\* no, and a client that is told no does not try again.
Refuses(p) ==
  /\ dial[p] = "lock"
  /\ validator = Nobody
  /\ GiveUp(p)
  /\ UNCHANGED <<record, conns, sessions, server, waits>>

LoadsOrCreates(p) ==
  /\ dial[p] = "granted"
  /\ IF conn # 0
     THEN UNCHANGED conns
     ELSE /\ made' = made + 1
          /\ conn' = made'
          /\ stage' = [stage EXCEPT ![made'] = "open"]
  /\ dial' = [dial EXCEPT ![p] = "loaded"]
  /\ UNCHANGED <<record, relay, sessions, alive, server, waits>>

\* validateClient puts the session into the registry.
Stores(p) ==
  /\ dial[p] = "loaded"
  /\ registry' = [registry EXCEPT ![p] = sessions[p]]
  /\ met' = met \cup {p}
  /\ validator' = Nobody
  /\ dial' = [dial EXCEPT ![p] = "stored"]
  /\ UNCHANGED <<record, conns, relay, sessions, alive, waits>>

Current(p) == registry[p] = sessions[p] /\ alive[p]

\* The relay notices that a registered session is gone.
Unregisters(p) ==
  /\ registry[p] # 0
  /\ ~Current(p)
  /\ registry' = [registry EXCEPT ![p] = 0]
  /\ UNCHANGED <<record, conns, clients, validator, met, waits>>

-----------------------------------------------------------------------------
(* The relay: awaitPeerConnection and Connection.awaitPeer *)

\* The request came with the peer's first session.
Reachable(p) == alive[p] /\ sessions[p] = 1

BusOpen(g) == stage[g] \in {"open", "closing"}

\* awaitPeer returns: its subscription and its timer go, and the reply is sent
\* to the session the request came with.
Answers(p, a) ==
  /\ await' = [await EXCEPT ![p] = IF Reachable(p) THEN "replied" ELSE "lost"]
  /\ answer' = [answer EXCEPT ![p] = a]
  /\ bus' = [bus EXCEPT ![p] = 0]
  /\ buffer' = [buffer EXCEPT ![p] = FALSE]
  /\ late' = [late EXCEPT ![p] = FALSE]

GoesTo(p, at) ==
  /\ await' = [await EXCEPT ![p] = at]
  /\ UNCHANGED <<bus, buffer, late, answer>>

\* The peer announces itself to whoever has subscribed by now.
Publish(p, g) ==
  buffer' = [buffer EXCEPT ![Other(p)] =
    @ \/ (await[Other(p)] = "wait" /\ bus[Other(p)] = g /\ BusOpen(g))]

\* The Connection is looked up, and awaitPeer starts.
Announces(p) ==
  /\ await[p] = "sent"
  /\ Reachable(p)
  /\ IF conn = 0
     THEN Answers(p, "error")
     ELSE /\ await' = [await EXCEPT ![p] = "check"]
          /\ bus' = [bus EXCEPT ![p] = conn]
          /\ Publish(p, conn)
          /\ UNCHANGED <<late, answer>>
  /\ UNCHANGED <<record, conns, clients, server>>

\* Mutants: the peer looks for itself; it does not look at all.
ChecksItself(p) ==
  /\ await[p] = "check"
  /\ IF registry[p] # 0 THEN Answers(p, "ok") ELSE GoesTo(p, "subscribe")
  /\ UNCHANGED <<record, conns, clients, server>>

ChecksNothing(p) ==
  /\ await[p] = "check"
  /\ GoesTo(p, "subscribe")
  /\ UNCHANGED <<record, conns, clients, server>>

\* Is the other peer registered?
Checks(p) ==
  /\ await[p] = "check"
  /\ IF registry[Other(p)] # 0 THEN Answers(p, "ok") ELSE GoesTo(p, "subscribe")
  /\ UNCHANGED <<record, conns, clients, server>>

\* Mutant: the error return forgets the subscription.
SubscribesAndForgets(p) ==
  /\ await[p] = "subscribe"
  /\ GoesTo(p, IF BusOpen(bus[p]) THEN "wait" ELSE "replied")
  /\ UNCHANGED <<record, conns, clients, server>>

\* A bus that has been closed takes no subscription.
Subscribes(p) ==
  /\ await[p] = "subscribe"
  /\ IF BusOpen(bus[p]) THEN GoesTo(p, "wait") ELSE Answers(p, "error")
  /\ UNCHANGED <<record, conns, clients, server>>

\* The other peer's id arrives: awaitPeer returns with the err it has by now.
Hears(p) ==
  /\ await[p] = "wait"
  /\ buffer[p]
  /\ Answers(p, IF late[p] THEN "error" ELSE "ok")
  /\ UNCHANGED <<record, conns, clients, server>>

\* A closed bus gives empty ids until the time is over.
BusEnds(p) ==
  /\ await[p] = "wait"
  /\ ~BusOpen(bus[p])
  /\ ~buffer[p]
  /\ Answers(p, "error")
  /\ UNCHANGED <<record, conns, clients, server>>

\* The timer sets err; timeNow stays what it was, so the loop goes on.
TimerFires(p) ==
  /\ await[p] = "wait"
  /\ late' = [late EXCEPT ![p] = TRUE]
  /\ UNCHANGED <<record, conns, clients, server, await, bus, buffer, answer>>

-----------------------------------------------------------------------------
(* The relay: handleTick and Connection.Close *)

\* Mutant: the ticker is stopped and Close is not called.
TickStops(g) ==
  /\ stage[g] = "open"
  /\ ~record \/ made < MaxConns
  /\ UNCHANGED vars

\* The broker does not know the connection any more, or cannot be asked.
TickCloses(g) ==
  /\ stage[g] = "open"
  /\ ~record \/ made < MaxConns
  /\ stage' = [stage EXCEPT ![g] = "closing"]
  /\ UNCHANGED <<record, conn, made, clients, server, waits>>

\* Mutant: the Connection stays in the table.
KeepsConn(g) ==
  /\ stage[g] = "closing"
  /\ stage' = [stage EXCEPT ![g] = "source"]
  /\ UNCHANGED <<record, conn, made, clients, server, waits>>

\* The bus is closed and the Connection deleted from the table.
DeletesConn(g) ==
  /\ stage[g] = "closing"
  /\ conn' = 0
  /\ stage' = [stage EXCEPT ![g] = "source"]
  /\ UNCHANGED <<record, made, clients, server, waits>>

\* The sessions are closed by their client ids, whoever has registered them.
ClosesPeer(g, p, at, next) ==
  /\ stage[g] = at
  /\ stage' = [stage EXCEPT ![g] = next]
  /\ alive' = [alive EXCEPT ![p] = @ /\ registry[p] # sessions[p]]
  /\ registry' = [registry EXCEPT ![p] = 0]
  /\ UNCHANGED <<record, conn, made, relay, dial, sessions, validator, met, waits>>

ClosesSource(g) == ClosesPeer(g, Source, "source", "target")
ClosesTarget(g) == ClosesPeer(g, Target, "target", "closed")

-----------------------------------------------------------------------------

DialStep(p) ==
  Dials(p) \/ DialFails(p) \/ Validated(p) \/ ValidationLost(p) \/ Reconnects(p)
ConnStep(p) == GetsReply(p) \/ AwaitLost(p) \/ ClosesClient(p) \/ Exits(p)
ValidateStep(p) ==
  Grants(p) \/ Refuses(p) \/ LoadsOrCreates(p) \/ Stores(p)
AwaitStep(p) ==
  Announces(p) \/ Checks(p) \/ Subscribes(p) \/ Hears(p) \/ BusEnds(p)
CloseStep(g) ==
  DeletesConn(g) \/ ClosesSource(g) \/ ClosesTarget(g)

PeerStep(p) ==
  \/ Connects(p) \/ DialStep(p) \/ ConnStep(p) \/ AwaitTimesOut(p) \/ Leaves(p)
  \/ SessionDies(p)

RelayStep(p) ==
  ValidateStep(p) \/ Unregisters(p) \/ AwaitStep(p) \/ TimerFires(p)

Next ==
  \/ RecordGoes
  \/ \E p \in Peers : PeerStep(p) \/ RelayStep(p)
  \/ \E g \in Gens : TickCloses(g) \/ CloseStep(g)

Spec == Init /\ [][Next]_vars

\* Goroutines run, timers and tickers fire, requests to the broker and dials end
\* one way or another.  Nothing is assumed of users, sessions and the broker.
Ticking == \A g \in Gens : WF_vars(~record /\ TickCloses(g)) /\ WF_vars(CloseStep(g))

Connecting ==
  \A p \in Peers :
    /\ WF_vars(DialStep(p) \/ ValidateStep(p))
    /\ WF_vars(ConnStep(p) \/ AwaitTimesOut(p))

Awaiting == \A p \in Peers : WF_vars(AwaitStep(p)) /\ WF_vars(TimerFires(p))

LiveSpec == Spec /\ Ticking /\ Connecting
FairSpec == LiveSpec /\ Awaiting

-----------------------------------------------------------------------------
(* Properties *)

TypeOK ==
  /\ record \in BOOLEAN
  /\ conn \in {0} \cup Gens
  /\ made \in {0} \cup Gens
  /\ stage \in [Gens -> {"none", "open", "closing", "source", "target", "closed"}]
  /\ validator \in Peers \cup {Nobody}
  /\ relay \in [Peers -> {"idle", "connecting", "awaiting", "connected", "closing", "closed"}]
  /\ dial \in [Peers -> {"none", "dial", "lock", "granted", "loaded",
                         "stored", "up", "closed"}]
  /\ sessions \in [Peers -> 0..2]
  /\ alive \in [Peers -> BOOLEAN]
  /\ registry \in [Peers -> 0..2]
  /\ met \subseteq Peers
  /\ await \in [Peers -> {"off", "sent", "check", "subscribe", "wait", "replied", "lost"}]
  /\ bus \in [Peers -> {0} \cup Gens]
  /\ buffer \in [Peers -> BOOLEAN]
  /\ late \in [Peers -> BOOLEAN]
  /\ answer \in [Peers -> {"none", "ok", "error"}]
  /\ \A p \in Peers : await[p] \in {"check", "subscribe", "wait"} <=> bus[p] # 0

\* Although validations find or create Connections while a ticker closes one,
\* the table holds the one that is not closed, and there is only one.
TableHoldsTheOpenOne ==
  \A g \in Gens : stage[g] \in {"open", "closing"} <=> conn = g

\* A peer that is told that its partner is there has a partner: it has been
\* registered on this relay for this connection.
OkMeansPartner == \A p \in Peers : answer[p] = "ok" => Other(p) \in met

\* Two registered peers never both wait for each other: a wait begins with a
\* look at the registry, which a peer is in before it asks.
NeverBothWait ==
  ~ \A p \in Peers : Reachable(p) /\ registry[p] = 1 /\ await[p] = "wait"

\* A connection that the broker has forgotten is dropped for good, even one that
\* a validation creates meanwhile.
GoneIsDropped == ~record ~> [](conn = 0)

\* relayConn.connect returns, whatever the relay, the partner and the broker do.
ConnectEnds ==
  \A p \in Peers : relay[p] = "connecting" ~> relay[p] \in {"connected", "closed"}

-----------------------------------------------------------------------------
(* What the comments of the code say, and the code does not do. *)

\* relay/conn.go:130 "Await connection from the other peer for
\* (awaitPeertimeout) nanoseconds": the wait ends.
WaitEnds == \A p \in Peers : await[p] = "wait" ~> await[p] # "wait"

=============================================================================
