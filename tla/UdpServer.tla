----------------------------- MODULE UdpServer -----------------------------
(***************************************************************************)
(* udp/server: the session registry of a QUIC server.                      *)
(*                                                                         *)
(* One goroutine accepts sessions; each session then has a goroutine that  *)
(* reads its messages (handleMessages) and a ticker that closes it unless  *)
(* it identifies itself in time.  A validated session is stored in the     *)
(* registry under its client id, after the session stored there has been   *)
(* closed.  Client.Close may be called by the message loop, the ticker,    *)
(* the validation of another session, the application and Server.Close; it *)
(* takes no lock, so its steps are actions of their own.                   *)
(*                                                                         *)
(* A nil dereference outside a ticker ends the process: crashed.           *)
(***************************************************************************)
EXTENDS Naturals, FiniteSets

CONSTANTS
  Sessions,     \* the QUIC sessions that are dialled
  Ids,          \* the client ids the validation handler gives
  AppCloses,    \* the sessions the application may close
  ShutsDown,    \* whether the application may call Server.Close
  None          \* no session, no id, no thread

ASSUME ServerAssumption ==
  /\ AppCloses \subseteq Sessions
  /\ ShutsDown \in BOOLEAN
  /\ None \notin Sessions \cup Ids

VARIABLES
  link,         \* the QUIC session: "none", "up" or "dead"
  stream,       \* the sessions whose peer has opened its message stream
  waiting,      \* the sessions in the listener's accept queue
  acceptor,     \* where handleSessions stands
  pending,      \* the session newClient waits for in AcceptStream
  loop,         \* where handleMessages of each session stands
  verdict,      \* what validateClient said of each session
  initialized,  \* Client.initialized
  id,           \* Client.Id
  channel,      \* the sessions whose Client.channel is not nil
  Closed,       \* Client.Closed
  ticking,      \* the sessions whose ticker has not been stopped
  close,        \* the Close each thread is executing, and on which session
  notified,     \* the sessions whose disconnected handler was started
  registry,     \* Server.clients
  smutex,       \* the thread that holds Server.mutex
  server,       \* where Server.Close stands
  visit,        \* the key its Range callback is working on
  visited,      \* the keys it has been through
  listening,    \* Server.listener is not nil
  crashed       \* a panic that nothing recovers

network   == <<link, stream, waiting>>
accepting == <<acceptor, pending>>
shutdown  == <<server, visit, visited, listening>>
outside   == <<network, accepting, shutdown>>
client    == <<verdict, initialized, id>>
life      == <<channel, Closed, ticking, notified>>
table     == <<registry, smutex>>
clients   == <<loop, client, life, close, table>>
vars == <<outside, clients, crashed>>

\* The threads that execute Client.Close.
Loop(s) == <<"loop", s>>
Tick(s) == <<"tick", s>>
App     == <<"app", None>>  \* one goroutine of the application: a bound
Threads == ({"loop", "tick"} \X Sessions) \cup {App}

\* None is nothing else.
ASSUME ThreadAssumption == None \notin Threads

Idle == [on |-> None, at |-> "out"]
Entered(s) == [on |-> s, at |-> "closed?"]
Busy(t) == close[t] # Idle

Init ==
  /\ link = [s \in Sessions |-> "none"]
  /\ stream = {}
  /\ waiting = {}
  /\ acceptor = "top"
  /\ pending = None
  /\ loop = [s \in Sessions |-> "off"]
  /\ verdict = [s \in Sessions |-> "none"]
  /\ initialized = {}
  /\ id = [s \in Sessions |-> None]
  /\ channel = {}
  /\ Closed = {}
  /\ ticking = {}
  /\ close = [t \in Threads |-> Idle]
  /\ notified = {}
  /\ registry = [i \in Ids |-> None]
  /\ smutex = None
  /\ server = "open"
  /\ visit = None
  /\ visited = {}
  /\ listening = TRUE
  /\ crashed = FALSE

Registered(i) == registry[i] # None

\* A crashed process takes no step.
Alive == ~crashed /\ UNCHANGED crashed

\* The goroutine of thread t dereferences a nil pointer.  Only a ticker
\* recovers: it stops itself and gives its Close up.
Panics(t) ==
  IF t[1] = "tick"
  THEN /\ close' = [close EXCEPT ![t] = Idle]
       /\ ticking' = ticking \ {t[2]}
       /\ UNCHANGED crashed
  ELSE /\ crashed' = TRUE
       /\ UNCHANGED <<close, ticking>>

-----------------------------------------------------------------------------
(* The peers and the network *)

Dial(s) ==
  /\ Alive
  /\ link[s] = "none"
  /\ listening
  /\ link' = [link EXCEPT ![s] = "up"]
  /\ waiting' = waiting \cup {s}
  /\ UNCHANGED <<clients, accepting, shutdown, stream>>

\* The peer writes its first message, which makes its stream visible.
OpensStream(s) ==
  /\ Alive
  /\ link[s] = "up"
  /\ s \notin stream
  /\ stream' = stream \cup {s}
  /\ UNCHANGED <<clients, accepting, shutdown, link, waiting>>

\* The peer goes away, or the session times out.
LinkDies(s) ==
  /\ Alive
  /\ link[s] = "up"
  /\ link' = [link EXCEPT ![s] = "dead"]
  /\ UNCHANGED <<clients, accepting, shutdown, stream, waiting>>

-----------------------------------------------------------------------------
(* handleSessions *)

\* The accept loop reads s.listener anew every time round.
AcceptCalls ==
  /\ ~crashed
  /\ acceptor = "top"
  /\ IF listening
     THEN acceptor' = "accept" /\ UNCHANGED crashed
     ELSE crashed' = TRUE /\ UNCHANGED acceptor
  /\ UNCHANGED <<clients, network, shutdown, pending>>

Accepts(s) ==
  /\ Alive
  /\ acceptor = "accept"
  /\ s \in waiting
  /\ waiting' = waiting \ {s}
  /\ acceptor' = "stream"
  /\ pending' = s
  /\ UNCHANGED <<clients, shutdown, link, stream>>

\* The listener was closed: the goroutine returns.
AcceptFails ==
  /\ Alive
  /\ acceptor = "accept"
  /\ ~listening
  /\ acceptor' = "stopped"
  /\ UNCHANGED <<clients, network, shutdown, pending>>

\* newClient has the peer's stream: the client, its timer and its message
\* loop start.
NewClient ==
  /\ Alive
  /\ acceptor = "stream"
  /\ pending \in stream
  /\ loop' = [loop EXCEPT ![pending] = "top"]
  /\ channel' = channel \cup {pending}
  /\ ticking' = ticking \cup {pending}
  /\ pending' = None
  /\ acceptor' = "top"
  /\ UNCHANGED <<network, shutdown, client, table, Closed, notified, close>>

\* The session died before its peer opened a stream: newClient fails, and
\* handleSessions returns.
NewClientFails ==
  /\ Alive
  /\ acceptor = "stream"
  /\ pending \notin stream
  /\ link[pending] = "dead"
  /\ acceptor' = "stopped"
  /\ pending' = None
  /\ UNCHANGED <<clients, network, shutdown>>

-----------------------------------------------------------------------------
(* Client.Close, executed by thread t on session close[t].on *)

CloseOf(t, s, at) == close[t] = [on |-> s, at |-> at]
Goto(t, at) == close' = [close EXCEPT ![t].at = at]

\* Mutant: a Close that finds no channel leaves the session to the other one.
CloseChecksHastily(t, s) ==
  /\ Alive
  /\ CloseOf(t, s, "closed?")
  /\ IF s \in Closed THEN close' = [close EXCEPT ![t] = Idle]
     ELSE Goto(t, IF s \in channel THEN "channel" ELSE "flag")
  /\ UNCHANGED <<outside, client, life, table, loop>>

CloseChecks(t, s) ==
  /\ Alive
  /\ CloseOf(t, s, "closed?")
  /\ IF s \in Closed THEN close' = [close EXCEPT ![t] = Idle]
     ELSE Goto(t, IF s \in channel THEN "channel" ELSE "session")
  /\ UNCHANGED <<outside, client, life, table, loop>>

\* c.channel.Close(); c.channel = nil.  Another Close may have set it to nil
\* since it was looked at.
ClosesChannel(t, s) ==
  /\ ~crashed
  /\ CloseOf(t, s, "channel")
  /\ IF s \in channel
     THEN /\ channel' = channel \ {s}
          /\ Goto(t, "session")
          /\ UNCHANGED <<ticking, crashed>>
     ELSE Panics(t) /\ UNCHANGED channel
  /\ UNCHANGED <<outside, client, table, loop, Closed, notified>>

\* CloseWithError on the session, then both timers are stopped.
ClosesSession(t, s) ==
  /\ Alive
  /\ CloseOf(t, s, "session")
  /\ link' = [link EXCEPT ![s] = "dead"]
  /\ ticking' = ticking \ {s}
  /\ Goto(t, "flag")
  /\ UNCHANGED <<accepting, shutdown, client, table, stream>>
  /\ UNCHANGED <<waiting, loop, channel, Closed, notified>>

SetsClosed(t, s) ==
  /\ Alive
  /\ CloseOf(t, s, "flag")
  /\ Closed' = Closed \cup {s}
  /\ Goto(t, "load")
  /\ UNCHANGED <<outside, client, table, loop, channel, ticking, notified>>

\* Is the registry's entry for this id this very session?
Holds(s) == id[s] # None /\ registry[id[s]] = s

\* If it is not, the disconnected handler starts and Close returns.
LoadsEntry(t, s) ==
  /\ Alive
  /\ CloseOf(t, s, "load")
  /\ IF Holds(s)
     THEN Goto(t, "delete") /\ UNCHANGED notified
     ELSE close' = [close EXCEPT ![t] = Idle] /\ notified' = notified \cup {s}
  /\ UNCHANGED <<outside, client, table, loop, channel, Closed, ticking>>

\* The entry is deleted by its key, whatever it holds by now.
DeletesEntry(t, s) ==
  /\ Alive
  /\ CloseOf(t, s, "delete")
  /\ registry' = [registry EXCEPT ![id[s]] = None]
  /\ notified' = notified \cup {s}
  /\ close' = [close EXCEPT ![t] = Idle]
  /\ UNCHANGED <<outside, client, loop, channel, Closed, ticking, smutex>>

CloseStep(t, s) ==
  \/ CloseChecks(t, s)
  \/ ClosesChannel(t, s)
  \/ ClosesSession(t, s)
  \/ SetsClosed(t, s)
  \/ LoadsEntry(t, s)
  \/ DeletesEntry(t, s)

Enter(t, s) == close' = [close EXCEPT ![t] = Entered(s)]

-----------------------------------------------------------------------------
(* handleMessages *)

\* The loop ends on a closed client; c.channel.Read(true) finds a channel that
\* is nil already on a client that is not Closed yet.
LoopReads(s) ==
  /\ ~crashed
  /\ loop[s] = "top"
  /\ IF s \notin Closed /\ s \notin channel
     THEN crashed' = TRUE /\ UNCHANGED loop
     ELSE /\ loop' = [loop EXCEPT ![s] = IF s \in Closed THEN "done" ELSE "reading"]
          /\ UNCHANGED crashed
  /\ UNCHANGED <<outside, client, life, table, close>>

\* Mutant: the loop ends without closing the client.
ReadFailsSilently(s) ==
  /\ Alive
  /\ loop[s] = "reading"
  /\ link[s] = "dead"
  /\ loop' = [loop EXCEPT ![s] = "done"]
  /\ UNCHANGED <<outside, client, life, table, close>>

\* The session is dead: Read fails and the loop closes the client.
ReadFails(s) ==
  /\ Alive
  /\ loop[s] = "reading"
  /\ link[s] = "dead"
  /\ loop' = [loop EXCEPT ![s] = "done"]
  /\ Enter(Loop(s), s)
  /\ UNCHANGED <<outside, client, life, table>>

\* A ClientValidate message; a client that is initialized ignores it.
ReadsValidate(s) ==
  /\ Alive
  /\ loop[s] = "reading"
  /\ link[s] = "up"
  /\ loop' = [loop EXCEPT ![s] = IF s \in initialized THEN "top" ELSE "lock"]
  /\ UNCHANGED <<outside, client, life, table, close>>

\* A ClientPing message, initialized or not, changes nothing.
ReadsPing(s) ==
  /\ Alive
  /\ loop[s] = "reading"
  /\ link[s] = "up"
  /\ loop' = [loop EXCEPT ![s] = "top"]
  /\ UNCHANGED <<outside, client, life, table, close>>

\* A ClientSearch message, which the loop itself answers.
ReadsSearch(s) ==
  /\ Alive
  /\ loop[s] = "reading"
  /\ link[s] = "up"
  /\ loop' = [loop EXCEPT ![s] = "reply"]
  /\ UNCHANGED <<outside, client, life, table, close>>

\* Any other message goes to a handler, but only from an initialized client.
ReadsOther(s) ==
  /\ Alive
  /\ loop[s] = "reading"
  /\ link[s] = "up"
  /\ IF s \in initialized
     THEN loop' = [loop EXCEPT ![s] = "top"] /\ UNCHANGED close
     ELSE loop' = [loop EXCEPT ![s] = "done"] /\ Enter(Loop(s), s)
  /\ UNCHANGED <<outside, client, life, table>>

\* Mutant: validateClient does not wait for Server.mutex.
LocksAnyway(s) ==
  /\ Alive
  /\ loop[s] = "lock"
  /\ loop' = [loop EXCEPT ![s] = "handler"]
  /\ UNCHANGED <<outside, client, life, close, table>>

\* validateClient takes Server.mutex ...
Locks(s) ==
  /\ Alive
  /\ loop[s] = "lock"
  /\ smutex = None
  /\ smutex' = Loop(s)
  /\ loop' = [loop EXCEPT ![s] = "handler"]
  /\ UNCHANGED <<outside, client, life, close, registry>>

\* ... and calls the validation handler, which rejects the client, ...
Rejects(s) ==
  /\ Alive
  /\ loop[s] = "handler"
  /\ verdict' = [verdict EXCEPT ![s] = "rejected"]
  /\ smutex' = None
  /\ loop' = [loop EXCEPT ![s] = "reply"]
  /\ UNCHANGED <<outside, life, initialized, id, close, registry>>

\* Mutants: the client is stored before it is initialized; the old session is
\* not closed.
AdmitsUninitialized(s, i) ==
  /\ Alive
  /\ loop[s] = "handler"
  /\ id' = [id EXCEPT ![s] = i]
  /\ loop' = [loop EXCEPT ![s] = "store"]
  /\ IF Registered(i) THEN Enter(Loop(s), registry[i]) ELSE UNCHANGED close
  /\ UNCHANGED <<outside, life, table, verdict, initialized>>

AdmitsBesideOld(s, i) ==
  /\ Alive
  /\ loop[s] = "handler"
  /\ id' = [id EXCEPT ![s] = i]
  /\ initialized' = initialized \cup {s}
  /\ loop' = [loop EXCEPT ![s] = "store"]
  /\ UNCHANGED <<outside, life, table, verdict, close>>

\* ... or gives it an id.  The client is initialized before it is stored, and
\* the session the registry has under this id, if any, is closed in between.
Admits(s, i) ==
  /\ Alive
  /\ loop[s] = "handler"
  /\ id' = [id EXCEPT ![s] = i]
  /\ initialized' = initialized \cup {s}
  /\ loop' = [loop EXCEPT ![s] = "store"]
  /\ IF Registered(i) THEN Enter(Loop(s), registry[i]) ELSE UNCHANGED close
  /\ UNCHANGED <<outside, life, table, verdict>>

\* Mutant: the key is stored in place of the client.
StoresKey(s) ==
  /\ Alive
  /\ loop[s] = "store"
  /\ ~Busy(Loop(s))
  /\ registry' = [registry EXCEPT ![id[s]] = id[s]]
  /\ smutex' = None
  /\ verdict' = [verdict EXCEPT ![s] = "accepted"]
  /\ loop' = [loop EXCEPT ![s] = "reply"]
  /\ UNCHANGED <<outside, life, initialized, id, close>>

Stores(s) ==
  /\ Alive
  /\ loop[s] = "store"
  /\ ~Busy(Loop(s))
  /\ registry' = [registry EXCEPT ![id[s]] = s]
  /\ smutex' = None
  /\ verdict' = [verdict EXCEPT ![s] = "accepted"]
  /\ loop' = [loop EXCEPT ![s] = "reply"]
  /\ UNCHANGED <<outside, life, initialized, id, close>>

\* A rejected client is closed; any other client goes on reading.
AfterReply(s) ==
  IF verdict[s] = "rejected"
  THEN loop' = [loop EXCEPT ![s] = "done"] /\ Enter(Loop(s), s)
  ELSE loop' = [loop EXCEPT ![s] = "top"] /\ UNCHANGED close

\* Client.Send looks at c.channel ...
ChecksChannel(s) ==
  /\ Alive
  /\ loop[s] = "reply"
  /\ IF s \in channel
     THEN loop' = [loop EXCEPT ![s] = "send"] /\ UNCHANGED close
     ELSE AfterReply(s)
  /\ UNCHANGED <<outside, client, life, table>>

\* ... and reads it again to send the reply.
Replies(s) ==
  /\ ~crashed
  /\ loop[s] = "send"
  /\ IF s \in channel THEN AfterReply(s) /\ UNCHANGED crashed
     ELSE crashed' = TRUE /\ UNCHANGED <<loop, close>>
  /\ UNCHANGED <<outside, client, life, table>>

LoopStep(s) ==
  \/ LoopReads(s)
  \/ ReadFails(s)
  \/ Locks(s)
  \/ Rejects(s)
  \/ \E i \in Ids : Admits(s, i)
  \/ Stores(s)
  \/ ChecksChannel(s)
  \/ Replies(s)

PeerSays(s) == ReadsValidate(s) \/ ReadsPing(s) \/ ReadsSearch(s) \/ ReadsOther(s)

-----------------------------------------------------------------------------
(* The other threads *)

\* Mutant: the tick closes the clients that are initialized.
TickClosesOthers(s) ==
  /\ Alive
  /\ s \in ticking \cap initialized
  /\ ~Busy(Tick(s))
  /\ Enter(Tick(s), s)
  /\ UNCHANGED <<outside, client, life, table, loop>>

\* handleTick finds the client still not initialized.  On an initialized or
\* closed client it changes nothing.
TickCloses(s) ==
  /\ Alive
  /\ s \in ticking \ initialized
  /\ ~Busy(Tick(s))
  /\ Enter(Tick(s), s)
  /\ UNCHANGED <<outside, client, life, table, loop>>

\* The application closes a client it found in the registry.
AppCallsClose(s) ==
  /\ Alive
  /\ s \in AppCloses
  /\ Holds(s)
  /\ server = "open"
  /\ ~Busy(App)
  /\ Enter(App, s)
  /\ UNCHANGED <<outside, client, life, table, loop>>

\* Server.Close closes and deletes the clients under Server.mutex, ...
ServerLocks ==
  /\ Alive
  /\ ShutsDown
  /\ server = "open"
  /\ ~Busy(App)
  /\ smutex = None
  /\ smutex' = App
  /\ server' = "closing"
  /\ UNCHANGED <<network, accepting, client, life, loop>>
  /\ UNCHANGED <<close, registry, visit, visited, listening>>

ServerVisits(i) ==
  /\ Alive
  /\ server = "closing"
  /\ visit = None
  /\ i \notin visited
  /\ Registered(i)
  /\ visit' = i
  /\ Enter(App, registry[i])
  /\ UNCHANGED <<network, accepting, client, life, table>>
  /\ UNCHANGED <<loop, server, visited, listening>>

ServerDeletes ==
  /\ Alive
  /\ visit # None
  /\ ~Busy(App)
  /\ registry' = [registry EXCEPT ![visit] = None]
  /\ visited' = visited \cup {visit}
  /\ visit' = None
  /\ UNCHANGED <<network, accepting, client, life, loop>>
  /\ UNCHANGED <<close, smutex, server, listening>>

\* ... then the listener, which takes every session with it.
ServerFinishes ==
  /\ Alive
  /\ server = "closing"
  /\ visit = None
  /\ \A i \in Ids : Registered(i) => i \in visited
  /\ listening' = FALSE
  /\ link' = [s \in Sessions |-> IF link[s] = "up" THEN "dead" ELSE link[s]]
  /\ server' = "closed"
  /\ smutex' = None
  /\ UNCHANGED <<accepting, client, life, stream, waiting>>
  /\ UNCHANGED <<loop, close, registry, visit, visited>>

ServerStep == (\E i \in Ids : ServerVisits(i)) \/ ServerDeletes \/ ServerFinishes

AcceptStep ==
  \/ AcceptCalls
  \/ \E s \in Sessions : Accepts(s)
  \/ AcceptFails
  \/ NewClient
  \/ NewClientFails

SessionStep(s) ==
  \/ Dial(s)
  \/ OpensStream(s)
  \/ LinkDies(s)
  \/ LoopStep(s)
  \/ PeerSays(s)
  \/ TickCloses(s)
  \/ AppCallsClose(s)

Next ==
  \/ \E s \in Sessions : SessionStep(s)
  \/ \E t \in Threads, s \in Sessions : CloseStep(t, s)
  \/ AcceptStep
  \/ ServerLocks
  \/ ServerStep

Spec == Init /\ [][Next]_vars

\* Goroutines run, tickers fire, and the validation handler returns; nothing
\* is assumed of the peers, the network or the application.
Fairness ==
  /\ \A s \in Sessions : WF_vars(LoopStep(s)) /\ WF_vars(TickCloses(s))
  /\ \A t \in Threads : WF_vars(\E s \in Sessions : CloseStep(t, s))
  /\ WF_vars(ServerStep)

FairSpec == Spec /\ Fairness

-----------------------------------------------------------------------------
(* Properties *)

CloseCounters == {"out", "closed?", "channel", "session", "flag", "load", "delete"}

TypeOK ==
  /\ link \in [Sessions -> {"none", "up", "dead"}]
  /\ stream \subseteq Sessions
  /\ waiting \subseteq Sessions
  /\ acceptor \in {"top", "accept", "stream", "stopped"}
  /\ pending \in Sessions \cup {None}
  /\ loop \in [Sessions -> {"off", "top", "reading", "lock", "handler",
                            "store", "reply", "send", "done"}]
  /\ verdict \in [Sessions -> {"none", "accepted", "rejected"}]
  /\ initialized \subseteq Sessions
  /\ id \in [Sessions -> Ids \cup {None}]
  /\ channel \subseteq Sessions
  /\ Closed \subseteq Sessions
  /\ ticking \subseteq Sessions
  /\ close \in [Threads -> [on : Sessions \cup {None}, at : CloseCounters]]
  /\ notified \subseteq Sessions
  /\ registry \in [Ids -> Sessions \cup {None}]
  /\ smutex \in Threads \cup {None}
  /\ server \in {"open", "closing", "closed"}
  /\ visit \in Ids \cup {None}
  /\ visited \subseteq Ids
  /\ listening \in BOOLEAN
  /\ crashed \in BOOLEAN

\* The registry leads from an id to an initialized session with that id, so no
\* session is registered twice.
RegisteredUnderItsId ==
  \A i \in Ids : Registered(i) => registry[i] \in initialized /\ id[registry[i]] = i

\* Whoever closed it, a Closed client has given up its channel, its session
\* and its ticker.
ClosedIsReleased ==
  \A s \in Closed : s \notin channel /\ link[s] = "dead" /\ s \notin ticking

\* A new session takes an id over only from a session that is Closed.
TakeoverClosesOld ==
  [][\A i \in Ids :
       Registered(i) /\ registry'[i] \notin {None, registry[i]} => registry[i] \in Closed]_vars

\* Server.Close leaves an empty registry, although other threads close, store
\* and delete clients until it has the mutex.
ShutdownEmptiesRegistry ==
  [][server' = "closed" /\ server # "closed" => \A i \in Ids : registry'[i] = None]_vars

\* A session that the server has taken on is validated or closed in the end,
\* whatever its peer does, even while another validation holds the mutex.
HandshakeResolves ==
  \A s \in Sessions : loop[s] = "top" ~> s \in initialized \/ s \in Closed \/ crashed

\* A client whose session died is closed and reported as disconnected.
DeadIsReported ==
  \A s \in Sessions : loop[s] # "off" /\ link[s] = "dead" ~> s \in Closed \cap notified \/ crashed

-----------------------------------------------------------------------------
(* What the comments of the code say, and the code does not do. *)

\* server.go:205 "Get connected Client by ID": a validated client that nobody
\* is closing is found under its id.
ConnectedIsFound ==
  \A s \in Sessions :
    verdict[s] = "accepted" /\ link[s] = "up" /\ (\A t \in Threads : close[t].on # s) => Holds(s)

\* channel.go:60-62 turns a panic in Read into ErrorPanic: no panic ends the
\* process.
NoCrash == ~crashed

=============================================================================
