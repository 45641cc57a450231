----------------------------- MODULE UdpClient -----------------------------
(***************************************************************************)
(* udp/client: the life of a client's connection to one server.            *)
(*                                                                         *)
(* Connect, the reconnect that handleMessages ends with, and Close exclude *)
(* each other by Client.mutex, which Connect and reconnect hold across     *)
(* their whole retry loop.  The three goroutines of a session              *)
(* (handleMessages, handlePings, handleStreams) read channel, session and  *)
(* Closed without the mutex.                                               *)
(*                                                                         *)
(* Sessions are numbered in the order they are dialled; 0 is nil.  Connect *)
(* is called once, as every caller in the repository does.  A panic of     *)
(* these goroutines is recovered by them and ends them like an error.      *)
(***************************************************************************)
EXTENDS Naturals, FiniteSets

CONSTANTS
  ConnectTries,    \* Config.ConnectTries: 0 is no limit
  ReconnectTries,  \* Config.ReconnectTries: 0 is no limit
  MaxSessions      \* bound on the sessions the network lets the client have

ASSUME ClientAssumption ==
  ConnectTries \in Nat /\ ReconnectTries \in Nat /\ MaxSessions \in Nat

VARIABLES
  connecting,   \* where the call of Connect stands
  owner,        \* who holds Client.mutex
  phase,        \* where the retry loop of Connect or reconnect stands
  tries,        \* its counter (left at 0 when there is no limit)
  dialled,      \* the number of sessions so far
  alive,        \* the sessions that are up
  session,      \* Client.session
  channel,      \* Client.channel, as the session whose stream it is
  sessionId,    \* Client.sessionId
  Data,         \* Client.Data: nil, or its Status
  Connected,    \* Client.Connected
  Closed,       \* Client.Closed
  messages,     \* where handleMessages of each session stands
  pings,        \* where handlePings of each session stands
  streams,      \* where handleStreams of each session stands
  closing       \* the Close the user calls, and the one started by go c.Close

loopVars == <<owner, phase, tries>>
connVars == <<dialled, alive, session, channel, sessionId, Connected>>
workers  == <<messages, pings, streams>>
vars == <<connecting, loopVars, connVars, Data, Closed, workers, closing>>

Sess == 1..MaxSessions
Closers == {"user", "auto"}

Init ==
  /\ connecting = "no"
  /\ owner = "nobody" /\ phase = "none" /\ tries = 0
  /\ dialled = 0 /\ alive = {} /\ session = 0 /\ channel = 0 /\ sessionId = 0
  /\ Data = "nil"
  /\ Connected = FALSE
  /\ Closed = FALSE
  /\ messages = [g \in Sess |-> "off"]
  /\ pings = [g \in Sess |-> "off"]
  /\ streams = [g \in Sess |-> "off"]
  /\ closing = [k \in Closers |-> "off"]

Enter(who) ==
  /\ owner' = who
  /\ phase' = "try"
  /\ tries' = 0

Leave ==
  /\ owner' = "nobody"
  /\ phase' = "none"
  /\ tries' = 0

\* Connect or reconnect returns, the latter with the goroutine it runs in.
Returns(result) ==
  IF owner = "connect"
  THEN connecting' = result /\ UNCHANGED messages
  ELSE /\ messages' = [g \in Sess |->
            IF messages[g] = "reconnecting" THEN "done" ELSE messages[g]]
       /\ UNCHANGED connecting

StartClose == closing' = [closing EXCEPT !.auto = "lock"]

\* Mutants: reset forgets to clear Connected; reset forgets the session's Close.
resetConnected ==
  /\ channel' = 0
  /\ session' = 0
  /\ alive' = alive \ {session}
  /\ UNCHANGED Connected

resetSession ==
  /\ Connected' = FALSE
  /\ channel' = 0
  /\ session' = 0
  /\ UNCHANGED alive

\* reset: the current session and its channel are closed and forgotten.
reset ==
  /\ Connected' = FALSE
  /\ channel' = 0
  /\ session' = 0
  /\ alive' = alive \ {session}

-----------------------------------------------------------------------------
(* Connect and reconnect *)

CallsConnect ==
  /\ connecting = "no"
  /\ owner = "nobody"
  /\ IF Closed
     THEN connecting' = "failed" /\ UNCHANGED loopVars
     ELSE connecting' = "trying" /\ Enter("connect")
  /\ UNCHANGED <<connVars, Data, Closed, workers, closing>>

\* Mutant: reconnect trusts the look its caller took at Closed.
ReconnectsAnyway(g) ==
  /\ messages[g] = "lock"
  /\ owner = "nobody"
  /\ messages' = [messages EXCEPT ![g] = "reconnecting"]
  /\ Enter("reconnect")
  /\ UNCHANGED <<connecting, connVars, Data, Closed, pings, streams, closing>>

\* handleMessages has seen that the client is not Closed; reconnect looks again.
Reconnects(g) ==
  /\ messages[g] = "lock"
  /\ owner = "nobody"
  /\ IF Closed
     THEN messages' = [messages EXCEPT ![g] = "done"] /\ UNCHANGED loopVars
     ELSE messages' = [messages EXCEPT ![g] = "reconnecting"] /\ Enter("reconnect")
  /\ UNCHANGED <<connecting, connVars, Data, Closed, pings, streams, closing>>

Limit == IF owner = "connect" THEN ConnectTries ELSE ReconnectTries
\* Mutant: one try too many.
MayTryOnceMore == Limit = 0 \/ tries <= Limit

MayTry == Limit = 0 \/ tries < Limit
NextTry ==
  /\ phase' = "try"
  /\ tries' = IF Limit = 0 THEN 0 ELSE tries + 1
  /\ UNCHANGED owner

Tries ==
  /\ phase = "try"
  /\ MayTry
  /\ reset
  /\ phase' = "dial"
  /\ UNCHANGED <<connecting, owner, tries, dialled, sessionId, Data, Closed, workers, closing>>

DialFails ==
  /\ phase = "dial"
  /\ NextTry
  /\ UNCHANGED <<connecting, connVars, Data, Closed, workers, closing>>

\* The session dies before its stream is opened: it stays in c.session.
StreamFails ==
  /\ phase = "dial"
  /\ dialled < MaxSessions
  /\ dialled' = dialled + 1
  /\ session' = dialled'
  /\ NextTry
  /\ UNCHANGED <<connecting, alive, channel, sessionId, Connected>>
  /\ UNCHANGED <<Data, Closed, workers, closing>>

Dials ==
  /\ phase = "dial"
  /\ dialled < MaxSessions
  /\ dialled' = dialled + 1
  /\ session' = dialled'
  /\ channel' = dialled'
  /\ sessionId' = dialled'
  /\ alive' = alive \cup {dialled'}
  /\ phase' = "init"
  /\ UNCHANGED <<connecting, owner, tries, Connected, Data, Closed, workers, closing>>

\* Mutant: handleMessages goes on reading after its reconnect.
InitializesAndStays ==
  /\ phase = "init"
  /\ session \in alive
  /\ Data' = "ok"
  /\ Connected' = TRUE
  /\ messages' = [g \in Sess |->
       IF g = sessionId \/ messages[g] = "reconnecting" THEN "reading" ELSE messages[g]]
  /\ pings' = [pings EXCEPT ![sessionId] = "on"]
  /\ streams' = [streams EXCEPT ![sessionId] = "on"]
  /\ connecting' = IF owner = "connect" THEN "ok" ELSE connecting
  /\ Leave
  /\ UNCHANGED <<dialled, alive, session, channel, sessionId, Closed, closing>>

\* The server accepts the client: the goroutines of the session start.
Initializes ==
  /\ phase = "init"
  /\ session \in alive
  /\ Data' = "ok"
  /\ Connected' = TRUE
  /\ messages' = [g \in Sess |->
       CASE g = sessionId -> "reading"
         [] messages[g] = "reconnecting" -> "done"
         [] OTHER -> messages[g]]
  /\ pings' = [pings EXCEPT ![sessionId] = "on"]
  /\ streams' = [streams EXCEPT ![sessionId] = "on"]
  /\ connecting' = IF owner = "connect" THEN "ok" ELSE connecting
  /\ Leave
  /\ UNCHANGED <<dialled, alive, session, channel, sessionId, Closed, closing>>

\* The server's ClientData says no: neither caller tries again.
IsRejected ==
  /\ phase = "init"
  /\ session \in alive
  /\ Data' = "rejected"
  /\ Returns("failed")
  /\ Leave
  /\ StartClose
  /\ UNCHANGED <<connVars, Closed, pings, streams>>

\* No reply: the session died, the timer fired, or Read(false) took a message
\* that was not the reply.  Connect gives up; reconnect looks at Data, which
\* is what an earlier session left there.
InitFails ==
  /\ phase = "init"
  /\ IF owner = "connect" \/ Data = "rejected"
     THEN Returns("failed") /\ Leave /\ StartClose
     ELSE NextTry /\ UNCHANGED <<connecting, messages, closing>>
  /\ UNCHANGED <<connVars, Data, Closed, pings, streams>>

\* Mutants: reconnect gives up without closing; the mutex stays locked.
GivesUpSilently ==
  /\ phase = "try"
  /\ ~MayTry
  /\ Returns("failed")
  /\ Leave
  /\ UNCHANGED <<connVars, Data, Closed, pings, streams, closing>>

GivesUpLocked ==
  /\ phase = "try"
  /\ ~MayTry
  /\ Returns("failed")
  /\ phase' = "none"
  /\ IF owner = "connect" THEN UNCHANGED closing ELSE StartClose
  /\ UNCHANGED <<owner, tries, connVars, Data, Closed, pings, streams>>

\* The tries are used up: reconnect closes the client, Connect does not.
GivesUp ==
  /\ phase = "try"
  /\ ~MayTry
  /\ Returns("failed")
  /\ Leave
  /\ IF owner = "connect" THEN UNCHANGED closing ELSE StartClose
  /\ UNCHANGED <<connVars, Data, Closed, pings, streams>>

-----------------------------------------------------------------------------
(* The goroutines of a session *)

\* Read fails because the session is gone, or on a message it cannot decode.
\* Everything else it reads goes to a handler of its own goroutine.
ReadFails(g) ==
  /\ messages[g] = "reading"
  /\ messages' = [messages EXCEPT ![g] = "ended"]
  /\ UNCHANGED <<connecting, loopVars, connVars, Data, Closed, pings, streams, closing>>

\* The deferred function: the disconnected handler starts, and unless the
\* client is Closed it reconnects.
MessagesEnd(g) ==
  /\ messages[g] = "ended"
  /\ messages' = [messages EXCEPT ![g] = IF Closed THEN "done" ELSE "lock"]
  /\ UNCHANGED <<connecting, loopVars, connVars, Data, Closed, pings, streams, closing>>

\* A ping cannot be sent, or the session is no longer the current one.
PingsEnd(g) ==
  /\ pings[g] = "on"
  /\ channel \notin alive \/ Closed \/ sessionId # g
  /\ pings' = [pings EXCEPT ![g] = "done"]
  /\ UNCHANGED <<connecting, loopVars, connVars, Data, Closed, messages, streams, closing>>

\* A nil session panics; a dead one is asked again and again.
StreamsEnd(g) ==
  /\ streams[g] = "on"
  /\ session = 0 \/ Closed \/ sessionId # g
  /\ streams' = [streams EXCEPT ![g] = "done"]
  /\ UNCHANGED <<connecting, loopVars, connVars, Data, Closed, messages, pings, closing>>

-----------------------------------------------------------------------------
(* Close *)

UserCloses ==
  /\ closing.user = "off"
  /\ closing' = [closing EXCEPT !.user = "lock"]
  /\ UNCHANGED <<connecting, loopVars, connVars, Data, Closed, workers>>

CloseResets(k) ==
  /\ closing[k] = "lock"
  /\ owner = "nobody"
  /\ IF Closed
     THEN /\ closing' = [closing EXCEPT ![k] = "done"]
          /\ UNCHANGED <<owner, connVars>>
     ELSE /\ closing' = [closing EXCEPT ![k] = "reset"]
          /\ owner' = k
          /\ reset
          /\ UNCHANGED <<dialled, sessionId>>
  /\ UNCHANGED <<connecting, phase, tries, Data, Closed, workers>>

\* Exit is signalled and the closed handler starts.
CloseFinishes(k) ==
  /\ closing[k] = "reset"
  /\ Closed' = TRUE
  /\ closing' = [closing EXCEPT ![k] = "done"]
  /\ owner' = "nobody"
  /\ UNCHANGED <<connecting, phase, tries, connVars, Data, workers>>

\* The session dies by itself.
LinkDies(g) ==
  /\ g \in alive
  /\ alive' = alive \ {g}
  /\ UNCHANGED <<connecting, loopVars, dialled, session, channel, sessionId, Connected>>
  /\ UNCHANGED <<Data, Closed, workers, closing>>

-----------------------------------------------------------------------------

DialStep == DialFails \/ StreamFails \/ Dials
InitStep == Initializes \/ IsRejected \/ InitFails
Retry    == Tries \/ GivesUp
SessionStep(g) == MessagesEnd(g) \/ Reconnects(g)

Next ==
  \/ CallsConnect
  \/ Retry \/ DialStep \/ InitStep
  \/ \E g \in Sess : ReadFails(g) \/ SessionStep(g) \/ PingsEnd(g) \/ StreamsEnd(g) \/ LinkDies(g)
  \/ UserCloses
  \/ \E k \in Closers : CloseResets(k) \/ CloseFinishes(k)

Spec == Init /\ [][Next]_vars

\* Goroutines run; a dial and an initialization end one way or another (both
\* have timers); Read notices that its session is gone.
Fairness ==
  /\ WF_vars(Retry) /\ WF_vars(DialStep) /\ WF_vars(InitStep)
  /\ \A g \in Sess :
       /\ WF_vars(g \notin alive /\ ReadFails(g))
       /\ WF_vars(SessionStep(g))
       /\ WF_vars(PingsEnd(g)) /\ WF_vars(StreamsEnd(g))
  /\ \A k \in Closers : WF_vars(CloseResets(k) \/ CloseFinishes(k))

FairSpec == Spec /\ Fairness

-----------------------------------------------------------------------------
(* Properties *)

TypeOK ==
  /\ connecting \in {"no", "trying", "ok", "failed"}
  /\ owner \in {"nobody", "connect", "reconnect"} \cup Closers
  /\ phase \in {"none", "try", "dial", "init"}
  /\ tries \in 0..ConnectTries \cup 0..ReconnectTries
  /\ {dialled, session, channel, sessionId} \subseteq 0..MaxSessions
  /\ alive \subseteq Sess
  /\ Data \in {"nil", "ok", "rejected"}
  /\ Connected \in BOOLEAN
  /\ Closed \in BOOLEAN
  /\ messages \in [Sess -> {"off", "reading", "ended", "lock", "reconnecting", "done"}]
  /\ pings \in [Sess -> {"off", "on", "done"}]
  /\ streams \in [Sess -> {"off", "on", "done"}]
  /\ closing \in [Closers -> {"off", "lock", "reset", "done"}]

Running(g) == messages[g] \notin {"off", "done"}

\* There is one message loop, however often the client has reconnected, and it
\* reads the current session, never the channel of an earlier or a later one.
OneMessageLoop ==
  /\ \A g, h \in Sess : Running(g) /\ Running(h) => g = h
  /\ \A g \in Sess : messages[g] = "reading" => sessionId = g /\ channel \in {0, g}

\* A connection that is believed to be up has a message loop that will notice
\* its loss.
ConnectedIsWatched ==
  Connected => sessionId \in Sess /\ Running(sessionId) /\ session = sessionId

\* Reconnecting never leaves an earlier QUIC session open.
NoOrphanSession == alive \subseteq {session}

\* No Connect or reconnect under way brings a Closed client back, and a client
\* that the server has rejected does not dial again.
EndIsFinal ==
  /\ Closed => ~Connected /\ session = 0 /\ channel = 0
  /\ Closed \/ Data = "rejected" => phase = "none"

\* A client that has lost its session is connected by a later one or closed in
\* the end.
NeverAdrift ==
  \A g \in Sess : messages[g] = "ended" ~> Closed \/ (Connected /\ sessionId > g)

Quiet(g) == ~Running(g) /\ pings[g] # "on" /\ streams[g] # "on"

\* A Close that is asked for happens, however Connect and reconnect are doing, and
\* ends the goroutines of every session.
CloseHappens ==
  \A k \in Closers, g \in Sess : closing[k] = "lock" ~> Closed /\ Quiet(g)

=============================================================================
