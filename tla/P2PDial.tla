------------------------------- MODULE P2PDial -------------------------------
(***************************************************************************)
(* p2p/client/p2p.go: the two ends of a direct connection find each other. *)
(*                                                                         *)
(* The source dials every address of the target with a udp client of its   *)
(* own.  The first that is connected is handed to connect, which asks the  *)
(* target to take it; the others are closed.  The target waits for one     *)
(* check-in.  The clients go on reconnecting when they lose their session, *)
(* and the target's server closes a session when another comes with the    *)
(* same id, which is made of the connection's id and the address the dial  *)
(* comes from: dials over one path have one id.                            *)
(*                                                                         *)
(* The model starts when the source has the target's answer: the target    *)
(* has stored its Connection and its connect is about to run.  A session   *)
(* is <<dial, number>>.  A field that holds at most one thing is a set.    *)
(***************************************************************************)
EXTENDS Naturals

CONSTANTS
  Dials,        \* the addresses of the target, one client each
  Reconnecting  \* the clients that may open a second session: a bound

ASSUME DialAssumption == Reconnecting \subseteq Dials

VARIABLES
  path,       \* the address each dial comes from, as the target sees it
  connect,    \* where the source's p2pConn.connect stands
  held,       \* the client it has received and not decided about
  locked,     \* connectPeerContext.mutex is locked for writing
  completed,  \* connectPeerContext.completed
  failed,     \* the clients whose initClient has failed
  local,      \* p2pConn.localClient
  place,      \* where each client is: its connectToPeer, or who has it
  link,       \* where the udpc.Client is with its session
  opened,     \* the sessions it has opened
  alive,      \* the sessions that are up
  request,    \* ClientInit messages on their way
  reply,      \* the ones that have been let in and answered
  known,      \* the target has the Connection in Manager.conns
  await,      \* where the target's connect stands; "late": its p2pConn is closed
  buffer,     \* remoteClientChan
  remote,     \* p2pConn.remoteClient
  peers,      \* the sessions with an open client in the target's server
  checked,    \* sessions that checkinRemoteClient has let in
  active,     \* ... and whose ctx.Active is set
  notice,     \* sessions whose clientDisconnectedHandler is due
  missed,     \* ... and those for which it found ctx.Active unset
  closing     \* a Connection.Close of the target is under way

source  == <<connect, held, locked, completed, failed, local>>
clients == <<place, link, opened>>
wire    == <<request, reply>>
target  == <<known, await, buffer, remote, closing>>
server  == <<peers, checked, active, notice, missed>>
vars == <<path, source, clients, alive, wire, target, server>>

MaxSessions(d) == IF d \in Reconnecting THEN 2 ELSE 1
Sessions == {s \in Dials \X (1..2) : s[2] <= MaxSessions(s[1])}

\* The session a client has now: none when it has not dialled.
Current(d) == {s \in Sessions : s = <<d, opened[d]>>}
Up(d) == link[d] = "up" /\ Current(d) \subseteq alive

Init ==
  /\ path \in {f \in [Dials -> Dials] : \A d \in Dials : f[f[d]] = f[d]}
  /\ connect = "loop"
  /\ held = {} /\ failed = {} /\ local = {}
  /\ locked = FALSE /\ completed = FALSE
  /\ place = [d \in Dials |-> "dial"]
  /\ link = [d \in Dials |-> "down"]
  /\ opened = [d \in Dials |-> 0]
  /\ alive = {}
  /\ request = {} /\ reply = {}
  /\ known = TRUE
  /\ await = "idle"
  /\ buffer = {} /\ remote = {}
  /\ closing = FALSE
  /\ peers = {} /\ checked = {} /\ active = {} /\ notice = {} /\ missed = {}

-----------------------------------------------------------------------------
(* The network *)

SessionDies(s) ==
  /\ s \in alive
  /\ alive' = alive \ {s}
  /\ UNCHANGED <<path, source, clients, wire, target, server>>

-----------------------------------------------------------------------------
(* The source: connectToPeer, and Connect and reconnect below it *)

\* canConnect allows a try, and the target is reached.
Opens(d) ==
  /\ opened[d] < MaxSessions(d)
  /\ opened' = [opened EXCEPT ![d] = @ + 1]
  /\ alive' = alive \cup {<<d, opened[d] + 1>>}
  /\ link' = [link EXCEPT ![d] = "asking"]

Tries(d) ==
  /\ place[d] = "dial"
  /\ link[d] = "down"
  /\ ~locked /\ ~completed
  /\ Opens(d)
  /\ UNCHANGED <<path, source, place, wire, target, server>>

\* canConnect allows no other try.
DialFails(d) ==
  /\ place[d] = "dial"
  /\ link[d] = "down"
  /\ ~locked
  /\ place' = [place EXCEPT ![d] = "failed"]
  /\ UNCHANGED <<path, source, link, opened, alive, wire, target, server>>

\* The reply to the validation arrives: Connect or reconnect returns.
Validated(d) ==
  /\ link[d] = "granted"
  /\ Current(d) \subseteq alive
  /\ link' = [link EXCEPT ![d] = "up"]
  /\ place' = [place EXCEPT ![d] = IF @ = "dial" THEN "offer" ELSE @]
  /\ UNCHANGED <<path, source, opened, alive, wire, target, server>>

ClosesLink(d) ==
  /\ link' = [link EXCEPT ![d] = "closed"]
  /\ alive' = alive \ Current(d)

\* It is refused, lost or late.  Connect gives up and closes the client; so does
\* reconnect when it is refused, otherwise it tries again.
NotValidated(d) ==
  /\ link[d] \in {"asking", "granted", "refused"}
  /\ IF place[d] = "dial" \/ link[d] = "refused"
     THEN ClosesLink(d)
     ELSE /\ link' = [link EXCEPT ![d] = "lost"]
          /\ alive' = alive \ Current(d)
  /\ place' = [place EXCEPT ![d] = IF @ = "dial" THEN "failed" ELSE @]
  /\ UNCHANGED <<path, source, opened, wire, target, server>>

\* The message loop notices the loss, and reconnect takes the client's mutex.
NoticesLoss(d) ==
  /\ link[d] = "up"
  /\ ~Up(d)
  /\ link' = [link EXCEPT ![d] = "lost"]
  /\ UNCHANGED <<path, source, place, opened, alive, wire, target, server>>

Redials(d) ==
  /\ link[d] = "lost"
  /\ Opens(d)
  /\ UNCHANGED <<path, source, place, wire, target, server>>

\* The tries are used up: the client closes itself.
Exits(d) ==
  /\ link[d] = "lost"
  /\ ClosesLink(d)
  /\ UNCHANGED <<path, source, place, opened, wire, target, server>>

\* The send on resultChan meets connect's select.
Hands(d) ==
  /\ place[d] = "offer"
  /\ ~locked
  /\ connect = "select"
  /\ connect' = "got"
  /\ held' = {d}
  /\ place' = [place EXCEPT ![d] = "given"]
  /\ UNCHANGED <<path, locked, completed, failed, local, link, opened, alive, wire, target, server>>

\* Nobody receives: the default branch closes the client, holding the read lock.
Declined(d) ==
  /\ place[d] = "offer"
  /\ ~locked
  /\ connect # "select"
  /\ place' = [place EXCEPT ![d] = "leaving"]
  /\ UNCHANGED <<path, source, link, opened, alive, wire, target, server>>

\* Nobody holds the mutex of the client: no reconnect is under way.
Idle(d) == link[d] \in {"up", "closed"}

\* Mutant: connectToPeer returns without closing the client.
LeavesOpen(d) ==
  /\ place[d] = "leaving"
  /\ Idle(d)
  /\ place' = [place EXCEPT ![d] = "left"]
  /\ UNCHANGED <<path, source, link, alive, opened, wire, target, server>>

Leaves(d) ==
  /\ place[d] = "leaving"
  /\ Idle(d)
  /\ ClosesLink(d)
  /\ place' = [place EXCEPT ![d] = "left"]
  /\ UNCHANGED <<path, source, opened, wire, target, server>>

-----------------------------------------------------------------------------
(* The source: connect *)

\* The loop comes to its select, with a timer of its own.
Waits ==
  /\ connect = "loop"
  /\ connect' = "select"
  /\ UNCHANGED <<path, held, locked, completed, failed, local, clients, alive, wire, target, server>>

\* It locks the context, which waits for the readers, and sends ClientInit.
Asks ==
  /\ connect = "got"
  /\ \A d \in Dials : place[d] # "leaving"
  /\ locked' = TRUE
  /\ connect' = "init"
  /\ request' = request \cup UNION {Current(d) : d \in {e \in held : Up(e)}}
  /\ UNCHANGED <<path, held, completed, failed, local, clients, alive, reply, target, server>>

\* Mutant: the break leaves the select and not the loop.
TakesAndLoops(d) ==
  /\ connect = "init"
  /\ d \in held
  /\ Up(d) /\ Current(d) \subseteq reply
  /\ local' = {d}
  /\ held' = {}
  /\ completed' = TRUE
  /\ locked' = FALSE
  /\ connect' = "loop"
  /\ UNCHANGED <<path, failed, clients, alive, wire, target, server>>

\* initClient has its answer: the client is the connection's, and connect is done.
Takes(d) ==
  /\ connect = "init"
  /\ d \in held
  /\ Up(d) /\ Current(d) \subseteq reply
  /\ local' = {d}
  /\ held' = {}
  /\ completed' = TRUE
  /\ locked' = FALSE
  /\ connect' = "ok"
  /\ UNCHANGED <<path, failed, clients, alive, wire, target, server>>

\* Mutant: the error path continues without Unlock.
RejectsLocked(d) ==
  /\ connect = "init"
  /\ d \in held
  /\ failed' = failed \cup held
  /\ held' = {}
  /\ connect' = "loop"
  /\ UNCHANGED <<path, locked, completed, local, clients, alive, wire, target, server>>

\* initClient fails: refused, out of time, or its channel is closed.  The client
\* is neither kept nor closed.
Rejects(d) ==
  /\ connect = "init"
  /\ d \in held
  /\ failed' = failed \cup held
  /\ held' = {}
  /\ locked' = FALSE
  /\ connect' = "loop"
  /\ UNCHANGED <<path, completed, local, clients, alive, wire, target, server>>

\* The timer: Connection.connect closes what there is, which is nothing.
TimesOut ==
  /\ connect = "select"
  /\ connect' = "failed"
  /\ UNCHANGED <<path, held, locked, completed, failed, local, clients, alive, wire, target, server>>

\* p2pConn.close, by the user or by the goroutine that waits for the client's
\* Exit: the client's Close waits for a reconnect under way.
Closes ==
  /\ connect = "ok"
  /\ \A d \in local : Idle(d)
  /\ connect' = "closed"
  /\ link' = [d \in Dials |-> IF d \in local THEN "closed" ELSE link[d]]
  /\ alive' = alive \ UNION {Current(d) : d \in local}
  /\ local' = {}
  /\ UNCHANGED <<path, held, locked, completed, failed, place, opened, wire, target, server>>

-----------------------------------------------------------------------------
(* The target: Connection.connect and awaitRemoteConnection *)

\* connect makes the p2pConn.
Accepts ==
  /\ await = "idle"
  /\ await' = "wait"
  /\ UNCHANGED <<path, source, clients, alive, wire, known, buffer, remote, closing, server>>

TakesRemote ==
  /\ await = "wait"
  /\ buffer # {}
  /\ remote' = buffer
  /\ buffer' = {}
  /\ await' = "ok"
  /\ UNCHANGED <<path, source, clients, alive, wire, known, closing, server>>

\* The timer has won the select: connect returns an error ...
Expires ==
  /\ await = "wait"
  /\ await' = "late"
  /\ UNCHANGED <<path, source, clients, alive, wire, known, buffer, remote, closing, server>>

\* ... and the p2pConn is dropped.
GivesUp ==
  /\ await = "late"
  /\ await' = "gone"
  /\ UNCHANGED <<path, source, clients, alive, wire, known, buffer, remote, closing, server>>

\* The user: CloseConnection takes the Connection out of the table first, its own
\* Close leaves it there.  Either waits for a connect that has not returned ...
UserCloses ==
  /\ known
  /\ known' \in BOOLEAN
  /\ closing' = TRUE
  /\ UNCHANGED <<path, source, clients, alive, wire, await, buffer, remote, server>>

\* ... and closes the p2pConn with its client.  Then it is dropped, too.
ClosesRemote ==
  /\ closing
  /\ await \in {"ok", "gone"}
  /\ closing' = FALSE
  /\ await' = IF await = "ok" THEN "late" ELSE "gone"
  /\ remote' = {}
  /\ alive' = alive \ remote
  /\ peers' = peers \ remote
  /\ notice' = notice \cup (peers \cap remote)
  /\ UNCHANGED <<path, source, clients, wire, known, buffer, checked, active, missed>>

-----------------------------------------------------------------------------
(* The target's server and its handlers *)

SameId(s, t) == path[s[1]] = path[t[1]]

\* There is a p2pConn.
Ready == await \in {"wait", "late", "ok"}

\* clientValidateHandler and validateClient, under the server's mutex: an older
\* session with the same id is closed.
Grants(d) ==
  /\ link[d] = "asking"
  /\ Current(d) \subseteq alive
  /\ known /\ Ready
  /\ LET old == {t \in peers : \A s \in Current(d) : SameId(s, t)}
     IN /\ peers' = (peers \ old) \cup Current(d)
        /\ notice' = notice \cup old
        /\ alive' = alive \ old
  /\ link' = [link EXCEPT ![d] = "granted"]
  /\ UNCHANGED <<path, source, place, opened, wire, target, checked, active, missed>>

Refuses(d) ==
  /\ link[d] = "asking"
  /\ Current(d) \subseteq alive
  /\ ~(known /\ Ready)
  /\ link' = [link EXCEPT ![d] = "refused"]
  /\ UNCHANGED <<path, source, place, opened, alive, wire, target, server>>

\* The message loop of the server's client notices the end of the session.
Drops(s) ==
  /\ s \in peers \ alive
  /\ peers' = peers \ {s}
  /\ notice' = notice \cup {s}
  /\ UNCHANGED <<path, source, clients, alive, wire, target, checked, active, missed>>

Received(s) ==
  /\ s \in request \cap peers
  /\ request' = request \ {s}

\* Mutant: the channel has room for every client.
ChecksInAll(s) ==
  /\ Received(s)
  /\ known
  /\ await \in {"wait", "late"}
  /\ buffer' = buffer \cup {s}
  /\ checked' = checked \cup {s}
  /\ UNCHANGED <<path, source, clients, alive, reply, known, await, remote, closing,
                 peers, active, notice, missed>>

\* clientInitHandler: checkinRemoteClient lets the client in.  If the channel is
\* full it is dropped, and let in all the same.
ChecksIn(s) ==
  /\ Received(s)
  /\ known
  /\ await \in {"wait", "late"}
  /\ buffer' = IF buffer = {} THEN {s} ELSE buffer
  /\ checked' = checked \cup {s}
  /\ UNCHANGED <<path, source, clients, alive, reply, known, await, remote,
                 closing, peers, active, notice, missed>>

\* ... then Active is set, and the answer goes out.
Activates(s) ==
  /\ s \in checked
  /\ checked' = checked \ {s}
  /\ active' = active \cup {s}
  /\ reply' = reply \cup {s}
  /\ UNCHANGED <<path, source, clients, alive, request, target, peers, notice, missed>>

\* The connection is not there, or it has its client.
Denies(s) ==
  /\ Received(s)
  /\ ~known \/ await = "ok"
  /\ UNCHANGED <<path, source, clients, alive, reply, target, server>>

\* There is no p2pConn any more, and the handler looks into it.
Crashes(s) ==
  /\ Received(s)
  /\ known /\ await = "gone"
  /\ await' = "crashed"
  /\ peers' = {} /\ checked' = {} /\ notice' = {} /\ alive' = {}
  /\ UNCHANGED <<path, source, clients, reply, known, buffer, remote, closing,
                 active, missed>>

\* Mutant: the handler does not close the connection of an active client.
NotesOnly(s) ==
  /\ s \in notice
  /\ notice' = notice \ {s}
  /\ missed' = IF s \in active THEN missed ELSE missed \cup {s}
  /\ UNCHANGED <<path, source, clients, alive, wire, target, peers, checked, active>>

\* clientDisconnectedHandler.
Notified(s) ==
  /\ s \in notice
  /\ notice' = notice \ {s}
  /\ IF s \in active
     THEN known' = FALSE /\ closing' = (closing \/ known) /\ UNCHANGED missed
     ELSE missed' = missed \cup ({s} \cap (buffer \cup remote)) /\ UNCHANGED <<known, closing>>
  /\ UNCHANGED <<path, source, clients, alive, wire, await, buffer, remote, peers,
                 checked, active>>

-----------------------------------------------------------------------------
Client(d) ==
  \/ Tries(d) \/ DialFails(d) \/ Validated(d) \/ NotValidated(d)
  \/ NoticesLoss(d) \/ Redials(d) \/ Exits(d)
  \/ Hands(d) \/ Declined(d) \/ Leaves(d)

Connect ==
  \/ Waits \/ Asks \/ TimesOut \/ Closes
  \/ \E d \in Dials : Takes(d) \/ Rejects(d)

Await == Accepts \/ TakesRemote \/ Expires \/ GivesUp \/ UserCloses \/ ClosesRemote

Session(s) ==
  \/ Drops(s) \/ ChecksIn(s) \/ Activates(s) \/ Denies(s) \/ Crashes(s) \/ Notified(s)

Next ==
  \/ Connect
  \/ await # "crashed" /\ Await
  \/ \E d \in Dials : Client(d)
  \/ \E d \in Dials : await # "crashed" /\ (Grants(d) \/ Refuses(d))
  \/ \E s \in Sessions : SessionDies(s) \/ Session(s)

Spec == Init /\ [][Next]_vars

-----------------------------------------------------------------------------
(* Properties *)

AtMostOne(S) == \A x, y \in S : x = y

TypeOK ==
  /\ path \in [Dials -> Dials]
  /\ connect \in {"loop", "select", "got", "init", "ok", "failed", "closed"}
  /\ held \in SUBSET Dials /\ AtMostOne(held)
  /\ local \in SUBSET Dials /\ AtMostOne(local)
  /\ failed \in SUBSET Dials
  /\ locked \in BOOLEAN /\ completed \in BOOLEAN
  /\ place \in [Dials -> {"dial", "offer", "given", "leaving", "left", "failed"}]
  /\ link \in [Dials -> {"down", "asking", "granted", "refused", "up", "lost", "closed"}]
  /\ opened \in [Dials -> 0..2]
  /\ alive \in SUBSET Sessions
  /\ request \in SUBSET Sessions
  /\ reply \in SUBSET Sessions
  /\ known \in BOOLEAN /\ closing \in BOOLEAN
  /\ await \in {"idle", "wait", "late", "ok", "gone", "crashed"}
  /\ buffer \in SUBSET Sessions /\ AtMostOne(buffer)
  /\ remote \in SUBSET Sessions /\ AtMostOne(remote)
  /\ peers \in SUBSET Sessions
  /\ checked \in SUBSET Sessions
  /\ active \in SUBSET Sessions
  /\ notice \in SUBSET Sessions
  /\ missed \in SUBSET Sessions

\* While both ends hold on, they hold the same client: the one the source has
\* chosen is the one the target has in its channel or has taken, whatever the
\* other dials do and whichever client the server has closed for another.  It
\* needs initClient not to have failed: a client that the target let in before
\* its answer was late is the target's for good.
WinnerIsKept ==
  local # {} /\ failed = {} /\ await \in {"wait", "ok"}
    => {s[1] : s \in buffer \cup remote} = local

\* A client that may have a session is still being dialled, or is the one connect
\* is asking about, or has taken; connectToPeer closes every other.  Only the
\* ones whose initClient failed are left to themselves.
NoStrayClient ==
  \A d \in Dials :
    link[d] \notin {"down", "closed"} =>
      place[d] \in {"dial", "offer", "leaving"} \/ d \in held \cup local \cup failed

\* Nobody can take a step of its own: every guard of the goroutines and timers
\* named on the right is false.  What is left is up to the user and the network.
\* Each of these steps uses something up that none of them restores - a dial, a
\* session, a message, a wait - so that the system comes to rest whatever the
\* order, unless the user or the network goes on.
Blocked ==
  /\ connect \notin {"loop", "select"}                            \* Waits, TimesOut
  /\ connect = "got" => \E d \in Dials : place[d] = "leaving"     \* Asks
  /\ connect = "init" => held = {}                                \* Rejects
  /\ connect = "ok" /\ (\E d \in local : link[d] = "closed")      \* Closes, on Exit
       => \E d \in local : ~Idle(d)
  /\ await \notin {"idle", "wait", "late"}                        \* Accepts, Expires, GivesUp
  /\ closing => await \notin {"ok", "gone"}                       \* ClosesRemote
  /\ peers \subseteq alive /\ notice = {}                         \* Drops, Notified
  /\ \A d \in Dials :
       /\ link[d] \notin {"asking", "granted", "refused", "lost"} \* NotValidated, Exits
       /\ link[d] = "up" => Up(d)                                 \* NoticesLoss
       /\ place[d] = "dial" /\ link[d] = "down" => locked         \* DialFails
       /\ place[d] = "offer" => locked                            \* Hands, Declined
       /\ place[d] = "leaving" => ~Idle(d)                        \* Leaves

\* Nobody waits for ever: connect returns at both ends, with a client or without,
\* and so does every connectToPeer, which waits for the lock of the context and
\* for its client's mutex.
EveryoneReturns ==
  Blocked =>
    /\ connect \in {"ok", "failed", "closed"}
    /\ await \in {"ok", "gone", "crashed"}
    /\ \A d \in Dials : place[d] \in {"given", "left", "failed"}

\* A source that has left is noticed: the target's disconnected handler closes its
\* end, unless it had looked at Active before the check-in set it.
SourceExitClosesTarget ==
  connect \in {"failed", "closed"} => remote \subseteq missed

\* A target that has let go of the client it had taken is noticed: the source's
\* client cannot reconnect and closes.  A client that is back with a session of
\* its own before the target is closed is not, and neither is one whose check-in
\* the target's timer has overtaken.
TargetExitClosesSource ==
  await = "gone" /\ buffer = {} /\ connect = "ok" => \E d \in local : opened[d] > 1

\* Whichever end of a connection leaves, the other does in the end.
ExitIsNoticed ==
  Blocked /\ failed = {} => SourceExitClosesTarget /\ TargetExitClosesSource
=============================================================================
