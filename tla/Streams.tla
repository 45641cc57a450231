------------------------------- MODULE Streams -------------------------------
(***************************************************************************)
(* udp/stream.go and its users: one stream between two connected peers.    *)
(*                                                                         *)
(* A stream is a QUIC stream that begins with a hello: the opener sends    *)
(* the stream's id and metadata, the acceptor answers.  On a direct        *)
(* connection the caller opens it to the callee.  On a relayed one it asks *)
(* the relay, which opens a stream to the callee, another to the caller,   *)
(* joins them with a copying goroutine each way and answers with the id    *)
(* the caller finds its own stream by.  Each end then reads messages       *)
(* (MessageStream.Listen) until there are no more, and closes.             *)
(*                                                                         *)
(* Close of a QUIC stream ends what this end writes; it goes on reading    *)
(* until the other end closes too, or the session is lost.  The two        *)
(* directions are therefore apart, as pairs <<writer, reader>>.            *)
(***************************************************************************)

CONSTANT Modes  \* how the peers may be connected

ASSUME ModesAssumption == Modes \subseteq {"direct", "relay"}

VARIABLES
  mode,    \* Connection.mode
  lost,    \* the peers whose session to the other, or to the relay, is lost
  caller,  \* where OpenStream of the caller stands
  server,  \* where openPeerStreamHandler of the relay stands
  opener,  \* the hello to each peer: newStream of whoever opens the stream
  accept,  \* where handleStreams of each peer stands with it
  listen,  \* the goroutine of MessageStream.Listen
  ended,   \* the directions whose writer has closed its Stream
  copy     \* the relay's goroutine that reads from each peer

vars == <<mode, lost, caller, server, opener, accept, listen, ended, copy>>

Ends == {"caller", "callee"}
Other(e) == IF e = "caller" THEN "callee" ELSE "caller"

\* Whom an end exchanges its bytes with.
Far(e) == IF mode = "direct" THEN Other(e) ELSE "relay"

\* A direct connection has one session, a relayed one a session for each end.
Lost(e) == e \in lost \/ (mode = "direct" /\ lost # {})

\* The reader of a direction gets no more.
Over(w, r) == <<w, r>> \in ended \/ \E e \in {w, r} \cap Ends : Lost(e)

Init ==
  /\ mode \in Modes
  /\ lost = {}
  /\ caller = "idle"
  /\ server = "idle"
  /\ opener = [e \in Ends |-> "none"]
  /\ accept = [e \in Ends |-> "none"]
  /\ listen = [e \in Ends |-> "off"]
  /\ ended = {}
  /\ copy = [e \in Ends |-> "off"]

-----------------------------------------------------------------------------
(* The caller *)

Greets(e) == opener' = [opener EXCEPT ![e] = "hello"]

\* OpenStream on a direct connection, ...
CallsPeer ==
  /\ mode = "direct"
  /\ caller = "idle"
  /\ ~Lost("caller")
  /\ caller' = "waiting"
  /\ Greets("callee")
  /\ UNCHANGED <<mode, lost, server, accept, listen, ended, copy>>

\* ... and on a relayed one.
CallsRelay ==
  /\ mode = "relay"
  /\ caller = "idle"
  /\ ~Lost("caller")
  /\ caller' = "waiting"
  /\ server' = "asked"
  /\ UNCHANGED <<mode, lost, opener, accept, listen, ended, copy>>

\* The caller has its stream and listens to it.
Gets ==
  /\ caller' = "ok"
  /\ listen' = [listen EXCEPT !["caller"] = "on"]

GetsDirect ==
  /\ mode = "direct"
  /\ caller = "waiting"
  /\ opener["callee"] = "ok"
  /\ Gets
  /\ UNCHANGED <<mode, lost, server, opener, accept, ended, copy>>

\* The relay's answer is there, and so is the stream in the client's table.
GetsRelayed ==
  /\ caller = "waiting"
  /\ server = "ok"
  /\ ~Lost("caller")
  /\ accept["caller"] = "stored"
  /\ Gets
  /\ UNCHANGED <<mode, lost, server, opener, accept, ended, copy>>

\* GetStream looks before handleStreams has stored it.
LooksTooEarly ==
  /\ caller = "waiting"
  /\ server = "ok"
  /\ ~Lost("caller")
  /\ accept["caller"] = "replied"
  /\ caller' = "failed"
  /\ UNCHANGED <<mode, lost, server, opener, accept, listen, ended, copy>>

\* The relay has answered with an error, or the caller's timer fires: it is
\* shorter than the relay's two hellos may take.
CallFails ==
  /\ mode = "relay"
  /\ caller = "waiting"
  /\ caller' = "failed"
  /\ UNCHANGED <<mode, lost, server, opener, accept, listen, ended, copy>>

CallFailsDirect ==
  /\ mode = "direct"
  /\ caller = "waiting"
  /\ opener["callee"] = "failed"
  /\ caller' = "failed"
  /\ UNCHANGED <<mode, lost, server, opener, accept, listen, ended, copy>>

-----------------------------------------------------------------------------
(* The hello: newStream of the opener, handleStreams of the acceptor *)

Accepts(e) ==
  /\ opener[e] # "none"
  /\ accept[e] = "none"
  /\ ~Lost(e)
  /\ accept' = [accept EXCEPT ![e] = "replied"]
  /\ UNCHANGED <<mode, lost, caller, server, opener, listen, ended, copy>>

\* The stream goes into the table and to the handler: incomingStreamHandler lets
\* the caller's be, as OpenStream will find it; the callee's is listened to, ...
Stores(e) ==
  /\ accept[e] = "replied"
  /\ accept' = [accept EXCEPT ![e] = "stored"]
  /\ listen' = IF e = "callee" THEN [listen EXCEPT ![e] = "on"] ELSE listen
  /\ UNCHANGED <<mode, lost, caller, server, opener, ended, copy>>

\* ... or closed, when there is no handler for it.
StoresUnhandled ==
  /\ accept["callee"] = "replied"
  /\ accept' = [accept EXCEPT !["callee"] = "stored"]
  /\ ended' = ended \cup {<<"callee", Far("callee")>>}
  /\ UNCHANGED <<mode, lost, caller, server, opener, listen, copy>>

Greeted(e) ==
  /\ opener[e] = "hello"
  /\ accept[e] # "none"
  /\ ~Lost(e)
  /\ opener' = [opener EXCEPT ![e] = "ok"]
  /\ UNCHANGED <<mode, lost, caller, server, accept, listen, ended, copy>>

\* The timer of the hello: nothing else wakes its Send.  The stream is not closed.
GreetingFails(e) ==
  /\ opener[e] = "hello"
  /\ opener' = [opener EXCEPT ![e] = "failed"]
  /\ UNCHANGED <<mode, lost, caller, server, accept, listen, ended, copy>>

-----------------------------------------------------------------------------
(* The relay: openPeerStreamHandler and Connection.openStream *)

\* The callee is there.
OpensFar ==
  /\ server = "asked"
  /\ ~Lost("callee")
  /\ server' = "far"
  /\ Greets("callee")
  /\ UNCHANGED <<mode, lost, caller, accept, listen, ended, copy>>

\* It is not, or its stream is not opened.
RefusesFar ==
  /\ \/ server = "asked"
     \/ server = "far" /\ opener["callee"] = "failed"
  /\ server' = "error"
  /\ UNCHANGED <<mode, lost, caller, opener, accept, listen, ended, copy>>

OpensNear ==
  /\ server = "far"
  /\ opener["callee"] = "ok"
  /\ ~Lost("caller")
  /\ server' = "near"
  /\ Greets("caller")
  /\ UNCHANGED <<mode, lost, caller, accept, listen, ended, copy>>

NearFails ==
  \/ server = "far" /\ opener["callee"] = "ok" /\ Lost("caller")
  \/ server = "near" /\ opener["caller"] = "failed"

\* Mutant: the callee's stream is left open.
RefusesAndForgets ==
  /\ NearFails
  /\ server' = "error"
  /\ UNCHANGED <<mode, lost, caller, opener, accept, listen, ended, copy>>

\* The caller's stream is not opened: the callee's is closed.
RefusesNear ==
  /\ NearFails
  /\ server' = "error"
  /\ ended' = ended \cup {<<"relay", "callee">>}
  /\ UNCHANGED <<mode, lost, caller, opener, accept, listen, copy>>

\* Mutant: the deferred clean-up runs without an error, too.
JoinsAndCloses ==
  /\ server = "near"
  /\ opener["caller"] = "ok"
  /\ server' = "ok"
  /\ copy' = [e \in Ends |-> "on"]
  /\ ended' = ended \cup ({"relay"} \X Ends)
  /\ UNCHANGED <<mode, lost, caller, opener, accept, listen>>

\* Mutant: the goroutines are started before the caller's stream is open.
JoinsEarly ==
  /\ server = "near"
  /\ copy' = [e \in Ends |-> "on"]
  /\ UNCHANGED <<mode, lost, caller, server, opener, accept, listen, ended>>

Joins ==
  /\ server = "near"
  /\ opener["caller"] = "ok"
  /\ server' = "ok"
  /\ copy' = [e \in Ends |-> "on"]
  /\ UNCHANGED <<mode, lost, caller, opener, accept, listen, ended>>

\* There is no more to read from e, or what was read cannot be written: the
\* goroutine closes the stream that it writes.
CopyEnds(e) ==
  /\ copy[e] = "on"
  /\ Over(e, "relay") \/ Lost(Other(e))
  /\ copy' = [copy EXCEPT ![e] = "done"]
  /\ ended' = ended \cup {<<"relay", Other(e)>>}
  /\ UNCHANGED <<mode, lost, caller, server, opener, accept, listen>>

-----------------------------------------------------------------------------
(* The ends: MessageStream *)

Closes(e) == ended' = ended \cup {<<e, Far(e)>>}

UserCloses(e) ==
  /\ listen[e] # "off"
  /\ Closes(e)
  /\ UNCHANGED <<mode, lost, caller, server, opener, accept, listen, copy>>

\* Mutant: the loop returns without Close.
LeavesOpen(e) ==
  /\ listen[e] = "on"
  /\ Over(Far(e), e)
  /\ listen' = [listen EXCEPT ![e] = "done"]
  /\ UNCHANGED <<mode, lost, caller, server, opener, accept, ended, copy>>

\* Read fails: the loop closes the stream.
ReadEnds(e) ==
  /\ listen[e] = "on"
  /\ Over(Far(e), e)
  /\ listen' = [listen EXCEPT ![e] = "done"]
  /\ Closes(e)
  /\ UNCHANGED <<mode, lost, caller, server, opener, accept, copy>>

\* The loop has a message and looks at Closed before it reads the next.
SeesClosed(e) ==
  /\ listen[e] = "on"
  /\ <<e, Far(e)>> \in ended
  /\ listen' = [listen EXCEPT ![e] = "done"]
  /\ UNCHANGED <<mode, lost, caller, server, opener, accept, ended, copy>>

SessionLost(e) ==
  /\ ~Lost(e)
  /\ lost' = lost \cup {e}
  /\ UNCHANGED <<mode, caller, server, opener, accept, listen, ended, copy>>

-----------------------------------------------------------------------------
Call == CallsPeer \/ CallsRelay \/ GetsDirect \/ GetsRelayed \/ LooksTooEarly
          \/ CallFails \/ CallFailsDirect

Hello(e) == Accepts(e) \/ Stores(e) \/ Greeted(e) \/ GreetingFails(e)

Relay == OpensFar \/ RefusesFar \/ OpensNear \/ RefusesNear \/ Joins

End(e) == UserCloses(e) \/ ReadEnds(e) \/ SeesClosed(e) \/ CopyEnds(e) \/ SessionLost(e)

Next == Call \/ Relay \/ StoresUnhandled \/ \E e \in Ends : Hello(e) \/ End(e)

Spec == Init /\ [][Next]_vars

\* The goroutines run, hellos are answered or time out, a broken direction is
\* noticed by who reads it.  Nobody has to call, to close, or to send anything.
Fairness ==
  /\ WF_vars(GetsDirect \/ CallFailsDirect)
  /\ WF_vars(GetsRelayed \/ LooksTooEarly \/ CallFails)
  /\ WF_vars(Relay)
  /\ WF_vars(StoresUnhandled \/ Stores("callee"))
  /\ \A e \in Ends :
       /\ WF_vars(Accepts(e)) /\ WF_vars(Stores(e))
       /\ WF_vars(Greeted(e) \/ GreetingFails(e))
       /\ WF_vars(ReadEnds(e))
       /\ WF_vars(CopyEnds(e) /\ Over(e, "relay"))

FairSpec == Spec /\ Fairness

-----------------------------------------------------------------------------
(* Properties *)

TypeOK ==
  /\ mode \in Modes
  /\ lost \in SUBSET Ends
  /\ caller \in {"idle", "waiting", "ok", "failed"}
  /\ server \in {"idle", "asked", "far", "near", "ok", "error"}
  /\ opener \in [Ends -> {"none", "hello", "ok", "failed"}]
  /\ accept \in [Ends -> {"none", "replied", "stored"}]
  /\ listen \in [Ends -> {"off", "on", "done"}]
  /\ ended \in SUBSET ((Ends \cup {"relay"}) \X (Ends \cup {"relay"}))
  /\ copy \in [Ends -> {"off", "on", "done"}]
  /\ \A e \in Ends : copy[e] # "off" <=> server = "ok"

\* One of the ends has closed its stream or lost its session.
Gone(e) == <<e, Far(e)>> \in ended \/ Lost(e)

\* When one end is gone the other stops listening and so does the end itself,
\* whose Read goes on until the other end has closed in its turn: through the
\* relay, each half after the other, and neither of its goroutines is left.  A
\* stream that the caller was not given, or whose hello timed out when the callee
\* had accepted it, is nobody's.
EndsTogether ==
  \A e, f \in Ends :
    Gone(e) ~> \/ listen[f] # "on" /\ copy[f] # "on"
               \/ caller = "failed" \/ opener["callee"] = "failed"

\* How OpenStream looks to its caller.
CallState ==
  CASE caller = "idle" -> "idle"
    [] caller = "waiting" -> IF server = "error" THEN "refused" ELSE "pending"
    [] caller = "ok" -> "open"
    [] caller = "failed" -> "failed"

\* The two kinds of connection give the same service.
Service == INSTANCE StreamService WITH
  Peers    <- Ends,
  call     <- CallState,
  accepted <- accept["callee"] # "none",
  gone     <- {e \in Ends : Gone(e)},
  stopped  <- {e \in Ends : listen[e] = "done"}

\* Whatever the relay's goroutines do, neither end of an open stream reads its end
\* before one of them has closed it or lost its session.
RefinesStreamService == Service!ServiceSpec

\* A relay that cannot open the caller's stream takes back the callee's.
ErrorIsUndone ==
  server = "error" /\ opener["callee"] = "ok" /\ accept["callee"] = "stored"
    ~> listen["callee"] # "on"
=============================================================================
