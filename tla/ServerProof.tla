---------------------------- MODULE ServerProof -----------------------------
(***************************************************************************)
(* Proofs about UdpServer, for any sets of sessions and ids.               *)
(*                                                                         *)
(* What the registry promises rests on three agreements between threads:   *)
(* which sessions the accept loop has still to start (StartInv), how far   *)
(* the several Closes of one session have come (CloseInv), and what the    *)
(* holder of Server.mutex is doing (MutexInv, TakeoverInv, VisitInv).      *)
(***************************************************************************)
EXTENDS UdpServer, TLAPS

Started(s) == loop[s] # "off"

Released(s) == s \notin channel /\ link[s] = "dead" /\ s \notin ticking

\* A session is started once.  Nobody closes, stores or times one that is not.
StartInv ==
  /\ acceptor = "stream" <=> pending # None
  /\ pending \notin waiting
  /\ \A s \in Sessions :
       /\ s \in waiting \cup {pending} => ~Started(s) /\ link[s] # "none"
       /\ Started(s) => link[s] # "none"
       /\ s \in channel \cup ticking \cup Closed \cup initialized => Started(s)
  /\ \A t \in Threads : Busy(t) => close[t].on \in Sessions /\ Started(close[t].on)

\* A session gets its id while it is not initialized, and is stored with it.
HandshakeInv ==
  \A s \in Sessions :
    /\ loop[s] \in {"lock", "handler"} => s \notin initialized
    /\ loop[s] = "store" => s \in initialized /\ id[s] \in Ids

\* What a Close has done by the time it goes on, whoever else closes the same
\* session.
CloseInv ==
  \A t \in Threads, s \in Sessions :
    /\ CloseOf(t, s, "session") => s \notin channel
    /\ CloseOf(t, s, "flag") => Released(s)
    /\ CloseOf(t, s, "load") \/ CloseOf(t, s, "delete") => s \in Closed

\* Server.mutex is held from the validation handler to the end of
\* validateClient, and by Server.Close.
MutexInv ==
  /\ \A s \in Sessions : loop[s] \in {"handler", "store"} => smutex = Loop(s)
  /\ server = "closing" => smutex = App
  /\ visit # None => server = "closing"

\* A validation that is about to store its client has closed the session that
\* is there, or is closing it.
TakeoverInv ==
  \A s \in Sessions :
    loop[s] = "store" =>
      registry[id[s]] \in Closed \cup {None, close[Loop(s)].on}

\* Nothing is stored under a key that Server.Close has been through.
VisitInv ==
  /\ server = "open" => visited = {}
  /\ server = "closing" => \A i \in visited : ~Registered(i)

IInv ==
  /\ TypeOK
  /\ StartInv
  /\ HandshakeInv
  /\ CloseInv
  /\ MutexInv
  /\ TakeoverInv
  /\ VisitInv
  /\ RegisteredUnderItsId
  /\ ClosedIsReleased

-----------------------------------------------------------------------------
(* The invariant is inductive. *)

\* The threads are as many as they look.
LEMMA ThreadFacts ==
  /\ App \in Threads
  /\ \A s \in Sessions :
       /\ Loop(s) \in Threads /\ Tick(s) \in Threads
       /\ Loop(s) # App /\ Tick(s) # App
       /\ \A r \in Sessions : Loop(s) # Tick(r) /\ (Loop(s) = Loop(r) => s = r)
BY DEF App, Loop, Tick, Threads

\* Thread t's Close becomes c, and every other one stays where it is.
Closing == [on : Sessions \cup {None}, at : CloseCounters]

Sets(t, c) ==
  /\ close' \in [Threads -> Closing]
  /\ close'[t] = c
  /\ \A u \in Threads : u # t => close'[u] = close[u]

\* Whoever is in a Close after the step closes a session started before it.
BusyOnStarted ==
  \A u \in Threads : Busy(u)' => close'[u].on \in Sessions /\ Started(close'[u].on)

\* What the updates of close in the actions come to.
LEMMA CloseUpdates ==
  ASSUME TypeOK, NEW t \in Threads, NEW s \in Sessions
  PROVE  /\ Enter(t, s) => Sets(t, Entered(s))
         /\ close' = [close EXCEPT ![t] = Idle] => Sets(t, Idle)
         /\ \A a, b \in CloseCounters :
              CloseOf(t, s, a) /\ Goto(t, b) => Sets(t, [on |-> s, at |-> b])
<1> USE DEF Sets, Closing, TypeOK
<1>1. ASSUME NEW c \in Closing, close' = [close EXCEPT ![t] = c] PROVE Sets(t, c)
  BY <1>1
<1>2. Entered(s) \in Closing /\ Idle \in Closing
  BY DEF Entered, Idle, CloseCounters
<1>3. ASSUME NEW a \in CloseCounters, NEW b \in CloseCounters, CloseOf(t, s, a), Goto(t, b)
      PROVE  Sets(t, [on |-> s, at |-> b])
  <2>1. [on |-> s, at |-> b] \in Closing
    OBVIOUS
  <2>2. [close[t] EXCEPT !.at = b] = [on |-> s, at |-> b]
    BY <1>3 DEF CloseOf
  <2>3. close' = [close EXCEPT ![t] = [on |-> s, at |-> b]]
    BY <1>3, <2>2 DEF Goto
  <2> QED
    BY <1>1, <2>1, <2>3
<1> QED
  BY <1>1, <1>2, <1>3 DEF Enter

\* A Close that starts, goes on or returns, while no session is released less
\* than it was, keeps what is known of the Closes under way.
LEMMA CloseAdvances ==
  ASSUME IInv, NEW t \in Threads, NEW c \in Closing, Sets(t, c),
         c = Idle \/ (c.on \in Sessions /\ Started(c.on)),
         channel' \subseteq channel, ticking' \subseteq ticking, Closed \subseteq Closed',
         \A s \in Sessions : link[s] = "dead" => link'[s] = "dead",
         c.at = "session" => c.on \notin channel',
         c.at = "flag" => Released(c.on)',
         c.at \in {"load", "delete"} => c.on \in Closed'
  PROVE  /\ CloseInv'
         /\ BusyOnStarted
<1>1. CloseInv /\ StartInv
  BY DEF IInv
<1>2. ASSUME NEW u \in Threads, NEW s \in Sessions
      PROVE  /\ CloseOf(u, s, "session")' => s \notin channel'
             /\ CloseOf(u, s, "flag")' => Released(s)'
             /\ CloseOf(u, s, "load")' \/ CloseOf(u, s, "delete")' => s \in Closed'
  <2>1. CASE u = t
    BY <2>1 DEF Sets, CloseOf, Idle
  <2>2. CASE u # t
    <3>1. close'[u] = close[u]
      BY <2>2 DEF Sets
    <3> QED
      BY <1>1, <3>1 DEF CloseInv, CloseOf, Released
  <2> QED
    BY <2>1, <2>2
<1>3. CloseInv'
  BY <1>2 DEF CloseInv
<1> QED
  BY <1>1, <1>3 DEF StartInv, Sets, Busy, BusyOnStarted

\* A Close that starts on a session that has been started disturbs nothing.
LEMMA EnterKeeps ==
  ASSUME IInv, NEW t \in Threads, NEW s \in Sessions, Started(s),
         Enter(t, s) \/ UNCHANGED close,
         UNCHANGED <<channel, link, ticking, Closed>>
  PROVE  /\ CloseInv'
         /\ close' \in [Threads -> Closing]
         /\ BusyOnStarted
         /\ \A u \in Threads : u # t => close'[u] = close[u]
         /\ Enter(t, s) => close'[t].on = s
<1>1. CASE UNCHANGED close /\ ~Enter(t, s)
  BY <1>1 DEF IInv, TypeOK, StartInv, CloseInv, CloseOf, Released, Busy, Closing,
    BusyOnStarted
<1>2. CASE Enter(t, s)
  <2>1. Sets(t, Entered(s)) /\ Entered(s) \in Closing
    BY <1>2, CloseUpdates DEF IInv, Entered, Closing, CloseCounters
  <2>2. Entered(s).on = s /\ Entered(s).at = "closed?"
    BY DEF Entered
  <2>3. CloseInv' /\ BusyOnStarted
    BY <2>1, <2>2, CloseAdvances
  <2> QED
    BY <2>1, <2>2, <2>3 DEF Sets
<1> QED
  BY <1>1, <1>2

\* A Close of a thread that is not storing a client matters to no validation.
LEMMA TakeoverKeeps ==
  ASSUME IInv, NEW t \in Threads,
         \A u \in Threads : u # t => close'[u] = close[u],
         \A r \in Sessions : loop'[r] = "store" => loop[r] = "store" /\ Loop(r) # t,
         UNCHANGED <<registry, id>>, Closed \subseteq Closed'
  PROVE  TakeoverInv'
BY ThreadFacts DEF IInv, TakeoverInv

\* A fresh server: no session, and nothing in the registry.
LEMMA InitInv == Init => IInv
<1> SUFFICES ASSUME Init PROVE IInv
  OBVIOUS
<1>1. close \in [Threads -> Closing] /\ \A t \in Threads : ~Busy(t)
  BY DEF Init, Idle, Busy, Closing, CloseCounters
<1>2. TypeOK
  BY <1>1 DEF Init, TypeOK, Closing
<1>3. StartInv /\ HandshakeInv /\ MutexInv /\ TakeoverInv
  BY <1>1, ServerAssumption DEF Init, StartInv, Started, HandshakeInv, MutexInv,
    TakeoverInv
<1>4. CloseInv
  BY ServerAssumption DEF Init, CloseInv, CloseOf, Idle
<1>5. VisitInv /\ RegisteredUnderItsId /\ ClosedIsReleased
  BY DEF Init, VisitInv, RegisteredUnderItsId, Registered, ClosedIsReleased
<1> QED
  BY <1>2, <1>3, <1>4, <1>5 DEF IInv

\* Every step of a peer, of the accept loop, of a message loop, of a Close and
\* of Server.Close keeps the three agreements.
LEMMA StepInv == IInv /\ [Next]_vars => IInv'
<1> SUFFICES ASSUME IInv, [Next]_vars PROVE IInv'
  OBVIOUS
<1> USE ServerAssumption, ThreadAssumption, ThreadFacts
<1> USE DEF vars, outside, clients, network, accepting, shutdown, client, life, table,
  Alive, CloseOf, Busy, Started, Released, Registered, Holds, BusyOnStarted
<1>1. ASSUME NEW s \in Sessions, Dial(s) PROVE IInv'
  <2>1. TypeOK'
    BY <1>1 DEF Dial, IInv, TypeOK
  <2>2. StartInv'
    BY <1>1 DEF Dial, IInv, TypeOK, StartInv
  <2>3. CloseInv'
    BY <1>1 DEF Dial, IInv, TypeOK, CloseInv
  <2>4. ClosedIsReleased'
    BY <1>1 DEF Dial, IInv, TypeOK, ClosedIsReleased
  <2> QED
    BY <1>1, <2>1, <2>2, <2>3, <2>4 DEF Dial, IInv, HandshakeInv, MutexInv,
      TakeoverInv, VisitInv, RegisteredUnderItsId
<1>2. ASSUME NEW s \in Sessions, OpensStream(s) PROVE IInv'
  <2>1. TypeOK'
    BY <1>2 DEF OpensStream, IInv, TypeOK
  <2> QED
    BY <1>2, <2>1 DEF OpensStream, IInv, StartInv, HandshakeInv, CloseInv, MutexInv,
      TakeoverInv, VisitInv, RegisteredUnderItsId, ClosedIsReleased
<1>3. ASSUME NEW s \in Sessions, LinkDies(s) PROVE IInv'
  <2>1. TypeOK'
    BY <1>3 DEF LinkDies, IInv, TypeOK
  <2>2. StartInv'
    BY <1>3 DEF LinkDies, IInv, TypeOK, StartInv
  <2>3. CloseInv'
    BY <1>3 DEF LinkDies, IInv, TypeOK, CloseInv
  <2>4. ClosedIsReleased'
    BY <1>3 DEF LinkDies, IInv, TypeOK, ClosedIsReleased
  <2> QED
    BY <1>3, <2>1, <2>2, <2>3, <2>4 DEF LinkDies, IInv, HandshakeInv, MutexInv,
      TakeoverInv, VisitInv, RegisteredUnderItsId
<1>4. ASSUME AcceptCalls PROVE IInv'
  <2>1. TypeOK'
    BY <1>4 DEF AcceptCalls, IInv, TypeOK
  <2>2. StartInv'
    BY <1>4 DEF AcceptCalls, IInv, TypeOK, StartInv
  <2> QED
    BY <1>4, <2>1, <2>2 DEF AcceptCalls, IInv, HandshakeInv, CloseInv, MutexInv,
      TakeoverInv, VisitInv, RegisteredUnderItsId, ClosedIsReleased
<1>5. ASSUME NEW s \in Sessions, Accepts(s) PROVE IInv'
  <2>1. TypeOK'
    BY <1>5 DEF Accepts, IInv, TypeOK
  <2>2. StartInv'
    BY <1>5 DEF Accepts, IInv, TypeOK, StartInv
  <2> QED
    BY <1>5, <2>1, <2>2 DEF Accepts, IInv, HandshakeInv, CloseInv, MutexInv,
      TakeoverInv, VisitInv, RegisteredUnderItsId, ClosedIsReleased
<1>6. ASSUME AcceptFails PROVE IInv'
  <2>1. TypeOK'
    BY <1>6 DEF AcceptFails, IInv, TypeOK
  <2>2. StartInv'
    BY <1>6 DEF AcceptFails, IInv, TypeOK, StartInv
  <2> QED
    BY <1>6, <2>1, <2>2 DEF AcceptFails, IInv, HandshakeInv, CloseInv, MutexInv,
      TakeoverInv, VisitInv, RegisteredUnderItsId, ClosedIsReleased
<1>7. ASSUME NewClient PROVE IInv'
  <2>1. TypeOK'
    BY <1>7 DEF NewClient, IInv, TypeOK
  <2>2. StartInv'
    BY <1>7 DEF NewClient, IInv, TypeOK, StartInv
  <2>3. HandshakeInv'
    BY <1>7 DEF NewClient, IInv, TypeOK, HandshakeInv
  <2>4. CloseInv'
    BY <1>7 DEF NewClient, IInv, TypeOK, CloseInv, StartInv, Idle
  <2>5. MutexInv'
    BY <1>7 DEF NewClient, IInv, TypeOK, MutexInv
  <2>6. TakeoverInv'
    BY <1>7 DEF NewClient, IInv, TypeOK, TakeoverInv
  <2>7. ClosedIsReleased'
    BY <1>7 DEF NewClient, IInv, TypeOK, ClosedIsReleased, StartInv
  <2> QED
    BY <1>7, <2>1, <2>2, <2>3, <2>4, <2>5, <2>6, <2>7 DEF NewClient, IInv, VisitInv,
      RegisteredUnderItsId
<1>8. ASSUME NewClientFails PROVE IInv'
  <2>1. TypeOK'
    BY <1>8 DEF NewClientFails, IInv, TypeOK
  <2>2. StartInv'
    BY <1>8 DEF NewClientFails, IInv, TypeOK, StartInv
  <2> QED
    BY <1>8, <2>1, <2>2 DEF NewClientFails, IInv, HandshakeInv, CloseInv, MutexInv,
      TakeoverInv, VisitInv, RegisteredUnderItsId, ClosedIsReleased
<1>9. ASSUME NEW t \in Threads, NEW s \in Sessions, CloseChecks(t, s) PROVE IInv'
  <2> DEFINE c == IF s \in Closed THEN Idle
                  ELSE [on |-> s, at |-> IF s \in channel THEN "channel" ELSE "session"]
  <2>1. close[t].on = s /\ Started(s) /\ c \in Closing
    BY <1>9 DEF CloseChecks, IInv, StartInv, Idle, Closing, CloseCounters
  <2>2. Sets(t, c)
    BY <1>9, CloseUpdates DEF CloseChecks, IInv, CloseCounters
  <2>3. CloseInv' /\ BusyOnStarted
    BY <1>9, <2>1, <2>2, CloseAdvances DEF CloseChecks, Idle
  <2>4. TypeOK'
    BY <1>9, <2>2 DEF CloseChecks, IInv, TypeOK, Sets, Closing
  <2>5. StartInv'
    BY <1>9, <2>3 DEF CloseChecks, IInv, StartInv
  <2>6. TakeoverInv'
    BY <1>9, <2>1, <2>2 DEF CloseChecks, IInv, TakeoverInv, Sets, Idle
  <2> QED
    BY <1>9, <2>3, <2>4, <2>5, <2>6 DEF CloseChecks, IInv, HandshakeInv, MutexInv,
      VisitInv, RegisteredUnderItsId, ClosedIsReleased
<1>10. ASSUME NEW t \in Threads, NEW s \in Sessions, ClosesChannel(t, s) PROVE IInv'
  <2> DEFINE c == IF s \in channel THEN [on |-> s, at |-> "session"]
                  ELSE IF t[1] = "tick" THEN Idle ELSE close[t]
  <2>1. close[t].on = s /\ Started(s) /\ c \in Closing
    BY <1>10 DEF ClosesChannel, IInv, StartInv, Idle, Closing, CloseCounters
  <2>2. Sets(t, c)
    <3>1. CASE s \in channel
      BY <1>10, <3>1, CloseUpdates DEF ClosesChannel, IInv, CloseCounters
    <3>2. CASE s \notin channel /\ t[1] = "tick"
      BY <1>10, <3>2, CloseUpdates DEF ClosesChannel, Panics, IInv
    <3>3. CASE s \notin channel /\ t[1] # "tick"
      BY <1>10, <3>3 DEF ClosesChannel, Panics, IInv, TypeOK, Sets, Closing
    <3> QED
      BY <3>1, <3>2, <3>3
  <2>3. CloseInv' /\ BusyOnStarted
    BY <1>10, <2>1, <2>2, CloseAdvances DEF ClosesChannel, Panics, Idle
  <2>4. TypeOK'
    BY <1>10, <2>2 DEF ClosesChannel, Panics, IInv, TypeOK, Sets, Closing
  <2>5. StartInv'
    BY <1>10, <2>3 DEF ClosesChannel, Panics, IInv, StartInv
  <2>6. TakeoverInv'
    BY <1>10, <2>1, <2>2 DEF ClosesChannel, Panics, Loop, IInv, TypeOK, TakeoverInv,
      Sets, Idle
  <2>7. ClosedIsReleased'
    BY <1>10 DEF ClosesChannel, Panics, IInv, TypeOK, ClosedIsReleased
  <2> QED
    BY <1>10, <2>3, <2>4, <2>5, <2>6, <2>7 DEF ClosesChannel, Panics, IInv,
      HandshakeInv, MutexInv, VisitInv, RegisteredUnderItsId
<1>11. ASSUME NEW t \in Threads, NEW s \in Sessions, ClosesSession(t, s) PROVE IInv'
  <2> DEFINE c == [on |-> s, at |-> "flag"]
  <2>1. close[t].on = s /\ Started(s) /\ c \in Closing
    BY <1>11 DEF ClosesSession, IInv, StartInv, Idle, Closing, CloseCounters
  <2>2. Sets(t, c)
    BY <1>11, CloseUpdates DEF ClosesSession, IInv, CloseCounters
  <2>3. CloseInv' /\ BusyOnStarted
    BY <1>11, <2>1, <2>2, CloseAdvances DEF ClosesSession, IInv, TypeOK, CloseInv, Idle
  <2>4. TypeOK'
    BY <1>11, <2>2 DEF ClosesSession, IInv, TypeOK, Sets, Closing
  <2>5. StartInv'
    BY <1>11, <2>3 DEF ClosesSession, IInv, StartInv
  <2>6. TakeoverInv'
    BY <1>11, <2>1, <2>2 DEF ClosesSession, IInv, TypeOK, TakeoverInv, Sets, Idle
  <2>7. ClosedIsReleased'
    BY <1>11 DEF ClosesSession, IInv, TypeOK, ClosedIsReleased
  <2> QED
    BY <1>11, <2>3, <2>4, <2>5, <2>6, <2>7 DEF ClosesSession, IInv, HandshakeInv,
      MutexInv, VisitInv, RegisteredUnderItsId
<1>12. ASSUME NEW t \in Threads, NEW s \in Sessions, SetsClosed(t, s) PROVE IInv'
  <2> DEFINE c == [on |-> s, at |-> "load"]
  <2>1. close[t].on = s /\ Started(s) /\ c \in Closing
    BY <1>12 DEF SetsClosed, IInv, StartInv, Idle, Closing, CloseCounters
  <2>2. Sets(t, c)
    BY <1>12, CloseUpdates DEF SetsClosed, IInv, CloseCounters
  <2>3. CloseInv' /\ BusyOnStarted
    BY <1>12, <2>1, <2>2, CloseAdvances DEF SetsClosed, Idle
  <2>4. TypeOK'
    BY <1>12, <2>2 DEF SetsClosed, IInv, TypeOK, Sets, Closing
  <2>5. StartInv'
    BY <1>12, <2>1, <2>3 DEF SetsClosed, IInv, StartInv
  <2>6. TakeoverInv'
    BY <1>12, <2>1, <2>2 DEF SetsClosed, IInv, TypeOK, TakeoverInv, Sets, Idle
  <2>7. ClosedIsReleased'
    BY <1>12 DEF SetsClosed, IInv, TypeOK, ClosedIsReleased, CloseInv
  <2> QED
    BY <1>12, <2>3, <2>4, <2>5, <2>6, <2>7 DEF SetsClosed, IInv, HandshakeInv,
      MutexInv, VisitInv, RegisteredUnderItsId
<1>13. ASSUME NEW t \in Threads, NEW s \in Sessions, LoadsEntry(t, s) PROVE IInv'
  <2> DEFINE c == IF Holds(s) THEN [on |-> s, at |-> "delete"] ELSE Idle
  <2>1. close[t].on = s /\ Started(s) /\ c \in Closing
    BY <1>13 DEF LoadsEntry, IInv, StartInv, Idle, Closing, CloseCounters
  <2>2. Sets(t, c)
    BY <1>13, CloseUpdates DEF LoadsEntry, IInv, CloseCounters
  <2>3. CloseInv' /\ BusyOnStarted
    BY <1>13, <2>1, <2>2, CloseAdvances DEF LoadsEntry, IInv, CloseInv, Idle
  <2>4. TypeOK'
    BY <1>13, <2>2 DEF LoadsEntry, IInv, TypeOK, Sets, Closing
  <2>5. StartInv'
    BY <1>13, <2>3 DEF LoadsEntry, IInv, StartInv
  <2>6. TakeoverInv'
    <3>1. s \in Closed
      BY <1>13 DEF LoadsEntry, IInv, CloseInv
    <3> QED
      BY <1>13, <2>1, <2>2, <3>1, ThreadFacts DEF LoadsEntry, IInv, TakeoverInv, Sets,
        Idle
  <2> QED
    BY <1>13, <2>3, <2>4, <2>5, <2>6 DEF LoadsEntry, IInv, HandshakeInv, MutexInv,
      VisitInv, RegisteredUnderItsId, ClosedIsReleased
<1>14. ASSUME NEW t \in Threads, NEW s \in Sessions, DeletesEntry(t, s) PROVE IInv'
  <2> DEFINE c == Idle
  <2>1. close[t].on = s /\ Started(s) /\ c \in Closing
    BY <1>14 DEF DeletesEntry, IInv, StartInv, Idle, Closing, CloseCounters
  <2>2. Sets(t, c)
    BY <1>14, CloseUpdates DEF DeletesEntry, IInv, CloseCounters
  <2>3. CloseInv' /\ BusyOnStarted
    BY <1>14, <2>1, <2>2, CloseAdvances DEF DeletesEntry, Idle
  <2>4. TypeOK'
    BY <1>14, <2>2 DEF DeletesEntry, IInv, TypeOK, Sets, Closing
  <2>5. StartInv'
    BY <1>14, <2>3 DEF DeletesEntry, IInv, StartInv
  <2>6. TakeoverInv'
    BY <1>14, <2>1, <2>2 DEF DeletesEntry, CloseInv, IInv, TypeOK, TakeoverInv, Sets,
      Idle
  <2>7. VisitInv'
    BY <1>14 DEF DeletesEntry, IInv, TypeOK, VisitInv
  <2>8. RegisteredUnderItsId'
    BY <1>14 DEF DeletesEntry, IInv, TypeOK, RegisteredUnderItsId
  <2> QED
    BY <1>14, <2>3, <2>4, <2>5, <2>6, <2>7, <2>8 DEF DeletesEntry, IInv, HandshakeInv,
      MutexInv, ClosedIsReleased
<1>15. ASSUME NEW s \in Sessions, LoopReads(s) PROVE IInv'
  <2>1. TypeOK'
    BY <1>15 DEF LoopReads, IInv, TypeOK
  <2>2. StartInv'
    BY <1>15 DEF LoopReads, IInv, TypeOK, StartInv
  <2>3. HandshakeInv'
    BY <1>15 DEF LoopReads, IInv, TypeOK, HandshakeInv
  <2>4. MutexInv'
    BY <1>15 DEF LoopReads, IInv, TypeOK, MutexInv
  <2>5. TakeoverInv'
    BY <1>15 DEF LoopReads, IInv, TypeOK, TakeoverInv
  <2> QED
    BY <1>15, <2>1, <2>2, <2>3, <2>4, <2>5 DEF LoopReads, IInv, CloseInv, VisitInv,
      RegisteredUnderItsId, ClosedIsReleased
<1>16. ASSUME NEW s \in Sessions, ReadFails(s) PROVE IInv'
  <2>1. s \in Sessions /\ Started(s)
    BY <1>16 DEF ReadFails, ReadFails
  <2>2. /\ CloseInv' /\ close' \in [Threads -> Closing] /\ BusyOnStarted
        /\ \A u \in Threads : u # Loop(s) => close'[u] = close[u]
    BY <1>16, <2>1, EnterKeeps DEF ReadFails
  <2>3. TypeOK'
    BY <1>16, <2>2 DEF ReadFails, IInv, TypeOK, Closing
  <2>4. StartInv'
    BY <1>16, <2>2 DEF ReadFails, IInv, TypeOK, StartInv
  <2>5. TakeoverInv'
    <3>1. \A r \in Sessions : loop'[r] = "store" => loop[r] = "store" /\ Loop(r) # Loop(s)
      BY <1>16 DEF ReadFails, IInv, TypeOK
    <3>2. UNCHANGED <<registry, id, Closed>>
      BY <1>16 DEF ReadFails
    <3> QED
      BY <2>2, <3>1, <3>2, TakeoverKeeps
  <2>6. HandshakeInv'
    BY <1>16 DEF ReadFails, IInv, TypeOK, HandshakeInv
  <2>7. MutexInv'
    BY <1>16 DEF ReadFails, IInv, TypeOK, MutexInv
  <2> QED
    BY <1>16, <2>2, <2>3, <2>4, <2>5, <2>6, <2>7 DEF ReadFails, IInv, VisitInv,
      RegisteredUnderItsId, ClosedIsReleased
<1>17. ASSUME NEW s \in Sessions, ReadsValidate(s) PROVE IInv'
  <2>1. TypeOK'
    BY <1>17 DEF ReadsValidate, IInv, TypeOK
  <2>2. StartInv'
    BY <1>17 DEF ReadsValidate, IInv, TypeOK, StartInv
  <2>3. HandshakeInv'
    BY <1>17 DEF ReadsValidate, IInv, TypeOK, HandshakeInv
  <2>4. MutexInv'
    BY <1>17 DEF ReadsValidate, IInv, TypeOK, MutexInv
  <2>5. TakeoverInv'
    BY <1>17 DEF ReadsValidate, IInv, TypeOK, TakeoverInv
  <2> QED
    BY <1>17, <2>1, <2>2, <2>3, <2>4, <2>5 DEF ReadsValidate, IInv, CloseInv,
      VisitInv, RegisteredUnderItsId, ClosedIsReleased
<1>18. ASSUME NEW s \in Sessions, ReadsPing(s) PROVE IInv'
  <2>1. TypeOK'
    BY <1>18 DEF ReadsPing, IInv, TypeOK
  <2>2. StartInv'
    BY <1>18 DEF ReadsPing, IInv, TypeOK, StartInv
  <2>3. HandshakeInv'
    BY <1>18 DEF ReadsPing, IInv, TypeOK, HandshakeInv
  <2>4. MutexInv'
    BY <1>18 DEF ReadsPing, IInv, TypeOK, MutexInv
  <2>5. TakeoverInv'
    BY <1>18 DEF ReadsPing, IInv, TypeOK, TakeoverInv
  <2> QED
    BY <1>18, <2>1, <2>2, <2>3, <2>4, <2>5 DEF ReadsPing, IInv, CloseInv, VisitInv,
      RegisteredUnderItsId, ClosedIsReleased
<1>19. ASSUME NEW s \in Sessions, ReadsSearch(s) PROVE IInv'
  <2>1. TypeOK'
    BY <1>19 DEF ReadsSearch, IInv, TypeOK
  <2>2. StartInv'
    BY <1>19 DEF ReadsSearch, IInv, TypeOK, StartInv
  <2>3. HandshakeInv'
    BY <1>19 DEF ReadsSearch, IInv, TypeOK, HandshakeInv
  <2>4. MutexInv'
    BY <1>19 DEF ReadsSearch, IInv, TypeOK, MutexInv
  <2>5. TakeoverInv'
    BY <1>19 DEF ReadsSearch, IInv, TypeOK, TakeoverInv
  <2> QED
    BY <1>19, <2>1, <2>2, <2>3, <2>4, <2>5 DEF ReadsSearch, IInv, CloseInv, VisitInv,
      RegisteredUnderItsId, ClosedIsReleased
<1>20. ASSUME NEW s \in Sessions, ReadsOther(s) PROVE IInv'
  <2>1. s \in Sessions /\ Started(s)
    BY <1>20 DEF ReadsOther, ReadsOther
  <2>2. /\ CloseInv' /\ close' \in [Threads -> Closing] /\ BusyOnStarted
        /\ \A u \in Threads : u # Loop(s) => close'[u] = close[u]
    BY <1>20, <2>1, EnterKeeps DEF ReadsOther
  <2>3. TypeOK'
    <3>1. PICK at \in {"top", "done"} : loop' = [loop EXCEPT ![s] = at]
      BY <1>20 DEF ReadsOther
    <3>2. loop' \in [Sessions -> {"off", "top", "reading", "lock", "handler",
                                 "store", "reply", "send", "done"}]
      BY <3>1 DEF IInv, TypeOK
    <3> QED
      BY <1>20, <2>2, <3>2 DEF ReadsOther, IInv, TypeOK, Closing
  <2>4. StartInv'
    BY <1>20, <2>2 DEF ReadsOther, IInv, TypeOK, StartInv
  <2>5. TakeoverInv'
    <3>1. \A r \in Sessions : loop'[r] = "store" => loop[r] = "store" /\ Loop(r) # Loop(s)
      BY <1>20 DEF ReadsOther, IInv, TypeOK
    <3>2. UNCHANGED <<registry, id, Closed>>
      BY <1>20 DEF ReadsOther
    <3> QED
      BY <2>2, <3>1, <3>2, TakeoverKeeps
  <2>6. HandshakeInv'
    BY <1>20 DEF ReadsOther, IInv, TypeOK, HandshakeInv
  <2>7. MutexInv'
    BY <1>20 DEF ReadsOther, IInv, TypeOK, MutexInv
  <2> QED
    BY <1>20, <2>2, <2>3, <2>4, <2>5, <2>6, <2>7 DEF ReadsOther, IInv, VisitInv,
      RegisteredUnderItsId, ClosedIsReleased
<1>21. ASSUME NEW s \in Sessions, Locks(s) PROVE IInv'
  <2>1. TypeOK'
    BY <1>21 DEF Locks, IInv, TypeOK
  <2>2. StartInv'
    BY <1>21 DEF Locks, IInv, TypeOK, StartInv
  <2>3. HandshakeInv'
    BY <1>21 DEF Locks, IInv, TypeOK, HandshakeInv
  <2>4. MutexInv'
    BY <1>21 DEF Locks, IInv, TypeOK, MutexInv
  <2>5. TakeoverInv'
    BY <1>21 DEF Locks, IInv, TypeOK, TakeoverInv
  <2> QED
    BY <1>21, <2>1, <2>2, <2>3, <2>4, <2>5 DEF Locks, IInv, CloseInv, VisitInv,
      RegisteredUnderItsId, ClosedIsReleased
<1>22. ASSUME NEW s \in Sessions, Rejects(s) PROVE IInv'
  <2>1. TypeOK'
    BY <1>22 DEF Rejects, IInv, TypeOK
  <2>2. StartInv'
    BY <1>22 DEF Rejects, IInv, TypeOK, StartInv
  <2>3. HandshakeInv'
    BY <1>22 DEF Rejects, IInv, TypeOK, HandshakeInv
  <2>4. MutexInv'
    BY <1>22 DEF Rejects, IInv, TypeOK, MutexInv
  <2>5. TakeoverInv'
    BY <1>22 DEF Rejects, IInv, TypeOK, TakeoverInv
  <2> QED
    BY <1>22, <2>1, <2>2, <2>3, <2>4, <2>5 DEF Rejects, IInv, CloseInv, VisitInv,
      RegisteredUnderItsId, ClosedIsReleased
<1>23. ASSUME NEW s \in Sessions, NEW i \in Ids, Admits(s, i) PROVE IInv'
  <2> DEFINE o == IF Registered(i) THEN registry[i] ELSE s
  <2>1. o \in Sessions /\ Started(o)
    BY <1>23 DEF Admits, IInv, TypeOK, StartInv, RegisteredUnderItsId
  <2>2. Enter(Loop(s), o) \/ UNCHANGED close
    BY <1>23 DEF Admits
  <2>3. /\ CloseInv' /\ close' \in [Threads -> Closing] /\ BusyOnStarted
        /\ \A u \in Threads : u # Loop(s) => close'[u] = close[u]
        /\ Enter(Loop(s), o) => close'[Loop(s)].on = o
    BY <1>23, <2>1, <2>2, EnterKeeps DEF Admits
  <2>4. TypeOK'
    BY <1>23, <2>3 DEF Admits, IInv, TypeOK, Closing
  <2>5. StartInv'
    BY <1>23, <2>3 DEF Admits, IInv, TypeOK, StartInv
  <2>6. HandshakeInv'
    BY <1>23 DEF Admits, IInv, TypeOK, HandshakeInv
  <2>7. MutexInv'
    BY <1>23 DEF Admits, IInv, TypeOK, MutexInv
  <2>8. TakeoverInv'
    <3>1. ASSUME NEW r \in Sessions, loop'[r] = "store" PROVE r = s
      BY <1>23, <3>1 DEF Admits, IInv, TypeOK, MutexInv
    <3>2. registry'[id'[s]] \in {None, close'[Loop(s)].on}
      BY <1>23, <2>3 DEF Admits, IInv, TypeOK
    <3> QED
      BY <3>1, <3>2 DEF TakeoverInv
  <2>9. RegisteredUnderItsId'
    BY <1>23 DEF Admits, IInv, TypeOK, RegisteredUnderItsId, HandshakeInv
  <2> QED
    BY <1>23, <2>3, <2>4, <2>5, <2>6, <2>7, <2>8, <2>9 DEF Admits, IInv, VisitInv,
      ClosedIsReleased
<1>24. ASSUME NEW s \in Sessions, Stores(s) PROVE IInv'
  <2>1. TypeOK'
    BY <1>24 DEF Stores, IInv, TypeOK
  <2>2. StartInv'
    BY <1>24 DEF Stores, IInv, TypeOK, StartInv
  <2>3. HandshakeInv'
    BY <1>24 DEF Stores, IInv, TypeOK, HandshakeInv
  <2>4. MutexInv'
    BY <1>24 DEF Stores, IInv, TypeOK, MutexInv
  <2>5. TakeoverInv'
    BY <1>24 DEF Stores, IInv, TypeOK, TakeoverInv, MutexInv
  <2>6. VisitInv'
    BY <1>24 DEF Stores, IInv, TypeOK, VisitInv, MutexInv
  <2>7. RegisteredUnderItsId'
    BY <1>24 DEF Stores, IInv, TypeOK, RegisteredUnderItsId, HandshakeInv
  <2> QED
    BY <1>24, <2>1, <2>2, <2>3, <2>4, <2>5, <2>6, <2>7 DEF Stores, IInv, CloseInv,
      ClosedIsReleased
<1>25. ASSUME NEW s \in Sessions, ChecksChannel(s) PROVE IInv'
  <2>1. s \in Sessions /\ Started(s)
    BY <1>25 DEF ChecksChannel, ChecksChannel
  <2>2. /\ CloseInv' /\ close' \in [Threads -> Closing] /\ BusyOnStarted
        /\ \A u \in Threads : u # Loop(s) => close'[u] = close[u]
    BY <1>25, <2>1, EnterKeeps DEF ChecksChannel, AfterReply
  <2>3. TypeOK'
    <3>1. PICK at \in {"send", "done", "top", loop[s]} : loop' = [loop EXCEPT ![s] = at]
      BY <1>25 DEF ChecksChannel, AfterReply, IInv, TypeOK
    <3>2. loop' \in [Sessions -> {"off", "top", "reading", "lock", "handler",
                                 "store", "reply", "send", "done"}]
      BY <3>1 DEF IInv, TypeOK
    <3> QED
      BY <1>25, <2>2, <3>2 DEF ChecksChannel, IInv, TypeOK, Closing
  <2>4. StartInv'
    BY <1>25, <2>2 DEF ChecksChannel, AfterReply, IInv, TypeOK, StartInv
  <2>5. TakeoverInv'
    <3>1. \A r \in Sessions : loop'[r] = "store" => loop[r] = "store" /\ Loop(r) # Loop(s)
      BY <1>25 DEF ChecksChannel, AfterReply, IInv, TypeOK
    <3>2. UNCHANGED <<registry, id, Closed>>
      BY <1>25 DEF ChecksChannel, AfterReply
    <3> QED
      BY <2>2, <3>1, <3>2, TakeoverKeeps
  <2>6. HandshakeInv'
    BY <1>25 DEF ChecksChannel, AfterReply, IInv, TypeOK, HandshakeInv
  <2>7. MutexInv'
    BY <1>25 DEF ChecksChannel, AfterReply, IInv, TypeOK, MutexInv
  <2> QED
    BY <1>25, <2>2, <2>3, <2>4, <2>5, <2>6, <2>7 DEF ChecksChannel, AfterReply, IInv,
      VisitInv, RegisteredUnderItsId, ClosedIsReleased
<1>26. ASSUME NEW s \in Sessions, Replies(s) PROVE IInv'
  <2>1. s \in Sessions /\ Started(s)
    BY <1>26 DEF Replies, Replies
  <2>2. /\ CloseInv' /\ close' \in [Threads -> Closing] /\ BusyOnStarted
        /\ \A u \in Threads : u # Loop(s) => close'[u] = close[u]
    BY <1>26, <2>1, EnterKeeps DEF Replies, AfterReply
  <2>3. TypeOK'
    <3>1. PICK at \in {"send", "done", "top", loop[s]} : loop' = [loop EXCEPT ![s] = at]
      BY <1>26 DEF Replies, AfterReply, IInv, TypeOK
    <3>2. loop' \in [Sessions -> {"off", "top", "reading", "lock", "handler",
                                 "store", "reply", "send", "done"}]
      BY <3>1 DEF IInv, TypeOK
    <3> QED
      BY <1>26, <2>2, <3>2 DEF Replies, IInv, TypeOK, Closing
  <2>4. StartInv'
    BY <1>26, <2>2 DEF Replies, AfterReply, IInv, TypeOK, StartInv
  <2>5. TakeoverInv'
    <3>1. \A r \in Sessions : loop'[r] = "store" => loop[r] = "store" /\ Loop(r) # Loop(s)
      BY <1>26 DEF Replies, AfterReply, IInv, TypeOK
    <3>2. UNCHANGED <<registry, id, Closed>>
      BY <1>26 DEF Replies, AfterReply
    <3> QED
      BY <2>2, <3>1, <3>2, TakeoverKeeps
  <2>6. HandshakeInv'
    BY <1>26 DEF Replies, AfterReply, IInv, TypeOK, HandshakeInv
  <2>7. MutexInv'
    BY <1>26 DEF Replies, AfterReply, IInv, TypeOK, MutexInv
  <2> QED
    BY <1>26, <2>2, <2>3, <2>4, <2>5, <2>6, <2>7 DEF Replies, AfterReply, IInv,
      VisitInv, RegisteredUnderItsId, ClosedIsReleased
<1>27. ASSUME NEW s \in Sessions, TickCloses(s) PROVE IInv'
  <2>1. s \in Sessions /\ Started(s)
    BY <1>27 DEF TickCloses, TickCloses, IInv, StartInv
  <2>2. /\ CloseInv' /\ close' \in [Threads -> Closing] /\ BusyOnStarted
        /\ \A u \in Threads : u # Tick(s) => close'[u] = close[u]
    BY <1>27, <2>1, EnterKeeps DEF TickCloses
  <2>3. TypeOK'
    BY <1>27, <2>2 DEF TickCloses, IInv, TypeOK, Closing
  <2>4. StartInv'
    BY <1>27, <2>2 DEF TickCloses, IInv, TypeOK, StartInv
  <2>5. TakeoverInv'
    <3>1. \A r \in Sessions : loop'[r] = "store" => loop[r] = "store" /\ Loop(r) # Tick(s)
      BY <1>27 DEF TickCloses, IInv, TypeOK
    <3>2. UNCHANGED <<registry, id, Closed>>
      BY <1>27 DEF TickCloses
    <3> QED
      BY <2>2, <3>1, <3>2, TakeoverKeeps
  <2> QED
    BY <1>27, <2>2, <2>3, <2>4, <2>5 DEF TickCloses, IInv, HandshakeInv, MutexInv,
      VisitInv, RegisteredUnderItsId, ClosedIsReleased
<1>28. ASSUME NEW s \in Sessions, AppCallsClose(s) PROVE IInv'
  <2>1. s \in Sessions /\ Started(s)
    BY <1>28 DEF AppCallsClose, AppCallsClose, IInv, TypeOK, StartInv,
      RegisteredUnderItsId
  <2>2. /\ CloseInv' /\ close' \in [Threads -> Closing] /\ BusyOnStarted
        /\ \A u \in Threads : u # App => close'[u] = close[u]
    BY <1>28, <2>1, EnterKeeps DEF AppCallsClose
  <2>3. TypeOK'
    BY <1>28, <2>2 DEF AppCallsClose, IInv, TypeOK, Closing
  <2>4. StartInv'
    BY <1>28, <2>2 DEF AppCallsClose, IInv, TypeOK, StartInv
  <2>5. TakeoverInv'
    <3>1. \A r \in Sessions : loop'[r] = "store" => loop[r] = "store" /\ Loop(r) # App
      BY <1>28 DEF AppCallsClose, IInv, TypeOK
    <3>2. UNCHANGED <<registry, id, Closed>>
      BY <1>28 DEF AppCallsClose
    <3> QED
      BY <2>2, <3>1, <3>2, TakeoverKeeps
  <2> QED
    BY <1>28, <2>2, <2>3, <2>4, <2>5 DEF AppCallsClose, IInv, HandshakeInv, MutexInv,
      VisitInv, RegisteredUnderItsId, ClosedIsReleased
<1>29. ASSUME ServerLocks PROVE IInv'
  <2>1. TypeOK'
    BY <1>29 DEF ServerLocks, IInv, TypeOK
  <2>2. MutexInv'
    BY <1>29 DEF ServerLocks, IInv, TypeOK, MutexInv
  <2>3. VisitInv'
    BY <1>29 DEF ServerLocks, IInv, TypeOK, VisitInv
  <2> QED
    BY <1>29, <2>1, <2>2, <2>3 DEF ServerLocks, IInv, StartInv, HandshakeInv,
      CloseInv, TakeoverInv, RegisteredUnderItsId, ClosedIsReleased
<1>30. ASSUME NEW i \in Ids, ServerVisits(i) PROVE IInv'
  <2>1. registry[i] \in Sessions /\ Started(registry[i])
    BY <1>30 DEF ServerVisits, ServerVisits, IInv, TypeOK, StartInv,
      RegisteredUnderItsId
  <2>2. /\ CloseInv' /\ close' \in [Threads -> Closing] /\ BusyOnStarted
        /\ \A u \in Threads : u # App => close'[u] = close[u]
    BY <1>30, <2>1, EnterKeeps DEF ServerVisits
  <2>3. TypeOK'
    BY <1>30, <2>2 DEF ServerVisits, IInv, TypeOK, Closing
  <2>4. StartInv'
    BY <1>30, <2>2 DEF ServerVisits, IInv, TypeOK, StartInv
  <2>5. TakeoverInv'
    <3>1. \A r \in Sessions : loop'[r] = "store" => loop[r] = "store" /\ Loop(r) # App
      BY <1>30 DEF ServerVisits, IInv, TypeOK
    <3>2. UNCHANGED <<registry, id, Closed>>
      BY <1>30 DEF ServerVisits
    <3> QED
      BY <2>2, <3>1, <3>2, TakeoverKeeps
  <2>6. MutexInv'
    BY <1>30 DEF ServerVisits, IInv, TypeOK, MutexInv
  <2> QED
    BY <1>30, <2>2, <2>3, <2>4, <2>5, <2>6 DEF ServerVisits, IInv, HandshakeInv,
      VisitInv, RegisteredUnderItsId, ClosedIsReleased
<1>31. ASSUME ServerDeletes PROVE IInv'
  <2>1. TypeOK'
    BY <1>31 DEF ServerDeletes, IInv, TypeOK
  <2>2. MutexInv'
    BY <1>31 DEF ServerDeletes, IInv, TypeOK, MutexInv
  <2>3. TakeoverInv'
    BY <1>31 DEF ServerDeletes, IInv, TypeOK, TakeoverInv
  <2>4. VisitInv'
    BY <1>31 DEF ServerDeletes, IInv, TypeOK, VisitInv, MutexInv
  <2>5. RegisteredUnderItsId'
    BY <1>31 DEF ServerDeletes, IInv, TypeOK, RegisteredUnderItsId
  <2> QED
    BY <1>31, <2>1, <2>2, <2>3, <2>4, <2>5 DEF ServerDeletes, IInv, StartInv,
      HandshakeInv, CloseInv, ClosedIsReleased
<1>32. ASSUME ServerFinishes PROVE IInv'
  <2>1. TypeOK'
    BY <1>32 DEF ServerFinishes, IInv, TypeOK
  <2>2. StartInv'
    BY <1>32 DEF ServerFinishes, IInv, TypeOK, StartInv
  <2>3. CloseInv'
    BY <1>32 DEF ServerFinishes, IInv, TypeOK, CloseInv
  <2>4. MutexInv'
    BY <1>32 DEF ServerFinishes, IInv, TypeOK, MutexInv
  <2>5. VisitInv'
    BY <1>32 DEF ServerFinishes, IInv, TypeOK, VisitInv
  <2>6. ClosedIsReleased'
    BY <1>32 DEF ServerFinishes, IInv, TypeOK, ClosedIsReleased
  <2> QED
    BY <1>32, <2>1, <2>2, <2>3, <2>4, <2>5, <2>6 DEF ServerFinishes, IInv,
      HandshakeInv, TakeoverInv, RegisteredUnderItsId
<1>33. CASE UNCHANGED vars
  BY <1>33 DEF IInv, TypeOK, StartInv, HandshakeInv, CloseInv, MutexInv, TakeoverInv,
    VisitInv, RegisteredUnderItsId, ClosedIsReleased
<1> QED
  BY <1>1, <1>2, <1>3, <1>4, <1>5, <1>6, <1>7, <1>8, <1>9, <1>10, <1>11, <1>12, <1>13,
    <1>14, <1>15, <1>16, <1>17, <1>18, <1>19, <1>20, <1>21, <1>22, <1>23, <1>24,
    <1>25, <1>26, <1>27, <1>28, <1>29, <1>30, <1>31, <1>32, <1>33
  DEF Next, SessionStep, LoopStep, PeerSays, CloseStep, AcceptStep, ServerStep

LEMMA Invariance == Spec => []IInv
<1>1. Init => IInv
  BY InitInv
<1>2. IInv /\ [Next]_vars => IInv'
  BY StepInv
<1> QED
  BY <1>1, <1>2, PTL DEF Spec

-----------------------------------------------------------------------------
(* The properties *)

\* Every variable keeps its type, whatever sessions, ids and closes there are.
THEOREM ServerTypes == Spec => []TypeOK
<1>1. IInv => TypeOK
  BY DEF IInv
<1> QED
  BY <1>1, Invariance, PTL

\* The registry leads from an id to an initialized session of that id, however
\* the steps of validations, Closes and Server.Close interleave.
THEOREM RegistryExact == Spec => []RegisteredUnderItsId
<1>1. IInv => RegisteredUnderItsId
  BY DEF IInv
<1> QED
  BY <1>1, Invariance, PTL

\* A session that is Closed has no channel, no link and no ticker, although
\* several threads may be closing it and none holds a lock.
THEOREM ClosedReleased == Spec => []ClosedIsReleased
<1>1. IInv => ClosedIsReleased
  BY DEF IInv
<1> QED
  BY <1>1, Invariance, PTL

\* Only the validation that holds Server.mutex stores, and what it replaces it
\* has closed before: validateClient never drops a live session.
THEOREM TakeoverSafe == Spec => TakeoverClosesOld
<1> DEFINE Taken == \A i \in Ids :
      Registered(i) /\ registry'[i] \notin {None, registry[i]} => registry[i] \in Closed
<1>1. IInv /\ [Next]_vars => [Taken]_vars
  <2> SUFFICES ASSUME IInv, Next, NEW i \in Ids,
                      registry[i] # None, registry'[i] \notin {None, registry[i]}
               PROVE  registry[i] \in Closed
    BY DEF Registered
  <2>1. PICK s \in Sessions : Stores(s) /\ id[s] = i
    BY DEF IInv, TypeOK, Next, SessionStep, LoopStep, PeerSays, CloseStep, AcceptStep,
      ServerStep,
      client, table, clients, outside, shutdown, network, accepting, life, vars, Dial,
        OpensStream, LinkDies, AcceptCalls, Accepts, AcceptFails, NewClient,
        NewClientFails, CloseChecks, ClosesChannel, ClosesSession, SetsClosed,
        LoadsEntry, DeletesEntry, LoopReads, ReadFails, ReadsValidate, ReadsPing,
        ReadsSearch, ReadsOther, Locks, Rejects, Admits, Stores, ChecksChannel,
        Replies, TickCloses, AppCallsClose, ServerLocks, ServerVisits, ServerDeletes,
        ServerFinishes
  <2>2. loop[s] = "store" /\ close[Loop(s)].on = None
    BY <2>1 DEF Stores, Busy, Idle
  <2> QED
    BY <2>1, <2>2 DEF IInv, TakeoverInv
<1> QED
  BY <1>1, Invariance, PTL DEF Spec, TakeoverClosesOld

\* Server.Close ends with an empty registry: nothing is stored while it has
\* the mutex, and what other threads do meanwhile only takes entries away.
THEOREM ShutdownSafe == Spec => ShutdownEmptiesRegistry
<1>1. IInv /\ [Next]_vars =>
        [server' = "closed" /\ server # "closed" => \A i \in Ids : registry'[i] = None]_vars
  <2> SUFFICES ASSUME IInv, Next, server' = "closed", server # "closed"
               PROVE  \A i \in Ids : registry'[i] = None
    OBVIOUS
  <2>1. ServerFinishes
    BY DEF Next, SessionStep, LoopStep, PeerSays, CloseStep, AcceptStep, ServerStep,
      client, table, clients, outside, shutdown, network, accepting, life, vars, Dial,
        OpensStream, LinkDies, AcceptCalls, Accepts, AcceptFails, NewClient,
        NewClientFails, CloseChecks, ClosesChannel, ClosesSession, SetsClosed,
        LoadsEntry, DeletesEntry, LoopReads, ReadFails, ReadsValidate, ReadsPing,
        ReadsSearch, ReadsOther, Locks, Rejects, Admits, Stores, ChecksChannel,
        Replies, TickCloses, AppCallsClose, ServerLocks, ServerVisits, ServerDeletes,
        ServerFinishes
  <2> QED
    BY <2>1 DEF ServerFinishes, IInv, VisitInv, Registered, table
<1> QED
  BY <1>1, Invariance, PTL DEF Spec, ShutdownEmptiesRegistry

=============================================================================
