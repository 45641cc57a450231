---------------------------- MODULE StreamsProof ----------------------------
(***************************************************************************)
(* Proofs about Streams: a stream that is returned has been accepted, and  *)
(* direct and relayed streams implement one service.                       *)
(*                                                                         *)
(* What the proofs turn on is how far the relay's openPeerStreamHandler    *)
(* has come when a stream of its pair is closed: it closes the callee's    *)
(* only when it fails, and otherwise the copying goroutines close them,    *)
(* after the end of the other one.                                         *)
(***************************************************************************)
EXTENDS Streams, TLAPS

\* An acceptor has the stream when its opener has been greeted, and nobody greets
\* the callee before the caller has called.
HelloInv ==
  /\ \A e \in Ends : opener[e] = "ok" => accept[e] # "none"
  /\ opener["callee"] # "none" \/ server # "idle" => caller # "idle"
  /\ \A e \in Ends : accept[e] # "none" => opener[e] # "none"

\* The relay opens the caller's stream after the callee's, and a caller on a
\* relay has its stream only when the relay has joined both.
RelayInv ==
  /\ server \in {"near", "ok"} => opener["callee"] = "ok"
  /\ server # "idle" => mode = "relay"
  /\ caller = "ok" => IF mode = "relay" THEN server = "ok" ELSE opener["callee"] = "ok"

\* An end begins to listen once.
ListenInv ==
  /\ listen["caller"] # "off" => caller = "ok"
  /\ listen["callee"] # "off" => accept["callee"] = "stored"

\* The relay closes a stream of its pair when it has failed or an end is gone.
EndInv ==
  \A e \in Ends : <<"relay", e>> \in ended => server = "error" \/ \E f \in Ends : Gone(f)

IInv == TypeOK /\ HelloInv /\ RelayInv /\ ListenInv /\ EndInv

-----------------------------------------------------------------------------
(* The invariant is inductive. *)

LEMMA InitInv == Init => IInv
BY ModesAssumption DEF Init, IInv, TypeOK, HelloInv, RelayInv, ListenInv, EndInv, Ends

LEMMA TypeStep == IInv /\ [Next]_vars => TypeOK'
<1> SUFFICES ASSUME IInv, [Next]_vars PROVE TypeOK'
  OBVIOUS
<1>1. "caller" \in Ends /\ "callee" \in Ends /\ \A e \in Ends : Other(e) \in Ends
  BY DEF Ends, Other
<1>2. \A e \in Ends : Far(e) \in Ends \cup {"relay"}
  BY <1>1 DEF Far
<1> USE <1>1, <1>2 DEF vars, IInv, TypeOK, RelayInv
<1>3. CASE Call
  <2>1. CASE CallsPeer \/ CallsRelay
    BY <2>1 DEF CallsPeer, CallsRelay, Greets, HelloInv
  <2>2. CASE GetsDirect \/ GetsRelayed
    BY <2>2 DEF GetsDirect, GetsRelayed, Gets
  <2>3. CASE LooksTooEarly \/ CallFails \/ CallFailsDirect
    BY <2>3 DEF LooksTooEarly, CallFails, CallFailsDirect
  <2> QED
    BY <1>3, <2>1, <2>2, <2>3 DEF Call
<1>4. CASE Relay
  BY <1>4 DEF Relay, OpensFar, RefusesFar, OpensNear, RefusesNear, NearFails, Joins, Greets
<1>5. CASE StoresUnhandled
  BY <1>5 DEF StoresUnhandled
<1>6. ASSUME NEW e \in Ends, Hello(e) PROVE TypeOK'
  BY <1>6 DEF Hello, Accepts, Stores, Greeted, GreetingFails
<1>7. ASSUME NEW e \in Ends, End(e) PROVE TypeOK'
  BY <1>7 DEF End, UserCloses, ReadEnds, SeesClosed, Closes, CopyEnds, SessionLost
<1>8. CASE UNCHANGED vars
  BY <1>8
<1> QED
  BY <1>3, <1>4, <1>5, <1>6, <1>7, <1>8 DEF Next

LEMMA HandshakeStep == IInv /\ [Next]_vars => (HelloInv /\ RelayInv /\ ListenInv)'
<1> SUFFICES ASSUME IInv, [Next]_vars PROVE (HelloInv /\ RelayInv /\ ListenInv)'
  OBVIOUS
<1> USE DEF vars, IInv, TypeOK, HelloInv, RelayInv, ListenInv, Ends
<1>1. CASE Call
  BY <1>1 DEF Call, CallsPeer, CallsRelay, GetsDirect, GetsRelayed, Gets, LooksTooEarly,
    CallFails, CallFailsDirect, Greets
<1>2. CASE Relay
  BY <1>2 DEF Relay, OpensFar, RefusesFar, OpensNear, RefusesNear, NearFails, Joins, Greets
<1>3. CASE StoresUnhandled
  BY <1>3 DEF StoresUnhandled
<1>4. ASSUME NEW e \in Ends, Hello(e) PROVE (HelloInv /\ RelayInv /\ ListenInv)'
  BY <1>4 DEF Hello, Accepts, Stores, Greeted, GreetingFails
<1>5. ASSUME NEW e \in Ends, End(e) PROVE (HelloInv /\ RelayInv /\ ListenInv)'
  BY <1>5 DEF End, UserCloses, ReadEnds, SeesClosed, Closes, CopyEnds, SessionLost
<1>6. CASE UNCHANGED vars
  BY <1>6
<1> QED
  BY <1>1, <1>2, <1>3, <1>4, <1>5, <1>6 DEF Next

\* Nobody who is gone comes back.
LEMMA GoneStays ==
  ASSUME [Next]_vars, NEW e \in Ends, Gone(e) PROVE Gone(e)'
<1> USE DEF vars, Gone, Lost, Far, Other
<1>1. mode' = mode /\ lost \subseteq lost' /\ ended \subseteq ended'
  BY DEF Next, Call, CallsPeer, CallsRelay, GetsDirect, GetsRelayed, Gets, LooksTooEarly,
    CallFails, CallFailsDirect, Relay, OpensFar, RefusesFar, OpensNear, RefusesNear, Joins,
    StoresUnhandled, Hello, Accepts, Stores, Greeted, GreetingFails,
    End, UserCloses, ReadEnds, SeesClosed, Closes, CopyEnds, SessionLost
<1> QED
  BY <1>1

\* The relay closes a stream because it fails, because a copy has read the end of
\* the other one, or because it cannot write.
LEMMA EndStep == IInv /\ [Next]_vars => EndInv'
<1> SUFFICES ASSUME IInv, [Next]_vars, NEW e \in Ends, (<<"relay", e>> \in ended)'
             PROVE  server' = "error" \/ \E f \in Ends : Gone(f)'
  BY DEF EndInv
<1>1. CASE <<"relay", e>> \in ended
  <2>1. CASE server = "error"
    <3>1. server' = "error"
      BY <2>1 DEF Next, vars, Call, CallsPeer, CallsRelay, GetsDirect, GetsRelayed, Gets,
        LooksTooEarly, CallFails, CallFailsDirect, Relay, OpensFar, RefusesFar, OpensNear,
        RefusesNear, NearFails, Joins, StoresUnhandled, Hello, Accepts, Stores, Greeted,
        GreetingFails, End, UserCloses, ReadEnds, SeesClosed, Closes, CopyEnds, SessionLost,
        IInv, RelayInv, HelloInv
    <3> QED
      BY <3>1
  <2>2. CASE \E f \in Ends : Gone(f)
    BY <2>2, GoneStays
  <2> QED
    BY <1>1, <2>1, <2>2 DEF IInv, EndInv
<1>2. CASE <<"relay", e>> \notin ended
  <2>1. RefusesNear \/ \E f \in Ends : CopyEnds(f)
    BY <1>2 DEF Next, vars, Call, CallsPeer, CallsRelay, GetsDirect, GetsRelayed, Gets,
        LooksTooEarly, CallFails, CallFailsDirect, Relay, OpensFar, RefusesFar, OpensNear,
        Joins, StoresUnhandled, Hello, Accepts, Stores, Greeted,
        GreetingFails, End, UserCloses, ReadEnds, SeesClosed, Closes, SessionLost, Ends
  <2>2. CASE RefusesNear
    BY <2>2 DEF RefusesNear
  <2>3. ASSUME NEW f \in Ends, CopyEnds(f) PROVE \E g \in Ends : Gone(g)
    <3>1. mode = "relay"
      BY <2>3 DEF CopyEnds, IInv, TypeOK, RelayInv
    <3> QED
      BY <2>3, <3>1 DEF CopyEnds, Over, Gone, Far, Other, Lost, Ends
  <2> QED
    BY <2>1, <2>2, <2>3, GoneStays
<1> QED
  BY <1>1, <1>2

LEMMA Invariance == Spec => []IInv
<1>1. Init => IInv
  BY InitInv
<1>2. IInv /\ [Next]_vars => IInv'
  BY TypeStep, HandshakeStep, EndStep DEF IInv
<1> QED
  BY <1>1, <1>2, PTL DEF Spec

\* The types, and that the relay copies exactly when it has opened both streams.
THEOREM StreamTypes == Spec => []TypeOK
<1>1. IInv => TypeOK
  BY DEF IInv
<1> QED
  BY <1>1, Invariance, PTL

-----------------------------------------------------------------------------
(* Streams implements StreamService. *)

\* Who reads the end of its stream has a reason to.
LEMMA EndHasReason ==
  ASSUME IInv, NEW e \in Ends, Over(Far(e), e)
  PROVE  (\E f \in Ends : Gone(f)) \/ server = "error"
<1>1. CASE Far(e) = "relay"
  BY <1>1 DEF Over, IInv, EndInv, Gone, Ends
<1>2. CASE Far(e) # "relay"
  <2>1. Far(e) \in Ends /\ Far(Far(e)) = e
    BY <1>2 DEF Far, Other, Ends
  <2> QED
    BY <2>1 DEF Over, Gone
<1> QED
  BY <1>1, <1>2

LEMMA StepRefines ==
  IInv /\ IInv' /\ [Next]_vars => [Service!ServiceNext]_(Service!serviceVars)
<1> SUFFICES ASSUME IInv, IInv', [Next]_vars
             PROVE  [Service!ServiceNext]_(Service!serviceVars)
  OBVIOUS
<1> USE DEF vars
<1> DEFINE GoneSet == {e \in Ends : Gone(e)}
           Stopped == {e \in Ends : listen[e] = "done"}
           Accepted == accept["callee"] # "none"
<1>1. ASSUME UNCHANGED <<mode, lost, ended>> PROVE GoneSet' = GoneSet
  BY <1>1 DEF Gone, Lost, Far, Other
<1>2. CASE CallsPeer \/ CallsRelay
  <2>1. UNCHANGED <<GoneSet, Stopped, Accepted>>
    BY <1>1, <1>2 DEF CallsPeer, CallsRelay
  <2>2. CallState = "idle" /\ CallState' = "pending"
    BY <1>2 DEF CallsPeer, CallsRelay, CallState, IInv, HelloInv
  <2> QED
    BY <2>1, <2>2 DEF Service!ServiceNext, Service!Call, CallState
<1>3. CASE GetsDirect \/ GetsRelayed
  <2>1. UNCHANGED <<GoneSet, Accepted>>
    BY <1>1, <1>3 DEF GetsDirect, GetsRelayed, Gets
  <2>2. UNCHANGED Stopped
    BY <1>3 DEF GetsDirect, GetsRelayed, Gets, IInv, TypeOK, ListenInv
  <2>3. CallState = "pending" /\ CallState' = "open" /\ Accepted
    BY <1>3 DEF GetsDirect, GetsRelayed, Gets, CallState, IInv, HelloInv, RelayInv, Ends
  <2> QED
    BY <2>1, <2>2, <2>3 DEF Service!ServiceNext, Service!Return, CallState
<1>4. CASE LooksTooEarly \/ CallFails \/ CallFailsDirect
  <2>1. UNCHANGED <<GoneSet, Stopped, Accepted>>
    BY <1>1, <1>4 DEF LooksTooEarly, CallFails, CallFailsDirect
  <2>2. CallState \in {"pending", "refused"} /\ CallState' = "failed"
    BY <1>4 DEF LooksTooEarly, CallFails, CallFailsDirect, CallState
  <2> QED
    BY <2>1, <2>2 DEF Service!ServiceNext, Service!Fail, CallState
<1>5. CASE OpensFar \/ OpensNear \/ Joins
  <2>1. UNCHANGED <<GoneSet, Stopped, Accepted>>
    BY <1>1, <1>5 DEF OpensFar, OpensNear, Joins
  <2>2. UNCHANGED CallState
    BY <1>5 DEF OpensFar, OpensNear, Joins, CallState
  <2> QED
    BY <2>1, <2>2 DEF Service!serviceVars, CallState
<1>6. CASE RefusesFar \/ RefusesNear
  <2>1. UNCHANGED <<Stopped, Accepted>>
    BY <1>6 DEF RefusesFar, RefusesNear
  <2>2. UNCHANGED GoneSet
    BY <1>6 DEF RefusesFar, RefusesNear, Gone, Lost, Far, Other, Ends
  <2>3. \/ CallState = "pending" /\ CallState' = "refused"
        \/ UNCHANGED CallState
    BY <1>6 DEF RefusesFar, RefusesNear, CallState, IInv, TypeOK, HelloInv, RelayInv
  <2> QED
    BY <2>1, <2>2, <2>3 DEF Service!ServiceNext, Service!Refuse, Service!serviceVars, CallState
<1>7. ASSUME NEW e \in Ends, Accepts(e) PROVE [Service!ServiceNext]_(Service!serviceVars)
  <2>1. UNCHANGED <<GoneSet, Stopped, CallState>>
    BY <1>1, <1>7 DEF Accepts, CallState
  <2>2. Accepted' = TRUE \/ Accepted' = Accepted
    BY <1>7 DEF Accepts, IInv, TypeOK, Ends
  <2>3. CallState # "idle" \/ Accepted' = Accepted
    BY <1>7 DEF Accepts, CallState, IInv, TypeOK, HelloInv, Ends
  <2> QED
    BY <2>1, <2>2, <2>3 DEF Service!ServiceNext, Service!Accept, Service!serviceVars, CallState
<1>8. ASSUME NEW e \in Ends, Stores(e) PROVE UNCHANGED Service!serviceVars
  <2>1. UNCHANGED <<GoneSet, CallState>>
    BY <1>1, <1>8 DEF Stores, CallState
  <2>2. UNCHANGED Stopped
    BY <1>8 DEF Stores, IInv, TypeOK, ListenInv, Ends
  <2>3. UNCHANGED Accepted
    BY <1>8 DEF Stores, IInv, TypeOK, Ends
  <2> QED
    BY <2>1, <2>2, <2>3 DEF Service!serviceVars
<1>9. ASSUME NEW e \in Ends, Greeted(e) \/ GreetingFails(e)
      PROVE  UNCHANGED Service!serviceVars
  <2>1. UNCHANGED <<GoneSet, Stopped, Accepted, CallState>>
    BY <1>1, <1>9 DEF Greeted, GreetingFails, CallState
  <2> QED
    BY <2>1 DEF Service!serviceVars
<1>10. \E S \in SUBSET Ends : GoneSet' = GoneSet \cup S
  <2>1. GoneSet \subseteq GoneSet'
    BY GoneStays
  <2> QED
    BY <2>1
<1>11. ASSUME UNCHANGED <<caller, server, accept, listen>>
       PROVE  [Service!ServiceNext]_(Service!serviceVars)
  <2>1. UNCHANGED <<Stopped, Accepted, CallState>>
    BY <1>11 DEF CallState
  <2> QED
    BY <2>1, <1>10 DEF Service!ServiceNext, Service!Leave
<1>12. ASSUME NEW e \in Ends, UserCloses(e) \/ CopyEnds(e) \/ SessionLost(e)
       PROVE  [Service!ServiceNext]_(Service!serviceVars)
  BY <1>11, <1>12 DEF UserCloses, Closes, CopyEnds, SessionLost
<1>13. CASE StoresUnhandled
  <2>1. UNCHANGED <<Stopped, CallState>>
    BY <1>13 DEF StoresUnhandled, CallState
  <2>2. UNCHANGED Accepted
    BY <1>13 DEF StoresUnhandled, IInv, TypeOK, Ends
  <2> QED
    BY <2>1, <2>2, <1>10 DEF Service!ServiceNext, Service!Leave
<1>14. ASSUME NEW e \in Ends, ReadEnds(e) PROVE Service!Stop(e)
  <2>1. UNCHANGED <<Accepted, CallState>>
    BY <1>14 DEF ReadEnds, CallState
  <2>2. Stopped' = Stopped \cup {e}
    BY <1>14 DEF ReadEnds, IInv, TypeOK
  <2>3. GoneSet' = GoneSet \cup {e}
    BY <1>14 DEF ReadEnds, Closes, Gone, Lost, Far, Other, Ends
  <2>4. GoneSet # {} \/ CallState \in {"refused", "failed"}
    <3>1. (\E f \in Ends : Gone(f)) \/ server = "error"
      BY <1>14, EndHasReason DEF ReadEnds
    <3>2. server = "error" => CallState \in {"refused", "failed"}
      BY DEF CallState, IInv, TypeOK, HelloInv, RelayInv
    <3> QED
      BY <3>1, <3>2
  <2> QED
    BY <2>1, <2>2, <2>3, <2>4 DEF Service!Stop
<1>15. ASSUME NEW e \in Ends, SeesClosed(e) PROVE Service!Stop(e)
  <2>1. UNCHANGED <<Accepted, CallState>> /\ GoneSet' = GoneSet
    BY <1>1, <1>15 DEF SeesClosed, CallState
  <2>2. Stopped' = Stopped \cup {e}
    BY <1>15 DEF SeesClosed, IInv, TypeOK
  <2>3. e \in GoneSet
    BY <1>15 DEF SeesClosed, Gone
  <2> QED
    BY <2>1, <2>2, <2>3 DEF Service!Stop
<1>16. CASE UNCHANGED vars
  BY <1>1, <1>16 DEF Service!serviceVars, CallState
<1> QED
  <2>1. CASE Call
    BY <2>1, <1>2, <1>3, <1>4 DEF Call
  <2>2. CASE Relay
    BY <2>2, <1>5, <1>6 DEF Relay
  <2>3. ASSUME NEW e \in Ends, Hello(e)
        PROVE  [Service!ServiceNext]_(Service!serviceVars)
    BY <2>3, <1>7, <1>8, <1>9 DEF Hello
  <2>4. ASSUME NEW e \in Ends, End(e)
        PROVE  [Service!ServiceNext]_(Service!serviceVars)
    BY <2>4, <1>12, <1>14, <1>15 DEF End, Service!ServiceNext
  <2> QED
    BY <2>1, <2>2, <2>3, <2>4, <1>13, <1>16 DEF Next

\* A stream is returned only when the callee has accepted it, and neither end of it
\* reads the end before one of them is gone: directly and through a relay.
THEOREM StreamRefinement == Spec => RefinesStreamService
<1>1. Init => Service!ServiceInit
  BY DEF Init, Service!ServiceInit, CallState, Gone, Lost, Ends
<1>2. IInv /\ IInv' /\ [Next]_vars => [Service!ServiceNext]_(Service!serviceVars)
  BY StepRefines
<1> QED
  BY <1>1, <1>2, Invariance, PTL DEF Spec, RefinesStreamService, Service!ServiceSpec

=============================================================================
