----------------------------- MODULE RelayProof -----------------------------
(***************************************************************************)
(* Proofs about RelaySession, for any number of Connections and any peers  *)
(* that may reconnect.                                                     *)
(*                                                                         *)
(* The relay's table holds the one open Connection because a new one is    *)
(* made only under the mutexes of a validation, when the table is empty.   *)
(* Two registered peers never both wait because a wait starts with a look  *)
(* at the registry, and a peer never asks before it is registered.         *)
(***************************************************************************)
EXTENDS RelaySession, TLAPS

\* A validation under way holds the mutexes, so there is one at a time.
ValidatorInv == \A p \in Peers : dial[p] \in {"granted", "loaded"} => validator = p

\* Connections are made in order, and within their bound: the last one is made
\* by a validation that was granted before the record went.
MadeInv ==
  /\ \A g \in Gens : stage[g] = "none" <=> g > made
  /\ record => made <= MaxConns
  /\ record /\ (conn = 0 \/ stage[conn] = "closing") => made < MaxConns
  /\ made > MaxConns => \A p \in Peers : dial[p] # "granted"

TableInv == ValidatorInv /\ MadeInv /\ TableHoldsTheOpenOne

\* Whoever is registered, validated or waiting has been registered, and so has
\* whoever has announced itself to a partner.
MetInv ==
  \A p \in Peers :
    /\ registry[p] # 0 \/ dial[p] \in {"stored", "up"} \/ await[p] # "off" => p \in met
    /\ buffer[p] => Other(p) \in met

\* A peer asks on its first session, after its validation on it.
AwaitInv ==
  \A p \in Peers :
    /\ dial[p] \notin {"none", "dial", "closed"} => sessions[p] >= 1
    /\ await[p] # "off" => sessions[p] >= 1 /\ relay[p] \notin {"idle", "connecting"}
    /\ await[p] # "off" /\ dial[p] \in {"lock", "granted", "loaded"} => sessions[p] = 2
    /\ relay[p] = "idle" => dial[p] = "none"

\* A peer, on its first session, that has looked for its partner in vain.
Alone(p) == await[p] \in {"subscribe", "wait"} /\ registry[p] = 1

AloneInv == ~(Alone(Source) /\ Alone(Target))

IInv == TypeOK /\ TableInv /\ AwaitInv /\ MetInv /\ OkMeansPartner /\ AloneInv

-----------------------------------------------------------------------------
(* Types, and the initial state *)

\* At first there is no Connection, room for one, and nobody has asked for it.
LEMMA InitInv == Init => IInv
<1> SUFFICES ASSUME Init PROVE IInv
  OBVIOUS
<1> USE RelayAssumption DEF Peers, Gens, Nobody
<1>1. TypeOK
  BY DEF Init, TypeOK
<1>2. TableInv
  BY DEF Init, TableInv, ValidatorInv, MadeInv, TableHoldsTheOpenOne
<1>3. AwaitInv /\ MetInv /\ OkMeansPartner /\ AloneInv
  BY DEF Init, AwaitInv, MetInv, OkMeansPartner, AloneInv, Alone
<1> QED
  BY <1>1, <1>2, <1>3 DEF IInv

\* A flag that is set or cleared stays a flag.
LEMMA BooleanExcept ==
  ASSUME NEW S, NEW f \in [S -> BOOLEAN], NEW x, NEW b
  PROVE  [f EXCEPT ![x] = @ \/ b] \in [S -> BOOLEAN]
OBVIOUS

\* What the return of awaitPeer leaves is of its type.
LEMMA AnswersType ==
  ASSUME NEW p \in Peers, TypeOK, NEW a \in {"ok", "error"}, Answers(p, a),
         UNCHANGED <<record, conns, clients, server>>
  PROVE  TypeOK'
<1> USE DEF TypeOK
<1>1. /\ await' \in [Peers -> {"off", "sent", "check", "subscribe", "wait", "replied", "lost"}]
      /\ answer' \in [Peers -> {"none", "ok", "error"}]
      /\ bus' \in [Peers -> {0} \cup Gens]
  BY DEF Answers
<1>2. buffer' \in [Peers -> BOOLEAN] /\ late' \in [Peers -> BOOLEAN]
  BY DEF Answers
<1>3. \A q \in Peers :
        await'[q] \in {"check", "subscribe", "wait"} <=> bus'[q] # 0
  BY DEF Answers
<1> QED
  BY <1>1, <1>2, <1>3 DEF conns, clients, server

\* Connections stay within their bound because of MadeInv, and a peer that is
\* still connecting has not asked yet because of AwaitInv.
LEMMA TypeStep == IInv /\ [Next]_vars => TypeOK'
<1> SUFFICES ASSUME IInv, [Next]_vars PROVE TypeOK'
  OBVIOUS
<1> USE RelayAssumption DEF Peers, Gens, IInv, TypeOK, conns, clients, server, waits
<1>1. CASE UNCHANGED vars
  BY <1>1 DEF vars
<1>2. CASE RecordGoes
  BY <1>2 DEF RecordGoes
<1>3. ASSUME NEW p \in Peers, PeerStep(p) PROVE TypeOK'
  <2>1. CASE Dials(p)
    BY <2>1 DEF Dials, MaxSessions
  <2>2. CASE DialFails(p)
    BY <2>2 DEF DialFails, GiveUp
  <2>3. CASE Validated(p)
    <3>1. CASE relay[p] = "connecting"
      BY <2>3, <3>1 DEF Validated, AwaitInv
    <3>2. CASE relay[p] # "connecting"
      BY <2>3, <3>2 DEF Validated
    <3> QED
      BY <3>1, <3>2
  <2>4. CASE ValidationLost(p)
    <3>1. CASE relay[p] = "connecting"
      <4>1. GiveUp(p) /\ UNCHANGED <<record, conns, sessions, server, waits>>
        BY <2>4, <3>1 DEF ValidationLost
      <4>2. /\ relay' = [relay EXCEPT ![p] = "closed"]
            /\ dial' = [dial EXCEPT ![p] = "closed"]
            /\ alive' = [alive EXCEPT ![p] = FALSE]
        BY <4>1, <3>1 DEF GiveUp
      <4> QED
        BY <4>1, <4>2
    <3>2. CASE relay[p] # "connecting"
      BY <2>4, <3>2 DEF ValidationLost
    <3> QED
      BY <3>1, <3>2
  <2>5. CASE Reconnects(p)
    BY <2>5 DEF Reconnects
  <2>6. CASE GetsReply(p)
    BY <2>6 DEF GetsReply
  <2>7. CASE AwaitLost(p)
    BY <2>7 DEF AwaitLost
  <2>8. CASE ClosesClient(p)
    BY <2>8 DEF ClosesClient
  <2>9. CASE Exits(p)
    BY <2>9 DEF Exits
  <2>10. CASE AwaitTimesOut(p)
    BY <2>10 DEF AwaitTimesOut
  <2>11. CASE Leaves(p)
    BY <2>11 DEF Leaves
  <2>12. CASE Connects(p)
    BY <2>12 DEF Connects
  <2>13. CASE SessionDies(p)
    BY <2>13 DEF SessionDies
  <2> QED
    BY <1>3, <2>1, <2>2, <2>3, <2>4, <2>5, <2>6, <2>7, <2>8, <2>9, <2>10, <2>11, <2>12, <2>13 DEF PeerStep, DialStep, ConnStep
<1>4. ASSUME NEW p \in Peers, RelayStep(p) PROVE TypeOK'
  <2>1. CASE Grants(p)
    BY <2>1 DEF Grants
  <2>2. CASE Refuses(p)
    BY <2>2 DEF Refuses, GiveUp
  <2>3. CASE LoadsOrCreates(p)
    <3>1. conn = 0 => made + 1 \in Gens
      BY <2>3 DEF LoadsOrCreates, TableInv, MadeInv
    <3> QED
      BY <2>3, <3>1 DEF LoadsOrCreates
  <2>4. CASE Stores(p)
    BY <2>4 DEF Stores
  <2>5. CASE Unregisters(p)
    BY <2>5 DEF Unregisters
  <2>6. CASE Announces(p)
    <3>1. CASE conn = 0
      BY <2>6, <3>1, AnswersType DEF Announces
    <3>2. CASE conn # 0
      <4>1. buffer' \in [Peers -> BOOLEAN]
        <5>1. Publish(p, conn) /\ buffer \in [Peers -> BOOLEAN]
          BY <2>6, <3>2 DEF Announces
        <5> HIDE DEF TypeOK
        <5> QED
          BY <5>1, BooleanExcept DEF Publish
      <4> QED
        BY <2>6, <3>2, <4>1 DEF Announces
    <3> QED
      BY <3>1, <3>2
  <2>7. CASE Checks(p)
    <3>1. CASE registry[Other(p)] # 0
      BY <2>7, <3>1, AnswersType DEF Checks
    <3>2. CASE registry[Other(p)] = 0
      BY <2>7, <3>2 DEF Checks, GoesTo
    <3> QED
      BY <3>1, <3>2
  <2>8. CASE Subscribes(p)
    <3>1. CASE BusOpen(bus[p])
      BY <2>8, <3>1 DEF Subscribes, GoesTo
    <3>2. CASE ~BusOpen(bus[p])
      BY <2>8, <3>2, AnswersType DEF Subscribes
    <3> QED
      BY <3>1, <3>2
  <2>9. CASE Hears(p)
    BY <2>9, AnswersType DEF Hears
  <2>10. CASE BusEnds(p)
    BY <2>10, AnswersType DEF BusEnds
  <2>11. CASE TimerFires(p)
    BY <2>11 DEF TimerFires
  <2> QED
    BY <1>4, <2>1, <2>2, <2>3, <2>4, <2>5, <2>6, <2>7, <2>8, <2>9, <2>10, <2>11 DEF RelayStep, ValidateStep, AwaitStep
<1>5. ASSUME NEW g \in Gens, TickCloses(g) \/ CloseStep(g) PROVE TypeOK'
  <2>1. CASE TickCloses(g)
    BY <2>1 DEF TickCloses
  <2>2. CASE DeletesConn(g)
    BY <2>2 DEF DeletesConn
  <2>3. CASE ClosesSource(g)
    BY <2>3 DEF ClosesSource, ClosesPeer
  <2>4. CASE ClosesTarget(g)
    BY <2>4 DEF ClosesTarget, ClosesPeer
  <2> QED
    BY <1>5, <2>1, <2>2, <2>3, <2>4 DEF CloseStep
<1> QED
  BY <1>1, <1>2, <1>3, <1>4, <1>5 DEF Next

-----------------------------------------------------------------------------
(* The table *)

\* What a peer does leaves the table alone, and brings nobody to the mutexes.
LEMMA PeerLeavesTable ==
  ASSUME TypeOK, NEW p \in Peers, PeerStep(p)
  PROVE  /\ UNCHANGED <<record, conn, made, stage, validator>>
         /\ \A q \in Peers : dial'[q] \in {"granted", "loaded"} => dial'[q] = dial[q]
<1> USE DEF TypeOK, conns, clients, server, waits
<1>1. CASE Connects(p)
  BY <1>1 DEF Connects
<1>2. CASE DialStep(p)
  BY <1>2 DEF DialStep, Dials, DialFails, Validated, ValidationLost, Reconnects, GiveUp
<1>3. CASE ConnStep(p)
  BY <1>3 DEF ConnStep, GetsReply, AwaitLost, ClosesClient, Exits
<1>4. CASE AwaitTimesOut(p) \/ Leaves(p) \/ SessionDies(p)
  BY <1>4 DEF AwaitTimesOut, Leaves, SessionDies
<1> QED
  BY <1>1, <1>2, <1>3, <1>4 DEF PeerStep

\* Waiting for a partner changes nothing but the wait.
LEMMA AwaitLeavesRest ==
  ASSUME NEW p \in Peers, AwaitStep(p) \/ TimerFires(p)
  PROVE  UNCHANGED <<record, conns, clients, server>>
BY DEF AwaitStep, Announces, Checks, Subscribes, Hears, BusEnds, TimerFires

\* Only the validation that holds the mutexes makes a Connection, and only when
\* the table is empty; the table is emptied only by the ticker of the Connection
\* that is in it.
LEMMA TableStep == IInv /\ [Next]_vars => TableInv'
<1> SUFFICES ASSUME IInv, [Next]_vars PROVE TableInv'
  OBVIOUS
<1> USE RelayAssumption DEF Peers, Gens, IInv, TypeOK, TableInv, conns, clients, server
<1>1. ASSUME UNCHANGED <<record, conn, made, stage, validator>>,
             \A q \in Peers : dial'[q] \in {"granted", "loaded"} => dial'[q] = dial[q]
      PROVE  TableInv'
  BY <1>1 DEF ValidatorInv, MadeInv, TableHoldsTheOpenOne
<1>2. CASE UNCHANGED vars
  BY <1>1, <1>2 DEF vars
<1>3. CASE RecordGoes
  BY <1>3 DEF RecordGoes, ValidatorInv, MadeInv, TableHoldsTheOpenOne
<1>4. ASSUME NEW p \in Peers, PeerStep(p) PROVE TableInv'
  BY <1>1, <1>4, PeerLeavesTable
<1>5. ASSUME NEW p \in Peers, RelayStep(p) PROVE TableInv'
  <2>1. CASE Grants(p)
    BY <2>1 DEF Grants, ValidatorInv, MadeInv, TableHoldsTheOpenOne
  <2>2. CASE Refuses(p)
    BY <2>2, <1>1 DEF Refuses, GiveUp
  <2>3. CASE LoadsOrCreates(p)
    <3>1. ValidatorInv'
      BY <2>3 DEF LoadsOrCreates, ValidatorInv
    <3>2. CASE conn # 0
      BY <2>3, <3>1, <3>2 DEF LoadsOrCreates, ValidatorInv, MadeInv, TableHoldsTheOpenOne
    <3>3. CASE conn = 0
      <4>1. /\ made' = made + 1 /\ conn' = made + 1 /\ made + 1 \in Gens
            /\ stage' = [stage EXCEPT ![made + 1] = "open"]
            /\ record' = record
            /\ stage[made + 1] = "none"
        BY <2>3, <3>3 DEF LoadsOrCreates, MadeInv
      <4>2. TableHoldsTheOpenOne'
        BY <4>1, <3>3 DEF TableHoldsTheOpenOne
      <4>3. \A q \in Peers : dial'[q] # "granted"
        BY <2>3 DEF LoadsOrCreates, ValidatorInv
      <4>4. MadeInv'
        BY <4>1, <4>3, <3>3 DEF MadeInv
      <4> QED
        BY <3>1, <4>2, <4>4
    <3> QED
      BY <3>2, <3>3
  <2>4. CASE Stores(p)
    BY <2>4 DEF Stores, ValidatorInv, MadeInv, TableHoldsTheOpenOne
  <2>5. CASE Unregisters(p)
    BY <2>5, <1>1 DEF Unregisters
  <2>6. CASE AwaitStep(p) \/ TimerFires(p)
    BY <2>6, <1>1, AwaitLeavesRest
  <2> QED
    BY <1>5, <2>1, <2>2, <2>3, <2>4, <2>5, <2>6 DEF RelayStep, ValidateStep
<1>6. ASSUME NEW g \in Gens, TickCloses(g) \/ CloseStep(g) PROVE TableInv'
  <2> USE DEF ValidatorInv, MadeInv, TableHoldsTheOpenOne
  <2>1. CASE TickCloses(g)
    BY <2>1 DEF TickCloses
  <2>2. CASE DeletesConn(g)
    BY <2>2 DEF DeletesConn
  <2>3. CASE ClosesSource(g)
    BY <2>3 DEF ClosesSource, ClosesPeer
  <2>4. CASE ClosesTarget(g)
    BY <2>4 DEF ClosesTarget, ClosesPeer
  <2> QED
    BY <1>6, <2>1, <2>2, <2>3, <2>4 DEF CloseStep
<1> QED
  BY <1>2, <1>3, <1>4, <1>5, <1>6 DEF Next

-----------------------------------------------------------------------------
(* The peers *)

\* awaitPeer goes on from where it is, or returns.
LEMMA AwaitGoesOn ==
  ASSUME TypeOK, NEW p \in Peers, AwaitStep(p) \/ TimerFires(p)
  PROVE  \A q \in Peers :
           /\ await[q] = "off" <=> await'[q] = "off"
           /\ await'[q] = "wait" => await[q] \in {"subscribe", "wait"}
           /\ await'[q] = "subscribe" =>
                await[q] = "subscribe" \/ (q = p /\ registry[Other(p)] = 0)
<1> USE DEF TypeOK, Answers, GoesTo
<1>1. CASE Announces(p)
  BY <1>1 DEF Announces
<1>2. CASE Checks(p)
  BY <1>2 DEF Checks
<1>3. CASE Subscribes(p)
  BY <1>3 DEF Subscribes
<1>4. CASE Hears(p) \/ BusEnds(p) \/ TimerFires(p)
  BY <1>4 DEF Hears, BusEnds, TimerFires
<1> QED
  BY <1>1, <1>2, <1>3, <1>4 DEF AwaitStep

\* A peer asks its relay once, on its first session.
LEMMA AwaitInvStep == IInv /\ [Next]_vars => AwaitInv'
<1> SUFFICES ASSUME IInv, [Next]_vars PROVE AwaitInv'
  OBVIOUS
<1> USE DEF IInv, TypeOK, AwaitInv, conns, clients, server, waits
<1>1. CASE UNCHANGED vars \/ RecordGoes
  BY <1>1 DEF vars, RecordGoes
<1>2. ASSUME NEW p \in Peers, PeerStep(p) PROVE AwaitInv'
  <2>1. CASE Dials(p)
    BY <2>1, RelayAssumption DEF Dials, MaxSessions
  <2>2. CASE DialFails(p)
    BY <2>2 DEF DialFails, GiveUp
  <2>3. CASE Validated(p)
    BY <2>3 DEF Validated
  <2>4. CASE ValidationLost(p)
    BY <2>4 DEF ValidationLost, GiveUp
  <2>5. CASE Reconnects(p)
    BY <2>5 DEF Reconnects
  <2>6. CASE ConnStep(p)
    BY <2>6 DEF ConnStep, GetsReply, AwaitLost, ClosesClient, Exits
  <2>7. CASE Connects(p)
    BY <2>7 DEF Connects
  <2>8. CASE AwaitTimesOut(p) \/ Leaves(p) \/ SessionDies(p)
    BY <2>8 DEF AwaitTimesOut, Leaves, SessionDies
  <2> QED
    BY <1>2, <2>1, <2>2, <2>3, <2>4, <2>5, <2>6, <2>7, <2>8 DEF PeerStep, DialStep
<1>3. ASSUME NEW p \in Peers, RelayStep(p) PROVE AwaitInv'
  <2>1. CASE Grants(p)
    BY <2>1 DEF Grants
  <2>2. CASE Refuses(p)
    BY <2>2 DEF Refuses, GiveUp
  <2>3. CASE LoadsOrCreates(p)
    BY <2>3 DEF LoadsOrCreates
  <2>4. CASE Stores(p) \/ Unregisters(p)
    BY <2>4 DEF Stores, Unregisters
  <2>5. CASE AwaitStep(p) \/ TimerFires(p)
    BY <2>5, AwaitLeavesRest, AwaitGoesOn
  <2> QED
    BY <1>3, <2>1, <2>2, <2>3, <2>4, <2>5 DEF RelayStep, ValidateStep
<1>4. ASSUME NEW g \in Gens, TickCloses(g) \/ CloseStep(g) PROVE AwaitInv'
  BY <1>4 DEF TickCloses, CloseStep, DeletesConn, ClosesSource, ClosesTarget, ClosesPeer
<1> QED
  BY <1>1, <1>2, <1>3, <1>4 DEF Next

\* The other one of the two is a peer, and the other one's other one is oneself.
LEMMA OtherPeer ==
  \A p \in Peers : Other(p) \in Peers /\ Other(p) # p /\ Other(Other(p)) = p
BY RelayAssumption DEF Peers, Other

\* awaitPeer hears only of a peer that has announced itself, and reports only one
\* that it has heard of or found in the registry.
LEMMA AwaitMeetsRegistered ==
  ASSUME IInv, NEW p \in Peers, AwaitStep(p) \/ TimerFires(p)
  PROVE  \A q \in Peers :
           buffer'[q] \/ answer'[q] = "ok" => Other(q) \in met
<1> USE OtherPeer DEF IInv, TypeOK, MetInv, OkMeansPartner, Answers, GoesTo
<1>1. CASE Announces(p)
  <2>1. CASE conn = 0
    BY <1>1, <2>1 DEF Announces
  <2>2. CASE conn # 0
    <3>1. answer' = answer /\ p \in met
      BY <1>1, <2>2 DEF Announces
    <3>2. \A q \in Peers : q # Other(p) => buffer'[q] = buffer[q]
      BY <1>1, <2>2 DEF Announces, Publish
    <3> QED
      BY <3>1, <3>2
  <2> QED
    BY <2>1, <2>2
<1>2. CASE Checks(p)
  BY <1>2 DEF Checks
<1>3. CASE Subscribes(p)
  BY <1>3 DEF Subscribes
<1>4. CASE Hears(p)
  BY <1>4 DEF Hears
<1>5. CASE BusEnds(p) \/ TimerFires(p)
  BY <1>5 DEF BusEnds, TimerFires
<1> QED
  BY <1>1, <1>2, <1>3, <1>4, <1>5 DEF AwaitStep

\* Peers are only added to met, and a peer is added before it asks.
LEMMA MetStep == IInv /\ [Next]_vars => MetInv' /\ OkMeansPartner'
<1> SUFFICES ASSUME IInv, [Next]_vars PROVE MetInv' /\ OkMeansPartner'
  OBVIOUS
<1> USE OtherPeer DEF IInv, TypeOK, MetInv, OkMeansPartner, conns, clients, server, waits
<1>1. CASE UNCHANGED vars \/ RecordGoes
  BY <1>1 DEF vars, RecordGoes
<1>2. ASSUME NEW p \in Peers, PeerStep(p) PROVE MetInv' /\ OkMeansPartner'
  <2>1. CASE Validated(p)
    BY <2>1 DEF Validated
  <2>2. CASE Connects(p)
    BY <2>2 DEF Connects
  <2>3. CASE Dials(p) \/ DialFails(p) \/ ValidationLost(p) \/ Reconnects(p)
    BY <2>3 DEF Dials, DialFails, ValidationLost, Reconnects, GiveUp
  <2>4. CASE ConnStep(p)
    BY <2>4 DEF ConnStep, GetsReply, AwaitLost, ClosesClient, Exits
  <2>5. CASE AwaitTimesOut(p) \/ Leaves(p) \/ SessionDies(p)
    BY <2>5 DEF AwaitTimesOut, Leaves, SessionDies
  <2> QED
    BY <1>2, <2>1, <2>2, <2>3, <2>4, <2>5 DEF PeerStep, DialStep
<1>3. ASSUME NEW p \in Peers, RelayStep(p) PROVE MetInv' /\ OkMeansPartner'
  <2>1. CASE Grants(p) \/ LoadsOrCreates(p)
    BY <2>1 DEF Grants, LoadsOrCreates
  <2>2. CASE Refuses(p)
    BY <2>2 DEF Refuses, GiveUp
  <2>3. CASE Stores(p)
    BY <2>3 DEF Stores
  <2>4. CASE Unregisters(p)
    BY <2>4 DEF Unregisters
  <2>5. CASE AwaitStep(p) \/ TimerFires(p)
    BY <2>5, AwaitLeavesRest, AwaitGoesOn, AwaitMeetsRegistered
  <2> QED
    BY <1>3, <2>1, <2>2, <2>3, <2>4, <2>5 DEF RelayStep, ValidateStep
<1>4. ASSUME NEW g \in Gens, TickCloses(g) \/ CloseStep(g)
      PROVE  MetInv' /\ OkMeansPartner'
  BY <1>4 DEF TickCloses, CloseStep, DeletesConn, ClosesSource, ClosesTarget, ClosesPeer
<1> QED
  BY <1>1, <1>2, <1>3, <1>4 DEF Next

\* A peer becomes alone when its partner is not registered, or by registering,
\* on its first session, before it asks.
LEMMA AloneStep == IInv /\ [Next]_vars => AloneInv'
<1> SUFFICES ASSUME IInv, [Next]_vars PROVE AloneInv'
  OBVIOUS
<1> USE DEF IInv, TypeOK, Alone, conns, clients, server, waits
<1>1. ASSUME \A q \in Peers : Alone(q)' => Alone(q)
      PROVE  AloneInv'
  BY <1>1 DEF AloneInv, Peers
<1>2. CASE UNCHANGED vars \/ RecordGoes
  BY <1>1, <1>2 DEF vars, RecordGoes
<1>3. ASSUME NEW p \in Peers, PeerStep(p) PROVE AloneInv'
  <2>1. CASE Validated(p)
    BY <2>1, <1>1 DEF Validated
  <2>2. CASE Connects(p) \/ Dials(p) \/ DialFails(p) \/ ValidationLost(p) \/ Reconnects(p)
    BY <2>2, <1>1 DEF Connects, Dials, DialFails, ValidationLost, Reconnects
  <2>3. CASE ConnStep(p)
    BY <2>3, <1>1 DEF ConnStep, GetsReply, AwaitLost, ClosesClient, Exits
  <2>4. CASE AwaitTimesOut(p) \/ Leaves(p) \/ SessionDies(p)
    BY <2>4, <1>1 DEF AwaitTimesOut, Leaves, SessionDies
  <2> QED
    BY <1>3, <2>1, <2>2, <2>3, <2>4 DEF PeerStep, DialStep
<1>4. ASSUME NEW p \in Peers, RelayStep(p) PROVE AloneInv'
  <2>1. CASE Grants(p) \/ Refuses(p) \/ LoadsOrCreates(p)
    BY <2>1, <1>1 DEF Grants, Refuses, LoadsOrCreates
  <2>2. CASE Stores(p)
    <3>1. registry'[p] = 1 => await'[p] = "off"
      BY <2>2 DEF Stores, AwaitInv
    <3> QED
      BY <2>2, <3>1, <1>1 DEF Stores
  <2>3. CASE Unregisters(p)
    BY <2>3, <1>1 DEF Unregisters
  <2>4. CASE AwaitStep(p) \/ TimerFires(p)
    <3>1. registry' = registry
      BY <2>4, AwaitLeavesRest
    <3>2. \A q \in Peers : Alone(q)' => Alone(q) \/ (q = p /\ ~Alone(Other(p))')
      BY <2>4, <3>1, AwaitGoesOn
    <3> QED
      BY <3>2 DEF AloneInv, Peers, Other
  <2> QED
    BY <1>4, <2>1, <2>2, <2>3, <2>4 DEF RelayStep, ValidateStep
<1>5. ASSUME NEW g \in Gens, TickCloses(g) \/ CloseStep(g) PROVE AloneInv'
  <2>1. await' = await /\ \A q \in Peers : registry'[q] \in {registry[q], 0}
    BY <1>5 DEF TickCloses, CloseStep, DeletesConn, ClosesSource, ClosesTarget, ClosesPeer
  <2> QED
    BY <2>1, <1>1
<1> QED
  BY <1>2, <1>3, <1>4, <1>5 DEF Next

-----------------------------------------------------------------------------
(* The theorems *)

\* The conjunction of what every reachable state of a relay has is inductive.
THEOREM Inductive == Spec => []IInv
<1>1. Init => IInv
  BY InitInv
<1>2. IInv /\ [Next]_vars => IInv'
  BY TypeStep, TableStep, AwaitInvStep, MetStep, AloneStep DEF IInv
<1> QED
  BY <1>1, <1>2, PTL DEF Spec

\* Every variable keeps its type: in particular a validation that was granted
\* before the record went creates at most one Connection more.
THEOREM RelayTypes == Spec => []TypeOK
<1>1. IInv => TypeOK
  BY DEF IInv
<1> QED
  BY <1>1, Inductive, PTL

\* The table of the relay holds the Connection that is not closed, and there is
\* only one, however validations and tickers interleave.
THEOREM RelayTable == Spec => []TableHoldsTheOpenOne
<1>1. IInv => TableHoldsTheOpenOne
  BY DEF IInv, TableInv
<1> QED
  BY <1>1, Inductive, PTL

\* awaitPeerConnection says ok only of a peer that has been registered.
THEOREM RelayOk == Spec => []OkMeansPartner
<1>1. IInv => OkMeansPartner
  BY DEF IInv
<1> QED
  BY <1>1, Inductive, PTL

\* Two peers that are registered never both wait for each other in awaitPeer.
THEOREM RelayMeets == Spec => []NeverBothWait
<1>1. IInv => NeverBothWait
  BY DEF IInv, AloneInv, Alone, NeverBothWait, Peers
<1> QED
  BY <1>1, Inductive, PTL

=============================================================================
