------------------------------ MODULE DialProof ------------------------------
(***************************************************************************)
(* Proofs about P2PDial, for any number of dials: no client is left over,  *)
(* both ends hold the same one, everybody returns, and whoever leaves is   *)
(* noticed.                                                                *)
(*                                                                         *)
(* The agreement rests on how few hands a client passes through.           *)
(* connectToPeer gives it to connect or closes it; connect asks about one  *)
(* client at a time, and, as long as initClient does not fail, about one   *)
(* only: all that the target ever sees of a check-in is that client's      *)
(* session.  The notice rests on what either end closes when it leaves.    *)
(***************************************************************************)
EXTENDS P2PDial, TLAPS

\* connect has a client from its select to its decision, and afterwards one
\* that is the connection's.
ConnectInv ==
  /\ held # {} <=> connect \in {"got", "init"}
  /\ local # {} <=> connect = "ok"
  /\ locked => connect = "init"

\* connectToPeer returns with a client that is closed, or in connect's hands.
PlaceInv ==
  \A d \in Dials :
    /\ place[d] = "given" => link[d] = "closed" \/ d \in held \cup local \cup failed
    /\ place[d] \in {"left", "failed"} => link[d] \in {"closed", "down"}
    /\ place[d] = "dial" => link[d] \in {"down", "asking", "granted", "refused"}
    /\ d \in held \cup local => place[d] = "given"
    /\ link[d] = "down" => place[d] \in {"dial", "failed"}

\* A client that has dialled has a session.
OpenedInv ==
  \A d \in Dials :
    /\ opened[d] <= MaxSessions(d)
    /\ link[d] # "down" => opened[d] >= 1

LetIn == checked \cup active \cup reply
Asked == request \cup LetIn \cup buffer \cup remote

\* One client is asked about, unless initClient fails.
AskedInv ==
  failed = {} =>
    /\ AtMostOne(Asked)
    /\ connect \in {"loop", "select", "got", "failed"} => Asked = {}
    /\ \A s \in Asked : s[1] \in held \cup local \/ connect = "closed"

\* Whoever has been let in is in the target's channel, or has been taken, until
\* the target gives up or closes.
LetInInv ==
  /\ await = "idle" => LetIn = {} /\ buffer = {}
  /\ await \in {"idle", "wait"} => remote = {}
  /\ failed = {} /\ await \in {"wait", "ok"} => LetIn \subseteq buffer \cup remote
  /\ local # {} => reply # {}

\* Only the last session of a client can be up, and none of one that has noticed
\* its loss or is closed; the target has seen none that has still to be opened.
AliveInv ==
  /\ \A s \in alive :
       /\ s[2] = opened[s[1]]
       /\ link[s[1]] \in {"asking", "granted", "refused", "up"}
  /\ \A s \in Asked : s[2] <= opened[s[1]]

\* A session that the target holds is in its server, or its end will be noticed,
\* has been, or has been missed.
NoticeInv ==
  /\ remote # {} => await = "ok"
  /\ ~known => closing \/ await \in {"late", "gone", "crashed"}
  /\ await \in {"wait", "ok"} /\ ~closing
       => buffer \cup remote \subseteq peers \cup notice \cup missed

\* Whoever leaves has closed the session: the source its client, and the target
\* what it had taken, which is all that has been let in but for the channel.
LeftInv ==
  failed = {} =>
    /\ connect = "closed" => \A s \in Asked : link[s[1]] = "closed"
    /\ await \in {"late", "gone", "crashed"} => LetIn \cap alive \subseteq buffer

IInv ==
  /\ TypeOK
  /\ ConnectInv
  /\ PlaceInv
  /\ OpenedInv
  /\ AskedInv
  /\ LetInInv
  /\ AliveInv
  /\ NoticeInv
  /\ LeftInv

-----------------------------------------------------------------------------
(* The invariant is inductive. *)

LEMMA InitInv == Init => IInv
<1> SUFFICES ASSUME Init PROVE IInv
  OBVIOUS
<1> USE DEF Init
<1>1. TypeOK
  <2>1. path \in [Dials -> Dials] /\ opened \in [Dials -> 0..2]
    OBVIOUS
  <2>2. /\ place \in [Dials -> {"dial", "offer", "given", "leaving", "left", "failed"}]
        /\ link \in [Dials -> {"down", "asking", "granted", "refused", "up", "lost", "closed"}]
    OBVIOUS
  <2> QED
    BY <2>1, <2>2 DEF TypeOK, AtMostOne
<1>2. ConnectInv /\ PlaceInv /\ OpenedInv
  BY DEF ConnectInv, PlaceInv, OpenedInv, MaxSessions
<1>3. AskedInv /\ LetInInv
  BY DEF AskedInv, LetInInv, Asked, LetIn, AtMostOne
<1>4. AliveInv /\ NoticeInv /\ LeftInv
  BY DEF AliveInv, NoticeInv, LeftInv, Asked, LetIn
<1> QED
  BY <1>1, <1>2, <1>3, <1>4 DEF IInv

\* Sessions are numbered from 1.
LEMMA SessionFacts ==
  /\ \A d \in Dials : Current(d) \subseteq Sessions /\ MaxSessions(d) \in 1..2
  /\ \A s \in Sessions : s[1] \in Dials
BY DEF Current, Sessions, MaxSessions

LEMMA NextSession ==
  ASSUME TypeOK, NEW d \in Dials, opened[d] < MaxSessions(d)
  PROVE  <<d, opened[d] + 1>> \in Sessions /\ opened[d] + 1 \in 0..2
BY DEF TypeOK, Sessions, MaxSessions

LEMMA TypeStep == IInv /\ [Next]_vars => TypeOK'
<1> SUFFICES ASSUME IInv, [Next]_vars PROVE TypeOK'
  OBVIOUS
<1> USE DEF vars, source, clients, wire, target, server
<1>1. TypeOK /\ ConnectInv
  BY DEF IInv
<1>2. ASSUME NEW d \in Dials, Client(d) PROVE TypeOK'
  <2> USE SessionFacts, NextSession, <1>1 DEF TypeOK
  <2>1. CASE Tries(d)
    BY <2>1 DEF Tries, Opens
  <2>2. CASE Redials(d)
    BY <2>2 DEF Redials, Opens
  <2>3. CASE DialFails(d) \/ NoticesLoss(d) \/ Declined(d)
    BY <2>3 DEF DialFails, NoticesLoss, Declined
  <2>4. CASE Validated(d)
    BY <2>4 DEF Validated
  <2>5. CASE NotValidated(d)
    BY <2>5 DEF NotValidated, ClosesLink
  <2>6. CASE Exits(d) \/ Leaves(d)
    BY <2>6 DEF Exits, Leaves, ClosesLink
  <2>7. CASE Hands(d)
    BY <2>7 DEF Hands, AtMostOne
  <2> QED
    BY <1>2, <2>1, <2>2, <2>3, <2>4, <2>5, <2>6, <2>7 DEF Client
<1>3. CASE Connect
  <2> USE SessionFacts, <1>1 DEF TypeOK
  <2>1. CASE Waits \/ TimesOut
    BY <2>1 DEF Waits, TimesOut
  <2>2. CASE Asks
    BY <2>2 DEF Asks
  <2>3. CASE Closes
    BY <2>3 DEF Closes, AtMostOne
  <2>4. ASSUME NEW d \in Dials, Takes(d) PROVE TypeOK'
    BY <2>4 DEF Takes, AtMostOne
  <2>5. ASSUME NEW d \in Dials, Rejects(d) PROVE TypeOK'
    BY <2>5 DEF Rejects, AtMostOne
  <2> QED
    BY <1>3, <2>1, <2>2, <2>3, <2>4, <2>5 DEF Connect
<1>4. CASE Await
  <2> USE <1>1 DEF TypeOK
  <2>1. CASE Accepts \/ Expires
    BY <2>1 DEF Accepts, Expires
  <2>2. CASE GivesUp
    BY <2>2 DEF GivesUp
  <2>3. CASE UserCloses
    BY <2>3 DEF UserCloses
  <2>4. CASE TakesRemote
    BY <2>4 DEF TakesRemote, AtMostOne
  <2>5. CASE ClosesRemote
    BY <2>5 DEF ClosesRemote, AtMostOne
  <2> QED
    BY <1>4, <2>1, <2>2, <2>3, <2>4, <2>5 DEF Await
<1>5. ASSUME NEW d \in Dials, Grants(d) \/ Refuses(d) PROVE TypeOK'
  BY <1>5, <1>1, SessionFacts DEF Grants, Refuses, TypeOK
<1>6. ASSUME NEW s \in Sessions, Session(s) \/ SessionDies(s) PROVE TypeOK'
  <2> USE <1>1 DEF TypeOK
  <2>1. CASE Drops(s) \/ Activates(s) \/ SessionDies(s)
    BY <2>1 DEF Drops, Activates, SessionDies
  <2>2. CASE ChecksIn(s)
    BY <2>2 DEF ChecksIn, Received, AtMostOne
  <2>3. CASE Denies(s)
    BY <2>3 DEF Denies, Received
  <2>4. CASE Crashes(s)
    BY <2>4 DEF Crashes, Received
  <2>5. CASE Notified(s) /\ s \in active
    BY <2>5 DEF Notified
  <2>6. CASE Notified(s) /\ s \notin active
    BY <2>6 DEF Notified
  <2> QED
    BY <1>6, <2>1, <2>2, <2>3, <2>4, <2>5, <2>6 DEF Session
<1>7. CASE UNCHANGED vars
  BY <1>7, <1>1 DEF TypeOK
<1> QED
  BY <1>2, <1>3, <1>4, <1>5, <1>6, <1>7 DEF Next

\* A step of the target or of the network leaves the source's books alone.
LEMMA ConnectStep == IInv /\ [Next]_vars => ConnectInv'
<1> SUFFICES ASSUME IInv, [Next]_vars PROVE ConnectInv'
  OBVIOUS
<1> USE DEF vars, source, clients, wire, target, server, ConnectInv, IInv
<1>1. ASSUME NEW d \in Dials, Client(d) PROVE ConnectInv'
  BY <1>1 DEF Client, Tries, DialFails, Validated, NotValidated, NoticesLoss, Redials, Exits,
    Hands, Declined, Leaves
<1>2. CASE Connect
  BY <1>2 DEF Connect, Waits, Asks, TimesOut, Closes, Takes, Rejects
<1>3. CASE Await
  BY <1>3 DEF Await, Accepts, TakesRemote, Expires, GivesUp, UserCloses, ClosesRemote
<1>4. ASSUME NEW d \in Dials, Grants(d) \/ Refuses(d) PROVE ConnectInv'
  BY <1>4 DEF Grants, Refuses
<1>5. ASSUME NEW s \in Sessions, Session(s) \/ SessionDies(s) PROVE ConnectInv'
  BY <1>5 DEF Session, Drops, ChecksIn, Activates, Denies, Crashes, Notified, SessionDies
<1>6. CASE UNCHANGED vars
  BY <1>6
<1> QED
  BY <1>1, <1>2, <1>3, <1>4, <1>5, <1>6 DEF Next

LEMMA PlaceStep == IInv /\ [Next]_vars => PlaceInv'
<1> SUFFICES ASSUME IInv, [Next]_vars PROVE PlaceInv'
  OBVIOUS
<1> USE DEF vars, source, clients, wire, target, server, PlaceInv, IInv
<1>1. ASSUME NEW d \in Dials, Client(d) PROVE PlaceInv'
  <2> USE DEF TypeOK
  <2>1. CASE Tries(d)
    BY <2>1 DEF Tries, Opens
  <2>2. CASE DialFails(d)
    BY <2>2 DEF DialFails
  <2>3. CASE Validated(d)
    BY <2>3 DEF Validated
  <2>4. CASE NotValidated(d)
    BY <2>4 DEF NotValidated, ClosesLink
  <2>5. CASE NoticesLoss(d) \/ Redials(d)
    BY <2>5 DEF NoticesLoss, Redials, Opens
  <2>6. CASE Exits(d) \/ Leaves(d)
    BY <2>6 DEF Exits, Leaves, ClosesLink
  <2>7. CASE Hands(d)
    BY <2>7 DEF Hands, ConnectInv
  <2>8. CASE Declined(d)
    BY <2>8 DEF Declined
  <2> QED
    BY <1>1, <2>1, <2>2, <2>3, <2>4, <2>5, <2>6, <2>7, <2>8 DEF Client
<1>2. CASE Connect
  <2>1. CASE Waits \/ TimesOut \/ Asks
    BY <2>1 DEF Waits, TimesOut, Asks
  <2>2. CASE Closes
    BY <2>2 DEF Closes, TypeOK
  <2>3. ASSUME NEW d \in Dials, Takes(d) PROVE PlaceInv'
    BY <2>3 DEF Takes, TypeOK, AtMostOne, ConnectInv
  <2>4. ASSUME NEW d \in Dials, Rejects(d) PROVE PlaceInv'
    BY <2>4 DEF Rejects
  <2> QED
    BY <1>2, <2>1, <2>2, <2>3, <2>4 DEF Connect
<1>3. CASE Await
  BY <1>3 DEF Await, Accepts, TakesRemote, Expires, GivesUp, UserCloses, ClosesRemote
<1>4. ASSUME NEW d \in Dials, Grants(d) \/ Refuses(d) PROVE PlaceInv'
  BY <1>4 DEF Grants, Refuses, TypeOK
<1>5. ASSUME NEW s \in Sessions, Session(s) \/ SessionDies(s) PROVE PlaceInv'
  BY <1>5 DEF Session, Drops, ChecksIn, Activates, Denies, Crashes, Notified, SessionDies
<1>6. CASE UNCHANGED vars
  BY <1>6
<1> QED
  BY <1>1, <1>2, <1>3, <1>4, <1>5, <1>6 DEF Next

LEMMA OpenedStep == IInv /\ [Next]_vars => OpenedInv'
<1> SUFFICES ASSUME IInv, [Next]_vars PROVE OpenedInv'
  OBVIOUS
<1> USE DEF vars, source, clients, wire, target, server, OpenedInv, IInv
<1>1. ASSUME NEW d \in Dials, Client(d) PROVE OpenedInv'
  <2> USE DEF TypeOK, MaxSessions
  <2>1. CASE Tries(d)
    BY <2>1 DEF Tries, Opens
  <2>2. CASE Redials(d)
    BY <2>2 DEF Redials, Opens
  <2>3. CASE DialFails(d) \/ Hands(d) \/ Declined(d)
    BY <2>3 DEF DialFails, Hands, Declined
  <2>4. CASE Validated(d) \/ NotValidated(d)
    BY <2>4 DEF Validated, NotValidated, ClosesLink
  <2>5. CASE NoticesLoss(d) \/ Exits(d) \/ Leaves(d)
    BY <2>5 DEF NoticesLoss, Exits, Leaves, ClosesLink, Idle
  <2> QED
    BY <1>1, <2>1, <2>2, <2>3, <2>4, <2>5 DEF Client
<1>2. CASE Connect
  <2>1. CASE Closes
    BY <2>1 DEF Closes, TypeOK, Idle
  <2>2. CASE ~Closes
    BY <1>2, <2>2 DEF Connect, Waits, Asks, TimesOut, Takes, Rejects
  <2> QED
    BY <2>1, <2>2
<1>3. CASE Await
  BY <1>3 DEF Await, Accepts, TakesRemote, Expires, GivesUp, UserCloses, ClosesRemote
<1>4. ASSUME NEW d \in Dials, Grants(d) \/ Refuses(d) PROVE OpenedInv'
  BY <1>4 DEF Grants, Refuses, TypeOK
<1>5. ASSUME NEW s \in Sessions, Session(s) \/ SessionDies(s) PROVE OpenedInv'
  BY <1>5 DEF Session, Drops, ChecksIn, Activates, Denies, Crashes, Notified, SessionDies
<1>6. CASE UNCHANGED vars
  BY <1>6
<1> QED
  BY <1>1, <1>2, <1>3, <1>4, <1>5, <1>6 DEF Next

\* The target and the network ask nobody.
LEMMA AskedShrinks ==
  ASSUME IInv,
         \/ Await
         \/ \E d \in Dials : Grants(d) \/ Refuses(d)
         \/ \E s \in Sessions : Session(s) \/ SessionDies(s)
  PROVE  Asked' \subseteq Asked /\ UNCHANGED source
<1> USE DEF Asked, LetIn, source, clients, wire, target, server
<1>1. CASE Await
  BY <1>1 DEF Await, Accepts, TakesRemote, Expires, GivesUp, UserCloses, ClosesRemote
<1>2. ASSUME NEW d \in Dials, Grants(d) \/ Refuses(d)
      PROVE  Asked' \subseteq Asked /\ UNCHANGED source
  BY <1>2 DEF Grants, Refuses
<1>3. ASSUME NEW s \in Sessions, Session(s) \/ SessionDies(s)
      PROVE  Asked' \subseteq Asked /\ UNCHANGED source
  BY <1>3 DEF Session, Drops, ChecksIn, Received, Activates, Denies, Crashes, Notified, SessionDies
<1> QED
  BY <1>1, <1>2, <1>3

LEMMA AskedStep == IInv /\ [Next]_vars => AskedInv'
<1> SUFFICES ASSUME IInv, [Next]_vars PROVE AskedInv'
  OBVIOUS
<1> USE DEF IInv
<1>1. ASSUME Asked' \subseteq Asked, UNCHANGED <<connect, held, failed, local>> PROVE AskedInv'
  BY <1>1 DEF AskedInv, AtMostOne
<1>2. ASSUME NEW d \in Dials, Client(d) PROVE AskedInv'
  <2>1. UNCHANGED Asked
    BY <1>2 DEF Client, Tries, DialFails, Validated, NotValidated, NoticesLoss, Redials, Exits,
      Hands, Declined, Leaves, Asked, LetIn, wire, target, server
  <2>2. CASE Hands(d)
    BY <2>1, <2>2 DEF Hands, AskedInv, AtMostOne
  <2>3. CASE ~Hands(d)
    <3>1. UNCHANGED <<connect, held, failed, local>>
      BY <1>2, <2>3 DEF Client, Tries, DialFails, Validated, NotValidated, NoticesLoss, Redials,
        Exits, Declined, Leaves, source
    <3> QED
      BY <1>1, <2>1, <3>1
  <2> QED
    BY <2>2, <2>3
<1>3. CASE Connect
  <2> USE DEF wire, target, server, AskedInv
  <2>1. CASE Waits \/ TimesOut \/ Closes
    <3>1. UNCHANGED Asked
      BY <2>1 DEF Waits, TimesOut, Closes, Asked, LetIn
    <3> QED
      BY <2>1, <3>1 DEF Waits, TimesOut, Closes, AtMostOne
  <2>2. CASE Asks
    <3> SUFFICES ASSUME failed = {} PROVE AskedInv'
      BY <2>2 DEF Asks
    <3> DEFINE Now == UNION {Current(d) : d \in {e \in held : Up(e)}}
    <3>1. Asked = {} /\ Asked' = Asked \cup Now
      BY <2>2 DEF Asks, Asked, LetIn
    <3>2. AtMostOne(Now) /\ \A s \in Now : s[1] \in held
      BY DEF TypeOK, AtMostOne, Current
    <3> QED
      BY <2>2, <3>1, <3>2 DEF Asks, AtMostOne
  <2>3. ASSUME NEW d \in Dials, Takes(d) PROVE AskedInv'
    <3>1. UNCHANGED Asked
      BY <2>3 DEF Takes, Asked, LetIn
    <3>2. held \cup local = {d}
      BY <2>3 DEF Takes, TypeOK, AtMostOne, ConnectInv
    <3> QED
      BY <2>3, <3>1, <3>2 DEF Takes, AtMostOne
  <2>4. ASSUME NEW d \in Dials, Rejects(d) PROVE AskedInv'
    BY <2>4 DEF Rejects
  <2> QED
    BY <1>3, <2>1, <2>2, <2>3, <2>4 DEF Connect
<1>4. CASE UNCHANGED vars
  BY <1>1, <1>4 DEF vars, source, wire, target, server, Asked, LetIn
<1> QED
  BY <1>1, <1>2, <1>3, <1>4, AskedShrinks DEF Next, source

LEMMA LetInStep == IInv /\ [Next]_vars => LetInInv'
<1> SUFFICES ASSUME IInv, [Next]_vars PROVE LetInInv'
  OBVIOUS
<1> USE DEF IInv, LetInInv, LetIn, source, clients, wire, target, server
<1>1. ASSUME NEW d \in Dials, Client(d) PROVE LetInInv'
  BY <1>1 DEF Client, Tries, DialFails, Validated, NotValidated, NoticesLoss, Redials, Exits,
    Hands, Declined, Leaves
<1>2. CASE Connect
  <2>1. CASE Waits \/ TimesOut \/ Closes \/ Asks
    BY <2>1 DEF Waits, TimesOut, Closes, Asks
  <2>2. ASSUME NEW d \in Dials, Takes(d) PROVE LetInInv'
    <3>1. <<d, opened[d]>> \in Current(d)
      BY <2>2 DEF Takes, Up, Current, Sessions, OpenedInv, TypeOK, MaxSessions
    <3> QED
      BY <2>2, <3>1 DEF Takes
  <2>3. ASSUME NEW d \in Dials, Rejects(d) PROVE LetInInv'
    BY <2>3 DEF Rejects
  <2> QED
    BY <1>2, <2>1, <2>2, <2>3 DEF Connect
<1>3. CASE Await
  BY <1>3 DEF Await, Accepts, TakesRemote, Expires, GivesUp, UserCloses, ClosesRemote
<1>4. ASSUME NEW d \in Dials, Grants(d) \/ Refuses(d) PROVE LetInInv'
  BY <1>4 DEF Grants, Refuses
<1>5. ASSUME NEW s \in Sessions, ChecksIn(s) PROVE LetInInv'
  <2>1. failed = {} /\ buffer # {} => s \in buffer
    BY <1>5 DEF ChecksIn, Received, AskedInv, Asked, AtMostOne
  <2> QED
    BY <1>5, <2>1 DEF ChecksIn, Received
<1>6. ASSUME NEW s \in Sessions,
             Drops(s) \/ Activates(s) \/ Denies(s) \/ Crashes(s) \/ Notified(s) \/ SessionDies(s)
      PROVE  LetInInv'
  BY <1>6 DEF Drops, Activates, Denies, Crashes, Received, Notified, SessionDies
<1>7. CASE UNCHANGED vars
  BY <1>7 DEF vars
<1> QED
  BY <1>1, <1>2, <1>3, <1>4, <1>5, <1>6, <1>7 DEF Next, Session

LEMMA AliveStep == IInv /\ [Next]_vars => AliveInv'
<1> SUFFICES ASSUME IInv, [Next]_vars PROVE AliveInv'
  OBVIOUS
<1> USE DEF IInv, source, clients, wire, target, server
\* A session less, or a client that goes on with the one it has.
<1>1. ASSUME alive' \subseteq alive, Asked' \subseteq Asked, UNCHANGED opened,
             \A s \in alive' : link'[s[1]] \in {"asking", "granted", "refused", "up"}
      PROVE  AliveInv'
  BY <1>1 DEF AliveInv
\* A client without a session opens its next one.
<1>2. ASSUME NEW d \in Dials, Opens(d), link[d] \in {"down", "lost"}, UNCHANGED Asked
      PROVE  AliveInv'
  <2> USE SessionFacts, NextSession, <1>2 DEF TypeOK, Opens, AliveInv
  <2>1. \A s \in alive : s[1] # d
    OBVIOUS
  <2>2. \A s \in alive' : s[2] = opened'[s[1]]
                           /\ link'[s[1]] \in {"asking", "granted", "refused", "up"}
    BY <2>1
  <2>3. \A s \in Asked : s[1] \in Dials /\ s \in Sessions /\ s[2] \in 1..2
    BY DEF Asked, LetIn, Sessions
  <2>4. \A s \in Asked' : s[2] <= opened'[s[1]]
    BY <2>3
  <2> QED
    BY <2>2, <2>4
\* The last session of a client is the only one it can have.
<1>3. ASSUME NEW d \in Dials, opened[d] >= 1
      PROVE  \A s \in alive \ Current(d) : s[1] # d
  BY <1>3 DEF AliveInv, Current, TypeOK, Sessions
<1>4. ASSUME NEW d \in Dials, Client(d) PROVE AliveInv'
  <2>1. UNCHANGED Asked
    BY <1>4 DEF Client, Tries, DialFails, Validated, NotValidated, NoticesLoss, Redials, Exits,
      Hands, Declined, Leaves, Asked, LetIn
  <2>2. CASE Tries(d) \/ Redials(d)
    BY <1>2, <2>1, <2>2 DEF Tries, Redials
  <2>3. CASE DialFails(d) \/ Hands(d) \/ Declined(d)
    BY <1>1, <2>1, <2>3 DEF DialFails, Hands, Declined, AliveInv
  <2>4. CASE Validated(d)
    BY <1>1, <2>1, <2>4 DEF Validated, AliveInv, TypeOK
  <2>5. CASE NotValidated(d)
    <3>1. alive' = alive \ Current(d) /\ \A e \in Dials \ {d} : link'[e] = link[e]
      BY <2>5 DEF NotValidated, ClosesLink, TypeOK
    <3>2. \A s \in alive' : s[1] # d /\ s[1] \in Dials
      BY <1>3, <2>5, <3>1, SessionFacts DEF NotValidated, OpenedInv, TypeOK
    <3>3. \A s \in alive' : link'[s[1]] \in {"asking", "granted", "refused", "up"}
      BY <3>1, <3>2 DEF AliveInv
    <3> QED
      BY <1>1, <2>1, <2>5, <3>1, <3>3 DEF NotValidated
  <2>6. CASE NoticesLoss(d)
    <3>1. alive' = alive /\ \A e \in Dials \ {d} : link'[e] = link[e]
      BY <2>6 DEF NoticesLoss, TypeOK
    <3>2. alive \cap Current(d) = {}
      BY <2>6 DEF NoticesLoss, Up, Current
    <3>3. \A s \in alive' : s[1] # d /\ s[1] \in Dials
      BY <1>3, <2>6, <3>1, <3>2, SessionFacts DEF NoticesLoss, OpenedInv, TypeOK
    <3>4. \A s \in alive' : link'[s[1]] \in {"asking", "granted", "refused", "up"}
      BY <3>1, <3>3 DEF AliveInv
    <3> QED
      BY <1>1, <2>1, <2>6, <3>1, <3>4 DEF NoticesLoss
  <2>7. CASE Exits(d) \/ Leaves(d)
    <3>1. alive' = alive \ Current(d) /\ \A e \in Dials \ {d} : link'[e] = link[e]
      BY <2>7 DEF Exits, Leaves, ClosesLink, TypeOK
    <3>2. opened[d] >= 1
      BY <2>7 DEF Exits, Leaves, Idle, OpenedInv
    <3>3. \A s \in alive' : s[1] # d /\ s[1] \in Dials
      BY <1>3, <3>1, <3>2, SessionFacts DEF TypeOK
    <3>4. \A s \in alive' : link'[s[1]] \in {"asking", "granted", "refused", "up"}
      BY <3>1, <3>3 DEF AliveInv
    <3> QED
      BY <1>1, <2>1, <2>7, <3>1, <3>4 DEF Exits, Leaves
  <2> QED
    BY <1>4, <2>2, <2>3, <2>4, <2>5, <2>6, <2>7 DEF Client
<1>5. CASE Connect
  <2>1. CASE Waits \/ TimesOut \/ \E d \in Dials : Takes(d) \/ Rejects(d)
    <3>1. UNCHANGED <<Asked, alive, opened, link>>
      BY <2>1 DEF Waits, TimesOut, Takes, Rejects, Asked, LetIn
    <3> QED
      BY <1>1, <3>1 DEF AliveInv
  <2>2. CASE Asks
    <3>1. UNCHANGED <<alive, opened, link>>
      BY <2>2 DEF Asks
    <3>2. \A s \in Asked' \ Asked : s[2] = opened[s[1]] /\ opened[s[1]] \in Nat
      BY <2>2 DEF Asks, Asked, LetIn, Current, TypeOK
    <3> QED
      BY <3>1, <3>2 DEF AliveInv
  <2>3. CASE Closes
    <3>1. UNCHANGED <<Asked, opened>>
      BY <2>3 DEF Closes, Asked, LetIn
    <3>2. alive' \subseteq alive
      BY <2>3 DEF Closes
    <3>3. \A s \in alive' : s[1] \notin local
      BY <1>3, <2>3, SessionFacts DEF Closes, Idle, OpenedInv, TypeOK
    <3>4. \A s \in alive' : link'[s[1]] \in {"asking", "granted", "refused", "up"}
      BY <2>3, <3>2, <3>3, SessionFacts DEF Closes, AliveInv, TypeOK
    <3> QED
      BY <1>1, <3>1, <3>2, <3>4
  <2> QED
    BY <1>5, <2>1, <2>2, <2>3 DEF Connect
<1>6. CASE Await
  <2>1. alive' \subseteq alive /\ UNCHANGED <<opened, link>>
    BY <1>6 DEF Await, Accepts, TakesRemote, Expires, GivesUp, UserCloses, ClosesRemote
  <2> QED
    BY <1>1, <1>6, <2>1, AskedShrinks DEF AliveInv
<1>7. ASSUME NEW d \in Dials, Grants(d) \/ Refuses(d) PROVE AliveInv'
  <2>1. alive' \subseteq alive /\ UNCHANGED opened
    BY <1>7 DEF Grants, Refuses
  <2>2. \A s \in alive' : link'[s[1]] \in {"asking", "granted", "refused", "up"}
    <3>1. CASE Grants(d)
      BY <2>1, <3>1 DEF Grants, AliveInv, TypeOK
    <3>2. CASE Refuses(d)
      BY <2>1, <3>2 DEF Refuses, AliveInv, TypeOK
    <3> QED
      BY <1>7, <3>1, <3>2
  <2> QED
    BY <1>1, <1>7, <2>1, <2>2, AskedShrinks
<1>8. ASSUME NEW s \in Sessions, Session(s) \/ SessionDies(s) PROVE AliveInv'
  <2>1. alive' \subseteq alive /\ UNCHANGED <<opened, link>>
    BY <1>8 DEF Session, Drops, ChecksIn, Activates, Denies, Crashes, Notified, SessionDies
  <2> QED
    BY <1>1, <1>8, <2>1, AskedShrinks DEF AliveInv
<1>9. CASE UNCHANGED vars
  BY <1>1, <1>9 DEF vars, AliveInv, Asked, LetIn
<1> QED
  BY <1>4, <1>5, <1>6, <1>7, <1>8, <1>9 DEF Next

LEMMA NoticeStep == IInv /\ [Next]_vars => NoticeInv'
<1> SUFFICES ASSUME IInv, [Next]_vars PROVE NoticeInv'
  OBVIOUS
<1> USE DEF IInv, NoticeInv, source, clients, wire, target, server
<1>1. ASSUME NEW d \in Dials, Client(d) PROVE NoticeInv'
  BY <1>1 DEF Client, Tries, DialFails, Validated, NotValidated, NoticesLoss, Redials, Exits,
    Hands, Declined, Leaves
<1>2. CASE Connect
  BY <1>2 DEF Connect, Waits, Asks, TimesOut, Closes, Takes, Rejects
<1>3. CASE Await
  <2>1. CASE Accepts
    BY <2>1 DEF Accepts, LetInInv, TypeOK
  <2>2. CASE TakesRemote
    BY <2>2 DEF TakesRemote
  <2>3. CASE Expires \/ GivesUp
    BY <2>3 DEF Expires, GivesUp, LetInInv
  <2>4. CASE UserCloses \/ ClosesRemote
    BY <2>4 DEF UserCloses, ClosesRemote
  <2> QED
    BY <1>3, <2>1, <2>2, <2>3, <2>4 DEF Await
<1>4. ASSUME NEW d \in Dials, Grants(d) \/ Refuses(d) PROVE NoticeInv'
  BY <1>4 DEF Grants, Refuses
<1>5. ASSUME NEW s \in Sessions, Session(s) \/ SessionDies(s) PROVE NoticeInv'
  <2>1. CASE Drops(s) \/ Activates(s) \/ Denies(s) \/ SessionDies(s)
    BY <2>1 DEF Drops, Activates, Denies, Received, SessionDies
  <2>2. CASE ChecksIn(s)
    BY <2>2 DEF ChecksIn, Received
  <2>3. CASE Crashes(s)
    BY <2>3 DEF Crashes, Received
  <2>4. CASE Notified(s) /\ s \in active
    BY <2>4 DEF Notified, TypeOK
  <2>5. CASE Notified(s) /\ s \notin active
    BY <2>5 DEF Notified
  <2> QED
    BY <1>5, <2>1, <2>2, <2>3, <2>4, <2>5 DEF Session
<1>6. CASE UNCHANGED vars
  BY <1>6 DEF vars
<1> QED
  BY <1>1, <1>2, <1>3, <1>4, <1>5, <1>6 DEF Next

LEMMA LeftStep == IInv /\ [Next]_vars => LeftInv'
<1> SUFFICES ASSUME IInv, [Next]_vars, failed' = {}
             PROVE  /\ connect' = "closed" => \A s \in Asked' : link'[s[1]] = "closed"
                    /\ await' \in {"late", "gone", "crashed"} => LetIn' \cap alive' \subseteq buffer'
  BY DEF LeftInv
<1> DEFINE Goal == /\ connect' = "closed" => \A s \in Asked' : link'[s[1]] = "closed"
                   /\ await' \in {"late", "gone", "crashed"} => LetIn' \cap alive' \subseteq buffer'
<1> SUFFICES Goal
  OBVIOUS
<1> USE DEF IInv, LeftInv, source, clients, wire, target, server
<1>0. failed = {}
  <2>1. failed \subseteq failed'
    BY DEF Next, vars, Connect, Waits, Asks, TimesOut, Closes, Takes, Rejects, Await, Accepts,
      TakesRemote, Expires, GivesUp, UserCloses, ClosesRemote, Client, Tries, DialFails, Validated,
      NotValidated, NoticesLoss, Redials, Exits, Hands, Declined, Leaves, Grants, Refuses,
      Session, Drops, ChecksIn, Activates, Denies, Crashes, Notified, SessionDies
  <2> QED
    BY <2>1
<1>1. ASSUME NEW d \in Dials, Client(d) PROVE Goal
  <2>1. UNCHANGED <<Asked, LetIn, buffer, await>>
    BY <1>1 DEF Client, Tries, DialFails, Validated, NotValidated, NoticesLoss, Redials, Exits,
      Hands, Declined, Leaves, Asked, LetIn
  \* No client that has been asked about opens a session that has been let in.
  <2>2. LetIn \cap alive' \subseteq alive
    <3>1. CASE Tries(d) \/ Redials(d)
      <4>1. alive' = alive \cup {<<d, opened[d] + 1>>} /\ opened[d] \in Nat
        BY <3>1 DEF Tries, Redials, Opens, TypeOK
      <4>2. <<d, opened[d] + 1>> \notin LetIn
        <5> SUFFICES ASSUME <<d, opened[d] + 1>> \in LetIn PROVE FALSE
          OBVIOUS
        <5>1. opened[d] + 1 <= opened[d]
          BY DEF AliveInv, Asked
        <5> QED
          BY <4>1, <5>1
      <4> QED
        BY <4>1, <4>2
    <3>2. CASE ~(Tries(d) \/ Redials(d))
      BY <1>1, <3>2 DEF Client, DialFails, Validated, NotValidated, NoticesLoss, Exits, Hands,
        Declined, Leaves, ClosesLink
    <3> QED
      BY <3>1, <3>2
  <2>3. ASSUME connect' = "closed", link[d] = "closed" PROVE link'[d] = "closed"
    BY <1>1, <2>3 DEF Client, Tries, DialFails, Validated, NotValidated, NoticesLoss, Redials,
      Exits, Hands, Declined, Leaves, ClosesLink, TypeOK
  <2>4. connect' = "closed" => connect = "closed"
    BY <1>1 DEF Client, Tries, DialFails, Validated, NotValidated, NoticesLoss, Redials, Exits,
      Hands, Declined, Leaves
  <2>5. \A e \in Dials \ {d} : link'[e] = link[e]
    BY <1>1 DEF Client, Tries, DialFails, Validated, NotValidated, NoticesLoss, Redials, Exits,
      Hands, Declined, Leaves, Opens, ClosesLink, TypeOK
  <2>6. \A s \in Asked : s[1] \in Dials
    BY SessionFacts DEF Asked, LetIn, TypeOK
  <2> QED
    BY <1>0, <2>1, <2>2, <2>3, <2>4, <2>5, <2>6
<1>2. CASE Connect
  <2>1. UNCHANGED <<LetIn, buffer, await>> /\ alive' \subseteq alive
    BY <1>2 DEF Connect, Waits, Asks, TimesOut, Closes, Takes, Rejects, LetIn
  <2>2. ASSUME connect' = "closed", NEW s \in Asked' PROVE link'[s[1]] = "closed"
    <3>1. Closes
      BY <1>2, <2>2 DEF Connect, Waits, Asks, TimesOut, Takes, Rejects
    <3>2. s \in Asked
      BY <2>2, <3>1 DEF Closes, Asked, LetIn
    <3>3. s[1] \in local
      BY <1>0, <3>1, <3>2 DEF Closes, AskedInv, ConnectInv
    <3> QED
      BY <3>1, <3>3 DEF Closes, TypeOK
  <2> QED
    BY <1>0, <2>1, <2>2
<1>3. CASE Await
  <2>1. Asked' \subseteq Asked /\ UNCHANGED <<connect, link, LetIn>>
    BY <1>3, AskedShrinks DEF Await, Accepts, TakesRemote, Expires, GivesUp, UserCloses,
      ClosesRemote, LetIn
  <2>2. CASE Accepts \/ TakesRemote \/ GivesUp \/ UserCloses
    BY <1>0, <2>1, <2>2 DEF Accepts, TakesRemote, GivesUp, UserCloses
  <2>3. CASE Expires
    BY <1>0, <2>1, <2>3 DEF Expires, LetInInv
  <2>4. CASE ClosesRemote
    BY <1>0, <2>1, <2>4 DEF ClosesRemote, LetInInv
  <2> QED
    BY <1>3, <2>2, <2>3, <2>4 DEF Await
<1>4. ASSUME NEW d \in Dials, Grants(d) \/ Refuses(d) PROVE Goal
  <2>1. UNCHANGED <<Asked, LetIn, buffer, await, connect>> /\ alive' \subseteq alive
    BY <1>4 DEF Grants, Refuses, Asked, LetIn
  <2>2. \A e \in Dials : link[e] = "closed" => link'[e] = "closed"
    BY <1>4 DEF Grants, Refuses, TypeOK
  <2>3. \A s \in Asked : s[1] \in Dials
    BY SessionFacts DEF Asked, LetIn, TypeOK
  <2> QED
    BY <1>0, <2>1, <2>2, <2>3
<1>5. ASSUME NEW s \in Sessions, Session(s) \/ SessionDies(s) PROVE Goal
  <2>1. Asked' \subseteq Asked /\ UNCHANGED <<connect, link>>
    BY <1>5, AskedShrinks DEF Session, Drops, ChecksIn, Activates, Denies, Crashes, Notified,
      SessionDies
  <2>2. CASE ChecksIn(s)
    <3>1. buffer \subseteq buffer' /\ s \in buffer'
      BY <1>0, <2>2 DEF ChecksIn, Received, AskedInv, Asked, AtMostOne
    <3>2. LetIn' = LetIn \cup {s} /\ UNCHANGED <<alive, await>>
      BY <2>2 DEF ChecksIn, Received, LetIn
    <3> QED
      BY <1>0, <2>1, <3>1, <3>2
  <2>3. CASE Crashes(s)
    BY <1>0, <2>1, <2>3 DEF Crashes
  <2>4. CASE Drops(s) \/ Activates(s) \/ Denies(s) \/ Notified(s) \/ SessionDies(s)
    <3>1. LetIn' = LetIn /\ alive' \subseteq alive /\ UNCHANGED <<buffer, await>>
      BY <2>4 DEF Drops, Activates, Denies, Received, Notified, SessionDies, LetIn
    <3> QED
      BY <1>0, <2>1, <3>1
  <2> QED
    BY <1>5, <2>2, <2>3, <2>4 DEF Session
<1>6. CASE UNCHANGED vars
  BY <1>0, <1>6 DEF vars, Asked, LetIn
<1> QED
  BY <1>1, <1>2, <1>3, <1>4, <1>5, <1>6 DEF Next

LEMMA Invariance == Spec => []IInv
<1>1. Init => IInv
  BY InitInv
<1>2. IInv /\ [Next]_vars => IInv'
  BY TypeStep, ConnectStep, PlaceStep, OpenedStep, AskedStep, LetInStep, AliveStep,
    NoticeStep, LeftStep DEF IInv
<1> QED
  BY <1>1, <1>2, PTL DEF Spec

-----------------------------------------------------------------------------

\* The types; connect, its connection and the target's channel hold one client.
THEOREM DialTypes == Spec => []TypeOK
<1>1. IInv => TypeOK
  BY DEF IInv
<1> QED
  BY <1>1, Invariance, PTL

\* Of any number of dials, over any paths, no client is left over that nobody
\* closes, but those whose initClient has failed.
THEOREM DialLeavesNobody == Spec => []NoStrayClient
<1>1. IInv => NoStrayClient
  <2> SUFFICES ASSUME IInv, NEW d \in Dials, link[d] \notin {"down", "closed"}
               PROVE  place[d] \in {"dial", "offer", "leaving"} \/ d \in held \cup local \cup failed
    BY DEF NoStrayClient
  <2> QED
    BY DEF IInv, TypeOK, PlaceInv
<1> QED
  BY <1>1, Invariance, PTL

\* Both ends hold the same client, whoever else dials.
THEOREM DialAgrees == Spec => []WinnerIsKept
<1>1. IInv => WinnerIsKept
  <2> SUFFICES ASSUME IInv, local # {}, failed = {}, await \in {"wait", "ok"}
               PROVE  {s[1] : s \in buffer \cup remote} = local
    BY DEF WinnerIsKept
  <2>1. PICK r \in reply : r \in buffer \cup remote
    BY DEF IInv, LetInInv, LetIn
  <2>2. \A s \in buffer \cup remote : s = r
    BY <2>1 DEF IInv, AskedInv, Asked, LetIn, AtMostOne
  <2>3. r[1] \in local
    BY <2>1 DEF IInv, AskedInv, Asked, LetIn, ConnectInv
  <2>4. local = {r[1]}
    BY <2>3 DEF IInv, TypeOK, AtMostOne
  <2> QED
    BY <2>1, <2>2, <2>4
<1> QED
  BY <1>1, Invariance, PTL

\* connect returns at both ends, and every connectToPeer: nobody holds the lock of
\* the context but a connect that is about to release it, and nobody waits for a
\* client that is not about to have a session or to be closed.
THEOREM DialReturns == Spec => []EveryoneReturns
<1>1. IInv => EveryoneReturns
  <2> SUFFICES ASSUME IInv, Blocked
               PROVE  /\ connect \in {"ok", "failed", "closed"}
                      /\ await \in {"ok", "gone", "crashed"}
                      /\ \A d \in Dials : place[d] \in {"given", "left", "failed"}
    BY DEF EveryoneReturns
  <2> USE DEF IInv, TypeOK, Blocked
  <2>1. await \in {"ok", "gone", "crashed"}
    OBVIOUS
  <2>2. \A d \in Dials : link[d] \in {"down", "up", "closed"}
    OBVIOUS
  <2>3. \A d \in Dials : place[d] # "leaving"
    BY <2>2 DEF Idle, PlaceInv
  <2>4. connect \in {"ok", "failed", "closed"}
    BY <2>3 DEF ConnectInv
  <2>5. \A d \in Dials : place[d] \notin {"dial", "offer"}
    BY <2>2, <2>4 DEF ConnectInv, PlaceInv
  <2> QED
    BY <2>1, <2>3, <2>4, <2>5
<1> QED
  BY <1>1, Invariance, PTL

\* When one end of an agreed connection has left, the other has too, unless the
\* target looked at Active before the check-in set it, the source was back before
\* the target closed, or its check-in came after the target's timer.
THEOREM DialNotices == Spec => []ExitIsNoticed
<1>1. ASSUME IInv, Blocked, failed = {} PROVE SourceExitClosesTarget
  <2> SUFFICES ASSUME connect \in {"failed", "closed"}, NEW s \in remote PROVE s \in missed
    BY DEF SourceExitClosesTarget
  <2> USE DEF IInv, Blocked
  <2>1. s \in Asked /\ connect = "closed"
    BY <1>1 DEF Asked, AskedInv
  <2>2. s \notin alive
    BY <1>1, <2>1 DEF LeftInv, AliveInv
  <2>3. s \notin peers \cup notice
    BY <1>1, <2>2
  <2> QED
    BY <1>1, <2>3 DEF NoticeInv
<1>2. ASSUME IInv, Blocked, failed = {} PROVE TargetExitClosesSource
  <2> SUFFICES ASSUME await = "gone", buffer = {}, connect = "ok",
                      \A d \in local : ~(opened[d] > 1)
               PROVE  FALSE
    BY DEF TargetExitClosesSource
  <2> USE DEF IInv
  <2>1. PICK s \in reply : TRUE
    BY <1>2 DEF LetInInv, ConnectInv
  <2>2. s \in Asked /\ s[1] \in local /\ s \in Sessions
    BY <1>2 DEF Asked, LetIn, AskedInv, ConnectInv, TypeOK
  <2> DEFINE d == s[1]
  <2>3. d \in Dials /\ local = {d}
    BY <1>2, <2>2, SessionFacts DEF TypeOK, AtMostOne
  <2>4. opened[d] = 1 /\ s = <<d, 1>>
    BY <1>2, <2>2, <2>3 DEF AliveInv, Sessions, TypeOK
  <2>5. s \notin alive
    BY <1>2, <2>1 DEF LeftInv, LetIn
  <2>6. ~Up(d)
    BY <2>2, <2>4, <2>5 DEF Up, Current
  <2>7. link[d] \in {"down", "closed"}
    BY <1>2, <2>3, <2>6 DEF Blocked, TypeOK
  <2>8. link[d] = "closed"
    BY <1>2, <2>2, <2>3, <2>7 DEF PlaceInv
  <2> QED
    BY <1>2, <2>3, <2>8 DEF Blocked, Idle
<1>3. IInv => ExitIsNoticed
  BY <1>1, <1>2 DEF ExitIsNoticed
<1> QED
  BY <1>3, Invariance, PTL

=============================================================================
