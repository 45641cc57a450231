---------------------------- MODULE StreamService ----------------------------
(***************************************************************************)
(* What Connection.OpenStream promises, whether the peers are connected    *)
(* directly or through a relay: a stream is returned only when the callee  *)
(* has accepted it, and neither end is told that an open stream is over    *)
(* before one of them has closed it or lost its session.                   *)
(***************************************************************************)

CONSTANT Peers

VARIABLES
  call,      \* OpenStream: "refused" is an error that is still on its way
  accepted,  \* the callee has accepted the stream
  gone,      \* the ends that have closed the stream, or lost their session
  stopped    \* the ends that have stopped reading

serviceVars == <<call, accepted, gone, stopped>>

ServiceInit ==
  /\ call = "idle"
  /\ accepted = FALSE
  /\ gone = {}
  /\ stopped = {}

Call ==
  /\ call = "idle"
  /\ call' = "pending"
  /\ UNCHANGED <<accepted, gone, stopped>>

\* It may come after the caller has given up.
Accept ==
  /\ call # "idle"
  /\ accepted' = TRUE
  /\ UNCHANGED <<call, gone, stopped>>

Return ==
  /\ call = "pending"
  /\ accepted
  /\ call' = "open"
  /\ UNCHANGED <<accepted, gone, stopped>>

Refuse ==
  /\ call = "pending"
  /\ call' = "refused"
  /\ UNCHANGED <<accepted, gone, stopped>>

Fail ==
  /\ call \in {"pending", "refused"}
  /\ call' = "failed"
  /\ UNCHANGED <<accepted, gone, stopped>>

\* One end, or both with the session they share.
Leave ==
  /\ \E S \in SUBSET Peers : gone' = gone \cup S
  /\ UNCHANGED <<call, accepted, stopped>>

Stop(e) ==
  /\ gone # {} \/ call \in {"refused", "failed"}
  /\ stopped' = stopped \cup {e}
  /\ gone' = gone \cup {e}
  /\ UNCHANGED <<call, accepted>>

ServiceNext ==
  Call \/ Accept \/ Return \/ Refuse \/ Fail \/ Leave \/ \E e \in Peers : Stop(e)

ServiceSpec == ServiceInit /\ [][ServiceNext]_serviceVars
=============================================================================
