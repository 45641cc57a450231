---------------------------- MODULE RequestReply ----------------------------
(***************************************************************************)
(* What network.Channel promises to the goroutines that call Send with a   *)
(* message built by NewMessageWithAck: the call ends exactly once, either  *)
(* with the peer's reply to this very request or with an error, and it     *)
(* never ends with a reply the peer did not give.                          *)
(***************************************************************************)

CONSTANT Requests   \* the calls of Send that ask for an acknowledgement

VARIABLES
  request,          \* [Requests -> {"idle", "pending", "replied", "failed"}]
  served            \* the requests the peer has replied to

rrVars == <<request, served>>

RRInit ==
  /\ request = [r \in Requests |-> "idle"]
  /\ served = {}

\* A goroutine calls Send.
Issue(r) ==
  /\ request[r] = "idle"
  /\ request' = [request EXCEPT ![r] = "pending"]
  /\ UNCHANGED served

\* The peer's handler replies; it may do so after the caller has given up.
Serve(r) ==
  /\ request[r] # "idle"
  /\ r \notin served
  /\ served' = served \cup {r}
  /\ UNCHANGED request

\* Send returns the reply.
Complete(r) ==
  /\ request[r] = "pending"
  /\ r \in served
  /\ request' = [request EXCEPT ![r] = "replied"]
  /\ UNCHANGED served

\* Send returns an error: timeout, closed channel or failed write.
Abandon(r) ==
  /\ request[r] = "pending"
  /\ request' = [request EXCEPT ![r] = "failed"]
  /\ UNCHANGED served

RRNext ==
  \E r \in Requests : Issue(r) \/ Serve(r) \/ Complete(r) \/ Abandon(r)

RRSpec == RRInit /\ [][RRNext]_rrVars

=============================================================================
