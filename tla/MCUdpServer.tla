----------------------------- MODULE MCUdpServer -----------------------------
(***************************************************************************)
(* UdpServer for TLC: sessions are interchangeable, and so are client ids. *)
(***************************************************************************)
EXTENDS UdpServer, TLC

Symmetry == Permutations(Sessions) \cup Permutations(Ids)

=============================================================================
