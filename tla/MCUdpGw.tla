-------------------------------- MODULE MCUdpGw --------------------------------
(* Model-checking instances of UdpGw. *)
EXTENDS UdpGw

CONSTANTS l1, l2, r1, r2

\* Two applications that share a peer, one of which has a second peer.
ThreeFlows == {[local |-> l1, remote |-> r1], [local |-> l2, remote |-> r1], [local |-> l1, remote |-> r2]}
=============================================================================
