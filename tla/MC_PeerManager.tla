-------------------------- MODULE MC_PeerManager --------------------------
(* Instances of PeerManager for TLC. *)
EXTENDS PeerManager

CONSTANT p1

\* The peer is one we dial.
OneGreater == {p1}
===========================================================================
