-------------------------- MODULE MC_LinkLifetime --------------------------
(* Instances of LinkLifetime for TLC. *)
EXTENDS LinkLifetime

\* No peer is dialled by itself.
AllSmaller == {}
============================================================================
