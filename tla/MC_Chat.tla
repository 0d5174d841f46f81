------------------------------ MODULE MC_Chat ------------------------------
(* Instances of Chat for TLC. *)
EXTENDS Chat

CONSTANTS a, b, m1, m2, f

\* A text either way and a file one way.
EachWay == m1 :> a @@ m2 :> b @@ f :> a

\* The order of the bubbles on the screen decides no step but their order.
Unordered == <<row, trust, connVars, shown, [n \in Node |-> <<Len(view[n]), ToSet(view[n])>>], drops, reads>>
=============================================================================
