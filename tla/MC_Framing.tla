----------------------------- MODULE MC_Framing -----------------------------
(* An instance of Framing for TLC. *)
EXTENDS Framing

\* Empty, short, as long as allowed, and too long; all of them readable as the
\* start of a header.
Payloads == {<<>>, <<1>>, <<0, 2>>, <<0, 1, 1>>}
=============================================================================
