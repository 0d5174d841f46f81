----------------------------- MODULE MC_Startup -----------------------------
(* Instances of Startup for TLC. *)
EXTENDS Startup, TLC

\* Launches, and generated values, are interchangeable.
Symmetry == Permutations(Proc) \cup Permutations(Value)
=============================================================================
