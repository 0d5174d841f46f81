---------------------------- MODULE MC_Presence ----------------------------
(* Instances of Presence for TLC. *)
EXTENDS Presence

\* A clock a second behind ours.
OneBehind == -1

Least(m, n) == IF m < n THEN m ELSE n

\* Beyond these bounds no guard and no property tells two values of a clock
\* apart.
ClockView ==
  <<skew, alive, due, misses, flight, Least(since, Timeout + Sweep + MaxSkew + 1),
    Least(uptime, MaxDelay + 1), known, Least(age, Timeout + 1), heard, linked, online, sweepDue>>
============================================================================
