------------------------------ MODULE Presence ------------------------------
(***************************************************************************)
(* When the event log says that a peer was lost: the announcements of its  *)
(* DiscoveryService, the network that loses, doubles, delays and reorders  *)
(* them, and, on our side, m_peers[p].lastSeen, the link and the sweep.    *)
(*                                                                         *)
(* The peer list and the window do not show what the sweep decides.  They  *)
(* are drawn anew on its signals from allPeers(), findPeer() and           *)
(* isOnline(), which tell online by the link alone: a peer without a link  *)
(* is shown offline however fresh its announcements are.  PRD.md:129-134   *)
(* and docs/PROTOCOL.md:28-29 promise the opposite, online by the age of   *)
(* the last announcement, and only the event log goes by that.             *)
(*                                                                         *)
(* Time goes in seconds.  Nothing holds a point in time: a clock here is   *)
(* the number of seconds since something happened, or until it is due.  An *)
(* announcement carries the sender's time, which differs from ours.        *)
(* A definition named ..._Bug is a plausible mistake in the definition     *)
(* that follows it, for showing that a property would notice.              *)
(***************************************************************************)
EXTENDS Integers

CONSTANTS Period,    \* seconds between two announcements
          Sweep,     \* seconds between two sweeps
          Timeout,   \* the setting net.peer_timeout
          MaxDelay,  \* longest way of a datagram, in seconds
          MaxMiss,   \* most announcements in a row that do not arrive at all
          MinSkew, MaxSkew   \* the peer's clock minus ours

\* The timeout outlasts the longest time without news: an announcement that comes
\* as late as it can, from a clock that is behind, then those that are missed,
\* and the way of the next.
ASSUME PresenceAssumption ==
  /\ Period \in Nat \ {0} /\ Sweep \in Nat \ {0} /\ MaxDelay \in Nat /\ MaxMiss \in Nat
  /\ MinSkew \in Int /\ MaxSkew \in Int /\ MinSkew <= 0 /\ 0 <= MaxSkew
  /\ Timeout \in Nat
  /\ Timeout >= Period * (MaxMiss + 1) + 2 * MaxDelay - MinSkew

VARIABLES
  skew,     \* the peer's clock minus ours
  alive,    \* is the peer's process running
  due,      \* until its next announcement
  misses,   \* announcements that did not arrive, since the last that does
  flight,   \* announcements under way: their age, and the copies to come
  since,    \* since the peer last sent an announcement, or made a connection
  uptime,   \* since the peer's process started
  known,    \* is the peer in m_peers
  age,      \* now - lastSeen
  heard,    \* has the peer's process been heard since its start
  linked,   \* is there a link with the peer; this is what the list shows
  online,   \* m_peers[p].online, which only the sweep reads
  sweepDue  \* until the next sweep

senderVars   == <<alive, due, misses, since, uptime>>
receiverVars == <<known, age, heard, linked, online, sweepDue>>
vars == <<skew, senderVars, flight, receiverVars>>

\* Both timers set up with the same interval.
SweepInterval_SameBug == Period

\* m_sweep, two seconds.
SweepInterval == Sweep

Init ==
  /\ skew \in MinSkew .. MaxSkew
  /\ alive = FALSE /\ due = 0 /\ misses = 0 /\ flight = {}
  /\ since = 0 /\ uptime = 0
  /\ known = FALSE /\ age = 0 /\ heard = FALSE
  /\ linked = FALSE /\ online = FALSE /\ sweepDue = SweepInterval
-----------------------------------------------------------------------------
(* The peer *)

\* One datagram goes out by broadcast and one by multicast, and so many arrive.
Sends(copies) ==
  /\ copies = 0 => misses < MaxMiss
  /\ misses' = IF copies = 0 THEN misses + 1 ELSE 0
  /\ flight' = IF copies = 0 THEN flight ELSE flight \cup {[age |-> 0, left |-> copies]}
  /\ since' = 0
  /\ due' = Period

\* DiscoveryService::start announces at once; not twice in the same second.
Start ==
  /\ ~alive /\ \A d \in flight : d.age > 0
  /\ alive' = TRUE /\ uptime' = 0 /\ heard' = FALSE
  /\ \E copies \in 0 .. 2 : Sends(copies)
  /\ UNCHANGED <<skew, known, age, linked, online, sweepDue>>

\* The timer fires once.
OnTick_OnceBug ==
  /\ alive /\ due = 0
  /\ due' = Period
  /\ UNCHANGED <<skew, alive, misses, flight, since, uptime, receiverVars>>

OnTick ==
  /\ alive /\ due = 0
  /\ \E copies \in 0 .. 2 : Sends(copies)
  /\ UNCHANGED <<skew, alive, uptime, receiverVars>>

\* It stops, in whatever way.  The bye it may send can only end a link.
Stop ==
  /\ alive
  /\ alive' = FALSE
  /\ UNCHANGED <<skew, due, misses, flight, since, uptime, receiverVars>>
-----------------------------------------------------------------------------
(* Our side *)

\* lastSeen is the time of arrival.
SeenAge_ArrivalBug(d) == 0

\* lastSeen is the ts of the announcement, by the sender's clock.
SeenAge(d) == d.age - skew

\* handleDatagram, onPeerAnnounced, upsertPeerFromAnnounce: lastSeen is taken
\* over as it is, even from an announcement older than the last.
OnPeerAnnounced(d) ==
  /\ flight' = (flight \ {d}) \cup
                 (IF d.left = 2 THEN {[d EXCEPT !.left = 1]} ELSE {})
  /\ known' = TRUE
  /\ age' = SeenAge(d)
  /\ heard' = (heard \/ (alive /\ d.age <= uptime))
  /\ UNCHANGED <<skew, senderVars, linked, online, sweepDue>>

\* onLinkReady: lastSeen is our own time.
OnLinkReady ==
  /\ alive /\ ~linked
  /\ known' = TRUE /\ age' = 0 /\ since' = 0 /\ heard' = TRUE
  /\ linked' = TRUE /\ online' = TRUE
  /\ UNCHANGED <<skew, alive, due, misses, uptime, flight, sweepDue>>

\* onLinkDisconnected, at any time; a peer that is gone may leave its link open.
OnLinkDisconnected ==
  /\ linked
  /\ linked' = FALSE /\ online' = FALSE
  /\ UNCHANGED <<skew, senderVars, flight, known, age, heard, sweepDue>>

\* linked || freshAnnounce.
Present == known /\ (linked \/ age <= Timeout)

\* A bit that goes from TRUE to FALSE here is logged as peer_lost; the end of a link
\* clears it without an entry.  After a link has ended the sweep sets it again, as
\* long as lastSeen is within the timeout.
OnSweep ==
  /\ sweepDue = 0
  /\ sweepDue' = SweepInterval
  /\ online' = Present
  /\ UNCHANGED <<skew, senderVars, flight, known, age, heard, linked>>

\* Our own process starts again: the row keeps lastSeen, no bit is set.
Restart ==
  /\ linked' = FALSE /\ online' = FALSE
  /\ sweepDue' = SweepInterval
  /\ UNCHANGED <<skew, senderVars, flight, known, age, heard>>
-----------------------------------------------------------------------------
\* A second passes.  Timers that are due and datagrams that have come the
\* longest way go first.
Second ==
  /\ alive => due > 0
  /\ sweepDue > 0
  /\ \A d \in flight : d.age < MaxDelay
  /\ due' = IF alive THEN due - 1 ELSE due
  /\ sweepDue' = sweepDue - 1
  /\ flight' = {[d EXCEPT !.age = @ + 1] : d \in flight}
  /\ age' = age + 1 /\ since' = since + 1 /\ uptime' = uptime + 1
  /\ UNCHANGED <<skew, alive, misses, known, heard, linked, online>>

Next ==
  \/ Start \/ OnTick \/ Stop
  \/ \E d \in flight : OnPeerAnnounced(d)
  \/ OnLinkReady \/ OnLinkDisconnected \/ OnSweep \/ Restart
  \/ Second

Spec == Init /\ [][Next]_vars
-----------------------------------------------------------------------------
(* Properties *)

Announcement == [age : 0 .. MaxDelay, left : {1, 2}]

PresenceTypeOK ==
  /\ skew \in MinSkew .. MaxSkew
  /\ alive \in BOOLEAN /\ known \in BOOLEAN /\ heard \in BOOLEAN
  /\ linked \in BOOLEAN /\ online \in BOOLEAN
  /\ due \in 0 .. Period /\ sweepDue \in 0 .. Sweep /\ misses \in 0 .. MaxMiss
  /\ flight \subseteq Announcement
  /\ since \in Nat /\ uptime \in Nat /\ age \in Int

\* How far the peer's clock is ahead of ours.
Ahead == IF skew > 0 THEN skew ELSE 0

\* Once a peer has no link, its bit does not outlast its last sign of life by more
\* than the timeout and one sweep: an entry peer_lost comes by then or not at
\* all.  Announcements that arrive late, twice or out of order do not put it off,
\* only a clock ahead of ours does.
LostInTime == online /\ ~linked => since <= Timeout + Sweep + Ahead

\* No running peer is logged as lost, once it has been heard: not for missed, late
\* or reordered announcements, and not after the end of its link, as long as its
\* clock is no further behind ours than the timeout allows for.
NeverLost == [][OnSweep /\ online /\ ~online' => ~(alive /\ heard)]_vars
=============================================================================
