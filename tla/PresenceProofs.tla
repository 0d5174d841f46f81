--------------------------- MODULE PresenceProofs ---------------------------
(***************************************************************************)
(* What TLAPS proves of Presence, for any periods, delays, losses and      *)
(* difference of the clocks that PresenceAssumption allows.                *)
(***************************************************************************)
EXTENDS Presence, TLAPS

\* The longest time until an announcement is sent that will arrive, after the one
\* that is due, when m in a row did not.
Missable(m) == Period * (MaxMiss - m)

\* A miss brings the end of the misses one period closer.
LEMMA MissesRunOut ==
  ASSUME NEW m \in 0 .. MaxMiss
  PROVE  /\ Missable(m) \in Nat /\ Missable(m) <= Missable(0)
         /\ m < MaxMiss => Missable(m) = Missable(m + 1) + Period
<1>1. Period \in Nat /\ MaxMiss \in Nat /\ MaxMiss - m \in Nat /\ m \in Nat
  BY PresenceAssumption
<1>2. \A i, j \in Nat : i * j \in Nat
  OBVIOUS
<1>3. \A i, j \in Nat, n \in Int : n * (i + j) = n * i + n * j
  OBVIOUS
<1>4. Period * MaxMiss = Period * (MaxMiss - m) + Period * m
  <2>1. MaxMiss = (MaxMiss - m) + m
    BY <1>1
  <2> QED
    BY <1>1, <1>3, <2>1
<1>5. m < MaxMiss => Period * (MaxMiss - m) = Period * (MaxMiss - (m + 1)) + Period * 1
  <2>1. m < MaxMiss => MaxMiss - (m + 1) \in Nat /\ MaxMiss - m = (MaxMiss - (m + 1)) + 1
    BY <1>1
  <2> QED
    BY <1>1, <1>3, <2>1
<1>6. Period * (MaxMiss - m) \in Nat /\ Period * m \in Nat
  BY <1>1, <1>2
<1>7. MaxMiss - 0 = MaxMiss /\ Period * 1 = Period
  BY <1>1
<1> QED
  BY <1>4, <1>5, <1>6, <1>7 DEF Missable

\* An announcement that has just arrived, however late and however far the
\* sender's clock is behind, leaves time for the next that arrives.
LEMMA TimeoutOutlastsDelay ==
  /\ Timeout \in Nat /\ Sweep \in Nat \ {0} /\ Period \in Nat \ {0}
  /\ MaxDelay \in Nat /\ MaxMiss \in Nat /\ MinSkew \in Int /\ MaxSkew \in Int
  /\ Missable(0) \in Nat /\ Timeout >= Period + Missable(0) + 2 * MaxDelay - MinSkew
  /\ MinSkew <= 0 /\ Timeout >= MaxDelay - MinSkew
<1>1. 0 \in 0 .. MaxMiss
  BY PresenceAssumption
<1>2. Missable(0) \in Nat
  BY <1>1, MissesRunOut
<1>3. Period * (MaxMiss + 1) = Period + Missable(0)
  <2>1. \A i \in Nat, n \in Nat : n * (i + 1) = n + n * i
    OBVIOUS
  <2>2. MaxMiss - 0 = MaxMiss
    BY PresenceAssumption
  <2> QED
    BY <2>1, <2>2, PresenceAssumption DEF Missable
<1> QED
  BY <1>2, <1>3, PresenceAssumption

LEMMA TypeStep ==
  ASSUME PresenceTypeOK, [Next]_vars
  PROVE  PresenceTypeOK'
<1> USE TimeoutOutlastsDelay DEF PresenceTypeOK
<1>1. ASSUME NEW copies \in 0 .. 2, Sends(copies)
      PROVE  /\ misses' \in 0 .. MaxMiss /\ flight' \subseteq Announcement
             /\ since' \in Nat /\ due' \in 0 .. Period
  BY <1>1 DEF Sends, Announcement
<1>2. CASE Start
  BY <1>1, <1>2 DEF Start
<1>3. CASE OnTick
  BY <1>1, <1>3 DEF OnTick, receiverVars
<1>4. CASE Stop
  BY <1>4 DEF Stop, receiverVars
<1>5. ASSUME NEW d \in flight, OnPeerAnnounced(d)
      PROVE  PresenceTypeOK'
  <2>1. d \in Announcement
    OBVIOUS
  <2>2. flight' \subseteq Announcement
    BY <1>5, <2>1 DEF OnPeerAnnounced, Announcement
  <2>3. age' \in Int
    BY <1>5, <2>1 DEF OnPeerAnnounced, SeenAge, Announcement
  <2> QED
    BY <1>5, <2>2, <2>3 DEF OnPeerAnnounced, senderVars
<1>6. CASE OnLinkReady
  BY <1>6 DEF OnLinkReady
<1>7. CASE OnLinkDisconnected
  BY <1>7 DEF OnLinkDisconnected, senderVars
<1>8. CASE OnSweep
  BY <1>8 DEF OnSweep, Present, SweepInterval, senderVars
<1>9. CASE Restart
  <2>1. linked' \in BOOLEAN /\ online' \in BOOLEAN
    BY <1>9, Zenon DEF Restart
  <2>2. sweepDue' \in 0 .. Sweep
    BY <1>9 DEF Restart, SweepInterval
  <2>3. UNCHANGED <<skew, senderVars, flight, known, age, heard>>
    BY <1>9 DEF Restart
  <2> QED
    BY <2>1, <2>2, <2>3 DEF senderVars
<1>10. CASE Second
  <2>1. flight' \subseteq Announcement
    BY <1>10 DEF Second, Announcement
  <2>2. due' \in 0 .. Period /\ sweepDue' \in 0 .. Sweep
    BY <1>10 DEF Second
  <2>3. since' \in Nat /\ uptime' \in Nat /\ age' \in Int
    BY <1>10 DEF Second
  <2>4. UNCHANGED <<skew, alive, misses, known, heard, linked, online>>
    BY <1>10 DEF Second
  <2> QED
    BY <2>1, <2>2, <2>3, <2>4
<1>11. CASE UNCHANGED vars
  BY <1>11 DEF vars, senderVars, receiverVars
<1> QED
  BY <1>2, <1>3, <1>4, <1>5, <1>6, <1>7, <1>8, <1>9, <1>10, <1>11 DEF Next

LEMMA TypeInit == Init => PresenceTypeOK
<1> SUFFICES ASSUME Init PROVE PresenceTypeOK
  OBVIOUS
<1>1. alive \in BOOLEAN /\ known \in BOOLEAN /\ heard \in BOOLEAN /\ linked \in BOOLEAN /\ online \in BOOLEAN
  BY Zenon DEF Init
<1>2. /\ skew \in MinSkew .. MaxSkew /\ due \in 0 .. Period /\ sweepDue \in 0 .. Sweep
      /\ misses \in 0 .. MaxMiss /\ flight = {}
      /\ since \in Nat /\ uptime \in Nat /\ age \in Int
  BY TimeoutOutlastsDelay DEF Init, SweepInterval
<1> QED
  BY <1>1, <1>2 DEF PresenceTypeOK

\* Every clock stays a number in its range, and no announcement is under way
\* longer than MaxDelay.
THEOREM PresenceTypeCorrect == Spec => []PresenceTypeOK
  BY TypeInit, TypeStep, PTL DEF Spec
-----------------------------------------------------------------------------
(* LostInTime *)

\* What is under way was sent no later than the peer's last announcement.
Sent == \A d \in flight : since <= d.age

\* lastSeen is not later than the last sign of the peer, but for its clock.
SeenNotAfter == known => since <= age + Ahead

\* The bit of a peer without a link was set by a sweep that found lastSeen fresh.
SweptSince == online /\ ~linked => known /\ age <= Timeout + (Sweep - sweepDue)

PresenceInv == PresenceTypeOK /\ Sent /\ SeenNotAfter /\ SweptSince

LEMMA InvStep ==
  ASSUME PresenceInv, [Next]_vars
  PROVE  PresenceInv'
<1>1. PresenceTypeOK /\ PresenceTypeOK'
  BY TypeStep DEF PresenceInv
<1> USE TimeoutOutlastsDelay, <1>1 DEF PresenceTypeOK
<1>2. Ahead \in Nat /\ skew <= Ahead /\ MinSkew <= skew
  BY DEF Ahead
<1>3. ASSUME NEW d \in flight PROVE d.age \in 0 .. MaxDelay
  BY DEF Announcement
<1>4. ASSUME NEW copies \in 0 .. 2, Sends(copies), UNCHANGED <<skew, known, age, linked, online, sweepDue>>
      PROVE  PresenceInv'
  <2>1. Sent'
    BY <1>3, <1>4 DEF Sent, Sends
  <2>2. SeenNotAfter'
    BY <1>2, <1>4 DEF Sends, SeenNotAfter, PresenceInv, Ahead
  <2>3. SweptSince'
    BY <1>4 DEF SweptSince, PresenceInv
  <2> QED
    BY <2>1, <2>2, <2>3 DEF PresenceInv
<1>5. CASE Start \/ OnTick
  BY <1>4, <1>5 DEF Start, OnTick, receiverVars
<1>6. CASE Stop
  BY <1>6 DEF Stop, receiverVars, PresenceInv, Sent, SeenNotAfter, SweptSince, Ahead
<1>7. ASSUME NEW d \in flight, OnPeerAnnounced(d)
      PROVE  PresenceInv'
  <2>1. age' = d.age - skew /\ UNCHANGED <<skew, since, linked, online, sweepDue>> /\ known'
    BY <1>7 DEF OnPeerAnnounced, SeenAge, senderVars
  <2>2. since <= d.age
    BY DEF PresenceInv, Sent
  <2>3. Sent'
    <3>1. \A e \in flight' : e \in flight \/ e.age = d.age
      BY <1>7 DEF OnPeerAnnounced, Announcement
    <3> QED
      BY <2>1, <2>2, <3>1 DEF PresenceInv, Sent
  <2>4. SeenNotAfter'
    BY <1>2, <1>3, <2>1, <2>2 DEF SeenNotAfter, Ahead
  <2>5. SweptSince'
    BY <1>2, <1>3, <2>1 DEF SweptSince
  <2> QED
    BY <2>3, <2>4, <2>5 DEF PresenceInv
<1>8. CASE OnLinkReady
  <2>1. Sent'
    BY <1>3, <1>8 DEF OnLinkReady, Sent
  <2> QED
    BY <1>2, <1>8, <2>1 DEF OnLinkReady, PresenceInv, SeenNotAfter, SweptSince, Ahead
<1>9. CASE OnLinkDisconnected \/ Restart
  BY <1>9 DEF OnLinkDisconnected, Restart, senderVars, PresenceInv, Sent, SeenNotAfter, SweptSince, Ahead
<1>10. CASE OnSweep
  BY <1>10 DEF OnSweep, Present, SweepInterval, senderVars, PresenceInv, Sent, SeenNotAfter, SweptSince, Ahead
<1>11. CASE Second
  <2>1. Sent'
    BY <1>3, <1>11 DEF Second, PresenceInv, Sent, Announcement
  <2>2. SeenNotAfter'
    BY <1>2, <1>11 DEF Second, PresenceInv, SeenNotAfter, Ahead
  <2>3. SweptSince'
    BY <1>11 DEF Second, PresenceInv, SweptSince
  <2> QED
    BY <2>1, <2>2, <2>3 DEF PresenceInv
<1>12. CASE UNCHANGED vars
  BY <1>12 DEF vars, senderVars, receiverVars, PresenceInv, Sent, SeenNotAfter, SweptSince, Ahead
<1> QED
  BY <1>5, <1>6, <1>7, <1>8, <1>9, <1>10, <1>11, <1>12 DEF Next

\* onSweep logs a peer that is gone as lost in time or not at all, whatever was
\* lost, late, twice or out of order, and however wrong its clock is.
THEOREM GoneIsLostInTime == Spec => []LostInTime
<1>1. Init => PresenceInv
  BY TypeInit DEF Init, PresenceInv, Sent, SeenNotAfter, SweptSince
<1>2. PresenceInv => LostInTime
  <2> SUFFICES ASSUME PresenceInv, online, ~linked
               PROVE  since <= Timeout + Sweep + Ahead
    BY DEF LostInTime
  <2>1. Ahead \in Nat
    BY TimeoutOutlastsDelay DEF PresenceInv, PresenceTypeOK, Ahead
  <2> QED
    BY <2>1, TimeoutOutlastsDelay DEF PresenceInv, PresenceTypeOK, SeenNotAfter, SweptSince
<1> QED
  BY <1>1, <1>2, InvStep, PTL DEF Spec
-----------------------------------------------------------------------------
(* NeverLost *)

\* A running peer that was heard is heard again before the timeout: by an
\* announcement that is under way, or by the first that will not be missed.
NextInTime ==
  \/ \E d \in flight : age + (MaxDelay - d.age) <= Timeout
  \/ age + due + Missable(misses) + MaxDelay <= Timeout

NewsInv == PresenceTypeOK /\ (alive /\ heard => known /\ NextInTime)

LEMMA NewsStep ==
  ASSUME NewsInv, [Next]_vars
  PROVE  NewsInv'
<1>1. PresenceTypeOK /\ PresenceTypeOK'
  BY TypeStep DEF NewsInv
<1> SUFFICES ASSUME alive', heard' PROVE known' /\ NextInTime'
  BY <1>1 DEF NewsInv
<1> USE TimeoutOutlastsDelay DEF PresenceTypeOK
<1>2. /\ Missable(misses) \in Nat /\ Missable(misses) <= Missable(0)
      /\ misses < MaxMiss => Missable(misses) = Missable(misses + 1) + Period
  BY <1>1, MissesRunOut
<1>3. ASSUME NEW d \in flight PROVE d.age \in 0 .. MaxDelay
  BY <1>1 DEF Announcement
<1>4. CASE OnTick
  <2>1. alive /\ heard /\ known /\ NextInTime /\ due = 0 /\ UNCHANGED <<age, known>>
    BY <1>4 DEF OnTick, receiverVars, NewsInv
  <2>2. PICK copies \in 0 .. 2 : Sends(copies)
    BY <1>4 DEF OnTick
  <2>3. flight \subseteq flight'
    BY <2>2 DEF Sends
  <2>4. CASE \E d \in flight : age + (MaxDelay - d.age) <= Timeout
    BY <2>1, <2>3, <2>4 DEF NextInTime
  <2>5. CASE age + due + Missable(misses) + MaxDelay <= Timeout
    <3>1. CASE copies = 0
      <4>1. misses < MaxMiss /\ misses' = misses + 1 /\ due' = Period
        BY <2>2, <3>1 DEF Sends
      <4>2. Missable(misses) = Missable(misses') + Period
        BY <1>2, <4>1
      <4>3. Missable(misses') \in Nat
        BY <1>1, MissesRunOut
      <4> QED
        BY <1>1, <2>1, <2>5, <4>1, <4>2, <4>3 DEF NextInTime
    <3>2. CASE copies # 0
      <4>1. [age |-> 0, left |-> copies] \in flight'
        BY <2>2, <3>2 DEF Sends
      <4>2. age' + (MaxDelay - 0) <= Timeout
        BY <1>1, <1>2, <2>1, <2>5
      <4> QED
        BY <2>1, <4>1, <4>2 DEF NextInTime
    <3> QED
      BY <3>1, <3>2
  <2> QED
    BY <2>1, <2>4, <2>5 DEF NextInTime
<1>5. ASSUME NEW d \in flight, OnPeerAnnounced(d)
      PROVE  known' /\ NextInTime'
  <2>1. known' /\ age' = d.age - skew /\ UNCHANGED <<due, misses>>
    BY <1>5 DEF OnPeerAnnounced, SeenAge, senderVars
  <2> QED
    BY <1>1, <1>2, <1>3, <2>1 DEF NextInTime
<1>6. CASE OnLinkReady
  <2>1. known' /\ age' = 0 /\ UNCHANGED <<due, misses>>
    BY <1>6 DEF OnLinkReady
  <2> QED
    BY <1>1, <1>2, <2>1 DEF NextInTime
<1>7. CASE Start \/ Stop
  BY <1>7 DEF Start, Stop
<1>8. CASE OnLinkDisconnected \/ Restart \/ OnSweep \/ UNCHANGED vars
  BY <1>8 DEF OnLinkDisconnected, Restart, OnSweep, vars, senderVars, receiverVars, NewsInv, NextInTime
<1>9. CASE Second
  <2>1. alive /\ heard /\ known /\ NextInTime /\ known'
    BY <1>9 DEF Second, NewsInv
  <2>2. age' = age + 1 /\ due' = due - 1 /\ misses' = misses
    BY <1>9, <2>1 DEF Second
  <2>3. ASSUME NEW d \in flight, age + (MaxDelay - d.age) <= Timeout
        PROVE  \E e \in flight' : age' + (MaxDelay - e.age) <= Timeout
    <3>1. [d EXCEPT !.age = @ + 1] \in flight'
      BY <1>9 DEF Second
    <3>2. [d EXCEPT !.age = @ + 1].age = d.age + 1
      BY <1>1 DEF Announcement
    <3>3. age' + (MaxDelay - (d.age + 1)) <= Timeout
      <4>1. d.age \in Int /\ age \in Int
        BY <1>1, <1>3
      <4> QED
        BY <2>2, <2>3, <4>1
    <3> QED
      BY <3>1, <3>2, <3>3
  <2>4. CASE age + due + Missable(misses) + MaxDelay <= Timeout
    BY <1>1, <1>2, <2>1, <2>2, <2>4 DEF NextInTime
  <2> QED
    BY <2>1, <2>3, <2>4 DEF NextInTime
<1> QED
  BY <1>4, <1>5, <1>6, <1>7, <1>8, <1>9 DEF Next

\* onSweep logs no running peer as lost: its announcements, however late, doubled,
\* reordered and, up to MaxMiss in a row, missed, keep its bit set, or have the next
\* sweep set it after the end of a link.
THEOREM RunningIsNotLost == Spec => NeverLost
<1>1. Init => NewsInv
  BY TypeInit DEF Init, NewsInv
<1>2. NewsInv /\ [Next]_vars => [OnSweep /\ online /\ ~online' => ~(alive /\ heard)]_vars
  <2> SUFFICES ASSUME NewsInv, OnSweep, alive, heard PROVE online'
    OBVIOUS
  <2>1. PresenceTypeOK /\ known /\ NextInTime
    BY DEF NewsInv
  <2>2. age <= Timeout
    <3>1. \A d \in flight : d.age \in 0 .. MaxDelay
      BY <2>1 DEF PresenceTypeOK, Announcement
    <3>2. Missable(misses) \in Nat
      BY <2>1, MissesRunOut DEF PresenceTypeOK
    <3> QED
      BY <2>1, <3>1, <3>2, TimeoutOutlastsDelay DEF PresenceTypeOK, NextInTime
  <2> QED
    BY <2>1, <2>2 DEF OnSweep, Present
<1> QED
  BY <1>1, <1>2, NewsStep, PTL DEF Spec, NeverLost
=============================================================================
