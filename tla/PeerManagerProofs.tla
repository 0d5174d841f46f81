------------------------ MODULE PeerManagerProofs ------------------------
(***************************************************************************)
(* What TLAPS proves of PeerManager, for any number of peers, fingerprints *)
(* and links.                                                              *)
(***************************************************************************)
EXTENDS PeerManager, TLAPS

\* The effect of one step by the part of the code that runs: the disjuncts of
\* Next with their parameters named, for the case splits below.
LEMMA NextCases ==
  ASSUME Next
  PROVE  \/ \E l \in Link : ConnectTo(l)
         \/ \E l \in Link : OnIncomingSocket(l)
         \/ \E l \in Link : OnConnected(l)
         \/ \E l \in Link : OnLinkDisconnected(l)
         \/ \E l \in Link : DeleteDeferred(l)
         \/ \E l \in Link : /\ lstate[l] = "HandshakingOut"
                            /\ lstate' = AfterClose(lstate, l)
                            /\ UNCHANGED <<peerVars, fresh, online, links, linkToPeer,
                                           pending, doomed, asks>>
         \/ \E l \in Link : lstate[l] \in Handshaking /\ RefuseSelf(l)
         \/ \E l \in Link, p \in Peer, f \in Fp :
               lstate[l] \in Handshaking /\ RefuseBlocked(l, p, f)
         \/ \E l \in Link, p \in Peer, f \in Fp :
               lstate[l] \in Handshaking /\ Admit(l, p, f)
         \/ \E p \in Peer, f \in Fp, isFresh \in BOOLEAN : OnPeerAnnounced(p, f, isFresh)
         \/ \E p \in Peer : CloseLinkOf(p)
         \/ \E p \in Peer : Expire(p)
         \/ \E p \in Peer : Trust(p)
         \/ \E p \in Peer : Block(p)
         \/ \E l \in Link, p \in Peer, f \in Fp : CrashInDemotion(l, p, f)
         \/ \E a \in asks : EmitTrustPrompt(a)
         \/ OnSweep
         \/ Restart
  BY DEF Next, User, Handshake, HandshakeAbort, HelloReceived, HelloAckReceived,
         OnLinkReady, Handshaking
-----------------------------------------------------------------------------
(* Type correctness *)

\* What LearnedTrust yields is a trust state, never "Absent".
LEMMA LearnedTrustType ==
  ASSUME TypeOK, NEW p \in Peer, NEW f \in Fp
  PROVE  /\ LearnedTrust(p, f) \in TrustState \ {"Absent"}
         /\ LearnedDbTrust(p, f) \in TrustState
  BY DEF TypeOK, LearnedTrust, LearnedDbTrust, TrustState

LEMMA AfterCloseType ==
  ASSUME NEW states \in [Link -> LinkState], NEW l \in Link
  PROVE  AfterClose(states, l) \in [Link -> LinkState]
  BY DEF AfterClose, LinkState

LEMMA TypeStep ==
  ASSUME TypeOK, [Next]_vars
  PROVE  TypeOK'
<1> USE ConstantsAssumption
<1>1. ASSUME NEW l \in Link, NEW state \in LinkState, Create(l, state)
      PROVE  /\ lstate' \in [Link -> LinkState] /\ pending' \subseteq Link
             /\ UNCHANGED <<links, linkToPeer, doomed>>
  BY <1>1 DEF TypeOK, Create
<1>2. CASE \E l \in Link : ConnectTo(l) \/ OnIncomingSocket(l)
  <2>1. PICK l \in Link : Create(l, "Connecting") \/ Create(l, "HandshakingIn")
    BY <1>2 DEF ConnectTo, OnIncomingSocket
  <2> QED
    BY <1>1, <1>2, <2>1 DEF TypeOK, ConnectTo, OnIncomingSocket, LinkState, peerVars
<1>3. ASSUME NEW l \in Link, OnConnected(l)
      PROVE  TypeOK'
  BY <1>3 DEF TypeOK, OnConnected, LinkState, peerVars
<1>4. ASSUME NEW l \in Link, OnLinkDisconnected(l)
      PROVE  TypeOK'
  BY <1>4 DEF TypeOK, OnLinkDisconnected, Forget, LinkState, peerVars
<1>5. ASSUME NEW l \in Link, DeleteDeferred(l)
      PROVE  TypeOK'
  BY <1>5 DEF TypeOK, DeleteDeferred, LinkState, peerVars
<1>6. ASSUME NEW l \in Link, lstate' = AfterClose(lstate, l),
             UNCHANGED <<peerVars, fresh, online, links, linkToPeer, pending, doomed, asks>>
      PROVE  TypeOK'
  BY <1>6, AfterCloseType DEF TypeOK, peerVars
<1>7. ASSUME NEW l \in Link, RefuseSelf(l)
      PROVE  TypeOK'
  BY <1>7 DEF TypeOK, RefuseSelf, LinkState, peerVars
<1>8. ASSUME NEW p \in Peer, NEW f \in Fp, Learn(p, f)
      PROVE  /\ trust' \in [Peer -> TrustState] /\ dbTrust' \in [Peer -> TrustState]
             /\ fp' \in [Peer -> Fp \cup {None}] /\ dbFp' \in [Peer -> Fp \cup {None}]
             /\ fresh' \in [Peer -> BOOLEAN]
  BY <1>8, LearnedTrustType DEF TypeOK, Learn
<1>9. ASSUME NEW l \in Link, NEW p \in Peer, NEW f \in Fp, RefuseBlocked(l, p, f)
      PROVE  TypeOK'
  BY <1>8, <1>9 DEF TypeOK, RefuseBlocked, LinkState
<1>10. ASSUME NEW l \in Link, NEW p \in Peer, NEW f \in Fp, Admit(l, p, f)
       PROVE  TypeOK'
  <2>1. /\ Learn(p, f)
        /\ lstate' = ReplacedState([lstate EXCEPT ![l] = "Ready"], links[p])
    BY <1>10 DEF Admit
  <2>2. links[p] = None \/ links[p] \in Link
    BY DEF TypeOK
  <2>3. [lstate EXCEPT ![l] = "Ready"] \in [Link -> LinkState]
    BY DEF TypeOK, LinkState
  <2>4. lstate' \in [Link -> LinkState]
    BY <2>1, <2>2, <2>3, AfterCloseType DEF ReplacedState
  <2>5. linkToPeer' \in [Link -> Peer \cup {None}]
    BY <1>10 DEF TypeOK, Admit, Reassigned
  <2>6. /\ links' \in [Peer -> Link \cup {None}] /\ online' \in [Peer -> BOOLEAN]
        /\ pending' \subseteq Link /\ doomed' \subseteq Link
    BY <1>10, <2>2 DEF TypeOK, Admit, Replaced
  <2>7. asks' \subseteq Ask
    BY <1>10 DEF TypeOK, Admit, Ask
  <2> QED
    BY <1>8, <2>1, <2>4, <2>5, <2>6, <2>7 DEF TypeOK
<1>11. ASSUME NEW p \in Peer, NEW f \in Fp, NEW isFresh \in BOOLEAN, OnPeerAnnounced(p, f, isFresh)
       PROVE  TypeOK'
  <2>1. /\ trust' \in [Peer -> TrustState] /\ dbTrust' \in [Peer -> TrustState]
        /\ fp' \in [Peer -> Fp \cup {None}] /\ dbFp' \in [Peer -> Fp \cup {None}]
        /\ fresh' \in [Peer -> BOOLEAN]
    BY <1>11 DEF TypeOK, OnPeerAnnounced, UpsertPeerFromAnnounce, TrustState, peerVars
  <2>2. /\ lstate' \in [Link -> LinkState] /\ pending' \subseteq Link
        /\ UNCHANGED <<links, linkToPeer, doomed>>
    BY <1>1, <1>11 DEF TypeOK, OnPeerAnnounced, LinkState, linkVars
  <2> QED
    BY <1>11, <2>1, <2>2 DEF TypeOK, OnPeerAnnounced
<1>12. ASSUME NEW p \in Peer, CloseLinkOf(p)
       PROVE  TypeOK'
  BY <1>6, <1>12 DEF TypeOK, CloseLinkOf
<1>13. ASSUME NEW p \in Peer, Expire(p)
       PROVE  TypeOK'
  BY <1>13 DEF TypeOK, Expire, peerVars, linkVars
<1>14. ASSUME NEW p \in Peer, Trust(p)
       PROVE  TypeOK'
  BY <1>14 DEF TypeOK, Trust, SetTrust, TrustState, linkVars
<1>15. ASSUME NEW p \in Peer, Block(p)
       PROVE  TypeOK'
  <2>1. lstate' \in [Link -> LinkState]
    BY <1>15, AfterCloseType DEF TypeOK, Block
  <2> QED
    BY <1>15, <2>1 DEF TypeOK, Block, SetTrust, TrustState
<1>16. ASSUME NEW dbt \in [Peer -> TrustState], NEW dbf \in [Peer -> Fp \cup {None}],
              ReloadedFrom(dbt, dbf)
       PROVE  TypeOK'
  BY <1>16 DEF TypeOK, ReloadedFrom, LinkState
<1>17. ASSUME NEW l \in Link, NEW p \in Peer, NEW f \in Fp, CrashInDemotion(l, p, f)
       PROVE  TypeOK'
  <2>1. [dbTrust EXCEPT ![p] = "Unknown"] \in [Peer -> TrustState]
    BY DEF TypeOK, TrustState
  <2> QED
    BY <1>16, <1>17, <2>1 DEF TypeOK, CrashInDemotion
<1>18. CASE Restart
  BY <1>16, <1>18 DEF TypeOK, Restart
<1>19. ASSUME NEW a \in asks, EmitTrustPrompt(a)
       PROVE  TypeOK'
  BY <1>19 DEF TypeOK, EmitTrustPrompt, peerVars, linkVars
<1>20. CASE OnSweep
  BY <1>20 DEF TypeOK, OnSweep, peerVars, linkVars, Known
<1>21. CASE UNCHANGED vars
  BY <1>21 DEF TypeOK, vars, peerVars, linkVars
<1> QED
  BY NextCases, <1>2, <1>3, <1>4, <1>5, <1>6, <1>7, <1>9, <1>10, <1>11, <1>12, <1>13,
     <1>14, <1>15, <1>17, <1>18, <1>19, <1>20, <1>21

\* Every variable keeps its type, for any constants.
THEOREM TypeCorrect == Spec => []TypeOK
<1>1. Init => TypeOK
  BY DEF Init, TypeOK, TrustState, LinkState, Ask
<1>2. TypeOK /\ [Next]_vars => TypeOK'
  BY TypeStep
<1> QED
  BY <1>1, <1>2, PTL DEF Spec
-----------------------------------------------------------------------------
(* The inductive invariant.  Two facts the properties do not say are needed: *)
(* a linked peer is in the cache, and (by NoLeak and DoomedClosed) a link in *)
(* the handshake is pending.                                                 *)

LinkedKnown == \A p \in Peer : links[p] # None => Known(p)

Tables == LinkTables /\ NoDangling /\ NoLeak /\ DoomedClosed

Inv == TypeOK /\ Tables /\ CachePersisted /\ LinkedKnown /\ LinkedOnline /\ BlockedCut

\* A link in the handshake is pending and serves nobody.
LEMMA HandshakingPending ==
  ASSUME TypeOK, Tables, NEW l \in Link, lstate[l] \in Handshaking
  PROVE  /\ l \in pending /\ l \notin doomed /\ linkToPeer[l] = None
         /\ \A p \in Peer : links[p] # l
  BY ConstantsAssumption DEF Tables, TypeOK, LinkTables, NoLeak, DoomedClosed, Handshaking

\* A peer's link is live, out of m_pendingLinks, and its own.
LEMMA Serving ==
  ASSUME TypeOK, Tables, NEW p \in Peer, links[p] # None
  PROVE  /\ links[p] \in Link /\ linkToPeer[links[p]] = p
         /\ links[p] \notin pending /\ links[p] \notin doomed
         /\ lstate[links[p]] \in {"Ready", "Closing"}
         /\ \A q \in Peer : links[q] = links[p] => q = p
  BY ConstantsAssumption DEF Tables, TypeOK, LinkTables, NoDangling, NoLeak

(* The tables under each operation on links *)

LEMMA TablesUnchanged ==
  ASSUME Tables, UNCHANGED linkVars
  PROVE  Tables'
  BY DEF Tables, LinkTables, NoDangling, NoLeak, DoomedClosed, linkVars

LEMMA TablesCreate ==
  ASSUME TypeOK, Tables, NEW l \in Link, NEW state \in Handshaking, Create(l, state)
  PROVE  Tables'
<1> USE ConstantsAssumption
<1>1. /\ lstate[l] = "Free" /\ linkToPeer[l] = None /\ l \notin doomed
      /\ \A p \in Peer : links[p] # l
  BY DEF Create, Tables, NoDangling, DoomedClosed
<1>2. LinkTables'
  BY DEF Create, Tables, LinkTables
<1>3. NoDangling'
  BY <1>1 DEF Create, Tables, NoDangling, TypeOK, Handshaking
<1>4. NoLeak'
  BY <1>1 DEF Create, Tables, NoLeak, TypeOK, Handshaking
<1>5. DoomedClosed'
  BY <1>1 DEF Create, Tables, DoomedClosed, TypeOK
<1> QED
  BY <1>2, <1>3, <1>4, <1>5 DEF Tables

\* close() on a link that serves, or on one in the handshake.
LEMMA TablesClose ==
  ASSUME TypeOK, Tables, NEW l \in Link, lstate[l] # "Free",
         lstate' = [lstate EXCEPT ![l] = "Closing"] \/ lstate' = AfterClose(lstate, l),
         UNCHANGED <<links, linkToPeer, pending, doomed>>
  PROVE  Tables'
<1>1. \A k \in Link : k # l => lstate'[k] = lstate[k]
  BY DEF TypeOK, AfterClose
<1>2. lstate'[l] \in {"Closing", "Closed"}
  BY DEF TypeOK, AfterClose
<1>3. l \notin doomed => lstate[l] # "Closed" \/ l \in pending
  BY DEF Tables, NoLeak
<1>4. lstate'[l] = "Closed" => lstate[l] = "Closed"
  BY DEF TypeOK, AfterClose
<1>5. LinkTables'
  BY DEF Tables, LinkTables
<1>6. NoDangling'
  BY <1>1, <1>2 DEF Tables, NoDangling
<1>7. NoLeak'
  BY <1>1, <1>2, <1>3, <1>4 DEF Tables, NoLeak
<1>8. DoomedClosed'
  BY <1>1, <1>2 DEF Tables, DoomedClosed, TypeOK
<1> QED
  BY <1>5, <1>6, <1>7, <1>8 DEF Tables

LEMMA TablesForget ==
  ASSUME TypeOK, Tables, NEW l \in Link, OnLinkDisconnected(l)
  PROVE  Tables'
<1> USE ConstantsAssumption
<1> DEFINE p == linkToPeer[l]
<1>1. /\ linkToPeer' = [linkToPeer EXCEPT ![l] = None]
      /\ links' = IF p = None THEN links ELSE [links EXCEPT ![p] = None]
      /\ lstate' = [lstate EXCEPT ![l] = "Closed"]
      /\ pending' = pending \ {l} /\ doomed' = doomed \cup {l}
  BY DEF OnLinkDisconnected, Forget
<1>2. \A q \in Peer : links'[q] = IF links[q] = l THEN None ELSE links[q]
  BY <1>1 DEF Tables, LinkTables, TypeOK
<1>3. \A k \in Link : linkToPeer'[k] = IF k = l THEN None ELSE linkToPeer[k]
  BY <1>1 DEF TypeOK
<1>4. \A k \in Link : lstate'[k] = IF k = l THEN "Closed" ELSE lstate[k]
  BY <1>1 DEF TypeOK
<1>5. LinkTables'
  BY <1>2, <1>3 DEF Tables, LinkTables
<1>6. NoDangling'
  BY <1>1, <1>2, <1>3, <1>4 DEF Tables, NoDangling
<1>7. NoLeak'
  BY <1>1, <1>3, <1>4 DEF Tables, NoLeak
<1>8. DoomedClosed'
  BY <1>1, <1>4 DEF Tables, DoomedClosed
<1> QED
  BY <1>5, <1>6, <1>7, <1>8 DEF Tables

LEMMA TablesDelete ==
  ASSUME TypeOK, Tables, NEW l \in Link, DeleteDeferred(l)
  PROVE  Tables'
<1>1. \A k \in Link : lstate'[k] = IF k = l THEN "Free" ELSE lstate[k]
  BY DEF TypeOK, DeleteDeferred
<1>2. LinkTables'
  BY DEF Tables, LinkTables, DeleteDeferred
<1>3. NoDangling'
  BY <1>1 DEF Tables, NoDangling, DeleteDeferred
<1>4. NoLeak'
  BY <1>1 DEF Tables, NoLeak, DeleteDeferred
<1>5. DoomedClosed'
  BY <1>1 DEF Tables, DoomedClosed, DeleteDeferred
<1> QED
  BY <1>2, <1>3, <1>4, <1>5 DEF Tables

LEMMA TablesReload ==
  ASSUME NEW dbt, NEW dbf, ReloadedFrom(dbt, dbf)
  PROVE  Tables'
  BY ConstantsAssumption
     DEF ReloadedFrom, Tables, LinkTables, NoDangling, NoLeak, DoomedClosed

\* The new link serves p; the one it replaces, if any, is closed and doomed.
LEMMA TablesAdmit ==
  ASSUME TypeOK, Tables, NEW l \in Link, NEW p \in Peer, NEW f \in Fp,
         lstate[l] \in Handshaking, Admit(l, p, f)
  PROVE  Tables'
<1> USE ConstantsAssumption
<1> DEFINE prev == links[p]
<1>1. /\ lstate' = ReplacedState([lstate EXCEPT ![l] = "Ready"], prev)
      /\ linkToPeer' = Reassigned(l, p, prev)
      /\ doomed' = doomed \cup ({prev} \ {None})
      /\ pending' = pending \ {l}
      /\ links' = [links EXCEPT ![p] = l]
  BY DEF Admit, Replaced
<1>2. /\ l \in pending /\ l \notin doomed /\ linkToPeer[l] = None
      /\ \A q \in Peer : links[q] # l
  BY HandshakingPending
<1>3. prev # None =>
        /\ prev \in Link /\ prev # l /\ linkToPeer[prev] = p /\ prev \notin pending
        /\ \A q \in Peer : links[q] = prev => q = p
  BY <1>2, Serving
<1>4. \A k \in Link : linkToPeer'[k] = IF k = l THEN p ELSE IF k = prev THEN None ELSE linkToPeer[k]
  BY <1>1 DEF Reassigned
<1>5. \A q \in Peer : links'[q] = IF q = p THEN l ELSE links[q]
  BY <1>1 DEF TypeOK
<1>6. /\ \A k \in Link : k # l /\ k # prev => lstate'[k] = lstate[k]
      /\ lstate'[l] = "Ready"
      /\ prev # None => lstate'[prev] \in {"Closing", "Closed"}
  <2>1. CASE prev = None
    BY <1>1, <2>1 DEF TypeOK, ReplacedState
  <2>2. CASE prev # None
    BY <1>1, <1>3, <2>2 DEF TypeOK, ReplacedState, AfterClose
  <2> QED
    BY <2>1, <2>2
<1>7. LinkTables'
  BY <1>2, <1>3, <1>4, <1>5 DEF Tables, LinkTables, TypeOK
<1> HIDE DEF prev
<1>8. ASSUME NEW k \in Link, lstate'[k] = "Free" \/ k \in doomed'
      PROVE  linkToPeer'[k] = None /\ k \notin pending' /\ \A q \in Peer : links'[q] # k
  <2>1. k # l
    BY <1>1, <1>2, <1>3, <1>6, <1>8
  <2>2. CASE k = prev
    BY <1>1, <1>3, <1>4, <1>5, <2>1, <2>2
  <2>3. CASE k # prev
    <3>1. lstate[k] = "Free" \/ k \in doomed
      BY <1>1, <1>6, <1>8, <2>1, <2>3
    <3>2. linkToPeer[k] = None /\ k \notin pending /\ \A q \in Peer : links[q] # k
      BY <1>2, <3>1 DEF Tables, NoDangling
    <3> QED
      BY <1>1, <1>4, <1>5, <2>1, <2>3, <3>2
  <2> QED
    BY <2>2, <2>3
<1>9. ASSUME NEW k \in Link, lstate'[k] # "Free", k \notin doomed'
      PROVE  /\ k \in pending' <=> linkToPeer'[k] = None
             /\ k \in pending' => lstate'[k] # "Ready"
             /\ k \notin pending' => lstate'[k] \in {"Ready", "Closing"}
  <2>1. CASE k = l
    BY <1>1, <1>4, <1>6, <2>1
  <2>2. CASE k # l
    <3>1. k # prev /\ k \notin doomed
      BY <1>1, <1>9
    <3>2. lstate'[k] = lstate[k] /\ linkToPeer'[k] = linkToPeer[k]
      BY <1>4, <1>6, <2>2, <3>1
    <3> QED
      BY <1>1, <1>9, <2>2, <3>1, <3>2 DEF Tables, NoLeak
  <2> QED
    BY <2>1, <2>2
<1>10. DoomedClosed'
  BY <1>1, <1>2, <1>3, <1>6 DEF Tables, DoomedClosed, TypeOK
<1> QED
  BY <1>7, <1>8, <1>9, <1>10 DEF Tables, NoDangling, NoLeak
-----------------------------------------------------------------------------
(* The invariance proof *)

\* What a finished handshake does to the cache entries.
LEMMA LearnEffect ==
  ASSUME Inv, NEW p \in Peer, NEW f \in Fp, Learn(p, f)
  PROVE  /\ CachePersisted'
         /\ \A q \in Peer : q # p => trust'[q] = trust[q]
         /\ trust'[p] # "Absent"
         /\ trust'[p] = "Blocked" <=> trust[p] = "Blocked"
<1>1. LearnedDbTrust(p, f) = LearnedTrust(p, f)
  BY DEF Inv, CachePersisted, LearnedDbTrust, LearnedTrust
<1>2. /\ trust' = [trust EXCEPT ![p] = LearnedTrust(p, f)]
      /\ dbTrust' = [dbTrust EXCEPT ![p] = LearnedTrust(p, f)]
      /\ fp' = [fp EXCEPT ![p] = f] /\ dbFp' = [dbFp EXCEPT ![p] = f]
  BY <1>1 DEF Learn
<1>3. LearnedTrust(p, f) # "Absent" /\ (LearnedTrust(p, f) = "Blocked" <=> trust[p] = "Blocked")
  BY DEF LearnedTrust, Demoted
<1> QED
  BY <1>2, <1>3 DEF Inv, TypeOK, CachePersisted

LEMMA InvStep ==
  ASSUME Inv, [Next]_vars
  PROVE  Inv'
<1> USE ConstantsAssumption
<1>1. TypeOK'
  BY TypeStep DEF Inv
<1>2. TypeOK /\ Tables
  BY DEF Inv
<1> DEFINE Rest == CachePersisted /\ LinkedKnown /\ LinkedOnline /\ BlockedCut
<1>3. ASSUME UNCHANGED <<peerVars, online, links>>,
             \A p \in Peer : links[p] # None =>
                lstate'[links[p]] = lstate[links[p]] \/ lstate'[links[p]] # "Ready"
      PROVE  Rest'
  BY <1>3 DEF Inv, CachePersisted, LinkedKnown, LinkedOnline, BlockedCut, Known, peerVars
<1>4. ASSUME NEW l \in Link, NEW state \in Handshaking, Create(l, state)
      PROVE  /\ Tables'
             /\ \A p \in Peer : links[p] # None => lstate'[links[p]] # "Ready"
                                                    \/ lstate'[links[p]] = lstate[links[p]]
  <2>1. Tables'
    BY <1>2, <1>4, TablesCreate
  <2>2. \A k \in Link : k # l => lstate'[k] = lstate[k]
    BY <1>2, <1>4 DEF Create, TypeOK
  <2>3. lstate'[l] # "Ready"
    BY <1>2, <1>4 DEF Create, TypeOK, Handshaking
  <2> QED
    BY <1>2, <2>1, <2>2, <2>3 DEF TypeOK
<1>5. CASE \E l \in Link : ConnectTo(l) \/ OnIncomingSocket(l)
  <2>1. PICK l \in Link, state \in Handshaking : Create(l, state)
    BY <1>5 DEF ConnectTo, OnIncomingSocket, Handshaking
  <2>2. UNCHANGED <<peerVars, online, links>>
    BY <1>5 DEF ConnectTo, OnIncomingSocket, Create
  <2> QED
    BY <1>1, <1>3, <1>4, <2>1, <2>2 DEF Inv
<1>6. ASSUME NEW l \in Link, OnConnected(l)
      PROVE  Inv'
  <2>1. /\ l \in pending /\ l \notin doomed /\ linkToPeer[l] = None
        /\ \A p \in Peer : links[p] # l
    BY <1>2, <1>6, HandshakingPending DEF OnConnected, Handshaking
  <2>2. \A k \in Link : lstate'[k] = IF k = l THEN "HandshakingOut" ELSE lstate[k]
    BY <1>2, <1>6 DEF OnConnected, TypeOK
  <2>3. LinkTables' /\ NoDangling'
    BY <1>2, <1>6, <2>1, <2>2 DEF OnConnected, Tables, LinkTables, NoDangling
  <2>4. NoLeak' /\ DoomedClosed'
    BY <1>2, <1>6, <2>1, <2>2 DEF OnConnected, Tables, NoLeak, DoomedClosed, TypeOK
  <2>5. Rest'
    BY <1>2, <1>3, <1>6, <2>2 DEF OnConnected, TypeOK
  <2> QED
    BY <1>1, <2>3, <2>4, <2>5 DEF Inv, Tables
<1>7. ASSUME NEW l \in Link, OnLinkDisconnected(l)
      PROVE  Inv'
  <2>1. Tables'
    BY <1>2, <1>7, TablesForget
  <2>2. \A q \in Peer : links'[q] = links[q] \/ links'[q] = None
    BY <1>2, <1>7 DEF OnLinkDisconnected, Forget, TypeOK
  <2>3. \A q \in Peer : links'[q] # None => online'[q] = online[q]
    BY <1>2, <1>7 DEF OnLinkDisconnected, Forget, TypeOK
  <2>4. \A k \in Link : lstate'[k] = lstate[k] \/ lstate'[k] # "Ready"
    BY <1>2, <1>7 DEF OnLinkDisconnected, TypeOK
  <2>5. UNCHANGED peerVars
    BY <1>7 DEF OnLinkDisconnected
  <2>6. Rest'
    BY <1>2, <2>2, <2>3, <2>4, <2>5
       DEF Inv, CachePersisted, LinkedKnown, LinkedOnline, BlockedCut, Known, peerVars, TypeOK
  <2> QED
    BY <1>1, <2>1, <2>6 DEF Inv
<1>8. ASSUME NEW l \in Link, DeleteDeferred(l)
      PROVE  Inv'
  <2>1. Tables'
    BY <1>2, <1>8, TablesDelete
  <2>2. \A k \in Link : lstate'[k] = lstate[k] \/ lstate'[k] # "Ready"
    BY <1>2, <1>8 DEF DeleteDeferred, TypeOK
  <2> QED
    BY <1>1, <1>2, <1>3, <1>8, <2>1, <2>2 DEF DeleteDeferred, Inv, TypeOK
<1>9. ASSUME NEW l \in Link, lstate[l] # "Free",
             lstate' = [lstate EXCEPT ![l] = "Closing"] \/ lstate' = AfterClose(lstate, l),
             UNCHANGED <<links, linkToPeer, pending, doomed>>
      PROVE  /\ Tables'
             /\ \A k \in Link : lstate'[k] = lstate[k] \/ lstate'[k] # "Ready"
             /\ lstate'[l] # "Ready"
  BY <1>2, <1>9, TablesClose DEF AfterClose, TypeOK
<1>10. ASSUME NEW l \in Link, lstate[l] # "Free",
              lstate' = [lstate EXCEPT ![l] = "Closing"] \/ lstate' = AfterClose(lstate, l),
              UNCHANGED <<peerVars, fresh, online, links, linkToPeer, pending, doomed, asks>>
       PROVE  Inv'
  BY <1>1, <1>2, <1>3, <1>9, <1>10 DEF Inv, TypeOK
<1>11. ASSUME NEW l \in Link, lstate[l] \in Handshaking, RefuseSelf(l)
       PROVE  Inv'
  BY <1>10, <1>11 DEF RefuseSelf, Handshaking
<1>12. ASSUME NEW l \in Link, NEW p \in Peer, NEW f \in Fp,
              lstate[l] \in Handshaking, RefuseBlocked(l, p, f)
       PROVE  Inv'
  <2>1. Tables' /\ \A k \in Link : lstate'[k] = lstate[k] \/ lstate'[k] # "Ready"
    BY <1>9, <1>12 DEF RefuseBlocked, Handshaking
  <2>2. Learn(p, f) /\ UNCHANGED <<links, online>>
    BY <1>12 DEF RefuseBlocked
  <2>3. Rest'
    BY <1>2, <2>1, <2>2, LearnEffect
       DEF Inv, LinkedKnown, LinkedOnline, BlockedCut, Known, TypeOK
  <2> QED
    BY <1>1, <2>1, <2>3 DEF Inv
<1>13. ASSUME NEW l \in Link, NEW p \in Peer, NEW f \in Fp,
              lstate[l] \in Handshaking, Admit(l, p, f)
       PROVE  Inv'
  <2>1. Tables'
    BY <1>2, <1>13, TablesAdmit
  <2>2. /\ Learn(p, f) /\ trust[p] # "Blocked"
        /\ links' = [links EXCEPT ![p] = l] /\ online' = [online EXCEPT ![p] = TRUE]
    BY <1>13 DEF Admit
  <2>3. /\ CachePersisted'
        /\ \A q \in Peer : q # p => trust'[q] = trust[q]
        /\ trust'[p] # "Absent" /\ trust'[p] # "Blocked"
    BY <2>2, LearnEffect
  <2>4. \A q \in Peer : q # p => links'[q] = links[q] /\ online'[q] = online[q]
    BY <1>2, <2>2 DEF TypeOK
  <2>5. online'[p]
    BY <1>2, <2>2 DEF TypeOK
  <2>6. \A q \in Peer : q # p /\ links[q] # None => lstate'[links[q]] = lstate[links[q]]
                                                    \/ lstate'[links[q]] # "Ready"
    <3>1. \A q \in Peer : links[q] # l
      BY <1>2, <1>13, HandshakingPending
    <3>2. lstate' = ReplacedState([lstate EXCEPT ![l] = "Ready"], links[p])
      BY <1>13 DEF Admit
    <3> QED
      BY <1>2, <3>1, <3>2 DEF ReplacedState, AfterClose, TypeOK
  <2>7. Rest'
    BY <2>3, <2>4, <2>5, <2>6 DEF Inv, LinkedKnown, LinkedOnline, BlockedCut, Known
  <2> QED
    BY <1>1, <2>1, <2>7 DEF Inv
<1>14. ASSUME NEW p \in Peer, NEW f \in Fp, NEW isFresh \in BOOLEAN, OnPeerAnnounced(p, f, isFresh)
       PROVE  Inv'
  <2>1. /\ Tables'
        /\ \A q \in Peer : links[q] # None => lstate'[links[q]] # "Ready"
                                              \/ lstate'[links[q]] = lstate[links[q]]
        /\ UNCHANGED <<links, online>>
    <3>1. CASE \E l \in Link : Create(l, "Connecting")
      BY <1>4, <1>14, <3>1 DEF OnPeerAnnounced, Create, Handshaking
    <3>2. CASE UNCHANGED linkVars
      BY <1>2, <1>14, <3>2, TablesUnchanged DEF OnPeerAnnounced, linkVars
    <3> QED
      BY <1>14, <3>1, <3>2 DEF OnPeerAnnounced
  <2>2. /\ CachePersisted'
        /\ \A q \in Peer : trust'[q] = trust[q] \/ trust'[q] = "Unknown"
    BY <1>2, <1>14 DEF OnPeerAnnounced, UpsertPeerFromAnnounce, Inv, CachePersisted, peerVars, TypeOK
  <2>3. Rest'
    BY <2>1, <2>2 DEF Inv, LinkedKnown, LinkedOnline, BlockedCut, Known
  <2> QED
    BY <1>1, <2>1, <2>3 DEF Inv
<1>15. ASSUME NEW p \in Peer, CloseLinkOf(p)
       PROVE  Inv'
  <2>1. links[p] \in Link /\ lstate[links[p]] # "Free"
    BY <1>2, <1>15, Serving DEF CloseLinkOf
  <2> QED
    BY <1>10, <1>15, <2>1 DEF CloseLinkOf
<1>16. ASSUME NEW p \in Peer, Trust(p)
       PROVE  Inv'
  <2>1. Tables' /\ UNCHANGED <<links, lstate, online>>
    BY <1>2, <1>16, TablesUnchanged DEF Trust, linkVars
  <2>2. /\ CachePersisted'
        /\ \A q \in Peer : trust'[q] = trust[q] \/ trust'[q] = "Trusted"
    BY <1>2, <1>16 DEF Trust, SetTrust, Inv, CachePersisted, TypeOK
  <2>3. Rest'
    BY <2>1, <2>2 DEF Inv, LinkedKnown, LinkedOnline, BlockedCut, Known
  <2> QED
    BY <1>1, <2>1, <2>3 DEF Inv
<1>17. ASSUME NEW p \in Peer, Block(p)
       PROVE  Inv'
  <2>1. /\ CachePersisted'
        /\ trust'[p] = "Blocked" /\ \A q \in Peer : q # p => trust'[q] = trust[q]
    BY <1>2, <1>17 DEF Block, SetTrust, Inv, CachePersisted, TypeOK
  <2>2. UNCHANGED <<links, online>>
    BY <1>17 DEF Block
  <2>3. /\ Tables'
        /\ \A k \in Link : lstate'[k] = lstate[k] \/ lstate'[k] # "Ready"
        /\ links[p] # None => lstate'[links[p]] # "Ready"
    <3>1. CASE links[p] = None
      BY <1>2, <1>17, <3>1, TablesUnchanged DEF Block, linkVars
    <3>2. CASE links[p] # None
      <4>1. links[p] \in Link /\ lstate[links[p]] # "Free"
        BY <1>2, <3>2, Serving
      <4> QED
        BY <1>9, <1>17, <3>2, <4>1 DEF Block
    <3> QED
      BY <3>1, <3>2
  <2>4. Rest'
    BY <1>2, <2>1, <2>2, <2>3 DEF Inv, LinkedKnown, LinkedOnline, BlockedCut, Known, TypeOK
  <2> QED
    BY <1>1, <2>3, <2>4 DEF Inv
<1>18. ASSUME NEW dbt, NEW dbf, ReloadedFrom(dbt, dbf)
       PROVE  Inv'
  <2>1. Tables'
    BY <1>18, TablesReload
  <2>2. Rest'
    BY <1>18 DEF ReloadedFrom, CachePersisted, LinkedKnown, LinkedOnline, BlockedCut
  <2> QED
    BY <1>1, <2>1, <2>2 DEF Inv
<1>19. ASSUME UNCHANGED <<peerVars, linkVars>>,
              \A p \in Peer : links[p] # None => online'[p]
       PROVE  Inv'
  <2>1. Tables'
    BY <1>2, <1>19, TablesUnchanged
  <2>2. Rest'
    BY <1>19 DEF Inv, CachePersisted, LinkedKnown, LinkedOnline, BlockedCut, Known, peerVars, linkVars
  <2> QED
    BY <1>1, <2>1, <2>2 DEF Inv
<1>20. CASE OnSweep
  <2>1. \A p \in Peer : links[p] # None => online'[p]
    BY <1>20 DEF OnSweep, Inv, LinkedKnown
  <2> QED
    BY <1>19, <1>20, <2>1 DEF OnSweep
<1>21. ASSUME UNCHANGED <<peerVars, linkVars, online>>
       PROVE  Inv'
  BY <1>19, <1>21 DEF Inv, LinkedOnline
<1>22. CASE \E p \in Peer : Expire(p)
  BY <1>21, <1>22 DEF Expire
<1>23. CASE \E a \in asks : EmitTrustPrompt(a)
  BY <1>21, <1>23 DEF EmitTrustPrompt
<1>24. CASE Restart
  BY <1>18, <1>24 DEF Restart
<1>25. CASE \E l \in Link, p \in Peer, f \in Fp : CrashInDemotion(l, p, f)
  BY <1>18, <1>25 DEF CrashInDemotion
<1>26. ASSUME NEW l \in Link, lstate[l] = "HandshakingOut", lstate' = AfterClose(lstate, l),
              UNCHANGED <<peerVars, fresh, online, links, linkToPeer, pending, doomed, asks>>
       PROVE  Inv'
  BY <1>10, <1>26
<1>27. CASE UNCHANGED vars
  BY <1>21, <1>27 DEF vars
<1> QED
  BY NextCases, <1>5, <1>6, <1>7, <1>8, <1>11, <1>12, <1>13, <1>14, <1>15, <1>16, <1>17,
     <1>20, <1>22, <1>23, <1>24, <1>25, <1>26, <1>27

LEMMA InvInit ==
  ASSUME Init
  PROVE  Inv
  BY ConstantsAssumption
     DEF Init, Inv, TypeOK, TrustState, LinkState, Ask, Tables, LinkTables, NoDangling, NoLeak,
         DoomedClosed, CachePersisted, LinkedKnown, LinkedOnline, BlockedCut

LEMMA Invariance == Spec => []Inv
<1>1. Init => Inv
  BY InvInit
<1>2. Inv /\ [Next]_vars => Inv'
  BY InvStep
<1> QED
  BY <1>1, <1>2, PTL DEF Spec

\* m_links and m_linkToPeer stay inverse to each other.
THEOREM LinkTablesInverse == Spec => []LinkTables
<1>1. Inv => LinkTables
  BY DEF Inv, Tables
<1> QED
  BY <1>1, Invariance, PTL

\* No link object is lost before its deletion is posted, and one that is posted
\* for deletion was closed first.
THEOREM LinksDoNotLeak == Spec => [](NoLeak /\ DoomedClosed)
<1>1. Inv => NoLeak /\ DoomedClosed
  BY DEF Inv, Tables
<1> QED
  BY <1>1, Invariance, PTL

\* No table ever names a link that is deleted or about to be.
THEOREM NothingDangles == Spec => []NoDangling
<1>1. Inv => NoDangling
  BY DEF Inv, Tables
<1> QED
  BY <1>1, Invariance, PTL

\* The database always holds the cache's trust and fingerprint.
THEOREM CacheIsPersisted == Spec => []CachePersisted
<1>1. Inv => CachePersisted
  BY DEF Inv
<1> QED
  BY <1>1, Invariance, PTL

\* The cached online bit of a linked peer is set, so no sweep logs it as lost.
THEOREM LinkedIsOnline == Spec => []LinkedOnline
<1>1. Inv => LinkedOnline
  BY DEF Inv
<1> QED
  BY <1>1, Invariance, PTL

\* A blocked peer has no usable link.
THEOREM BlockedIsCut == Spec => []BlockedCut
<1>1. Inv => BlockedCut
  BY DEF Inv
<1> QED
  BY <1>1, Invariance, PTL
-----------------------------------------------------------------------------
(* What an operation does to the state of every link.  A composition of two  *)
(* processes needs it: one handler may close a link it was not called for.   *)

\* A link a handler is not about: at most close() is called on it, and only
\* while it serves.
Spared(k) == lstate'[k] = lstate[k] \/ (lstate[k] = "Ready" /\ lstate'[k] = "Closing")

LEMMA CreateOnLinks ==
  ASSUME TypeOK, NEW l \in Link, NEW state, Create(l, state), NEW k \in Link
  PROVE  IF k = l THEN lstate[k] = "Free" /\ lstate'[k] = state ELSE lstate'[k] = lstate[k]
  BY DEF Create, TypeOK

LEMMA AnnouncementOnLinks ==
  ASSUME TypeOK, NEW p \in Peer, NEW f \in Fp, NEW isFresh \in BOOLEAN,
         OnPeerAnnounced(p, f, isFresh), NEW k \in Link
  PROVE  \/ lstate'[k] = lstate[k]
         \/ p \in Greater /\ lstate[k] = "Free" /\ lstate'[k] = "Connecting"
<1>1. CASE \E l \in Link : Create(l, "Connecting") /\ p \in Greater
  BY <1>1, CreateOnLinks
<1>2. CASE UNCHANGED linkVars
  BY <1>2 DEF linkVars
<1> QED
  BY <1>1, <1>2 DEF OnPeerAnnounced, ShouldDial

LEMMA ConnectedOnLinks ==
  ASSUME TypeOK, NEW l \in Link, OnConnected(l), NEW k \in Link
  PROVE  IF k = l THEN lstate[k] = "Connecting" /\ lstate'[k] = "HandshakingOut"
                  ELSE lstate'[k] = lstate[k]
  BY DEF OnConnected, TypeOK

LEMMA DisconnectedOnLinks ==
  ASSUME TypeOK, NEW l \in Link, OnLinkDisconnected(l), NEW k \in Link
  PROVE  IF k = l THEN lstate[k] # "Free" /\ lstate'[k] = "Closed" ELSE lstate'[k] = lstate[k]
  BY DEF OnLinkDisconnected, TypeOK

\* Only a link that was closed is deleted.
LEMMA DeletionOnLinks ==
  ASSUME TypeOK, Tables, NEW l \in Link, DeleteDeferred(l), NEW k \in Link
  PROVE  IF k = l THEN lstate[k] \in {"Closing", "Closed"} /\ lstate'[k] = "Free"
                  ELSE lstate'[k] = lstate[k]
  BY DEF DeleteDeferred, TypeOK, Tables, DoomedClosed

LEMMA AbortOnLinks ==
  ASSUME TypeOK, NEW l \in Link, HandshakeAbort(l), NEW k \in Link
  PROVE  IF k = l THEN \/ lstate[k] = "HandshakingIn" /\ lstate'[k] = "Closed"
                       \/ lstate[k] = "HandshakingOut" /\ lstate'[k] = "Closing"
                  ELSE lstate'[k] = lstate[k]
<1>1. CASE lstate[l] = "HandshakingIn" /\ OnLinkDisconnected(l)
  BY <1>1, DisconnectedOnLinks
<1>2. CASE lstate[l] = "HandshakingOut" /\ lstate' = AfterClose(lstate, l)
  BY <1>2 DEF AfterClose, TypeOK
<1> QED
  BY <1>1, <1>2 DEF HandshakeAbort

LEMMA CloseOnLinks ==
  ASSUME TypeOK, Tables, NEW p \in Peer, CloseLinkOf(p), NEW k \in Link
  PROVE  /\ Spared(k)
         /\ k = links[p] => lstate[k] \in {"Ready", "Closing"} /\ lstate'[k] = "Closing"
<1>1. links[p] \in Link /\ lstate[links[p]] \in {"Ready", "Closing"}
  BY Serving DEF CloseLinkOf
<1> QED
  BY <1>1 DEF CloseLinkOf, AfterClose, TypeOK, Spared

LEMMA UserOnLinks ==
  ASSUME TypeOK, Tables, User, NEW k \in Link
  PROVE  Spared(k)
<1>1. CASE \E p \in Peer : Trust(p)
  BY <1>1 DEF Trust, linkVars, Spared
<1>2. ASSUME NEW p \in Peer, Block(p)
      PROVE  Spared(k)
  <2>1. CASE links[p] = None
    BY <1>2, <2>1 DEF Block, Spared
  <2>2. CASE links[p] # None
    <3>1. links[p] \in Link /\ lstate[links[p]] \in {"Ready", "Closing"}
      BY <2>2, Serving
    <3> QED
      BY <1>2, <2>2, <3>1 DEF Block, AfterClose, TypeOK, Spared
  <2> QED
    BY <2>1, <2>2
<1> QED
  BY <1>1, <1>2 DEF User

\* The end of a handshake: the link is served or refused, and the one it
\* replaces is closed.
LEMMA ReadyOnLinks ==
  ASSUME TypeOK, Tables, NEW l \in Link, lstate[l] \in Handshaking,
         NEW id \in Peer \cup {Self}, NEW f \in Fp, OnLinkReady(l, id, f), NEW k \in Link
  PROVE  IF k = l THEN lstate'[k] \in {"Ready", "Closing"} ELSE Spared(k)
<1>1. CASE RefuseSelf(l)
  BY <1>1 DEF RefuseSelf, TypeOK, Spared
<1>2. CASE RefuseBlocked(l, id, f)
  BY <1>2 DEF RefuseBlocked, TypeOK, Spared
<1>3. CASE id \in Peer /\ Admit(l, id, f)
  <2>1. lstate' = ReplacedState([lstate EXCEPT ![l] = "Ready"], links[id])
    BY <1>3 DEF Admit
  <2>2. CASE links[id] = None
    BY <2>1, <2>2 DEF ReplacedState, TypeOK, Spared
  <2>3. CASE links[id] # None
    <3>1. links[id] # l
      BY <1>3, HandshakingPending
    <3>2. links[id] \in Link /\ lstate[links[id]] \in {"Ready", "Closing"}
      BY <1>3, <2>3, Serving
    <3> QED
      BY <2>1, <2>3, <3>1, <3>2 DEF ReplacedState, AfterClose, TypeOK, Spared
  <2> QED
    BY <2>2, <2>3
<1> QED
  BY <1>1, <1>2, <1>3 DEF OnLinkReady

LEMMA RestartOnLinks ==
  ASSUME Restart, NEW k \in Link
  PROVE  lstate'[k] = "Free"
  BY DEF Restart, ReloadedFrom
-----------------------------------------------------------------------------
(* Action properties *)

\* The only steps that touch the trust or the fingerprint of a cached peer.
LEMMA PeerRowSteps ==
  ASSUME Inv, Next, NEW p \in Peer
  PROVE  \/ UNCHANGED <<trust[p], fp[p]>>
         \/ trust[p] = "Absent"
         \/ \E f \in Fp : trust'[p] = LearnedTrust(p, f) /\ fp'[p] = f
         \/ Trust(p) /\ fp'[p] = fp[p]
         \/ trust'[p] = "Blocked" /\ fp'[p] = fp[p]
         \/ trust[p] = "Trusted" /\ trust'[p] = "Unknown" /\ fp'[p] = fp[p]
<1>1. TypeOK /\ CachePersisted
  BY DEF Inv
<1>2. CASE UNCHANGED <<trust, fp>>
  BY <1>2
<1>3. ASSUME NEW q \in Peer, NEW f \in Fp, Learn(q, f)
      PROVE  \/ UNCHANGED <<trust[p], fp[p]>>
             \/ trust'[p] = LearnedTrust(p, f) /\ fp'[p] = f
  BY <1>1, <1>3 DEF Learn, TypeOK
<1>4. CASE \E l \in Link, q \in Peer, f \in Fp : RefuseBlocked(l, q, f) \/ Admit(l, q, f)
  BY <1>3, <1>4 DEF RefuseBlocked, Admit
<1>5. CASE \E q \in Peer, f \in Fp, isFresh \in BOOLEAN : OnPeerAnnounced(q, f, isFresh)
  BY <1>1, <1>5 DEF OnPeerAnnounced, UpsertPeerFromAnnounce, Known, TypeOK, peerVars
<1>6. CASE \E q \in Peer : Trust(q)
  BY <1>1, <1>6 DEF Trust, SetTrust, TypeOK
<1>7. CASE \E q \in Peer : Block(q)
  BY <1>1, <1>7 DEF Block, SetTrust, TypeOK
<1>8. CASE \E l \in Link, q \in Peer, f \in Fp : CrashInDemotion(l, q, f)
  BY <1>1, <1>8 DEF CrashInDemotion, ReloadedFrom, Demoted, CachePersisted, TypeOK
<1>9. CASE Restart
  BY <1>1, <1>9 DEF Restart, ReloadedFrom, CachePersisted
<1> QED
  BY NextCases, <1>2, <1>4, <1>5, <1>6, <1>7, <1>8, <1>9
     DEF ConnectTo, OnIncomingSocket, OnConnected, OnLinkDisconnected, DeleteDeferred, RefuseSelf,
         CloseLinkOf, Expire, EmitTrustPrompt, OnSweep, peerVars

\* No step changes the fingerprint of a peer that stays trusted: a handshake
\* with another one demotes it, and a crash in between loses the trust, never
\* the old fingerprint.
THEOREM FingerprintKept == Spec => TrustKeepsFingerprint
<1>1. Inv /\ [Next]_vars =>
        [\A p \in Peer : trust[p] = "Trusted" /\ trust'[p] = "Trusted" => fp'[p] = fp[p]]_vars
  <2> SUFFICES ASSUME Inv, Next, NEW p \in Peer, trust[p] = "Trusted", trust'[p] = "Trusted"
               PROVE  fp'[p] = fp[p]
    OBVIOUS
  <2> QED
    BY PeerRowSteps DEF LearnedTrust, Demoted
<1> QED
  BY <1>1, Invariance, PTL DEF Spec, TrustKeepsFingerprint

\* Only the user's trust() takes a peer out of Blocked.
THEOREM BlockIsKept == Spec => BlockedSticks
<1>1. Inv /\ [Next]_vars =>
        [\A p \in Peer : trust[p] = "Blocked" => trust'[p] = "Blocked" \/ Trust(p)]_vars
  <2> SUFFICES ASSUME Inv, Next, NEW p \in Peer, trust[p] = "Blocked"
               PROVE  trust'[p] = "Blocked" \/ Trust(p)
    OBVIOUS
  <2> QED
    BY PeerRowSteps DEF LearnedTrust, Demoted
<1> QED
  BY <1>1, Invariance, PTL DEF Spec, BlockedSticks
=============================================================================
