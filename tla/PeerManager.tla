---------------------------- MODULE PeerManager ----------------------------
(***************************************************************************)
(* One node-talk process seen from PeerManager: the peer cache m_peers and *)
(* its database table, the link tables m_links / m_linkToPeer /            *)
(* m_pendingLinks, the state of every PeerLink, and what the Qt event loop *)
(* still owes (deferred deletions, queued trust prompts).  The remote ends *)
(* are unconstrained: a link may present any id and any fingerprint, and   *)
(* may break at any time.                                                  *)
(*                                                                         *)
(* An action is one handler run to completion by the single event loop.    *)
(* A PeerLink object is a member of Link; once deleted the member may be   *)
(* allocated again, as its address may.                                    *)
(*                                                                         *)
(* A definition named ..._Bug is a plausible mistake in the definition     *)
(* that follows it.  Nothing uses it: it is there to show, by putting it   *)
(* in that definition's place, that a property would notice.               *)
(***************************************************************************)
EXTENDS Naturals, FiniteSets

CONSTANTS Peer,      \* remote peer ids
          Self,      \* our own peer id
          Greater,   \* the peers whose id is greater than ours: we dial those
          Fp,        \* fingerprints
          Link,      \* PeerLink objects that can exist at one time
          None       \* nullptr, or no value

ASSUME ConstantsAssumption ==
  /\ Greater \subseteq Peer
  /\ Self \notin Peer
  /\ None \notin Peer \cup Fp \cup Link

VARIABLES
  trust,       \* m_peers[p].trust, "Absent" when m_peers has no p
  fp,          \* m_peers[p].fingerprint
  dbTrust,     \* column peers.trust, "Absent" when there is no row
  dbFp,        \* column peers.fingerprint
  fresh,       \* is now - m_peers[p].lastSeen within the timeout
  online,      \* m_peers[p].online
  lstate,      \* PeerLink::m_state, "Free" when there is no such object
  links,       \* m_links
  linkToPeer,  \* m_linkToPeer
  pending,     \* m_pendingLinks
  doomed,      \* links whose deleteLater is posted
  asks         \* trustPromptRequested calls posted, each with its snapshot

peerVars == <<trust, fp, dbTrust, dbFp>>
linkVars == <<lstate, links, linkToPeer, pending, doomed>>
vars == <<peerVars, fresh, online, linkVars, asks>>

TrustState == {"Absent", "Unknown", "Trusted", "Blocked"}
LinkState  == {"Free", "Connecting", "HandshakingOut", "HandshakingIn",
               "Ready", "Closing", "Closed"}
Handshaking == {"Connecting", "HandshakingOut", "HandshakingIn"}
Ask == [peer : Peer, fp : Fp]

Known(p) == trust[p] # "Absent"
-----------------------------------------------------------------------------
\* A first start: an empty peers table, no link.
Init ==
  /\ trust = [p \in Peer |-> "Absent"]
  /\ fp = [p \in Peer |-> None]
  /\ dbTrust = [p \in Peer |-> "Absent"]
  /\ dbFp = [p \in Peer |-> None]
  /\ fresh = [p \in Peer |-> FALSE]
  /\ online = [p \in Peer |-> FALSE]
  /\ lstate = [l \in Link |-> "Free"]
  /\ links = [p \in Peer |-> None]
  /\ linkToPeer = [l \in Link |-> None]
  /\ pending = {}
  /\ doomed = {}
  /\ asks = {}
-----------------------------------------------------------------------------
(* Links that begin *)

\* new PeerLink, appended to m_pendingLinks.
Create(l, state) ==
  /\ lstate[l] = "Free"
  /\ lstate' = [lstate EXCEPT ![l] = state]
  /\ pending' = pending \cup {l}
  /\ UNCHANGED <<links, linkToPeer, doomed>>

ConnectTo(l) ==
  /\ Create(l, "Connecting")
  /\ UNCHANGED <<peerVars, fresh, online, asks>>

\* The constructor takes an accepted socket for one it dialled.
OnIncomingSocket_DirectionBug(l) ==
  /\ Create(l, "HandshakingOut")
  /\ UNCHANGED <<peerVars, fresh, online, asks>>

OnIncomingSocket(l) ==
  /\ Create(l, "HandshakingIn")
  /\ UNCHANGED <<peerVars, fresh, online, asks>>

\* The TCP connection of a dialled link is up: onConnected sends the hello.
OnConnected(l) ==
  /\ lstate[l] = "Connecting"
  /\ lstate' = [lstate EXCEPT ![l] = "HandshakingOut"]
  /\ UNCHANGED <<peerVars, fresh, online, links, linkToPeer, pending, doomed, asks>>
-----------------------------------------------------------------------------
(* Discovery *)

\* A peer met for the first time is cached and stored as Unknown with the
\* fingerprint it announces; for a known one only the address and lastSeen
\* (the sender's clock, so its freshness is any) are taken over.
UpsertPeerFromAnnounce(p, f, isFresh) ==
  /\ fresh' = [fresh EXCEPT ![p] = isFresh]
  /\ IF Known(p)
       THEN UNCHANGED peerVars
       ELSE /\ trust' = [trust EXCEPT ![p] = "Unknown"]
            /\ fp' = [fp EXCEPT ![p] = f]
            /\ dbTrust' = [dbTrust EXCEPT ![p] = "Unknown"]
            /\ dbFp' = [dbFp EXCEPT ![p] = f]

\* The tests in onPeerAnnounced and ensureConnection.
ShouldDial(p) == trust[p] # "Blocked" /\ links[p] = None /\ p \in Greater

OnPeerAnnounced(p, f, isFresh) ==
  /\ UpsertPeerFromAnnounce(p, f, isFresh)
  /\ IF ShouldDial(p)
       THEN \E l \in Link : Create(l, "Connecting")
       ELSE UNCHANGED linkVars
  /\ UNCHANGED <<online, asks>>
-----------------------------------------------------------------------------
(* Links that end *)

\* PeerLink::close on one link: a link already Closed is left alone.
AfterClose(states, l) ==
  [states EXCEPT ![l] = IF @ = "Closed" THEN @ ELSE "Closing"]

\* A bye is taken for any other message.
CloseLinkOf_IgnoreBug(p) ==
  /\ links[p] # None
  /\ UNCHANGED vars

\* A bye datagram of p, or a bye frame or unreadable bytes on p's link.
CloseLinkOf(p) ==
  /\ links[p] # None
  /\ lstate' = AfterClose(lstate, links[p])
  /\ UNCHANGED <<peerVars, fresh, online, links, linkToPeer, pending, doomed, asks>>

\* deleteLater forgotten.
Forget_LeakBug(l) ==
  LET p == linkToPeer[l] IN
  /\ linkToPeer' = [linkToPeer EXCEPT ![l] = None]
  /\ links'  = IF p = None THEN links  ELSE [links EXCEPT ![p] = None]
  /\ online' = IF p = None THEN online ELSE [online EXCEPT ![p] = FALSE]
  /\ pending' = pending \ {l}
  /\ UNCHANGED doomed

\* m_pendingLinks.removeAll forgotten: the list keeps a deleted link.
Forget_DanglingBug(l) ==
  LET p == linkToPeer[l] IN
  /\ linkToPeer' = [linkToPeer EXCEPT ![l] = None]
  /\ links'  = IF p = None THEN links  ELSE [links EXCEPT ![p] = None]
  /\ online' = IF p = None THEN online ELSE [online EXCEPT ![p] = FALSE]
  /\ doomed' = doomed \cup {l}
  /\ UNCHANGED pending

\* PeerManager::onLinkDisconnected.
Forget(l) ==
  LET p == linkToPeer[l] IN
  /\ linkToPeer' = [linkToPeer EXCEPT ![l] = None]
  /\ links'  = IF p = None THEN links  ELSE [links EXCEPT ![p] = None]
  /\ online' = IF p = None THEN online ELSE [online EXCEPT ![p] = FALSE]
  /\ pending' = pending \ {l}
  /\ doomed' = doomed \cup {l}

\* The socket failed or disconnected.  A link replaced in the tables, or one
\* whose error was already reported, gives the signal as well.
OnLinkDisconnected(l) ==
  /\ lstate[l] # "Free"
  /\ lstate' = [lstate EXCEPT ![l] = "Closed"]
  /\ Forget(l)
  /\ UNCHANGED <<peerVars, fresh, asks>>

\* Unreadable bytes, or a bye, in the middle of the handshake: close(), and
\* the accepting side, which has written nothing, disconnects within the call.
HandshakeAbort(l) ==
  \/ /\ lstate[l] = "HandshakingIn"
     /\ OnLinkDisconnected(l)
  \/ /\ lstate[l] = "HandshakingOut"
     /\ lstate' = AfterClose(lstate, l)
     /\ UNCHANGED <<peerVars, fresh, online, links, linkToPeer, pending, doomed, asks>>

\* The event loop deletes a link that asked for it.
DeleteDeferred(l) ==
  /\ l \in doomed
  /\ doomed' = doomed \ {l}
  /\ lstate' = [lstate EXCEPT ![l] = "Free"]
  /\ UNCHANGED <<peerVars, fresh, online, links, linkToPeer, pending, asks>>
-----------------------------------------------------------------------------
(* The end of a handshake: PeerManager::onLinkReady *)

\* A trusted peer shows another fingerprint than the one it was trusted with.
Demoted(p, f) == trust[p] = "Trusted" /\ fp[p] # f

\* Any known peer that changes its fingerprint falls back to Unknown.
LearnedTrust_UnblocksBug(p, f) ==
  IF trust[p] = "Absent" \/ fp[p] # f THEN "Unknown" ELSE trust[p]

\* What the cache says of p once the handshake is taken in.
LearnedTrust(p, f) ==
  IF trust[p] = "Absent" \/ Demoted(p, f) THEN "Unknown" ELSE trust[p]

\* The demotion left to upsert, which does not write the trust column.
LearnedDbTrust_NoSetTrustBug(p, f) ==
  IF dbTrust[p] = "Absent" THEN LearnedTrust(p, f) ELSE dbTrust[p]

\* setTrust writes the trust column of a demoted peer; upsert inserts a missing
\* row with the cached trust and does not touch the trust of an existing one.
LearnedDbTrust(p, f) ==
  IF Demoted(p, f) \/ dbTrust[p] = "Absent" THEN LearnedTrust(p, f) ELSE dbTrust[p]

Learn(p, f) ==
  /\ trust' = [trust EXCEPT ![p] = LearnedTrust(p, f)]
  /\ fp' = [fp EXCEPT ![p] = f]
  /\ dbTrust' = [dbTrust EXCEPT ![p] = LearnedDbTrust(p, f)]
  /\ dbFp' = [dbFp EXCEPT ![p] = f]
  /\ fresh' = [fresh EXCEPT ![p] = TRUE]

\* Our own id: the link is closed and stays in m_pendingLinks until it is gone.
RefuseSelf(l) ==
  /\ lstate' = [lstate EXCEPT ![l] = "Closing"]
  /\ UNCHANGED <<peerVars, fresh, online, links, linkToPeer, pending, doomed, asks>>

\* The refused link taken out of m_pendingLinks by hand.
RefuseBlocked_ForgottenBug(l, p, f) ==
  /\ trust[p] = "Blocked"
  /\ Learn(p, f)
  /\ lstate' = [lstate EXCEPT ![l] = "Closing"]
  /\ pending' = pending \ {l}
  /\ UNCHANGED <<online, links, linkToPeer, doomed, asks>>

RefuseBlocked(l, p, f) ==
  /\ trust[p] = "Blocked"
  /\ Learn(p, f)
  /\ lstate' = [lstate EXCEPT ![l] = "Closing"]
  /\ UNCHANGED <<online, links, linkToPeer, pending, doomed, asks>>

\* prev->close().
ReplacedState(ready, prev) == IF prev = None THEN ready ELSE AfterClose(ready, prev)

\* if (prev) forgotten.
Replaced_NullBug(prev) == {prev}

\* prev->deleteLater().
Replaced(prev) == {prev} \ {None}

\* The replaced link left in m_linkToPeer.
Reassigned_KeepsPrevBug(l, p, prev) == [linkToPeer EXCEPT ![l] = p]

\* m_linkToPeer.remove(prev), m_linkToPeer.insert(link, rid).
Reassigned(l, p, prev) ==
  [k \in Link |-> IF k = l THEN p ELSE IF k = prev THEN None ELSE linkToPeer[k]]

\* The link now serves p.  A link that served p before is closed, taken out of
\* m_linkToPeer, and its deletion is posted.
Admit(l, p, f) ==
  LET prev == links[p] IN
  /\ trust[p] # "Blocked"
  /\ Learn(p, f)
  /\ lstate' = ReplacedState([lstate EXCEPT ![l] = "Ready"], prev)
  /\ linkToPeer' = Reassigned(l, p, prev)
  /\ doomed' = doomed \cup Replaced(prev)
  /\ pending' = pending \ {l}
  /\ links' = [links EXCEPT ![p] = l]
  /\ online' = [online EXCEPT ![p] = TRUE]
  /\ asks' = IF LearnedTrust(p, f) = "Unknown"
               THEN asks \cup {[peer |-> p, fp |-> f]} ELSE asks

OnLinkReady(l, id, f) ==
  \/ id = Self /\ RefuseSelf(l)
  \/ id \in Peer /\ (RefuseBlocked(l, id, f) \/ Admit(l, id, f))

\* The remote's hello arrives on an accepted link: hello_ack is written and the
\* link is ready.
HelloReceived(l, id, f) ==
  /\ lstate[l] = "HandshakingIn"
  /\ OnLinkReady(l, id, f)

HelloAckReceived(l, id, f) ==
  /\ lstate[l] = "HandshakingOut"
  /\ OnLinkReady(l, id, f)
-----------------------------------------------------------------------------
(* The user and the timers *)

SetTrust(p, t) ==
  /\ Known(p)
  /\ trust' = [trust EXCEPT ![p] = t]
  /\ dbTrust' = [dbTrust EXCEPT ![p] = t]

Trust(p) ==
  /\ SetTrust(p, "Trusted")
  /\ UNCHANGED <<fp, dbFp, fresh, online, linkVars, asks>>

\* The open link of a peer that becomes blocked is left alone.
Block_LinkStaysBug(p) ==
  /\ SetTrust(p, "Blocked")
  /\ UNCHANGED <<fp, dbFp, fresh, online, linkVars, asks>>

Block(p) ==
  /\ SetTrust(p, "Blocked")
  /\ lstate' = IF links[p] = None THEN lstate ELSE AfterClose(lstate, links[p])
  /\ UNCHANGED <<fp, dbFp, fresh, online, links, linkToPeer, pending, doomed, asks>>

\* Time passes since p's lastSeen.
Expire(p) ==
  /\ fresh[p]
  /\ fresh' = [fresh EXCEPT ![p] = FALSE]
  /\ UNCHANGED <<peerVars, online, linkVars, asks>>

\* Silence alone makes a peer offline.
OnSweep_IgnoresLinkBug ==
  /\ online' = [p \in Peer |-> Known(p) /\ fresh[p]]
  /\ UNCHANGED <<peerVars, fresh, linkVars, asks>>

OnSweep ==
  /\ online' = [p \in Peer |-> Known(p) /\ (links[p] # None \/ fresh[p])]
  /\ UNCHANGED <<peerVars, fresh, linkVars, asks>>

\* The posted lambda of onLinkReady runs and gives the user the prompt.
EmitTrustPrompt(a) ==
  /\ a \in asks
  /\ asks' = asks \ {a}
  /\ UNCHANGED <<peerVars, fresh, online, linkVars>>
-----------------------------------------------------------------------------
(* The process ends, at any point, and starts again from its database *)

ReloadedFrom(dbt, dbf) ==
  /\ dbTrust' = dbt
  /\ dbFp' = dbf
  /\ trust' = dbt
  /\ fp' = dbf
  /\ online' = [p \in Peer |-> FALSE]
  /\ lstate' = [l \in Link |-> "Free"]
  /\ links' = [p \in Peer |-> None]
  /\ linkToPeer' = [l \in Link |-> None]
  /\ pending' = {}
  /\ doomed' = {}
  /\ asks' = {}
  /\ UNCHANGED fresh

Restart == ReloadedFrom(dbTrust, dbFp)

\* The fingerprint stored before the demotion.
CrashInDemotion_OrderBug(l, p, f) ==
  /\ lstate[l] \in {"HandshakingOut", "HandshakingIn"}
  /\ Demoted(p, f)
  /\ ReloadedFrom(dbTrust, [dbFp EXCEPT ![p] = f])

\* The process dies inside onLinkReady, after the setTrust of a demotion and
\* before the upsert that stores the new fingerprint.
CrashInDemotion(l, p, f) ==
  /\ lstate[l] \in {"HandshakingOut", "HandshakingIn"}
  /\ Demoted(p, f)
  /\ ReloadedFrom([dbTrust EXCEPT ![p] = "Unknown"], dbFp)
-----------------------------------------------------------------------------
Handshake(l) ==
  \/ OnConnected(l)
  \/ HandshakeAbort(l)
  \/ \E id \in Peer \cup {Self}, f \in Fp : HelloReceived(l, id, f) \/ HelloAckReceived(l, id, f)

User == \E p \in Peer : Trust(p) \/ Block(p)

Next ==
  \/ \E l \in Link : ConnectTo(l) \/ OnIncomingSocket(l) \/ Handshake(l)
  \/ \E p \in Peer, f \in Fp, isFresh \in BOOLEAN : OnPeerAnnounced(p, f, isFresh)
  \/ \E p \in Peer : CloseLinkOf(p) \/ Expire(p)
  \/ \E l \in Link : OnLinkDisconnected(l) \/ DeleteDeferred(l)
  \/ \E l \in Link, p \in Peer, f \in Fp : CrashInDemotion(l, p, f)
  \/ \E a \in asks : EmitTrustPrompt(a)
  \/ User \/ OnSweep \/ Restart

\* The event loop runs: what is posted is delivered, and a socket on which
\* disconnectFromHost was called reports its disconnection in the end.
Fairness ==
  /\ \A l \in Link : WF_vars(DeleteDeferred(l))
  /\ \A l \in Link : WF_vars(lstate[l] = "Closing" /\ OnLinkDisconnected(l))

Spec == Init /\ [][Next]_vars /\ Fairness
-----------------------------------------------------------------------------
(* Properties *)

TypeOK ==
  /\ trust \in [Peer -> TrustState] /\ dbTrust \in [Peer -> TrustState]
  /\ fp \in [Peer -> Fp \cup {None}] /\ dbFp \in [Peer -> Fp \cup {None}]
  /\ fresh \in [Peer -> BOOLEAN] /\ online \in [Peer -> BOOLEAN]
  /\ lstate \in [Link -> LinkState]
  /\ links \in [Peer -> Link \cup {None}]
  /\ linkToPeer \in [Link -> Peer \cup {None}]
  /\ pending \subseteq Link /\ doomed \subseteq Link
  /\ asks \subseteq Ask

\* The two link tables are inverse to each other, through replacements, late
\* disconnections of replaced links and reuse of a deleted link's address.
LinkTables ==
  \A p \in Peer, l \in Link : links[p] = l <=> linkToPeer[l] = p

\* No table holds a link that is deleted or about to be: onLinkDisconnected and
\* onLinkReady take it out of every table they use before deleteLater.
NoDangling ==
  \A l \in Link : lstate[l] = "Free" \/ l \in doomed =>
     linkToPeer[l] = None /\ l \notin pending /\ \A p \in Peer : links[p] # l

\* No link object is lost: until its deletion is posted it is either pending
\* or serving one peer, never both, and it is ready only when it serves.
NoLeak ==
  \A l \in Link : lstate[l] # "Free" /\ l \notin doomed =>
     /\ l \in pending <=> linkToPeer[l] = None
     /\ l \in pending => lstate[l] # "Ready"
     /\ l \notin pending => lstate[l] \in {"Ready", "Closing"}

\* A link posted for deletion is no longer live: the one replaced by a newer
\* connection has been closed first.
DoomedClosed == \A l \in doomed : lstate[l] \in {"Closing", "Closed"}

\* The cache and the table agree at the end of every handler, so a restart
\* loses no trust decision and no fingerprint.
CachePersisted == dbTrust = trust /\ dbFp = fp

\* The bit m_peers[p].online is set as long as a link serves the peer, whatever
\* becomes of older links and however old the last announcement is: the sweep,
\* the bit's only reader, logs no linked peer as lost.
LinkedOnline == \A p \in Peer : links[p] # None => online[p]

\* A blocked peer has no usable link: neither the one open when the user
\* blocked it, nor one whose handshake ends later.
BlockedCut ==
  \A p \in Peer : trust[p] = "Blocked" => links[p] = None \/ lstate[links[p]] # "Ready"

\* Trust is bound to the fingerprint it was given to: no step, crash and reload
\* included, changes the fingerprint of a peer that stays or becomes trusted.
TrustKeepsFingerprint ==
  [][\A p \in Peer : trust[p] = "Trusted" /\ trust'[p] = "Trusted" => fp'[p] = fp[p]]_vars

\* Only the user's own decision takes a peer out of Blocked: no announcement,
\* handshake, new fingerprint, crash or restart does.
BlockedSticks ==
  [][\A p \in Peer : trust[p] = "Blocked" => trust'[p] = "Blocked" \/ Trust(p)]_vars

\* A connection of a blocked peer ends, however it was left open.
BlockedGoes ==
  \A p \in Peer : trust[p] = "Blocked" ~> (links[p] = None \/ trust[p] # "Blocked")

\* Every link refused, replaced or closed is deleted in the end.
ClosedFreed == \A l \in Link : lstate[l] \in {"Closing", "Closed"} ~> lstate[l] = "Free"
=============================================================================
