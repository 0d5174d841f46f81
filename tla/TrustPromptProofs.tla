------------------------- MODULE TrustPromptProofs -------------------------
(***************************************************************************)
(* What TLAPS proves of TrustPrompt, for any number of peers, fingerprints *)
(* and links, from the invariant that PeerManagerProofs proves of          *)
(* PeerManager.                                                            *)
(***************************************************************************)
EXTENDS TrustPrompt, PeerManagerProofs

\* The open dialog is about a peer.
DialogPeer == dialog # NoDialog => dialog.peer \in Peer

PromptInv ==
  /\ Inv /\ PromptTypeOK /\ DialogPeer
  /\ QueueServed /\ DialogUndecided /\ PromptOwed
-----------------------------------------------------------------------------
(* PeerManager's steps *)

\* The handlers that run in the background, by what they do.
LEMMA BackgroundCases ==
  ASSUME Background
  PROVE  \/ UNCHANGED <<trust, fp, links, asks>>
         \/ \E l \in Link : OnLinkDisconnected(l)
         \/ \E l \in Link, p \in Peer, f \in Fp : RefuseBlocked(l, p, f)
         \/ \E l \in Link, p \in Peer, f \in Fp : Admit(l, p, f)
         \/ \E p \in Peer, f \in Fp, isFresh \in BOOLEAN : OnPeerAnnounced(p, f, isFresh)
<1>1. CASE \E l \in Link : Handshake(l)
  BY <1>1 DEF Handshake, HandshakeAbort, HelloReceived, HelloAckReceived, OnLinkReady,
     OnConnected, RefuseSelf, peerVars
<1>2. CASE \E l \in Link : ConnectTo(l) \/ OnIncomingSocket(l)
  BY <1>2 DEF ConnectTo, OnIncomingSocket, Create, peerVars
<1>3. CASE \E l \in Link : OnLinkDisconnected(l) \/ DeleteDeferred(l)
  BY <1>3 DEF DeleteDeferred, peerVars
<1>4. CASE OnSweep \/ \E p \in Peer : CloseLinkOf(p) \/ Expire(p)
  BY <1>4 DEF OnSweep, CloseLinkOf, Expire, peerVars, linkVars
<1> QED
  BY <1>1, <1>2, <1>3, <1>4 DEF Background

\* Nothing that runs in the background decides about a peer.
LEMMA UndecidedStays ==
  ASSUME Inv, Background, NEW p \in Peer, trust[p] = "Unknown"
  PROVE  trust'[p] = "Unknown"
<1>1. TypeOK
  BY DEF Inv
<1>2. ASSUME NEW q \in Peer, NEW f \in Fp, Learn(q, f)
      PROVE  trust'[p] = "Unknown"
  BY <1>1, <1>2 DEF Learn, LearnedTrust, Demoted, TypeOK
<1>3. CASE \E l \in Link, q \in Peer, f \in Fp : RefuseBlocked(l, q, f) \/ Admit(l, q, f)
  BY <1>2, <1>3 DEF RefuseBlocked, Admit
<1>4. CASE \E q \in Peer, f \in Fp, isFresh \in BOOLEAN : OnPeerAnnounced(q, f, isFresh)
  BY <1>1, <1>4 DEF OnPeerAnnounced, UpsertPeerFromAnnounce, Known, TypeOK, peerVars
<1>5. CASE \E l \in Link : OnLinkDisconnected(l)
  BY <1>5 DEF OnLinkDisconnected, peerVars
<1> QED
  BY BackgroundCases, <1>3, <1>4, <1>5

\* A peer that becomes connected and undecided has its prompt posted.
LEMMA PromptPosted ==
  ASSUME Inv, Background, NEW p \in Peer, links'[p] # None, trust'[p] = "Unknown"
  PROVE  \/ \E a \in asks' : a.peer = p
         \/ links[p] # None /\ trust[p] = "Unknown" /\ asks \subseteq asks'
<1>1. TypeOK
  BY DEF Inv
<1>2. CASE \E l \in Link : OnLinkDisconnected(l)
  <2>1. links[p] # None /\ UNCHANGED <<trust, asks>>
    BY <1>1, <1>2 DEF OnLinkDisconnected, Forget, peerVars, TypeOK
  <2> QED
    BY <2>1
<1>3. CASE \E l \in Link, q \in Peer, f \in Fp : RefuseBlocked(l, q, f)
  <2>1. PICK l \in Link, q \in Peer, f \in Fp : RefuseBlocked(l, q, f)
    BY <1>3
  <2>2. UNCHANGED <<links, asks>> /\ Learn(q, f) /\ trust[q] = "Blocked"
    BY <2>1 DEF RefuseBlocked
  <2> QED
    BY <2>2, LearnEffect
<1>4. ASSUME NEW l \in Link, NEW q \in Peer, NEW f \in Fp, Admit(l, q, f)
      PROVE  \/ \E a \in asks' : a.peer = p
             \/ links[p] # None /\ trust[p] = "Unknown" /\ asks \subseteq asks'
  <2>1. /\ links' = [links EXCEPT ![q] = l] /\ trust' = [trust EXCEPT ![q] = LearnedTrust(q, f)]
        /\ asks' = IF LearnedTrust(q, f) = "Unknown"
                     THEN asks \cup {[peer |-> q, fp |-> f]} ELSE asks
    BY <1>4 DEF Admit, Learn
  <2>2. CASE q = p
    <3>1. LearnedTrust(q, f) = "Unknown"
      BY <1>1, <2>1, <2>2 DEF TypeOK
    <3>2. [peer |-> q, fp |-> f] \in asks'
      BY <2>1, <3>1
    <3> QED
      BY <2>2, <3>2
  <2>3. CASE q # p
    BY <1>1, <2>1, <2>3 DEF TypeOK
  <2> QED
    BY <2>2, <2>3
<1>5. CASE \E q \in Peer, f \in Fp, isFresh \in BOOLEAN : OnPeerAnnounced(q, f, isFresh)
  <2>1. UNCHANGED <<links, asks>>
    BY <1>5 DEF OnPeerAnnounced, Create, linkVars
  <2>2. trust[p] # "Absent"
    BY <2>1 DEF Inv, LinkedKnown, Known
  <2>3. PICK q \in Peer, f \in Fp, isFresh \in BOOLEAN : UpsertPeerFromAnnounce(q, f, isFresh)
    BY <1>5, Zenon DEF OnPeerAnnounced
  <2>4. trust'[p] = trust[p]
    BY <1>1, <2>2, <2>3 DEF UpsertPeerFromAnnounce, Known, peerVars, TypeOK
  <2> QED
    BY <2>1, <2>4
<1>6. CASE UNCHANGED <<trust, fp, links, asks>>
  BY <1>6
<1> QED
  BY BackgroundCases, <1>2, <1>3, <1>4, <1>5, <1>6

\* Every step of TrustPrompt is one of PeerManager, or leaves it alone.
LEMMA PeerManagerStep ==
  ASSUME DialogPeer, [PromptNext]_allVars
  PROVE  [Next]_vars
<1>1. CASE Background
  BY <1>1 DEF Background, Next
<1>2. CASE \E a \in asks : EnqueueTrustPrompt(a)
  BY <1>2 DEF EnqueueTrustPrompt, Next
<1>3. CASE ProcessNextTrustPrompt
  BY <1>3 DEF ProcessNextTrustPrompt
<1>4. CASE Accept \/ Reject
  BY <1>4 DEF Accept, Reject, DialogPeer, Next, User
<1>5. CASE \E p \in Peer : SettingsTrust(p) \/ SettingsBlock(p)
  BY <1>5 DEF SettingsTrust, SettingsBlock, Next, User
<1>6. CASE PromptRestart
  BY <1>6 DEF PromptRestart, Next
<1>7. CASE UNCHANGED allVars
  BY <1>7 DEF allVars
<1> QED
  BY <1>1, <1>2, <1>3, <1>4, <1>5, <1>6, <1>7 DEF PromptNext
-----------------------------------------------------------------------------
(* The queue *)

LEMMA AppendSet ==
  ASSUME NEW q \in Seq(Peer), NEW p \in Peer
  PROVE  /\ Append(q, p) \in Seq(Peer) /\ Append(q, p) # <<>>
         /\ ToSet(Append(q, p)) = ToSet(q) \cup {p}
<1>1. Append(q, p) \in Seq(Peer) /\ Len(Append(q, p)) = Len(q) + 1 /\ Len(q) \in Nat
  OBVIOUS
<1>2. /\ \A i \in 1 .. Len(q) : Append(q, p)[i] = q[i]
      /\ Append(q, p)[Len(q) + 1] = p
  OBVIOUS
<1>3. DOMAIN q = 1 .. Len(q) /\ DOMAIN Append(q, p) = 1 .. (Len(q) + 1)
  BY <1>1
<1> QED
  BY <1>1, <1>2, <1>3 DEF ToSet

LEMMA TailSet ==
  ASSUME NEW q \in Seq(Peer), q # <<>>
  PROVE  /\ Tail(q) \in Seq(Peer) /\ Head(q) \in Peer
         /\ ToSet(q) \subseteq ToSet(Tail(q)) \cup {Head(q)}
<1>1. Len(q) \in Nat /\ Len(q) > 0 /\ Len(Tail(q)) = Len(q) - 1 /\ Tail(q) \in Seq(Peer)
  OBVIOUS
<1>2. Head(q) = q[1] /\ \A i \in 1 .. Len(Tail(q)) : Tail(q)[i] = q[i + 1]
  OBVIOUS
<1>3. DOMAIN q = 1 .. Len(q) /\ DOMAIN Tail(q) = 1 .. Len(Tail(q))
  BY <1>1
<1>4. ASSUME NEW i \in 1 .. Len(q) PROVE q[i] \in ToSet(Tail(q)) \cup {Head(q)}
  <2>1. CASE i = 1
    BY <1>2, <2>1
  <2>2. CASE i # 1
    <3>1. i - 1 \in 1 .. Len(Tail(q)) /\ Tail(q)[i - 1] = q[i]
      BY <1>1, <1>2, <2>2
    <3> QED
      BY <1>3, <3>1 DEF ToSet
  <2> QED
    BY <2>1, <2>2
<1> QED
  BY <1>1, <1>2, <1>3, <1>4 DEF ToSet
-----------------------------------------------------------------------------
LEMMA PromptStep ==
  ASSUME PromptInv, [PromptNext]_allVars
  PROVE  PromptInv'
<1> USE ConstantsAssumption
<1>1. Inv /\ TypeOK /\ trustQueue \in Seq(Peer) /\ posted \in Nat
      /\ dialog \in [peer : Peer \cup {None}, fp : Fp \cup {None}] /\ DialogPeer
  BY DEF PromptInv, PromptTypeOK
<1>2. Inv' /\ TypeOK'
  BY <1>1, PeerManagerStep, InvStep DEF Inv
<1> DEFINE Rest == /\ PromptTypeOK /\ DialogPeer
                   /\ QueueServed /\ DialogUndecided /\ PromptOwed
<1>3. ASSUME dialog' = NoDialog, posted' = Repost(trustQueue, posted), trustQueue' = trustQueue,
             trust'[dialog.peer] # "Unknown" \/ dialog = NoDialog,
             UNCHANGED <<links, asks>>, \A p \in Peer : trust'[p] = "Unknown" => trust[p] = "Unknown"
      PROVE  Rest'
  <2>1. PromptTypeOK'
    BY <1>1, <1>2, <1>3 DEF PromptTypeOK, NoDialog, Repost
  <2>2. QueueServed'
    BY <1>1, <1>3 DEF QueueServed, Repost
  <2>3. DialogPeer' /\ DialogUndecided'
    BY <1>3 DEF DialogPeer, DialogUndecided
  <2>4. PromptOwed'
    BY <1>3 DEF PromptOwed, PromptInv, NoDialog
  <2> QED
    BY <2>1, <2>2, <2>3, <2>4
<1>4. CASE Background
  <2>1. UNCHANGED <<trustQueue, posted, dialog>>
    BY <1>4 DEF Background, promptVars
  <2>2. PromptTypeOK' /\ QueueServed' /\ DialogPeer'
    BY <1>1, <1>2, <2>1 DEF PromptTypeOK, PromptInv, QueueServed, DialogPeer
  <2>3. DialogUndecided'
    BY <1>1, <1>4, <2>1, UndecidedStays DEF DialogUndecided, PromptInv, DialogPeer
  <2>4. PromptOwed'
    <3> SUFFICES ASSUME NEW p \in Peer, links'[p] # None, trust'[p] = "Unknown"
                 PROVE  (\E a \in asks' : a.peer = p) \/ p \in ToSet(trustQueue) \/ dialog.peer = p
      BY <2>1 DEF PromptOwed
    <3>1. CASE links[p] # None /\ trust[p] = "Unknown" /\ asks \subseteq asks'
      BY <3>1 DEF PromptInv, PromptOwed
    <3> QED
      BY <1>1, <1>4, <3>1, PromptPosted
  <2> QED
    BY <1>2, <2>2, <2>3, <2>4 DEF PromptInv
<1>5. ASSUME NEW a \in asks, EnqueueTrustPrompt(a)
      PROVE  PromptInv'
  <2>1. /\ asks' = asks \ {a} /\ UNCHANGED <<trust, links, dialog>> /\ a.peer \in Peer
    BY <1>1, <1>5 DEF EnqueueTrustPrompt, EmitTrustPrompt, peerVars, linkVars, TypeOK, Ask
  <2>2. CASE ToQueue(a.peer)
    <3>1. /\ trustQueue' = Append(trustQueue, a.peer)
          /\ posted' = IF dialog = NoDialog THEN posted + 1 ELSE posted
      BY <1>5, <2>2 DEF EnqueueTrustPrompt
    <3>2. PromptTypeOK' /\ QueueServed' /\ DialogPeer' /\ DialogUndecided'
      BY <1>1, <1>2, <2>1, <3>1, AppendSet
         DEF PromptTypeOK, QueueServed, DialogPeer, DialogUndecided, PromptInv
    <3>3. ToSet(trustQueue') = ToSet(trustQueue) \cup {a.peer}
      BY <1>1, <2>1, <3>1, AppendSet
    <3>4. PromptOwed'
      BY <2>1, <3>3 DEF PromptOwed, PromptInv
    <3> QED
      BY <1>2, <3>2, <3>4 DEF PromptInv
  <2>3. CASE ~ToQueue(a.peer)
    <3>1. UNCHANGED <<trustQueue, posted>>
      BY <1>5, <2>3 DEF EnqueueTrustPrompt
    <3>2. PromptTypeOK' /\ QueueServed' /\ DialogPeer' /\ DialogUndecided'
      BY <1>1, <1>2, <2>1, <3>1 DEF PromptTypeOK, QueueServed, DialogPeer, DialogUndecided, PromptInv
    <3>3. PromptOwed'
      BY <2>1, <2>3, <3>1 DEF PromptOwed, PromptInv, ToQueue
    <3> QED
      BY <1>2, <3>2, <3>3 DEF PromptInv
  <2> QED
    BY <2>2, <2>3
<1>6. CASE ProcessNextTrustPrompt
  <2>1. posted > 0 /\ UNCHANGED vars /\ UNCHANGED <<trust, links, asks, fp>>
    BY <1>6 DEF ProcessNextTrustPrompt, vars, peerVars, linkVars
  <2>2. CASE dialog # NoDialog \/ trustQueue = <<>>
    <3>1. posted' = posted - 1 /\ UNCHANGED <<trustQueue, dialog>>
      BY <1>6, <2>2 DEF ProcessNextTrustPrompt
    <3>2. PromptTypeOK' /\ QueueServed' /\ DialogPeer' /\ DialogUndecided' /\ PromptOwed'
      BY <1>1, <1>2, <2>1, <2>2, <3>1
         DEF PromptTypeOK, QueueServed, DialogPeer, DialogUndecided, PromptOwed, PromptInv
    <3> QED
      BY <1>2, <3>2 DEF PromptInv
  <2>3. CASE dialog = NoDialog /\ trustQueue # <<>>
    <3> DEFINE p == Head(trustQueue)
    <3>1. /\ trustQueue' = Tail(trustQueue)
          /\ IF StillUndecided(p)
               THEN dialog' = [peer |-> p, fp |-> fp[p]] /\ posted' = posted - 1
               ELSE posted' = Repost(Tail(trustQueue), posted - 1) /\ UNCHANGED dialog
      BY <1>6, <2>3 DEF ProcessNextTrustPrompt
    <3>2. /\ p \in Peer /\ trustQueue' \in Seq(Peer)
          /\ ToSet(trustQueue) \subseteq ToSet(trustQueue') \cup {p}
      BY <1>1, <2>3, <3>1, TailSet
    <3> HIDE DEF p
    <3>3. CASE StillUndecided(p)
      <4>1. dialog' = [peer |-> p, fp |-> fp[p]] /\ posted' = posted - 1 /\ fp[p] \in Fp \cup {None}
        BY <1>1, <3>1, <3>2, <3>3 DEF TypeOK
      <4>2. dialog'.peer = p /\ dialog' # NoDialog /\ dialog' \in [peer : Peer \cup {None}, fp : Fp \cup {None}]
        BY <3>2, <4>1 DEF NoDialog
      <4>3. PromptTypeOK' /\ QueueServed' /\ DialogPeer'
        BY <1>1, <1>2, <2>1, <3>2, <4>1, <4>2 DEF PromptTypeOK, QueueServed, DialogPeer
      <4>4. DialogUndecided'
        BY <2>1, <3>3, <4>2 DEF DialogUndecided, StillUndecided
      <4>5. PromptOwed'
        BY <2>1, <2>3, <3>2, <4>2 DEF PromptOwed, PromptInv, NoDialog
      <4> QED
        BY <1>2, <4>3, <4>4, <4>5 DEF PromptInv
    <3>4. CASE ~StillUndecided(p)
      <4>1. posted' = Repost(trustQueue', posted - 1) /\ UNCHANGED dialog
        BY <3>1, <3>4
      <4>2. PromptTypeOK' /\ QueueServed' /\ DialogPeer' /\ DialogUndecided'
        BY <1>1, <1>2, <2>1, <2>3, <3>2, <4>1
           DEF PromptTypeOK, QueueServed, DialogPeer, DialogUndecided, Repost
      <4>3. PromptOwed'
        BY <2>1, <3>2, <3>4, <4>1 DEF PromptOwed, PromptInv, StillUndecided
      <4> QED
        BY <1>2, <4>2, <4>3 DEF PromptInv
    <3> QED
      BY <3>3, <3>4
  <2> QED
    BY <2>2, <2>3
<1>7. ASSUME NEW p \in Peer, Trust(p) \/ Block(p)
      PROVE  /\ UNCHANGED <<links, asks>>
             /\ trust'[p] # "Unknown" /\ \A q \in Peer : trust'[q] = "Unknown" => trust[q] = "Unknown"
  BY <1>1, <1>7 DEF Trust, Block, SetTrust, linkVars, TypeOK
<1>8. CASE Accept \/ Reject
  <2>1. dialog # NoDialog /\ (Trust(dialog.peer) \/ Block(dialog.peer)) /\ CloseDialog
    BY <1>8 DEF Accept, Reject
  <2>2. dialog.peer \in Peer
    BY <1>1, <2>1 DEF DialogPeer
  <2>3. Rest'
    BY <1>3, <1>7, <2>1, <2>2 DEF CloseDialog
  <2> QED
    BY <1>2, <2>3 DEF PromptInv
<1>9. CASE \E p \in Peer : SettingsTrust(p) \/ SettingsBlock(p)
  <2>1. PICK p \in Peer : Trust(p) \/ Block(p)
    BY <1>9 DEF SettingsTrust, SettingsBlock
  <2>2. dialog = NoDialog /\ UNCHANGED <<trustQueue, posted, dialog>>
    BY <1>9 DEF SettingsTrust, SettingsBlock, promptVars
  <2>3. PromptTypeOK' /\ QueueServed' /\ DialogPeer' /\ DialogUndecided'
    BY <1>1, <1>2, <2>2 DEF PromptTypeOK, QueueServed, DialogPeer, DialogUndecided, PromptInv
  <2>4. PromptOwed'
    BY <1>7, <2>1, <2>2 DEF PromptOwed, PromptInv
  <2> QED
    BY <1>2, <2>3, <2>4 DEF PromptInv
<1>10. CASE PromptRestart
  <2>1. trustQueue' = <<>> /\ posted' = 0 /\ dialog' = NoDialog
    BY <1>10 DEF PromptRestart
  <2>2. links' = [p \in Peer |-> None]
    BY <1>10 DEF PromptRestart, Restart, CrashInDemotion, ReloadedFrom
  <2>3. PromptTypeOK' /\ QueueServed' /\ DialogPeer' /\ DialogUndecided'
    BY <1>2, <2>1 DEF PromptTypeOK, QueueServed, DialogPeer, DialogUndecided, NoDialog
  <2>4. PromptOwed'
    BY <2>2 DEF PromptOwed
  <2> QED
    BY <1>2, <2>3, <2>4 DEF PromptInv
<1>11. CASE UNCHANGED allVars
  <2>1. UNCHANGED <<trustQueue, posted, dialog, trust, links, asks>>
    BY <1>11 DEF allVars, vars, promptVars, peerVars, linkVars
  <2>2. PromptTypeOK' /\ QueueServed' /\ DialogPeer' /\ DialogUndecided' /\ PromptOwed'
    BY <1>1, <1>2, <2>1 DEF PromptTypeOK, QueueServed, DialogPeer, DialogUndecided, PromptOwed, PromptInv
  <2> QED
    BY <1>2, <2>2 DEF PromptInv
<1> QED
  BY <1>4, <1>5, <1>6, <1>8, <1>9, <1>10, <1>11 DEF PromptNext

LEMMA PromptInvariance == PromptSpec => []PromptInv
<1>1. PromptInit => PromptInv
  <2> SUFFICES ASSUME PromptInit PROVE PromptInv
    OBVIOUS
  <2>1. Inv
    BY ConstantsAssumption
       DEF PromptInit, Init, Inv, TypeOK, TrustState, LinkState, Ask, Tables, LinkTables, NoDangling,
           NoLeak, DoomedClosed, CachePersisted, LinkedKnown, LinkedOnline, BlockedCut
  <2>2. PromptTypeOK /\ DialogPeer /\ QueueServed /\ DialogUndecided
    BY <2>1 DEF PromptInit, Inv, PromptTypeOK, NoDialog, DialogPeer, QueueServed, DialogUndecided
  <2>3. PromptOwed
    BY DEF PromptInit, Init, PromptOwed
  <2> QED
    BY <2>1, <2>2, <2>3 DEF PromptInv
<1>2. PromptInv /\ [PromptNext]_allVars => PromptInv'
  BY PromptStep
<1> QED
  BY <1>1, <1>2, PTL DEF PromptSpec

\* The window's state is well typed in every reachable state, and so is
\* PeerManager's under the dialogs.
THEOREM PromptTypeCorrect == PromptSpec => []PromptTypeOK
<1>1. PromptInv => PromptTypeOK
  BY DEF PromptInv
<1> QED
  BY <1>1, PromptInvariance, PTL

\* A prompt is never stranded in the queue.
THEOREM QueueIsServed == PromptSpec => []QueueServed
<1>1. PromptInv => QueueServed
  BY DEF PromptInv
<1> QED
  BY <1>1, PromptInvariance, PTL

\* The dialog never asks about a peer that is decided.
THEOREM DialogIsUndecided == PromptSpec => []DialogUndecided
<1>1. PromptInv => DialogUndecided
  BY DEF PromptInv
<1> QED
  BY <1>1, PromptInvariance, PTL

\* No undecided peer is forgotten while it is connected.
THEOREM PromptIsOwed == PromptSpec => []PromptOwed
<1>1. PromptInv => PromptOwed
  BY DEF PromptInv
<1> QED
  BY <1>1, PromptInvariance, PTL

\* PeerManager keeps its invariant under the window's dialogs: each of its
\* steps in the composition is one of its own.
THEOREM PeerManagerKept == PromptSpec => [](LinkTables /\ NoDangling /\ CachePersisted /\ BlockedCut)
<1>1. PromptInv => LinkTables /\ NoDangling /\ CachePersisted /\ BlockedCut
  BY DEF PromptInv, Inv, Tables
<1> QED
  BY <1>1, PromptInvariance, PTL
=============================================================================
