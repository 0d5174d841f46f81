---------------------------- MODULE LinkLifetime ----------------------------
(***************************************************************************)
(* PeerManager together with the dialogs that ask about file offers.  Such *)
(* a dialog is opened from within the readyRead handler of the link the    *)
(* offer came on (onReadyRead, handleJsonFrame, onLinkJson, onPeerJson,    *)
(* onIncomingOffer) and nests an event loop, so that the handler of the    *)
(* link stays on the stack while everything else goes on.                  *)
(*                                                                         *)
(* Qt deletes an object that asked for it by deleteLater only in an event  *)
(* loop nested no deeper than the one the request was made in.             *)
(***************************************************************************)
EXTENDS PeerManager, Sequences, SequencesExt

VARIABLES
  stack,   \* the links whose read handlers wait in a dialog, the newest last
  level    \* how many such dialogs were open when a link's deletion was posted

lifeVars == <<vars, stack, level>>

OnStack(l) == l \in ToSet(stack)

LifeInit ==
  /\ Init
  /\ stack = <<>>
  /\ level = [l \in Link |-> 0]

\* A handler called by the innermost event loop, what it posts included.
Runs(handler) ==
  /\ handler
  /\ level' = [l \in Link |-> IF l \in doomed' \ doomed THEN Len(stack) ELSE level[l]]
  /\ UNCHANGED stack

\* A file offer of a trusted peer.  Qt gives no readyRead for a socket whose
\* readyRead is being handled.
OfferArrives(l) ==
  /\ lstate[l] = "Ready" /\ ~OnStack(l)
  /\ linkToPeer[l] # None /\ trust[linkToPeer[l]] = "Trusted"
  /\ stack' = Append(stack, l)
  /\ UNCHANGED <<vars, level>>

\* The newest dialog is answered, and its handler goes on with the frames that
\* m_reader still holds: the link is used.
OfferAnswered ==
  /\ stack # <<>>
  /\ stack' = Front(stack)
  /\ UNCHANGED <<vars, level>>

DeletedByLoop(l) ==
  /\ Len(stack) <= level[l]
  /\ DeleteDeferred(l)
  /\ UNCHANGED <<stack, level>>

ProcessEnds ==
  /\ Restart
  /\ stack' = <<>>
  /\ UNCHANGED level

LifeNext ==
  \/ \E l \in Link : Runs(ConnectTo(l) \/ OnIncomingSocket(l) \/ Handshake(l) \/ OnLinkDisconnected(l))
  \/ \E p \in Peer, f \in Fp, isFresh \in BOOLEAN : Runs(OnPeerAnnounced(p, f, isFresh))
  \/ \E p \in Peer : Runs(CloseLinkOf(p) \/ Expire(p))
  \/ Runs(User \/ OnSweep) \/ \E a \in asks : Runs(EmitTrustPrompt(a))
  \/ \E l \in Link : OfferArrives(l) \/ DeletedByLoop(l)
  \/ OfferAnswered \/ ProcessEnds

LifeSpec == LifeInit /\ [][LifeNext]_lifeVars
-----------------------------------------------------------------------------
\* A link is not deleted while its own read handler is on the stack: when the
\* offer's dialog is answered, PeerLink::onReadyRead goes on with m_reader.
AliveOnStack == \A l \in Link : OnStack(l) => lstate[l] # "Free"
=============================================================================
