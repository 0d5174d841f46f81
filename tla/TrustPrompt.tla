---------------------------- MODULE TrustPrompt ----------------------------
(***************************************************************************)
(* PeerManager together with the part of MainWindow that asks the user     *)
(* about new peers: a queue without duplicates, one dialog at a time, and  *)
(* the event loop the dialog nests, in which every handler of PeerManager  *)
(* keeps running while the user thinks.                                    *)
(***************************************************************************)
EXTENDS PeerManager, Sequences, SequencesExt

CONSTANT MaxPosted   \* bound on the processNextTrustPrompt calls posted

ASSUME MaxPostedAssumption == MaxPosted \in Nat \ {0}

VARIABLES
  trustQueue,  \* m_trustQueue; m_trustQueued holds the same peers
  posted,      \* processNextTrustPrompt calls posted and not yet run
  dialog       \* m_trustPromptActive and what the open TrustDialog shows

promptVars == <<trustQueue, posted, dialog>>
allVars == <<vars, promptVars>>

NoDialog == [peer |-> None, fp |-> None]

PromptInit ==
  /\ Init
  /\ trustQueue = <<>>
  /\ posted = 0
  /\ dialog = NoDialog
-----------------------------------------------------------------------------
\* A dialog that is already open is thought to settle the matter.
ToQueue_DialogBug(p) ==
  trust[p] = "Unknown" /\ p \notin ToSet(trustQueue) /\ dialog = NoDialog

\* The tests of enqueueTrustPrompt.
ToQueue(p) == trust[p] = "Unknown" /\ p \notin ToSet(trustQueue)

\* The posted lambda of onLinkReady runs: trustPromptRequested, and with it
\* enqueueTrustPrompt.
EnqueueTrustPrompt(a) ==
  /\ posted < MaxPosted
  /\ EmitTrustPrompt(a)
  /\ UNCHANGED dialog
  /\ IF ToQueue(a.peer)
       THEN /\ trustQueue' = Append(trustQueue, a.peer)
            /\ posted' = IF dialog = NoDialog THEN posted + 1 ELSE posted
       ELSE UNCHANGED <<trustQueue, posted>>

\* The rest of the queue waits for the next request.
Repost_Bug(queue, calls) == calls

\* The end of processNextTrustPrompt: a queue that is not empty is posted for.
Repost(queue, calls) == IF queue = <<>> THEN calls ELSE calls + 1

\* The queued peer is asked about without looking again.
StillUndecided_Bug(p) == Known(p)

\* onTrustPrompt looks again: the peer may have been decided while it waited.
StillUndecided(p) == trust[p] = "Unknown"

\* processNextTrustPrompt.  With a dialog open or an empty queue it returns; a
\* peer decided since is passed over; else the dialog opens, with the peer's
\* current fingerprint, and the function stays on the stack until it closes.
ProcessNextTrustPrompt ==
  /\ posted > 0
  /\ UNCHANGED vars
  /\ IF dialog # NoDialog \/ trustQueue = <<>>
       THEN posted' = posted - 1 /\ UNCHANGED <<trustQueue, dialog>>
       ELSE LET p == Head(trustQueue) IN
            /\ trustQueue' = Tail(trustQueue)
            /\ IF StillUndecided(p)
                 THEN /\ dialog' = [peer |-> p, fp |-> fp[p]]
                      /\ posted' = posted - 1
                 ELSE /\ posted' = Repost(Tail(trustQueue), posted - 1)
                      /\ UNCHANGED dialog

\* The user closes the dialog: Trust, or Reject, which blocks.
CloseDialog ==
  /\ dialog' = NoDialog
  /\ posted' = Repost(trustQueue, posted)
  /\ UNCHANGED trustQueue

Accept == dialog # NoDialog /\ Trust(dialog.peer) /\ CloseDialog
Reject == dialog # NoDialog /\ Block(dialog.peer) /\ CloseDialog

\* The Trust and Block buttons of the settings dialog.  The prompt is modal:
\* while it is open they cannot be pressed.
SettingsTrust(p) == dialog = NoDialog /\ Trust(p) /\ UNCHANGED promptVars
SettingsBlock(p) == dialog = NoDialog /\ Block(p) /\ UNCHANGED promptVars

\* The process ends and starts again: the window's state goes with it.
PromptRestart ==
  /\ \/ Restart
     \/ \E l \in Link, p \in Peer, f \in Fp : CrashInDemotion(l, p, f)
  /\ trustQueue' = <<>>
  /\ posted' = 0
  /\ dialog' = NoDialog

\* What runs in the event loop, nested or not, without touching the prompts.
Background ==
  /\ \/ \E l \in Link : ConnectTo(l) \/ OnIncomingSocket(l) \/ Handshake(l)
     \/ \E p \in Peer, f \in Fp, isFresh \in BOOLEAN : OnPeerAnnounced(p, f, isFresh)
     \/ \E p \in Peer : CloseLinkOf(p) \/ Expire(p)
     \/ \E l \in Link : OnLinkDisconnected(l) \/ DeleteDeferred(l)
     \/ OnSweep
  /\ UNCHANGED promptVars

PromptNext ==
  \/ Background
  \/ \E a \in asks : EnqueueTrustPrompt(a)
  \/ ProcessNextTrustPrompt
  \/ Accept
  \/ Reject
  \/ \E p \in Peer : SettingsTrust(p) \/ SettingsBlock(p)
  \/ PromptRestart

\* The event loop runs what is posted; the user need not answer.
PromptSpec ==
  /\ PromptInit /\ [][PromptNext]_allVars
  /\ WF_allVars(ProcessNextTrustPrompt)
  /\ \A a \in Ask : WF_allVars(EnqueueTrustPrompt(a))
-----------------------------------------------------------------------------
(* Properties *)

PromptTypeOK ==
  /\ TypeOK
  /\ trustQueue \in Seq(Peer)
  /\ posted \in Nat
  /\ dialog \in [peer : Peer \cup {None}, fp : Fp \cup {None}]

\* Every undecided peer that is connected is on its way to the user: its prompt
\* is posted, queued or open.  No reconnection, duplicate request or answer
\* about another peer loses it.
PromptOwed ==
  \A p \in Peer : links[p] # None /\ trust[p] = "Unknown" =>
     \/ \E a \in asks : a.peer = p
     \/ p \in ToSet(trustQueue)
     \/ dialog.peer = p

\* A queue that is not empty is never stranded: a dialog is open, whose end
\* posts for the rest, or a call is posted.
QueueServed == trustQueue # <<>> => dialog # NoDialog \/ posted > 0

\* The open dialog asks about a peer that is still undecided, so its answer
\* never overrides a decision taken elsewhere while it was open.
DialogUndecided == dialog # NoDialog => trust[dialog.peer] = "Unknown"

\* A peer becomes trusted with the fingerprint the dialog showed.
TrustsWhatIsShown == [][Accept => fp[dialog.peer] = dialog.fp]_allVars
=============================================================================
