----------------------------- MODULE TwoNodes -----------------------------
(***************************************************************************)
(* Two node-talk processes, a and b, whose PeerManagers dial each other    *)
(* over TCP.  a has the smaller id, so a dials when it hears b's           *)
(* announcement; b only dials when its user adds a by address.             *)
(*                                                                         *)
(* A TCP connection has one name in Link, and each end of it is the        *)
(* PeerLink of that name in one of the two processes.  Each direction      *)
(* carries a FIFO sequence of frames; "fin" stands for the end of the      *)
(* stream, orderly or not.                                                 *)
(***************************************************************************)
EXTENDS Naturals, Sequences, FiniteSets

CONSTANTS a, b,   \* the two peer ids, a < b
          Fp,     \* fingerprints
          fpA, fpB,
          Link, None

ASSUME NodesAssumption ==
  /\ a # b
  /\ {fpA, fpB} \subseteq Fp
  /\ None \notin {a, b} \cup Fp \cup Link

VARIABLES
  aTrust, aFp, aDbTrust, aDbFp, aFresh, aOnline, aState, aLinks, aLinkToPeer,
  aPending, aDoomed, aAsks,
  bTrust, bFp, bDbTrust, bDbFp, bFresh, bOnline, bState, bLinks, bLinkToPeer,
  bPending, bDoomed, bAsks,
  toA, toB,             \* frames on the way to a and to b, per connection
  backlogA, backlogB    \* connections made by the kernel and not accepted yet

aVars == <<aTrust, aFp, aDbTrust, aDbFp, aFresh, aOnline, aState, aLinks, aLinkToPeer,
           aPending, aDoomed, aAsks>>
bVars == <<bTrust, bFp, bDbTrust, bDbFp, bFresh, bOnline, bState, bLinks, bLinkToPeer,
           bPending, bDoomed, bAsks>>
wires == <<toA, toB>>
vars == <<aVars, bVars, wires, backlogA, backlogB>>

A == INSTANCE PeerManager WITH
       Peer <- {b}, Self <- a, Greater <- {b},
       trust <- aTrust, fp <- aFp, dbTrust <- aDbTrust, dbFp <- aDbFp, fresh <- aFresh,
       online <- aOnline, lstate <- aState, links <- aLinks, linkToPeer <- aLinkToPeer,
       pending <- aPending, doomed <- aDoomed, asks <- aAsks

B == INSTANCE PeerManager WITH
       Peer <- {a}, Self <- b, Greater <- {},
       trust <- bTrust, fp <- bFp, dbTrust <- bDbTrust, dbFp <- bDbFp, fresh <- bFresh,
       online <- bOnline, lstate <- bState, links <- bLinks, linkToPeer <- bLinkToPeer,
       pending <- bPending, doomed <- bDoomed, asks <- bAsks
-----------------------------------------------------------------------------
(* The wires *)

\* What a PeerLink that goes from state s to state t writes.  Each of these
\* steps is one handler: a peer refused at the end of its handshake is still
\* sent the hello_ack.
Written(s, t) ==
  CASE s = "Connecting" /\ t = "HandshakingOut" -> <<"hello">>
    [] s = "HandshakingIn" /\ t = "Ready"       -> <<"hello_ack">>
    [] s = "HandshakingIn" /\ t = "Closing"     -> <<"hello_ack", "bye">>
    [] s = "HandshakingOut" /\ t = "Closing"    -> <<"bye">>
    [] s = "Ready" /\ t = "Closing"             -> <<"bye">>
    [] s \notin {"Free", "Connecting", "Closed"} /\ t \in {"Closed", "Free"} -> <<"fin">>
    [] OTHER -> <<>>

\* An end that no longer reads: its kernel drops what still comes in.
Deaf(state, c, backlog) == state[c] \in {"Closing", "Closed", "Free"} /\ c \notin backlog

\* The wires after a step, given what is left of them once the step has read.
Flow(restA, restB) ==
  /\ toA' = [c \in Link |-> IF Deaf(aState', c, backlogA') THEN <<>>
                             ELSE restA[c] \o Written(bState[c], bState'[c])]
  /\ toB' = [c \in Link |-> IF Deaf(bState', c, backlogB') THEN <<>>
                             ELSE restB[c] \o Written(aState[c], aState'[c])]

\* A connection name free at both ends, with nothing left in the network.
Unused(c) ==
  /\ aState[c] = "Free" /\ bState[c] = "Free"
  /\ toA[c] = <<>> /\ toB[c] = <<>>
  /\ c \notin backlogA \cup backlogB
OnlyUnused(s, t) == \A c \in Link : s[c] = "Free" /\ t[c] # "Free" => Unused(c)

\* A step of one process that reads nothing.
StepA == UNCHANGED <<bVars, backlogA, backlogB>> /\ Flow(toA, toB)
StepB == UNCHANGED <<aVars, backlogA, backlogB>> /\ Flow(toA, toB)

\* A step of one process that reads the next frame of connection c.
ReadA(c) == UNCHANGED <<bVars, backlogA, backlogB>> /\ Flow([toA EXCEPT ![c] = Tail(@)], toB)
ReadB(c) == UNCHANGED <<aVars, backlogA, backlogB>> /\ Flow(toA, [toB EXCEPT ![c] = Tail(@)])

NextIs(c, wire, frame) == wire[c] # <<>> /\ Head(wire[c]) = frame
-----------------------------------------------------------------------------
Init ==
  /\ A!Init /\ B!Init
  /\ toA = [c \in Link |-> <<>>] /\ toB = [c \in Link |-> <<>>]
  /\ backlogA = {} /\ backlogB = {}

\* Announcements, and peers added by hand.
AHearsB == A!OnPeerAnnounced(b, fpB, TRUE) /\ OnlyUnused(aState, aState') /\ StepA
BHearsA == B!OnPeerAnnounced(a, fpA, TRUE) /\ StepB
AddByHand(c) ==
  /\ Unused(c)
  /\ \/ A!ConnectTo(c) /\ StepA
     \/ B!ConnectTo(c) /\ StepB

\* The TCP handshake: the dialler's socket is connected, and the other end's
\* connection waits to be accepted; or the connection fails.
Established(c) ==
  \/ /\ A!OnConnected(c) /\ backlogB' = backlogB \cup {c}
     /\ UNCHANGED <<bVars, backlogA>> /\ Flow(toA, toB)
  \/ /\ B!OnConnected(c) /\ backlogA' = backlogA \cup {c}
     /\ UNCHANGED <<aVars, backlogB>> /\ Flow(toA, toB)

Accept(c) ==
  \/ /\ c \in backlogB /\ B!OnIncomingSocket(c) /\ backlogB' = backlogB \ {c}
     /\ UNCHANGED <<aVars, backlogA>> /\ Flow(toA, toB)
  \/ /\ c \in backlogA /\ A!OnIncomingSocket(c) /\ backlogA' = backlogA \ {c}
     /\ UNCHANGED <<bVars, backlogB>> /\ Flow(toA, toB)

\* One frame is read: onReadyRead, handleJsonFrame, onSocketError.
AReads(c) ==
  /\ c \notin backlogA
  /\ \/ NextIs(c, toA, "hello") /\ A!HelloReceived(c, b, fpB)
     \/ NextIs(c, toA, "hello_ack") /\ A!HelloAckReceived(c, b, fpB)
     \/ NextIs(c, toA, "bye") /\ A!HandshakeAbort(c)
     \/ NextIs(c, toA, "bye") /\ aLinks[b] = c /\ A!CloseLinkOf(b)
     \/ NextIs(c, toA, "fin") /\ A!OnLinkDisconnected(c)
  /\ ReadA(c)

BReads(c) ==
  /\ c \notin backlogB
  /\ \/ NextIs(c, toB, "hello") /\ B!HelloReceived(c, a, fpA)
     \/ NextIs(c, toB, "hello_ack") /\ B!HelloAckReceived(c, a, fpA)
     \/ NextIs(c, toB, "bye") /\ B!HandshakeAbort(c)
     \/ NextIs(c, toB, "bye") /\ bLinks[a] = c /\ B!CloseLinkOf(a)
     \/ NextIs(c, toB, "fin") /\ B!OnLinkDisconnected(c)
  /\ ReadB(c)

\* disconnectFromHost has written everything: the socket closes.
Flushed(c) ==
  \/ aState[c] = "Closing" /\ A!OnLinkDisconnected(c) /\ StepA
  \/ bState[c] = "Closing" /\ B!OnLinkDisconnected(c) /\ StepB

\* The network fails under a connection, or refuses it.
Broken(c) ==
  \/ aState[c] \in A!Handshaking \cup {"Ready"} /\ A!OnLinkDisconnected(c) /\ StepA
  \/ bState[c] \in B!Handshaking \cup {"Ready"} /\ B!OnLinkDisconnected(c) /\ StepB

\* Deletion of a link that still had its bye to write cuts it off.
CutBye(wire, c) ==
  [wire EXCEPT ![c] = IF @ # <<>> /\ @[Len(@)] = "bye" THEN SubSeq(@, 1, Len(@) - 1) ELSE @]

Delete(c) ==
  \/ A!DeleteDeferred(c) /\ StepA
  \/ B!DeleteDeferred(c) /\ StepB
  \/ /\ aState[c] = "Closing" /\ A!DeleteDeferred(c)
     /\ UNCHANGED <<bVars, backlogA, backlogB>> /\ Flow(toA, CutBye(toB, c))
  \/ /\ bState[c] = "Closing" /\ B!DeleteDeferred(c)
     /\ UNCHANGED <<aVars, backlogA, backlogB>> /\ Flow(CutBye(toA, c), toB)

\* Bye datagrams, and the users' decisions.
Other ==
  \/ A!CloseLinkOf(b) /\ StepA
  \/ B!CloseLinkOf(a) /\ StepB
  \/ A!User /\ StepA
  \/ B!User /\ StepB

\* A process ends, and its kernel closes what it had open or unaccepted.
Restarts ==
  \/ A!Restart /\ backlogA' = {} /\ UNCHANGED <<bVars, backlogB>>
     /\ toA' = [c \in Link |-> <<>>]
     /\ toB' = [c \in Link |-> IF Deaf(bState, c, backlogB) THEN <<>> ELSE
                  toB[c] \o (IF c \in backlogA THEN <<"fin">> ELSE Written(aState[c], "Free"))]
  \/ B!Restart /\ backlogB' = {} /\ UNCHANGED <<aVars, backlogA>>
     /\ toB' = [c \in Link |-> <<>>]
     /\ toA' = [c \in Link |-> IF Deaf(aState, c, backlogA) THEN <<>> ELSE
                  toA[c] \o (IF c \in backlogB THEN <<"fin">> ELSE Written(bState[c], "Free"))]

Next ==
  \/ AHearsB \/ BHearsA \/ Other \/ Restarts
  \/ \E c \in Link : AddByHand(c) \/ Established(c) \/ Accept(c) \/ AReads(c) \/ BReads(c)
                     \/ Flushed(c) \/ Broken(c) \/ Delete(c)

\* The kernels and the two event loops run.
Fairness ==
  \A c \in Link :
     /\ WF_vars(Established(c)) /\ WF_vars(Accept(c)) /\ WF_vars(Flushed(c))
     /\ WF_vars(AReads(c)) /\ WF_vars(BReads(c)) /\ WF_vars(Delete(c))

Spec == Init /\ [][Next]_vars /\ Fairness

\* Nothing happens but b's announcements and what follows from them.
CalmNext ==
  \/ AHearsB \/ BHearsA
  \/ \E c \in Link : Established(c) \/ Accept(c) \/ AReads(c) \/ BReads(c) \/ Flushed(c) \/ Delete(c)

CalmSpec == Init /\ [][CalmNext]_vars /\ Fairness
-----------------------------------------------------------------------------
(* Properties *)

Frame == {"hello", "hello_ack", "bye", "fin"}
WireTypeOK ==
  /\ A!TypeOK /\ B!TypeOK
  /\ toA \in [Link -> Seq(Frame)] /\ toB \in [Link -> Seq(Frame)]
  /\ backlogA \subseteq Link /\ backlogB \subseteq Link

\* An end whose handshake is under way never waits for nothing: the frame that
\* takes it further is on its way, or the other end is about to write it.
HandshakeAlive ==
  \A c \in Link :
    /\ aState[c] = "HandshakingOut" /\ toA[c] = <<>> =>
         NextIs(c, toB, "hello") /\ (c \in backlogB \/ bState[c] = "HandshakingIn")
    /\ bState[c] = "HandshakingOut" /\ toB[c] = <<>> =>
         NextIs(c, toA, "hello") /\ (c \in backlogA \/ aState[c] = "HandshakingIn")
    /\ aState[c] = "HandshakingIn" => toA[c] # <<>>
    /\ bState[c] = "HandshakingIn" => toB[c] # <<>>

\* An end that is ready with nothing left to read has the other end ready too,
\* or one hello_ack away from it: no link stays open on one side only.
NoHalfOpen ==
  \A c \in Link :
    /\ aState[c] = "Ready" /\ toA[c] = <<>> =>
         bState[c] = "Ready" \/ (bState[c] = "HandshakingOut" /\ NextIs(c, toB, "hello_ack"))
    /\ bState[c] = "Ready" /\ toB[c] = <<>> =>
         aState[c] = "Ready" \/ (aState[c] = "HandshakingOut" /\ NextIs(c, toA, "hello_ack"))

\* Nothing is in flight and no handler or deletion is owed.
Quiet ==
  /\ \A c \in Link : toA[c] = <<>> /\ toB[c] = <<>>
  /\ \A c \in Link : {aState[c], bState[c]} \subseteq {"Free", "Ready"}
  /\ backlogA = {} /\ backlogB = {}

\* When all is quiet both processes use the same connection, or neither has one,
\* in whatever order each of them saw duplicate connections become ready.
Agreement == Quiet => aLinks[b] = bLinks[a]

\* Every handshake ends.
HandshakesEnd ==
  \A c \in Link :
    /\ aState[c] \in A!Handshaking ~> aState[c] \notin A!Handshaking
    /\ bState[c] \in B!Handshaking ~> bState[c] \notin B!Handshaking

\* A connected pair stays connected, as long as nobody closes, blocks, restarts
\* or breaks anything: only one side dials, so no second connection is made that
\* could compete with the first.
StaysConnected == [][aLinks[b] # None => aLinks'[b] # None]_vars
=============================================================================
