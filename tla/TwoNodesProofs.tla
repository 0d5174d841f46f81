-------------------------- MODULE TwoNodesProofs --------------------------
(***************************************************************************)
(* What TLAPS proves of two connected processes, for any number of         *)
(* connections between them.                                               *)
(*                                                                         *)
(* Each process is an instance of PeerManager, so its own invariant is the *)
(* one of PeerManagerProofs, instantiated twice (PA and PB) and not proved *)
(* again.  What is new is the relation between the two ends of every       *)
(* connection and the frames on their way: Joint below.                    *)
(***************************************************************************)
EXTENDS TwoNodes, SequenceTheorems, TLAPS

PA == INSTANCE PeerManagerProofs WITH
        Peer <- {b}, Self <- a, Greater <- {b},
        trust <- aTrust, fp <- aFp, dbTrust <- aDbTrust, dbFp <- aDbFp, fresh <- aFresh,
        online <- aOnline, lstate <- aState, links <- aLinks, linkToPeer <- aLinkToPeer,
        pending <- aPending, doomed <- aDoomed, asks <- aAsks

PB == INSTANCE PeerManagerProofs WITH
        Peer <- {a}, Self <- b, Greater <- {},
        trust <- bTrust, fp <- bFp, dbTrust <- bDbTrust, dbFp <- bDbFp, fresh <- bFresh,
        online <- bOnline, lstate <- bState, links <- bLinks, linkToPeer <- bLinkToPeer,
        pending <- bPending, doomed <- bDoomed, asks <- bAsks

\* Both processes are instances of PeerManager whose constants are legal.
LEMMA ConstantsOfA == PA!ConstantsAssumption
  BY NodesAssumption DEF PA!ConstantsAssumption
LEMMA ConstantsOfB == PB!ConstantsAssumption
  BY NodesAssumption DEF PB!ConstantsAssumption

LinkState == A!LinkState
-----------------------------------------------------------------------------
(* The frames of one connection *)

\* Reading takes the first frame off a wire.
LEMMA WireRead ==
  /\ Head(<<"hello">>) = "hello" /\ Tail(<<"hello">>) = <<>>
  /\ Head(<<"hello", "fin">>) = "hello" /\ Tail(<<"hello", "fin">>) = <<"fin">>
  /\ Head(<<"hello_ack">>) = "hello_ack" /\ Tail(<<"hello_ack">>) = <<>>
  /\ Head(<<"hello_ack", "bye">>) = "hello_ack" /\ Tail(<<"hello_ack", "bye">>) = <<"bye">>
  /\ Head(<<"hello_ack", "fin">>) = "hello_ack" /\ Tail(<<"hello_ack", "fin">>) = <<"fin">>
  /\ Head(<<"hello_ack", "bye", "fin">>) = "hello_ack"
  /\ Tail(<<"hello_ack", "bye", "fin">>) = <<"bye", "fin">>
  /\ Head(<<"bye">>) = "bye" /\ Tail(<<"bye">>) = <<>>
  /\ Head(<<"bye", "fin">>) = "bye" /\ Tail(<<"bye", "fin">>) = <<"fin">>
  /\ Head(<<"fin">>) = "fin" /\ Tail(<<"fin">>) = <<>>
<1>1. /\ \A x : Head(<<x>>) = x /\ Tail(<<x>>) = <<>>
      /\ \A x, y : Head(<<x, y>>) = x /\ Tail(<<x, y>>) = <<y>>
      /\ \A x, y, z : Head(<<x, y, z>>) = x /\ Tail(<<x, y, z>>) = <<y, z>>
  OBVIOUS
<1> QED
  BY <1>1

\* Writing appends: for any frames, then for those that handlers do write.
LEMMA FramesAdded ==
  ASSUME NEW x \in Frame, NEW y \in Frame, NEW z \in Frame
  PROVE  /\ <<>> \o <<x>> = <<x>> /\ <<>> \o <<x, y>> = <<x, y>>
         /\ <<x>> \o <<y>> = <<x, y>> /\ <<x, y>> \o <<z>> = <<x, y, z>>
<1>1. <<x>> \in Seq(Frame) /\ <<x, y>> \in Seq(Frame) /\ <<x, y, z>> \in Seq(Frame)
  OBVIOUS
<1>2. <<>> \o <<x>> = <<x>> /\ <<>> \o <<x, y>> = <<x, y>>
  BY <1>1, ConcatEmptySeq
<1>3. <<x>> \o <<y>> = <<x, y>>
  <2>1. <<x>> \o <<y>> \in Seq(Frame) /\ Len(<<x>> \o <<y>>) = 2
    OBVIOUS
  <2>2. \A i \in 1 .. 2 : (<<x>> \o <<y>>)[i] = <<x, y>>[i]
    OBVIOUS
  <2> QED
    BY <1>1, <2>1, <2>2, SeqEqual
<1>4. <<x, y>> \o <<z>> = <<x, y, z>>
  <2>1. <<x, y>> \o <<z>> \in Seq(Frame) /\ Len(<<x, y>> \o <<z>>) = 3
    OBVIOUS
  <2>2. \A i \in 1 .. 3 : (<<x, y>> \o <<z>>)[i] = <<x, y, z>>[i]
    OBVIOUS
  <2> QED
    BY <1>1, <2>1, <2>2, SeqEqual
<1> QED
  BY <1>2, <1>3, <1>4

LEMMA WireExtended ==
  /\ <<>> \o <<"hello">> = <<"hello">> /\ <<>> \o <<"hello_ack">> = <<"hello_ack">>
  /\ <<>> \o <<"bye">> = <<"bye">> /\ <<>> \o <<"fin">> = <<"fin">>
  /\ <<>> \o <<"hello_ack", "bye">> = <<"hello_ack", "bye">>
  /\ <<"hello">> \o <<"fin">> = <<"hello", "fin">>
  /\ <<"bye">> \o <<"fin">> = <<"bye", "fin">>
  /\ <<"hello_ack">> \o <<"bye">> = <<"hello_ack", "bye">>
  /\ <<"hello_ack">> \o <<"fin">> = <<"hello_ack", "fin">>
  /\ <<"hello_ack", "bye">> \o <<"fin">> = <<"hello_ack", "bye", "fin">>
<1> "hello" \in Frame /\ "hello_ack" \in Frame /\ "bye" \in Frame /\ "fin" \in Frame
  BY DEF Frame
<1> QED
  BY FramesAdded
-----------------------------------------------------------------------------
(* One connection.  Its state is a tuple (s, q, u, t, r, v): s is the state  *)
(* of one end, q the frames on their way to it, u whether it waits in that   *)
(* end's backlog; t, r and v are the same of the other end.                  *)

Gone == {"Closed", "Free"}
NotReading == Gone \cup {"Closing"}

\* What the two ends and the network can be to each other, up to exchanging
\* the ends: nothing reads any more; a dial that no kernel has answered; a
\* hello on its way, with the dialler still there or not; a handshake answered,
\* and the answering end has since stayed, closed or gone; a dialler's or an
\* acceptor's open link, and the other end likewise.
HalfJoint(s, q, u, t, r, v) ==
  \/ {s, t} \subseteq NotReading /\ q = <<>> /\ r = <<>> /\ ~u /\ ~v
  \/ s = "Connecting" /\ t = "Free" /\ q = <<>> /\ r = <<>> /\ ~u /\ ~v
  \/ /\ (t = "HandshakingIn" /\ ~v) \/ (t = "Free" /\ v)
     /\ q = <<>> /\ ~u
     /\ \/ s = "HandshakingOut" /\ r = <<"hello">>
        \/ s \in Gone /\ r = <<"hello", "fin">>
  \/ /\ s = "HandshakingOut" /\ r = <<>> /\ ~u /\ ~v
     /\ \/ t = "Ready" /\ q = <<"hello_ack">>
        \/ t = "Closing" /\ q = <<"hello_ack", "bye">>
        \/ t \in Gone /\ q \in {<<"fin">>, <<"hello_ack", "fin">>, <<"hello_ack", "bye", "fin">>}
  \/ /\ s = "Ready" /\ r = <<>> /\ ~u /\ ~v
     /\ \/ t = "Ready" /\ q = <<>>
        \/ t = "Closing" /\ q = <<"bye">>
        \/ t \in Gone /\ q \in {<<"fin">>, <<"bye", "fin">>}

Joint(s, q, u, t, r, v) == HalfJoint(s, q, u, t, r, v) \/ HalfJoint(t, r, v, s, q, u)

\* What a handler of one process does to its end of a connection: nothing read,
\* or the first frame.
Kept(s, s2) == s2 = s \/ (s = "Ready" /\ s2 = "Closing")
Unread(s, s2) ==
  \/ Kept(s, s2)
  \/ s # "Free" /\ s2 = "Closed"
  \/ s \in {"Closing", "Closed"} /\ s2 = "Free"
Reads(s, q, s2) ==
  \/ Head(q) = "hello" /\ s = "HandshakingIn" /\ s2 \in {"Ready", "Closing"}
  \/ Head(q) = "hello_ack" /\ s = "HandshakingOut" /\ s2 \in {"Ready", "Closing"}
  \/ Head(q) = "bye" /\ s = "HandshakingIn" /\ s2 = "Closed"
  \/ Head(q) = "bye" /\ s \in {"HandshakingOut", "Ready", "Closing"} /\ s2 = "Closing"
  \/ Head(q) = "fin" /\ s # "Free" /\ s2 = "Closed"
Moves(s, q, u, s2, q2) ==
  \/ Unread(s, s2) /\ q2 = q
  \/ Reads(s, q, s2) /\ q # <<>> /\ q2 = Tail(q) /\ ~u

\* What reaches an end in state s of the frames q.
Arrived(s, u, q) == IF s \in NotReading /\ ~u THEN <<>> ELSE q

\* One end moves: first the one HalfJoint names first, then the other.
LEMMA FirstMoves ==
  ASSUME NEW s \in LinkState, NEW q, NEW u \in BOOLEAN,
         NEW t \in LinkState, NEW r, NEW v \in BOOLEAN,
         NEW s2 \in LinkState, NEW q2,
         HalfJoint(s, q, u, t, r, v), Moves(s, q, u, s2, q2)
  PROVE  Joint(s2, Arrived(s2, u, q2), u, t, Arrived(t, v, r \o Written(s, s2)), v)
<1> USE DEF Joint, HalfJoint, Arrived, Gone, NotReading
<1>1. CASE {s, t} \subseteq NotReading /\ q = <<>> /\ r = <<>> /\ ~u /\ ~v
  BY <1>1 DEF Moves, Unread, Reads, Kept
<1>2. CASE s = "Connecting" /\ t = "Free" /\ q = <<>> /\ r = <<>> /\ ~u /\ ~v
  BY <1>2 DEF Moves, Unread, Reads, Kept
<1>3. CASE (t = "HandshakingIn" /\ ~v) \/ (t = "Free" /\ v)
  <2>1. /\ q = <<>> /\ ~u
        /\ \/ s = "HandshakingOut" /\ r = <<"hello">>
           \/ s \in Gone /\ r = <<"hello", "fin">>
    BY <1>3
  <2>2. q2 = q /\ q = <<>> /\ ~u
     BY <2>1 DEF Moves
  <2>3. CASE s = "HandshakingOut" /\ r = <<"hello">>
    <3>1. s2 = s \/ s2 = "Closed"
      BY <2>1, <2>3 DEF Moves, Unread, Reads, Kept
    <3>2. CASE s2 = s
      BY <1>3, <2>1, <2>2, <2>3, <3>2 DEF Written
    <3>3. CASE s2 = "Closed"
      <4>1. Written(s, s2) = <<"fin">>
        BY <2>3, <3>3 DEF Written
      <4>2. r \o Written(s, s2) = <<"hello", "fin">>
        BY <2>3, <4>1, WireExtended
      <4> QED
        BY <1>3, <2>1, <2>2, <2>3, <3>3, <4>2
    <3> QED BY <3>1, <3>2, <3>3
  <2>4. CASE s \in Gone /\ r = <<"hello", "fin">>
    <3>1. s2 \in Gone
      BY <2>1, <2>4 DEF Moves, Unread, Reads, Kept
    <3>2. Written(s, s2) = <<>>
      BY <2>4, <3>1 DEF Written
    <3>3. r \o Written(s, s2) = r
      BY <2>4, <3>2
    <3> QED
      BY <1>3, <2>1, <2>2, <2>4, <3>1, <3>3
  <2> QED BY <2>1, <2>3, <2>4
<1>4. CASE s = "HandshakingOut" /\ r = <<>> /\ ~u /\ ~v
  <2>1. CASE Unread(s, s2) /\ q2 = q
    <3>1. s2 \in {s, "Closed"}
      BY <1>4, <2>1 DEF Unread, Kept
    <3>2. Written(s, s2) \in {<<>>, <<"fin">>}
      BY <1>4, <3>1 DEF Written
    <3>3. CASE s2 = s
      BY <1>4, <2>1, <3>3 DEF Written
    <3>4. CASE s2 = "Closed"
      <4>1. Written(s, s2) = <<"fin">>
        BY <1>4, <3>4 DEF Written
      <4>2. r \o Written(s, s2) = <<"fin">>
        BY <1>4, <4>1, WireExtended
      <4> QED
      BY <1>4, <2>1, <3>4, <4>2
    <3> QED
      BY <3>1, <3>3, <3>4
  <2>2. CASE Reads(s, q, s2) /\ q # <<>> /\ q2 = Tail(q)
    <3>1. CASE Head(q) = "hello_ack" /\ s2 = "Ready"
      <4>1. r \o Written(s, s2) = <<>>
        BY <1>4, <3>1 DEF Written
      <4>2. CASE t = "Ready"
        BY <1>4, <2>2, <3>1, <4>1, <4>2, WireRead
      <4>3. CASE t = "Closing"
        <5>1. q2 = <<"bye">>
          BY <1>4, <2>2, <4>3, WireRead
        <5> QED
          BY <1>4, <3>1, <4>1, <4>3, <5>1
      <4>4. CASE t \in Gone
        <5>1. q \in {<<"hello_ack", "fin">>, <<"hello_ack", "bye", "fin">>}
          <6>1. q \in {<<"fin">>, <<"hello_ack", "fin">>, <<"hello_ack", "bye", "fin">>}
            BY <1>4, <4>4
          <6> QED
            BY <3>1, <6>1, WireRead
        <5>2. q2 \in {<<"fin">>, <<"bye", "fin">>}
          BY <2>2, <5>1, WireRead
        <5> QED
          BY <1>4, <3>1, <4>1, <4>4, <5>2
      <4> QED
        BY <1>4, <4>2, <4>3, <4>4
    <3>2. CASE Head(q) = "hello_ack" /\ s2 = "Closing"
      <4>1. r \o Written(s, s2) = <<"bye">>
        BY <1>4, <3>2, WireExtended DEF Written
      <4> QED
        BY <1>4, <2>2, <3>2, <4>1, WireRead
    <3>3. CASE Head(q) = "fin" /\ s2 = "Closed"
        BY <1>4, <2>2, <3>3, WireRead
    <3> QED
      BY <1>4, <2>2, <3>1, <3>2, <3>3, WireRead DEF Reads
  <2> QED
    BY <2>1, <2>2 DEF Moves
<1>5. CASE s = "Ready" /\ r = <<>> /\ ~u /\ ~v
  BY <1>5, WireRead DEF Moves, Unread, Reads, Kept, Written
<1> QED
  BY <1>1, <1>2, <1>3, <1>4, <1>5

LEMMA SecondMoves ==
  ASSUME NEW s \in LinkState, NEW q, NEW u \in BOOLEAN,
         NEW t \in LinkState, NEW r, NEW v \in BOOLEAN,
         NEW s2 \in LinkState, NEW q2,
         HalfJoint(t, r, v, s, q, u), Moves(s, q, u, s2, q2)
  PROVE  Joint(s2, Arrived(s2, u, q2), u, t, Arrived(t, v, r \o Written(s, s2)), v)
<1> USE DEF Joint, HalfJoint, Arrived, Gone, NotReading
<1>1. CASE {s, t} \subseteq NotReading /\ q = <<>> /\ r = <<>> /\ ~u /\ ~v
  BY <1>1 DEF Moves, Unread, Kept
<1>2. CASE t = "Connecting" /\ s = "Free" /\ q = <<>> /\ r = <<>> /\ ~u /\ ~v
  BY <1>2 DEF Moves, Unread, Kept, Written
<1>3. CASE /\ (s = "HandshakingIn" /\ ~u) \/ (s = "Free" /\ u)
           /\ r = <<>> /\ ~v
           /\ \/ t = "HandshakingOut" /\ q = <<"hello">>
              \/ t \in Gone /\ q = <<"hello", "fin">>
  <2>1. CASE Unread(s, s2) /\ q2 = q
    <3>1. s2 = s \/ (s = "HandshakingIn" /\ s2 = "Closed" /\ ~u)
      BY <1>3, <2>1 DEF Unread, Kept
    <3>2. CASE s2 = s
      <4>1. r \o Written(s, s2) = <<>>
        BY <1>3, <3>2 DEF Written
      <4> QED
        BY <1>3, <2>1, <3>2, <4>1
    <3>3. CASE s = "HandshakingIn" /\ s2 = "Closed" /\ ~u
      <4>1. r \o Written(s, s2) = <<"fin">>
        BY <1>3, <3>3, WireExtended DEF Written
      <4> QED
        BY <1>3, <2>1, <3>3, <4>1
    <3> QED
      BY <3>1, <3>2, <3>3
  <2>2. CASE Reads(s, q, s2) /\ q # <<>> /\ q2 = Tail(q) /\ ~u
    <3>1. s = "HandshakingIn" /\ s2 \in {"Ready", "Closing"}
      BY <1>3, <2>2, WireRead DEF Reads
    <3>2. CASE s2 = "Ready"
      <4>1. r \o Written(s, s2) = <<"hello_ack">>
        BY <1>3, <3>1, <3>2, WireExtended DEF Written
      <4> QED
        <5>1. CASE t = "HandshakingOut"
          <6>1. q2 = <<>>
            BY <1>3, <2>2, <5>1, WireRead
          <6> QED
            BY <1>3, <2>2, <3>1, <3>2, <4>1, <5>1, <6>1
        <5>2. CASE t \in Gone
          <6>1. q2 = <<"fin">>
            BY <1>3, <2>2, <5>2, WireRead
          <6> QED
            BY <1>3, <2>2, <3>1, <3>2, <4>1, <5>2, <6>1
        <5> QED
          BY <1>3, <5>1, <5>2
    <3>3. CASE s2 = "Closing"
      <4>1. r \o Written(s, s2) = <<"hello_ack", "bye">>
        BY <1>3, <3>1, <3>3, WireExtended DEF Written
      <4> QED
        <5>1. CASE t = "HandshakingOut"
          BY <1>3, <2>2, <3>1, <3>3, <4>1, <5>1
        <5>2. CASE t \in Gone
          BY <1>3, <2>2, <3>1, <3>3, <4>1, <5>2
        <5> QED
          BY <1>3, <5>1, <5>2
    <3> QED
      BY <3>1, <3>2, <3>3
  <2> QED
    BY <2>1, <2>2 DEF Moves
<1>4. CASE /\ t \in {"HandshakingOut", "Ready"} /\ q = <<>> /\ ~u /\ ~v
           /\ s \in {"Ready", "Closing", "Closed", "Free"}
  <2>1. q2 = <<>> /\ Unread(s, s2)
    BY <1>4 DEF Moves
  <2>2. \/ s2 = s
        \/ s = "Ready" /\ s2 = "Closing"
        \/ s \in {"Ready", "Closing"} /\ s2 \in Gone
        \/ s \in Gone /\ s2 \in Gone
    BY <1>4, <2>1 DEF Unread, Kept
  <2>3. CASE s2 = s \/ (s \in Gone /\ s2 \in Gone)
    <3>1. Written(s, s2) = <<>>
      BY <1>4, <2>3 DEF Written
    <3>2. r \o Written(s, s2) = r
      BY <1>4, <3>1
    <3> QED
      BY <1>4, <2>1, <2>3, <3>2
  <2>4. CASE s = "Ready" /\ s2 = "Closing"
    <3>1. Written(s, s2) = <<"bye">>
      BY <2>4 DEF Written
    <3>2. CASE t = "HandshakingOut"
      <4>1. r \o Written(s, s2) = <<"hello_ack", "bye">>
        BY <1>4, <2>4, <3>1, <3>2, WireExtended
      <4> QED
        BY <1>4, <2>1, <2>4, <3>2, <4>1
    <3>3. CASE t = "Ready"
      <4>1. r \o Written(s, s2) = <<"bye">>
        BY <1>4, <2>4, <3>1, <3>3, WireExtended
      <4> QED
        BY <1>4, <2>1, <2>4, <3>3, <4>1
    <3> QED
      BY <1>4, <3>2, <3>3
  <2>5. CASE s \in {"Ready", "Closing"} /\ s2 \in Gone
    <3>1. Written(s, s2) = <<"fin">>
      BY <2>5 DEF Written
    <3>2. CASE t = "HandshakingOut"
      <4>1. r \o Written(s, s2) \in {<<"hello_ack", "fin">>, <<"hello_ack", "bye", "fin">>}
        BY <1>4, <2>5, <3>1, <3>2, WireExtended
      <4> QED
        BY <1>4, <2>1, <2>5, <3>2, <4>1
    <3>3. CASE t = "Ready"
      <4>1. r \o Written(s, s2) \in {<<"fin">>, <<"bye", "fin">>}
        BY <1>4, <2>5, <3>1, <3>3, WireExtended
      <4> QED
        BY <1>4, <2>1, <2>5, <3>3, <4>1
    <3> QED
      BY <1>4, <3>2, <3>3
  <2> QED
    BY <2>2, <2>3, <2>4, <2>5
<1> QED
  BY <1>1, <1>2, <1>3, <1>4

\* The relation of the two ends survives any step of one of them.
LEMMA JointKept ==
  ASSUME NEW s \in LinkState, NEW q, NEW u \in BOOLEAN,
         NEW t \in LinkState, NEW r, NEW v \in BOOLEAN,
         NEW s2 \in LinkState, NEW q2, Joint(s, q, u, t, r, v), Moves(s, q, u, s2, q2)
  PROVE  Joint(s2, Arrived(s2, u, q2), u, t, Arrived(t, v, r \o Written(s, s2)), v)
  BY FirstMoves, SecondMoves DEF Joint

LEMMA JointIsSymmetric ==
  ASSUME NEW s, NEW q, NEW u, NEW t, NEW r, NEW v, Joint(s, q, u, t, r, v)
  PROVE  Joint(t, r, v, s, q, u)
  BY DEF Joint

\* Joint says which frames a wire carries.
LEMMA JointWires ==
  ASSUME NEW s, NEW q, NEW u, NEW t, NEW r, NEW v, Joint(s, q, u, t, r, v)
  PROVE  q \in Seq(Frame) /\ r \in Seq(Frame)
<1>1. ASSUME NEW x \in Frame, NEW y \in Frame, NEW z \in Frame
      PROVE  {<<>>, <<x>>, <<x, y>>, <<x, y, z>>} \subseteq Seq(Frame)
  OBVIOUS
<1>2. {"hello", "hello_ack", "bye", "fin"} = Frame
  BY DEF Frame
<1>3. {<<>>, <<"hello">>, <<"hello", "fin">>, <<"hello_ack">>, <<"hello_ack", "bye">>, <<"fin">>,
       <<"hello_ack", "fin">>, <<"hello_ack", "bye", "fin">>, <<"bye">>, <<"bye", "fin">>}
        \subseteq Seq(Frame)
  BY <1>1, <1>2
<1> QED
  BY <1>3 DEF Joint, HalfJoint

\* The dialler's connection is up: its hello is written, and the other kernel
\* holds the connection until it is accepted.
LEMMA JointEstablished ==
  ASSUME NEW q, NEW u \in BOOLEAN, NEW t \in LinkState, NEW r, NEW v \in BOOLEAN,
         Joint("Connecting", q, u, t, r, v)
  PROVE  /\ ~u /\ q = <<>> /\ t = "Free"
         /\ Joint("HandshakingOut", q, u, t, r \o Written("Connecting", "HandshakingOut"), TRUE)
<1>1. t = "Free" /\ q = <<>> /\ r = <<>> /\ ~u /\ ~v
  BY DEF Joint, HalfJoint, Gone, NotReading
<1>2. r \o Written("Connecting", "HandshakingOut") = <<"hello">>
  BY <1>1, WireExtended DEF Written
<1> QED
  BY <1>1, <1>2 DEF Joint, HalfJoint

\* The connection is accepted.
LEMMA JointAccepted ==
  ASSUME NEW q, NEW t \in LinkState, NEW r, NEW v \in BOOLEAN, Joint("Free", q, TRUE, t, r, v)
  PROVE  /\ ~v /\ r = <<>> /\ q # <<>>
         /\ Joint("HandshakingIn", q, FALSE, t, r, v)
  BY DEF Joint, HalfJoint, Gone, NotReading

\* CutBye on the frames q of one connection.
Cut(q) == IF q # <<>> /\ q[Len(q)] = "bye" THEN SubSeq(q, 1, Len(q) - 1) ELSE q

\* An end whose bye is not written yet is deleted: the stream ends without it.
LEMMA JointCut ==
  ASSUME NEW q, NEW u \in BOOLEAN, NEW t \in LinkState, NEW r, NEW v \in BOOLEAN,
         Joint("Closing", q, u, t, r, v)
  PROVE  /\ ~u
         /\ Joint("Free", <<>>, u, t, Arrived(t, v, Cut(r) \o Written("Closing", "Free")), v)
<1>1. Written("Closing", "Free") = <<"fin">>
  BY DEF Written
<1>2. CASE t \in NotReading /\ ~u /\ ~v
  BY <1>2 DEF Joint, HalfJoint, Arrived, Gone, NotReading
<1>3. CASE t = "HandshakingOut" /\ ~u /\ r = <<"hello_ack", "bye">>
  <2>1. r[Len(r)] = "bye" /\ Len(r) = 2
    BY <1>3
  <2>2. SubSeq(r, 1, Len(r) - 1) = <<"hello_ack">>
    <3> DEFINE ack == <<"hello_ack">>
    <3>1. ack \in Seq(Frame) /\ <<"bye">> \in Seq(Frame) /\ Len(ack) = 1
      BY DEF Frame
    <3>2. r = ack \o <<"bye">>
      BY <1>3, WireExtended
    <3> HIDE DEF ack
    <3>3. SubSeq(r, 1, 1) = SubSeq(ack, 1, 1)
      BY <3>1, <3>2, SubSeqOfConcat1
    <3>4. SubSeq(ack, 1, 1) = ack
      BY <3>1, SubSeqFull
    <3>5. Len(r) - 1 = 1
      BY <2>1
    <3> QED
      BY <3>3, <3>4, <3>5 DEF ack
  <2>3. Cut(r) \o Written("Closing", "Free") = <<"hello_ack", "fin">>
    BY <1>1, <1>3, <2>1, <2>2, WireExtended DEF Cut
  <2>4. ~v
    BY <1>3 DEF Joint, HalfJoint, Gone, NotReading
  <2> QED
    BY <1>3, <2>3, <2>4 DEF Joint, HalfJoint, Arrived, Gone, NotReading
<1>4. CASE t = "Ready" /\ ~u /\ r = <<"bye">>
  <2>1. r[Len(r)] = "bye" /\ SubSeq(r, 1, Len(r) - 1) = <<>>
    BY <1>4
  <2>2. Cut(r) \o Written("Closing", "Free") = <<"fin">>
    BY <1>1, <1>4, <2>1, WireExtended DEF Cut
  <2>3. ~v
    BY <1>4 DEF Joint, HalfJoint, Gone, NotReading
  <2> QED
    BY <1>4, <2>2, <2>3 DEF Joint, HalfJoint, Arrived, Gone, NotReading
<1> QED
  BY <1>2, <1>3, <1>4 DEF Joint, HalfJoint, Gone, NotReading

\* The end's process is gone, with all it had open or unaccepted.
LEMMA JointRestarted ==
  ASSUME NEW s \in LinkState, NEW q, NEW u \in BOOLEAN,
         NEW t \in LinkState, NEW r, NEW v \in BOOLEAN,
         Joint(s, q, u, t, r, v)
  PROVE  Joint("Free", <<>>, FALSE, t,
               Arrived(t, v, r \o (IF u THEN <<"fin">> ELSE Written(s, "Free"))), v)
<1> DEFINE w == IF u THEN <<"fin">> ELSE Written(s, "Free")
<1> USE DEF Joint, HalfJoint, Arrived, Gone, NotReading
<1>1. CASE t \in NotReading /\ ~v
  BY <1>1
<1>2. CASE v \/ t = "HandshakingIn"
  <2>1. \/ s = "HandshakingOut" /\ r = <<"hello">>
        \/ s \in Gone /\ r = <<"hello", "fin">>
    BY <1>2
  <2>2. ~u
    BY <1>2
  <2>3. r \o w = <<"hello", "fin">>
    <3>1. CASE s = "HandshakingOut" /\ r = <<"hello">>
      BY <2>2, <3>1, WireExtended DEF Written
    <3>2. CASE s \in Gone /\ r = <<"hello", "fin">>
      <4>1. w = <<>>
        BY <2>2, <3>2 DEF Written
      <4>2. r \o <<>> = r
        BY <3>2
      <4> QED
        BY <3>2, <4>1, <4>2
    <3> QED
      BY <2>1, <3>1, <3>2
  <2> QED
    BY <1>2, <2>2, <2>3
<1>3. CASE t = "Connecting" /\ ~v
  <2>1. s = "Free" /\ r = <<>> /\ ~u
    BY <1>3
  <2>2. r \o w = <<>>
    BY <2>1 DEF Written
  <2> QED
    BY <1>3, <2>2
<1>4. CASE t = "HandshakingOut" /\ ~v
  <2>1. CASE u \/ s = "HandshakingIn"
    <3>1. r = <<>> /\ w = <<"fin">>
      BY <1>4, <2>1 DEF Written
    <3>2. r \o w = <<"fin">>
      BY <3>1, WireExtended
    <3> QED
      BY <1>4, <3>2
  <2>2. CASE s = "Ready" /\ ~u
    <3>1. r = <<"hello_ack">> /\ w = <<"fin">>
      BY <1>4, <2>2 DEF Written
    <3>2. r \o w = <<"hello_ack", "fin">>
      BY <3>1, WireExtended
    <3> QED
      BY <1>4, <3>2
  <2>3. CASE s = "Closing" /\ ~u
    <3>1. r = <<"hello_ack", "bye">> /\ w = <<"fin">>
      BY <1>4, <2>3 DEF Written
    <3>2. r \o w = <<"hello_ack", "bye", "fin">>
      BY <3>1, WireExtended
    <3> QED
      BY <1>4, <3>2
  <2>4. CASE s \in Gone /\ ~u
    <3>1. r \in {<<"fin">>, <<"hello_ack", "fin">>, <<"hello_ack", "bye", "fin">>}
      BY <1>4, <2>4
    <3>2. w = <<>>
      BY <2>4 DEF Written
    <3>3. r \o w = r
      BY <3>1, <3>2
    <3> QED
      BY <1>4, <3>1, <3>3
  <2> QED
    BY <1>4, <2>1, <2>2, <2>3, <2>4
<1>5. CASE t = "Ready" /\ ~v
  <2>1. ~u
    BY <1>5
  <2>2. s \in {"HandshakingOut", "Ready", "Closing"} \cup Gone
    BY <1>5
  <2>3. CASE s \in {"HandshakingOut", "Ready"}
    <3>1. r \o w = <<"fin">>
      BY <1>5, <2>1, <2>3, WireExtended DEF Written
    <3> QED
      BY <1>5, <3>1
  <2>4. CASE s = "Closing"
    <3>1. r \o w = <<"bye", "fin">>
      BY <1>5, <2>1, <2>4, WireExtended DEF Written
    <3> QED
      BY <1>5, <3>1
  <2>5. CASE s \in Gone
    <3>1. r \in {<<"fin">>, <<"bye", "fin">>}
      BY <1>5, <2>5
    <3>2. w = <<>>
      BY <2>1, <2>5 DEF Written
    <3>3. r \o w = r
      BY <3>1, <3>2
    <3> QED
      BY <1>5, <3>1, <3>3
  <2> QED
    BY <2>2, <2>3, <2>4, <2>5
<1> QED
  BY <1>1, <1>2, <1>3, <1>4, <1>5
-----------------------------------------------------------------------------
(* The inductive invariant: each process's own, and Joint for every          *)
(* connection.                                                               *)

JointFromA(c) == Joint(aState[c], toA[c], c \in backlogA, bState[c], toB[c], c \in backlogB)
JointFromB(c) == Joint(bState[c], toB[c], c \in backlogB, aState[c], toA[c], c \in backlogA)

WiresOK ==
  /\ toA \in [Link -> Seq(Frame)] /\ toB \in [Link -> Seq(Frame)]
  /\ backlogA \subseteq Link /\ backlogB \subseteq Link

TwoInv ==
  /\ PA!Inv /\ PB!Inv
  /\ WiresOK
  /\ \A c \in Link : JointFromA(c)

\* It does not matter from which end a connection is seen.
LEMMA JointFromEither ==
  ASSUME NEW c
  PROVE  JointFromA(c) <=> JointFromB(c)
  BY DEF JointFromA, JointFromB, Joint

LEMMA StatesTyped ==
  ASSUME TwoInv, NEW c \in Link
  PROVE  /\ aState \in [Link -> LinkState] /\ bState \in [Link -> LinkState]
         /\ aState[c] \in LinkState /\ bState[c] \in LinkState
         /\ toA[c] \in Seq(Frame) /\ toB[c] \in Seq(Frame)
         /\ JointFromA(c) /\ JointFromB(c)
  BY JointFromEither
  DEF TwoInv, WiresOK, PA!Inv, PB!Inv, PA!TypeOK, PB!TypeOK,
      PA!LinkState, PB!LinkState, LinkState, A!LinkState

\* An end that does not move writes nothing.
LEMMA NothingWritten ==
  ASSUME NEW s \in LinkState
  PROVE  Written(s, s) = <<>>
  BY DEF Written, LinkState, A!LinkState

LEMMA MovedWire ==
  ASSUME NEW s, NEW q \in Seq(Frame), NEW u, NEW s2, NEW q2, Moves(s, q, u, s2, q2)
  PROVE  q2 \in Seq(Frame) /\ q2 \o <<>> = q2
<1>1. q2 \in Seq(Frame)
  BY HeadTailProperties DEF Moves
<1> QED
  BY <1>1, ConcatEmptySeq

\* Joint keeps the type of the wires.
LEMMA WiresTyped ==
  ASSUME toA' = [c \in Link |-> toA'[c]], toB' = [c \in Link |-> toB'[c]],
         backlogA' \subseteq Link, backlogB' \subseteq Link, \A c \in Link : JointFromA(c)'
  PROVE  WiresOK'
<1>1. \A c \in Link : toA'[c] \in Seq(Frame) /\ toB'[c] \in Seq(Frame)
  BY JointWires DEF JointFromA
<1> DEFINE inA == toA'  inB == toB'
<1>2. inA = [c \in Link |-> inA[c]] /\ inB = [c \in Link |-> inB[c]]
  OBVIOUS
<1>3. \A c \in Link : inA[c] \in Seq(Frame) /\ inB[c] \in Seq(Frame)
  BY <1>1
<1> HIDE DEF inA, inB
<1>4. inA \in [Link -> Seq(Frame)] /\ inB \in [Link -> Seq(Frame)]
  BY <1>2, <1>3
<1> QED
  BY <1>4 DEF WiresOK, inA, inB

\* Whether a connection waits in a backlog is a Boolean.
LEMMA Waits == \A k : (k \in backlogA) \in BOOLEAN /\ (k \in backlogB) \in BOOLEAN
  OBVIOUS

\* What is left of a wire once the end that does not read has dropped it.
LEMMA JointArrived ==
  ASSUME TwoInv, NEW k \in Link
  PROVE  LET inA == Arrived(aState[k], k \in backlogA, toA[k])
             inB == Arrived(bState[k], k \in backlogB, toB[k])
         IN  /\ Joint(aState[k], inA, k \in backlogA, bState[k], inB, k \in backlogB)
             /\ Joint(bState[k], inB, k \in backlogB, aState[k], inA, k \in backlogA)
<1>1. Moves(aState[k], toA[k], k \in backlogA, aState[k], toA[k])
  BY DEF Moves, Unread, Kept
<1>2. toB[k] \o Written(aState[k], aState[k]) = toB[k]
  BY StatesTyped, NothingWritten, ConcatEmptySeq
<1>3. JointFromA(k) /\ aState[k] \in LinkState /\ bState[k] \in LinkState
  BY StatesTyped
<1>4. Joint(aState[k], Arrived(aState[k], k \in backlogA, toA[k]), k \in backlogA, bState[k],
            Arrived(bState[k], k \in backlogB, toB[k] \o Written(aState[k], aState[k])),
            k \in backlogB)
  BY <1>1, <1>3, Waits, JointKept, ZenonT(90) DEF JointFromA
<1>5. Joint(aState[k], Arrived(aState[k], k \in backlogA, toA[k]), k \in backlogA, bState[k],
            Arrived(bState[k], k \in backlogB, toB[k]), k \in backlogB)
  BY <1>2, <1>4
<1> QED
  BY <1>5, JointIsSymmetric, Zenon
-----------------------------------------------------------------------------
(* The steps of a *)

\* TwoNodes and PeerManagerProofs instantiate the same PeerManager.
LEMMA SameA ==
  /\ A!Init => PA!Init
  /\ A!TypeOK <=> PA!TypeOK
  /\ \A f, g : A!OnPeerAnnounced(b, f, g) => PA!OnPeerAnnounced(b, f, g)
  /\ \A c : /\ A!ConnectTo(c) => PA!ConnectTo(c)
            /\ A!OnIncomingSocket(c) => PA!OnIncomingSocket(c)
            /\ A!OnConnected(c) => PA!OnConnected(c)
            /\ A!OnLinkDisconnected(c) => PA!OnLinkDisconnected(c)
            /\ A!HandshakeAbort(c) => PA!HandshakeAbort(c)
            /\ A!DeleteDeferred(c) => PA!DeleteDeferred(c)
  /\ A!CloseLinkOf(b) => PA!CloseLinkOf(b)
  /\ A!User => PA!User
  /\ A!Restart => PA!Restart
<1>1. A!Init => PA!Init
  BY DEF A!Init, PA!Init
<1>2. A!TypeOK <=> PA!TypeOK
  BY DEF A!TypeOK, PA!TypeOK, A!TrustState, PA!TrustState, A!LinkState, PA!LinkState, A!Ask, PA!Ask
<1>3. ASSUME NEW f, NEW g PROVE A!OnPeerAnnounced(b, f, g) => PA!OnPeerAnnounced(b, f, g)
  BY DEF A!OnPeerAnnounced, A!UpsertPeerFromAnnounce, A!Known, A!ShouldDial, A!peerVars,
         A!linkVars, A!Create, PA!OnPeerAnnounced, PA!UpsertPeerFromAnnounce, PA!Known,
         PA!ShouldDial, PA!peerVars, PA!linkVars, PA!Create
<1>4. ASSUME NEW c
      PROVE  /\ A!ConnectTo(c) => PA!ConnectTo(c)
             /\ A!OnIncomingSocket(c) => PA!OnIncomingSocket(c)
             /\ A!OnConnected(c) => PA!OnConnected(c)
  BY DEF A!ConnectTo, A!OnIncomingSocket, A!OnConnected, A!Create, A!peerVars,
         PA!ConnectTo, PA!OnIncomingSocket, PA!OnConnected, PA!Create, PA!peerVars
<1>5. ASSUME NEW c
      PROVE  /\ A!OnLinkDisconnected(c) => PA!OnLinkDisconnected(c)
             /\ A!HandshakeAbort(c) => PA!HandshakeAbort(c)
             /\ A!DeleteDeferred(c) => PA!DeleteDeferred(c)
  BY DEF A!OnLinkDisconnected, A!HandshakeAbort, A!DeleteDeferred, A!Forget, A!AfterClose,
         A!peerVars, PA!OnLinkDisconnected, PA!HandshakeAbort, PA!DeleteDeferred, PA!Forget,
         PA!AfterClose, PA!peerVars
<1>6. (A!CloseLinkOf(b) => PA!CloseLinkOf(b)) /\ (A!User => PA!User)
  BY DEF A!CloseLinkOf, A!User, A!Trust, A!Block, A!SetTrust, A!Known, A!AfterClose, A!peerVars,
         A!linkVars, PA!CloseLinkOf, PA!User, PA!Trust, PA!Block, PA!SetTrust, PA!Known,
         PA!AfterClose, PA!peerVars, PA!linkVars
<1>7. A!Restart => PA!Restart
  BY DEF A!Restart, A!ReloadedFrom, PA!Restart, PA!ReloadedFrom
<1> QED
  BY <1>1, <1>2, <1>3, <1>4, <1>5, <1>6, <1>7

LEMMA SameReadyA ==
  ASSUME NEW c, NEW id, NEW f
  PROVE  /\ A!HelloReceived(c, id, f) => PA!HelloReceived(c, id, f)
         /\ A!HelloAckReceived(c, id, f) => PA!HelloAckReceived(c, id, f)
  BY DEF A!HelloReceived, A!HelloAckReceived, A!OnLinkReady, A!RefuseSelf, A!RefuseBlocked,
         A!Admit, A!Learn, A!LearnedTrust, A!LearnedDbTrust, A!Demoted, A!ReplacedState,
         A!AfterClose, A!Reassigned, A!Replaced, A!peerVars,
         PA!HelloReceived, PA!HelloAckReceived, PA!OnLinkReady, PA!RefuseSelf, PA!RefuseBlocked,
         PA!Admit, PA!Learn, PA!LearnedTrust, PA!LearnedDbTrust, PA!Demoted, PA!ReplacedState,
         PA!AfterClose, PA!Reassigned, PA!Replaced, PA!peerVars

\* The invariant of a's PeerManager is kept by its steps, and by those of b.
LEMMA OwnStepA ==
  ASSUME PA!Inv, PA!Next \/ UNCHANGED aVars
  PROVE  PA!Inv' /\ aState' \in [Link -> LinkState]
<1>1. [PA!Next]_(PA!vars)
  BY DEF PA!vars, PA!peerVars, PA!linkVars, aVars
<1>2. PA!Inv'
  BY <1>1, ConstantsOfA, PA!InvStep
<1> QED
  BY <1>2 DEF PA!Inv, PA!TypeOK, PA!LinkState, LinkState, A!LinkState

-----------------------------------------------------------------------------
(* The steps of b *)

\* TwoNodes and PeerManagerProofs instantiate the same PeerManager.
LEMMA SameB ==
  /\ B!Init => PB!Init
  /\ B!TypeOK <=> PB!TypeOK
  /\ \A f, g : B!OnPeerAnnounced(a, f, g) => PB!OnPeerAnnounced(a, f, g)
  /\ \A c : /\ B!ConnectTo(c) => PB!ConnectTo(c)
            /\ B!OnIncomingSocket(c) => PB!OnIncomingSocket(c)
            /\ B!OnConnected(c) => PB!OnConnected(c)
            /\ B!OnLinkDisconnected(c) => PB!OnLinkDisconnected(c)
            /\ B!HandshakeAbort(c) => PB!HandshakeAbort(c)
            /\ B!DeleteDeferred(c) => PB!DeleteDeferred(c)
  /\ B!CloseLinkOf(a) => PB!CloseLinkOf(a)
  /\ B!User => PB!User
  /\ B!Restart => PB!Restart
<1>1. B!Init => PB!Init
  BY DEF B!Init, PB!Init
<1>2. B!TypeOK <=> PB!TypeOK
  BY DEF B!TypeOK, PB!TypeOK, B!TrustState, PB!TrustState, B!LinkState, PB!LinkState, B!Ask, PB!Ask
<1>3. ASSUME NEW f, NEW g PROVE B!OnPeerAnnounced(a, f, g) => PB!OnPeerAnnounced(a, f, g)
  BY DEF B!OnPeerAnnounced, B!UpsertPeerFromAnnounce, B!Known, B!ShouldDial, B!peerVars,
         B!linkVars, B!Create, PB!OnPeerAnnounced, PB!UpsertPeerFromAnnounce, PB!Known,
         PB!ShouldDial, PB!peerVars, PB!linkVars, PB!Create
<1>4. ASSUME NEW c
      PROVE  /\ B!ConnectTo(c) => PB!ConnectTo(c)
             /\ B!OnIncomingSocket(c) => PB!OnIncomingSocket(c)
             /\ B!OnConnected(c) => PB!OnConnected(c)
  BY DEF B!ConnectTo, B!OnIncomingSocket, B!OnConnected, B!Create, B!peerVars,
         PB!ConnectTo, PB!OnIncomingSocket, PB!OnConnected, PB!Create, PB!peerVars
<1>5. ASSUME NEW c
      PROVE  /\ B!OnLinkDisconnected(c) => PB!OnLinkDisconnected(c)
             /\ B!HandshakeAbort(c) => PB!HandshakeAbort(c)
             /\ B!DeleteDeferred(c) => PB!DeleteDeferred(c)
  BY DEF B!OnLinkDisconnected, B!HandshakeAbort, B!DeleteDeferred, B!Forget, B!AfterClose,
         B!peerVars, PB!OnLinkDisconnected, PB!HandshakeAbort, PB!DeleteDeferred, PB!Forget,
         PB!AfterClose, PB!peerVars
<1>6. (B!CloseLinkOf(a) => PB!CloseLinkOf(a)) /\ (B!User => PB!User)
  BY DEF B!CloseLinkOf, B!User, B!Trust, B!Block, B!SetTrust, B!Known, B!AfterClose, B!peerVars,
         B!linkVars, PB!CloseLinkOf, PB!User, PB!Trust, PB!Block, PB!SetTrust, PB!Known,
         PB!AfterClose, PB!peerVars, PB!linkVars
<1>7. B!Restart => PB!Restart
  BY DEF B!Restart, B!ReloadedFrom, PB!Restart, PB!ReloadedFrom
<1> QED
  BY <1>1, <1>2, <1>3, <1>4, <1>5, <1>6, <1>7

LEMMA SameReadyB ==
  ASSUME NEW c, NEW id, NEW f
  PROVE  /\ B!HelloReceived(c, id, f) => PB!HelloReceived(c, id, f)
         /\ B!HelloAckReceived(c, id, f) => PB!HelloAckReceived(c, id, f)
  BY DEF B!HelloReceived, B!HelloAckReceived, B!OnLinkReady, B!RefuseSelf, B!RefuseBlocked,
         B!Admit, B!Learn, B!LearnedTrust, B!LearnedDbTrust, B!Demoted, B!ReplacedState,
         B!AfterClose, B!Reassigned, B!Replaced, B!peerVars,
         PB!HelloReceived, PB!HelloAckReceived, PB!OnLinkReady, PB!RefuseSelf, PB!RefuseBlocked,
         PB!Admit, PB!Learn, PB!LearnedTrust, PB!LearnedDbTrust, PB!Demoted, PB!ReplacedState,
         PB!AfterClose, PB!Reassigned, PB!Replaced, PB!peerVars

\* The invariant of b's PeerManager is kept by its steps, and by those of a.
LEMMA OwnStepB ==
  ASSUME PB!Inv, PB!Next \/ UNCHANGED bVars
  PROVE  PB!Inv' /\ bState' \in [Link -> LinkState]
<1>1. [PB!Next]_(PB!vars)
  BY DEF PB!vars, PB!peerVars, PB!linkVars, bVars
<1>2. PB!Inv'
  BY <1>1, ConstantsOfB, PB!InvStep
<1> QED
  BY <1>2 DEF PB!Inv, PB!TypeOK, PB!LinkState, LinkState, A!LinkState

\* A step of a that leaves every connection joint keeps the invariant.
LEMMA TurnOfA ==
  ASSUME TwoInv, PA!Next, UNCHANGED bVars,
         toA' = [c \in Link |-> toA'[c]], toB' = [c \in Link |-> toB'[c]],
         backlogA' \subseteq Link, backlogB' \subseteq Link, \A c \in Link : JointFromA(c)'
  PROVE  TwoInv'
<1>1. PA!Inv' /\ PB!Inv'
  BY OwnStepA, OwnStepB DEF TwoInv
<1>2. WiresOK'
  BY WiresTyped
<1> QED
  BY <1>1, <1>2 DEF TwoInv

\* One connection under a step of a that moves its own end.
LEMMA MovedByA ==
  ASSUME TwoInv, UNCHANGED <<bVars, backlogA, backlogB>>, aState' \in [Link -> LinkState],
         NEW restA, Flow(restA, toB), NEW c \in Link,
         Moves(aState[c], toA[c], c \in backlogA, aState'[c], restA[c])
  PROVE  JointFromA(c)'
<1>1. aState'[c] \in LinkState /\ bState' = bState
  BY DEF bVars
<1>2. restA[c] \o Written(bState[c], bState'[c]) = restA[c]
  BY <1>1, StatesTyped, NothingWritten, MovedWire
<1>3. Joint(aState'[c], Arrived(aState'[c], c \in backlogA, restA[c]), c \in backlogA, bState[c],
            Arrived(bState[c], c \in backlogB, toB[c] \o Written(aState[c], aState'[c])),
            c \in backlogB)
  <2>1. /\ Joint(aState[c], toA[c], c \in backlogA, bState[c], toB[c], c \in backlogB)
        /\ Moves(aState[c], toA[c], c \in backlogA, aState'[c], restA[c])
    BY StatesTyped DEF JointFromA
  <2>2. aState[c] \in LinkState /\ bState[c] \in LinkState /\ aState'[c] \in LinkState
    BY <1>1, StatesTyped
  <2> QED
    BY ONLY <2>1, <2>2, Waits, JointKept, ZenonT(90)
<1> DEFINE inA == Arrived(aState'[c], c \in backlogA, restA[c])
           inB == Arrived(bState[c], c \in backlogB, toB[c] \o Written(aState[c], aState'[c]))
<1>4. toA'[c] = inA /\ toB'[c] = inB
  BY <1>1, <1>2 DEF Flow, Deaf, Arrived, NotReading, Gone
<1>5. Joint(aState'[c], inA, c \in backlogA, bState[c], inB, c \in backlogB)
  BY <1>3
<1> HIDE DEF inA, inB
<1> QED
  BY <1>1, <1>4, <1>5, Zenon DEF JointFromA

\* A step of a that reads nothing and at most closes or deletes links.
LEMMA UnreadByA ==
  ASSUME TwoInv, PA!Next, StepA, \A c \in Link : Unread(aState[c], aState'[c])
  PROVE  TwoInv'
<1>1. aState' \in [Link -> LinkState]
  BY OwnStepA DEF TwoInv
<1>2. /\ UNCHANGED <<bVars, backlogA, backlogB>> /\ Flow(toA, toB)
  BY DEF StepA
<1>3. \A c \in Link : JointFromA(c)'
  BY <1>1, <1>2, MovedByA DEF Moves
<1>4. toA' = [c \in Link |-> toA'[c]] /\ toB' = [c \in Link |-> toB'[c]]
  BY <1>2 DEF Flow
<1> QED
  BY <1>2, <1>3, <1>4, TurnOfA DEF TwoInv, WiresOK

\* A new link of a: the other links are left alone.
LEMMA DialledByA ==
  ASSUME TwoInv, PA!Next, StepA,
         \A c \in Link : \/ aState'[c] = aState[c]
                         \/ Unused(c) /\ aState'[c] = "Connecting"
  PROVE  TwoInv'
<1>1. aState' \in [Link -> LinkState]
  BY OwnStepA DEF TwoInv
<1>2. UNCHANGED <<bVars, backlogA, backlogB>> /\ Flow(toA, toB)
  BY DEF StepA
<1>3. ASSUME NEW c \in Link, aState'[c] = aState[c]
      PROVE  JointFromA(c)'
  BY <1>1, <1>2, <1>3, MovedByA DEF Moves, Unread, Kept
<1>4. ASSUME NEW c \in Link, Unused(c), aState'[c] = "Connecting"
      PROVE  JointFromA(c)'
  <2>1. bState' = bState
    BY <1>2 DEF bVars
  <2>2. Written("Free", "Free") = <<>> /\ Written("Free", "Connecting") = <<>>
    BY DEF Written
  <2>3. toA'[c] = <<>> /\ toB'[c] = <<>>
    BY <1>2, <1>4, <2>1, <2>2 DEF Flow, Unused, Deaf
  <2> QED
    BY <1>2, <1>4, <2>1, <2>3 DEF Unused, JointFromA, Joint, HalfJoint
<1>5. toA' = [c \in Link |-> toA'[c]] /\ toB' = [c \in Link |-> toB'[c]]
  BY <1>2 DEF Flow
<1> QED
  BY <1>2, <1>3, <1>4, <1>5, TurnOfA DEF TwoInv, WiresOK

\* The TCP handshake of a link dialled by a.
LEMMA AEstablishes ==
  ASSUME TwoInv, NEW c \in Link, A!OnConnected(c), backlogB' = backlogB \cup {c},
         UNCHANGED <<bVars, backlogA>>, Flow(toA, toB)
  PROVE  TwoInv'
<1>1. PA!OnConnected(c) /\ PA!Next
  BY SameA DEF PA!Next, PA!Handshake
<1>2. /\ aState[c] = "Connecting" /\ aState'[c] = "HandshakingOut"
      /\ \A k \in Link : k # c => aState'[k] = aState[k]
  BY <1>1, ConstantsOfA, PA!ConnectedOnLinks DEF TwoInv, PA!Inv
<1>3. bState' = bState /\ backlogA' = backlogA
  BY DEF bVars
<1>4. ASSUME NEW k \in Link, k # c
      PROVE  JointFromA(k)'
  <2>1. Written(aState[k], aState'[k]) = <<>> /\ Written(bState[k], bState'[k]) = <<>>
    BY <1>2, <1>3, <1>4, StatesTyped, NothingWritten
  <2>2. toA[k] \o <<>> = toA[k] /\ toB[k] \o <<>> = toB[k]
    BY StatesTyped, ConcatEmptySeq
  <2>3. /\ toA'[k] = Arrived(aState[k], k \in backlogA, toA[k])
        /\ toB'[k] = Arrived(bState[k], k \in backlogB, toB[k])
    BY <1>2, <1>3, <1>4, <2>1, <2>2 DEF Flow, Deaf, Arrived, NotReading, Gone
  <2> QED
    BY <1>2, <1>3, <1>4, <2>3, JointArrived DEF JointFromA
<1>5. JointFromA(c)'
  <2>1. /\ c \notin backlogA /\ toA[c] = <<>> /\ bState[c] = "Free"
        /\ Joint("HandshakingOut", toA[c], c \in backlogA, bState[c],
                 toB[c] \o Written("Connecting", "HandshakingOut"), TRUE)
    <3>1. /\ Joint("Connecting", toA[c], c \in backlogA, bState[c], toB[c], c \in backlogB)
          /\ bState[c] \in LinkState
      BY <1>2, StatesTyped DEF JointFromA
    <3>2. ~(c \in backlogA)
      BY ONLY <3>1, Waits, JointEstablished, ZenonT(90)
    <3>3. toA[c] = <<>> /\ bState[c] = "Free"
      BY ONLY <3>1, Waits, JointEstablished, ZenonT(90)
    <3>4. Joint("HandshakingOut", toA[c], c \in backlogA, bState[c],
                toB[c] \o Written("Connecting", "HandshakingOut"), TRUE)
      BY ONLY <3>1, Waits, JointEstablished, ZenonT(90)
    <3> QED
      BY <3>2, <3>3, <3>4
  <2>2. toA'[c] = <<>>
    <3>1. Written(bState[c], bState'[c]) = <<>>
      BY <1>3, StatesTyped, NothingWritten
    <3> QED
      BY <1>2, <2>1, <3>1 DEF Flow, Deaf
  <2>3. toB'[c] = toB[c] \o Written("Connecting", "HandshakingOut")
    BY <1>2, <1>3 DEF Flow, Deaf
  <2> QED
    BY <1>2, <1>3, <2>1, <2>2, <2>3 DEF JointFromA
<1>6. toA' = [k \in Link |-> toA'[k]] /\ toB' = [k \in Link |-> toB'[k]]
  BY DEF Flow
<1> QED
  BY <1>1, <1>3, <1>4, <1>5, <1>6, TurnOfA DEF TwoInv, WiresOK

\* a takes a connection out of its backlog.
LEMMA AAccepts ==
  ASSUME TwoInv, NEW c \in Link, c \in backlogA, A!OnIncomingSocket(c),
         backlogA' = backlogA \ {c}, UNCHANGED <<bVars, backlogB>>, Flow(toA, toB)
  PROVE  TwoInv'
<1>1. PA!OnIncomingSocket(c) /\ PA!Next
  BY SameA DEF PA!Next
<1>2. /\ aState[c] = "Free" /\ aState'[c] = "HandshakingIn"
      /\ \A k \in Link : k # c => aState'[k] = aState[k]
  <2>1. PA!Create(c, "HandshakingIn")
    BY <1>1 DEF PA!OnIncomingSocket
  <2> QED
    BY <2>1, ConstantsOfA, PA!CreateOnLinks DEF TwoInv, PA!Inv
<1>3. bState' = bState /\ backlogB' = backlogB
  BY DEF bVars
<1>4. ASSUME NEW k \in Link, k # c
      PROVE  JointFromA(k)'
  <2>1. Written(aState[k], aState'[k]) = <<>> /\ Written(bState[k], bState'[k]) = <<>>
    BY <1>2, <1>3, <1>4, StatesTyped, NothingWritten
  <2>2. toA[k] \o <<>> = toA[k] /\ toB[k] \o <<>> = toB[k]
    BY StatesTyped, ConcatEmptySeq
  <2>3. /\ toA'[k] = Arrived(aState[k], k \in backlogA, toA[k])
        /\ toB'[k] = Arrived(bState[k], k \in backlogB, toB[k])
    BY <1>2, <1>3, <1>4, <2>1, <2>2 DEF Flow, Deaf, Arrived, NotReading, Gone
  <2> QED
    BY <1>2, <1>3, <1>4, <2>3, JointArrived DEF JointFromA
<1>5. JointFromA(c)'
  <2>1. /\ c \notin backlogB /\ toB[c] = <<>>
        /\ Joint("HandshakingIn", toA[c], FALSE, bState[c], toB[c], c \in backlogB)
    <3>1. (c \in backlogA) = TRUE /\ JointFromA(c) /\ bState[c] \in LinkState
      BY StatesTyped
    <3>2. Joint("Free", toA[c], TRUE, bState[c], toB[c], c \in backlogB)
      BY <1>2, <3>1, Zenon DEF JointFromA
    <3>3. bState[c] \in LinkState
      BY <3>1
    <3> QED
      BY ONLY <3>2, <3>3, Waits, JointAccepted, ZenonT(90)
  <2>2. toA'[c] = toA[c]
    <3>1. Written(bState[c], bState'[c]) = <<>> /\ toA[c] \o <<>> = toA[c]
      BY <1>3, StatesTyped, NothingWritten, ConcatEmptySeq
    <3> QED
      BY <1>2, <3>1 DEF Flow, Deaf
  <2>3. toB'[c] = <<>>
    <3>1. Written("Free", "HandshakingIn") = <<>>
      BY DEF Written
    <3> QED
      BY <1>2, <2>1, <3>1 DEF Flow, Deaf
  <2>4. (c \in backlogA') = FALSE /\ (c \in backlogB') = (c \in backlogB)
    BY <1>3
  <2> QED
    BY <1>2, <1>3, <2>1, <2>2, <2>3, <2>4, Zenon DEF JointFromA
<1>6. toA' = [k \in Link |-> toA'[k]] /\ toB' = [k \in Link |-> toB'[k]]
  BY DEF Flow
<1> QED
  BY <1>1, <1>3, <1>4, <1>5, <1>6, TurnOfA DEF TwoInv, WiresOK

LEMMA AReadsAFrame ==
  ASSUME TwoInv, NEW c \in Link, AReads(c)
  PROVE  TwoInv'
<1> DEFINE restA == [toA EXCEPT ![c] = Tail(@)]
<1>1. /\ UNCHANGED <<bVars, backlogA, backlogB>> /\ Flow(restA, toB)
      /\ c \notin backlogA
  BY DEF AReads, ReadA
<1>2. PA!TypeOK /\ PA!Tables
  BY DEF TwoInv, PA!Inv
<1>3. /\ PA!Next
      /\ toA[c] # <<>> /\ Reads(aState[c], toA[c], aState'[c])
      /\ \A k \in Link : k # c => Kept(aState[k], aState'[k])
  <2> USE ConstantsOfA
  <2>1. ASSUME PA!HelloReceived(c, b, fpB) \/ PA!HelloAckReceived(c, b, fpB)
        PROVE  /\ PA!Next
               /\ aState'[c] \in {"Ready", "Closing"}
               /\ \A k \in Link : k # c => Kept(aState[k], aState'[k])
    <3>1. b \in {b} \cup {a} /\ fpB \in Fp
      BY NodesAssumption
    <3>2. PA!OnLinkReady(c, b, fpB) /\ aState[c] \in PA!Handshaking
      BY <2>1 DEF PA!HelloReceived, PA!HelloAckReceived, PA!Handshaking
    <3>3. \A k \in Link : IF k = c THEN aState'[k] \in {"Ready", "Closing"} ELSE PA!Spared(k)
      BY <1>2, <3>1, <3>2, PA!ReadyOnLinks
    <3> QED
      BY <2>1, <3>1, <3>3 DEF PA!Next, PA!Handshake, PA!Spared, Kept
  <2>2. CASE NextIs(c, toA, "hello") /\ A!HelloReceived(c, b, fpB)
    <3>1. PA!HelloReceived(c, b, fpB)
      BY <2>2, SameReadyA
    <3> QED
      BY <2>1, <2>2, <3>1 DEF NextIs, Reads, PA!HelloReceived
  <2>3. CASE NextIs(c, toA, "hello_ack") /\ A!HelloAckReceived(c, b, fpB)
    <3>1. PA!HelloAckReceived(c, b, fpB)
      BY <2>3, SameReadyA
    <3> QED
      BY <2>1, <2>3, <3>1 DEF NextIs, Reads, PA!HelloAckReceived
  <2>4. CASE NextIs(c, toA, "bye") /\ A!HandshakeAbort(c)
    <3>1. PA!HandshakeAbort(c)
      BY <2>4, SameA
    <3> QED
      BY <1>2, <2>4, <3>1, PA!AbortOnLinks DEF NextIs, Reads, Kept, PA!Next, PA!Handshake
  <2>5. CASE NextIs(c, toA, "bye") /\ aLinks[b] = c /\ A!CloseLinkOf(b)
    <3>1. PA!CloseLinkOf(b)
      BY <2>5, SameA
    <3> QED
      BY <1>2, <2>5, <3>1, PA!CloseOnLinks DEF NextIs, Reads, Kept, PA!Next, PA!Spared
  <2>6. CASE NextIs(c, toA, "fin") /\ A!OnLinkDisconnected(c)
    <3>1. PA!OnLinkDisconnected(c)
      BY <2>6, SameA
    <3> QED
      BY <1>2, <2>6, <3>1, PA!DisconnectedOnLinks DEF NextIs, Reads, Kept, PA!Next
  <2> QED
    BY <2>2, <2>3, <2>4, <2>5, <2>6 DEF AReads
<1>4. aState' \in [Link -> LinkState]
  BY <1>3, OwnStepA DEF TwoInv
<1>5. ASSUME NEW k \in Link
      PROVE  Moves(aState[k], toA[k], k \in backlogA, aState'[k], restA[k])
  <2>1. restA[k] = IF k = c THEN Tail(toA[k]) ELSE toA[k]
    BY DEF TwoInv, WiresOK
  <2> QED
    BY <1>1, <1>3, <2>1 DEF Moves, Unread
<1>6. toA' = [k \in Link |-> toA'[k]] /\ toB' = [k \in Link |-> toB'[k]]
  BY <1>1 DEF Flow
<1> HIDE DEF restA
<1>7. \A k \in Link : JointFromA(k)'
  BY <1>1, <1>4, <1>5, MovedByA
<1> QED
  BY <1>1, <1>3, <1>6, <1>7, TurnOfA DEF TwoInv, WiresOK

\* a deletes a closing link before its bye was written.
LEMMA ADeletesUnflushed ==
  ASSUME TwoInv, NEW c \in Link, aState[c] = "Closing", A!DeleteDeferred(c),
         UNCHANGED <<bVars, backlogA, backlogB>>, Flow(toA, CutBye(toB, c))
  PROVE  TwoInv'
<1>1. PA!DeleteDeferred(c) /\ PA!Next
  BY SameA DEF PA!Next
<1>2. /\ aState'[c] = "Free"
      /\ \A k \in Link : k # c => aState'[k] = aState[k]
  BY <1>1, ConstantsOfA, PA!DeletionOnLinks DEF TwoInv, PA!Inv
<1>3. bState' = bState
  BY DEF bVars
<1>4. \A k \in Link : CutBye(toB, c)[k] = IF k = c THEN Cut(toB[k]) ELSE toB[k]
  BY DEF CutBye, Cut, TwoInv, WiresOK
<1>5. \A k \in Link : /\ Written(bState[k], bState'[k]) = <<>> /\ toA[k] \o <<>> = toA[k]
                      /\ k # c => Written(aState[k], aState'[k]) = <<>> /\ toB[k] \o <<>> = toB[k]
  BY <1>2, <1>3, StatesTyped, NothingWritten, ConcatEmptySeq
<1>6. ASSUME NEW k \in Link, k # c
      PROVE  JointFromA(k)'
  <2>1. /\ toA'[k] = Arrived(aState[k], k \in backlogA, toA[k])
        /\ toB'[k] = Arrived(bState[k], k \in backlogB, toB[k])
    BY <1>2, <1>3, <1>4, <1>5, <1>6 DEF Flow, Deaf, Arrived, NotReading, Gone
  <2> QED
    BY <1>2, <1>3, <1>6, <2>1, JointArrived DEF JointFromA
<1>7. JointFromA(c)'
  <2>1. /\ c \notin backlogA
        /\ Joint("Free", <<>>, c \in backlogA, bState[c],
                 Arrived(bState[c], c \in backlogB, Cut(toB[c]) \o Written("Closing", "Free")),
                 c \in backlogB)
    <3>1. /\ Joint("Closing", toA[c], c \in backlogA, bState[c], toB[c], c \in backlogB)
          /\ bState[c] \in LinkState
      BY StatesTyped DEF JointFromA
    <3> QED
      BY <3>1, Waits, JointCut, ZenonT(90)
  <2>2. toA'[c] = <<>>
    BY <1>2, <2>1 DEF Flow, Deaf
  <2>3. toB'[c] = Arrived(bState[c], c \in backlogB, Cut(toB[c]) \o Written("Closing", "Free"))
    BY <1>2, <1>3, <1>4 DEF Flow, Deaf, Arrived, NotReading, Gone
  <2> QED
    BY <1>2, <1>3, <2>1, <2>2, <2>3 DEF JointFromA
<1>8. toA' = [k \in Link |-> toA'[k]] /\ toB' = [k \in Link |-> toB'[k]]
  BY DEF Flow
<1> QED
  BY <1>1, <1>6, <1>7, <1>8, TurnOfA DEF TwoInv, WiresOK

LEMMA ARestarts ==
  ASSUME TwoInv, A!Restart, backlogA' = {}, UNCHANGED <<bVars, backlogB>>,
         toA' = [c \in Link |-> <<>>],
         toB' = [c \in Link |-> IF Deaf(bState, c, backlogB) THEN <<>> ELSE
                   toB[c] \o (IF c \in backlogA THEN <<"fin">> ELSE Written(aState[c], "Free"))]
  PROVE  TwoInv'
<1>1. PA!Restart /\ PA!Next
  BY SameA DEF PA!Next
<1>2. \A c \in Link : aState'[c] = "Free"
  BY <1>1, ConstantsOfA, PA!RestartOnLinks
<1>3. bState' = bState /\ backlogB' = backlogB
  BY DEF bVars
<1>4. ASSUME NEW c \in Link
      PROVE  JointFromA(c)'
  <2> DEFINE w == IF c \in backlogA THEN <<"fin">> ELSE Written(aState[c], "Free")
             arrives == Arrived(bState[c], c \in backlogB, toB[c] \o w)
  <2>1. JointFromA(c) /\ aState[c] \in LinkState /\ bState[c] \in LinkState
    BY StatesTyped
  <2>2. Joint("Free", <<>>, FALSE, bState[c], arrives, c \in backlogB)
    BY <2>1, Waits, JointRestarted, ZenonT(90) DEF JointFromA
  <2>3. toA'[c] = <<>> /\ toB'[c] = arrives
    BY DEF Deaf, Arrived, NotReading, Gone
  <2>4. (c \in backlogA') = FALSE /\ (c \in backlogB') = (c \in backlogB)
    BY <1>3
  <2> HIDE DEF arrives
  <2> QED
    BY <1>2, <1>3, <2>2, <2>3, <2>4, Zenon DEF JointFromA
<1>5. toA' = [k \in Link |-> toA'[k]] /\ toB' = [k \in Link |-> toB'[k]]
  OBVIOUS
<1> QED
  BY <1>1, <1>3, <1>4, <1>5, TurnOfA DEF TwoInv, WiresOK

\* The steps of a that read nothing and open nothing.
LEMMA AClosesOrDeletes ==
  ASSUME TwoInv, StepA,
         \/ \E c \in Link : A!OnLinkDisconnected(c) \/ A!DeleteDeferred(c)
         \/ A!CloseLinkOf(b) \/ A!User
  PROVE  TwoInv'
<1> USE ConstantsOfA
<1>1. PA!TypeOK /\ PA!Tables
  BY DEF TwoInv, PA!Inv
<1>2. ASSUME NEW c \in Link, A!OnLinkDisconnected(c)
      PROVE  PA!Next /\ \A k \in Link : Unread(aState[k], aState'[k])
  <2>1. PA!OnLinkDisconnected(c)
    BY <1>2, SameA
  <2> QED
    BY <1>1, <2>1, PA!DisconnectedOnLinks DEF PA!Next, Unread, Kept
<1>3. ASSUME NEW c \in Link, A!DeleteDeferred(c)
      PROVE  PA!Next /\ \A k \in Link : Unread(aState[k], aState'[k])
  <2>1. PA!DeleteDeferred(c)
    BY <1>3, SameA
  <2> QED
    BY <1>1, <2>1, PA!DeletionOnLinks DEF PA!Next, Unread, Kept
<1>4. CASE A!CloseLinkOf(b)
  <2>1. PA!CloseLinkOf(b)
    BY <1>4, SameA
  <2>2. PA!Next /\ \A k \in Link : Unread(aState[k], aState'[k])
    BY <1>1, <2>1, PA!CloseOnLinks DEF PA!Next, PA!Spared, Unread, Kept
  <2> QED
    BY <2>2, UnreadByA
<1>5. CASE A!User
  <2>1. PA!User
    BY <1>5, SameA
  <2>2. PA!Next /\ \A k \in Link : Unread(aState[k], aState'[k])
    BY <1>1, <2>1, PA!UserOnLinks DEF PA!Next, PA!Spared, Unread, Kept
  <2> QED
    BY <2>2, UnreadByA
<1> QED
  BY <1>2, <1>3, <1>4, <1>5, UnreadByA

LEMMA ADials ==
  ASSUME TwoInv, NEW c \in Link, Unused(c), A!ConnectTo(c), StepA
  PROVE  TwoInv'
<1>1. PA!ConnectTo(c) /\ PA!Next
  BY SameA DEF PA!Next
<1>2. PA!Create(c, "Connecting")
  BY <1>1 DEF PA!ConnectTo
<1>3. \A k \in Link : IF k = c THEN aState'[k] = "Connecting" ELSE aState'[k] = aState[k]
  BY <1>2, ConstantsOfA, PA!CreateOnLinks DEF TwoInv, PA!Inv
<1> QED
  BY <1>1, <1>3, DialledByA

\* A step of b that leaves every connection joint keeps the invariant.
LEMMA TurnOfB ==
  ASSUME TwoInv, PB!Next, UNCHANGED aVars,
         toA' = [c \in Link |-> toA'[c]], toB' = [c \in Link |-> toB'[c]],
         backlogB' \subseteq Link, backlogA' \subseteq Link, \A c \in Link : JointFromB(c)'
  PROVE  TwoInv'
<1>1. PA!Inv' /\ PB!Inv'
  BY OwnStepB, OwnStepA DEF TwoInv
<1>2. \A c \in Link : JointFromA(c)'
  BY Zenon DEF JointFromA, JointFromB, Joint
<1>3. WiresOK'
  BY <1>2, WiresTyped
<1> QED
  BY <1>1, <1>2, <1>3 DEF TwoInv

\* One connection under a step of b that moves its own end.
LEMMA MovedByB ==
  ASSUME TwoInv, UNCHANGED <<aVars, backlogB, backlogA>>, bState' \in [Link -> LinkState],
         NEW restB, Flow(toA, restB), NEW c \in Link,
         Moves(bState[c], toB[c], c \in backlogB, bState'[c], restB[c])
  PROVE  JointFromB(c)'
<1>1. bState'[c] \in LinkState /\ aState' = aState
  BY DEF aVars
<1>2. restB[c] \o Written(aState[c], aState'[c]) = restB[c]
  BY <1>1, StatesTyped, NothingWritten, MovedWire
<1>3. Joint(bState'[c], Arrived(bState'[c], c \in backlogB, restB[c]), c \in backlogB, aState[c],
            Arrived(aState[c], c \in backlogA, toA[c] \o Written(bState[c], bState'[c])),
            c \in backlogA)
  <2>1. /\ Joint(bState[c], toB[c], c \in backlogB, aState[c], toA[c], c \in backlogA)
        /\ Moves(bState[c], toB[c], c \in backlogB, bState'[c], restB[c])
    BY StatesTyped DEF JointFromB
  <2>2. bState[c] \in LinkState /\ aState[c] \in LinkState /\ bState'[c] \in LinkState
    BY <1>1, StatesTyped
  <2> QED
    BY ONLY <2>1, <2>2, Waits, JointKept, ZenonT(90)
<1> DEFINE inB == Arrived(bState'[c], c \in backlogB, restB[c])
           inA == Arrived(aState[c], c \in backlogA, toA[c] \o Written(bState[c], bState'[c]))
<1>4. toB'[c] = inB /\ toA'[c] = inA
  BY <1>1, <1>2 DEF Flow, Deaf, Arrived, NotReading, Gone
<1>5. Joint(bState'[c], inB, c \in backlogB, aState[c], inA, c \in backlogA)
  BY <1>3
<1> HIDE DEF inB, inA
<1> QED
  BY <1>1, <1>4, <1>5, Zenon DEF JointFromB

\* A step of b that reads nothing and at most closes or deletes links.
LEMMA UnreadByB ==
  ASSUME TwoInv, PB!Next, StepB, \A c \in Link : Unread(bState[c], bState'[c])
  PROVE  TwoInv'
<1>1. bState' \in [Link -> LinkState]
  BY OwnStepB DEF TwoInv
<1>2. /\ UNCHANGED <<aVars, backlogB, backlogA>> /\ Flow(toA, toB)
  BY DEF StepB
<1>3. \A c \in Link : JointFromB(c)'
  BY <1>1, <1>2, MovedByB DEF Moves
<1>4. toB' = [c \in Link |-> toB'[c]] /\ toA' = [c \in Link |-> toA'[c]]
  BY <1>2 DEF Flow
<1> QED
  BY <1>2, <1>3, <1>4, TurnOfB DEF TwoInv, WiresOK

\* A new link of b: the other links are left alone.
LEMMA DialledByB ==
  ASSUME TwoInv, PB!Next, StepB,
         \A c \in Link : \/ bState'[c] = bState[c]
                         \/ Unused(c) /\ bState'[c] = "Connecting"
  PROVE  TwoInv'
<1>1. bState' \in [Link -> LinkState]
  BY OwnStepB DEF TwoInv
<1>2. UNCHANGED <<aVars, backlogB, backlogA>> /\ Flow(toA, toB)
  BY DEF StepB
<1>3. ASSUME NEW c \in Link, bState'[c] = bState[c]
      PROVE  JointFromB(c)'
  BY <1>1, <1>2, <1>3, MovedByB DEF Moves, Unread, Kept
<1>4. ASSUME NEW c \in Link, Unused(c), bState'[c] = "Connecting"
      PROVE  JointFromB(c)'
  <2>1. aState' = aState
    BY <1>2 DEF aVars
  <2>2. Written("Free", "Free") = <<>> /\ Written("Free", "Connecting") = <<>>
    BY DEF Written
  <2>3. toB'[c] = <<>> /\ toA'[c] = <<>>
    BY <1>2, <1>4, <2>1, <2>2 DEF Flow, Unused, Deaf
  <2> QED
    BY <1>2, <1>4, <2>1, <2>3 DEF Unused, JointFromB, Joint, HalfJoint
<1>5. toB' = [c \in Link |-> toB'[c]] /\ toA' = [c \in Link |-> toA'[c]]
  BY <1>2 DEF Flow
<1> QED
  BY <1>2, <1>3, <1>4, <1>5, TurnOfB DEF TwoInv, WiresOK

\* The TCP handshake of a link dialled by b.
LEMMA BEstablishes ==
  ASSUME TwoInv, NEW c \in Link, B!OnConnected(c), backlogA' = backlogA \cup {c},
         UNCHANGED <<aVars, backlogB>>, Flow(toA, toB)
  PROVE  TwoInv'
<1>1. PB!OnConnected(c) /\ PB!Next
  BY SameB DEF PB!Next, PB!Handshake
<1>2. /\ bState[c] = "Connecting" /\ bState'[c] = "HandshakingOut"
      /\ \A k \in Link : k # c => bState'[k] = bState[k]
  BY <1>1, ConstantsOfB, PB!ConnectedOnLinks DEF TwoInv, PB!Inv
<1>3. aState' = aState /\ backlogB' = backlogB
  BY DEF aVars
<1>4. ASSUME NEW k \in Link, k # c
      PROVE  JointFromB(k)'
  <2>1. Written(bState[k], bState'[k]) = <<>> /\ Written(aState[k], aState'[k]) = <<>>
    BY <1>2, <1>3, <1>4, StatesTyped, NothingWritten
  <2>2. toB[k] \o <<>> = toB[k] /\ toA[k] \o <<>> = toA[k]
    BY StatesTyped, ConcatEmptySeq
  <2>3. /\ toB'[k] = Arrived(bState[k], k \in backlogB, toB[k])
        /\ toA'[k] = Arrived(aState[k], k \in backlogA, toA[k])
    BY <1>2, <1>3, <1>4, <2>1, <2>2 DEF Flow, Deaf, Arrived, NotReading, Gone
  <2> QED
    BY <1>2, <1>3, <1>4, <2>3, JointArrived DEF JointFromB
<1>5. JointFromB(c)'
  <2>1. /\ c \notin backlogB /\ toB[c] = <<>> /\ aState[c] = "Free"
        /\ Joint("HandshakingOut", toB[c], c \in backlogB, aState[c],
                 toA[c] \o Written("Connecting", "HandshakingOut"), TRUE)
    <3>1. /\ Joint("Connecting", toB[c], c \in backlogB, aState[c], toA[c], c \in backlogA)
          /\ aState[c] \in LinkState
      BY <1>2, StatesTyped DEF JointFromB
    <3>2. ~(c \in backlogB)
      BY ONLY <3>1, Waits, JointEstablished, ZenonT(90)
    <3>3. toB[c] = <<>> /\ aState[c] = "Free"
      BY ONLY <3>1, Waits, JointEstablished, ZenonT(90)
    <3>4. Joint("HandshakingOut", toB[c], c \in backlogB, aState[c],
                toA[c] \o Written("Connecting", "HandshakingOut"), TRUE)
      BY ONLY <3>1, Waits, JointEstablished, ZenonT(90)
    <3> QED
      BY <3>2, <3>3, <3>4
  <2>2. toB'[c] = <<>>
    <3>1. Written(aState[c], aState'[c]) = <<>>
      BY <1>3, StatesTyped, NothingWritten
    <3> QED
      BY <1>2, <2>1, <3>1 DEF Flow, Deaf
  <2>3. toA'[c] = toA[c] \o Written("Connecting", "HandshakingOut")
    BY <1>2, <1>3 DEF Flow, Deaf
  <2> QED
    BY <1>2, <1>3, <2>1, <2>2, <2>3 DEF JointFromB
<1>6. toB' = [k \in Link |-> toB'[k]] /\ toA' = [k \in Link |-> toA'[k]]
  BY DEF Flow
<1> QED
  BY <1>1, <1>3, <1>4, <1>5, <1>6, TurnOfB DEF TwoInv, WiresOK

\* b takes a connection out of its backlog.
LEMMA BAccepts ==
  ASSUME TwoInv, NEW c \in Link, c \in backlogB, B!OnIncomingSocket(c),
         backlogB' = backlogB \ {c}, UNCHANGED <<aVars, backlogA>>, Flow(toA, toB)
  PROVE  TwoInv'
<1>1. PB!OnIncomingSocket(c) /\ PB!Next
  BY SameB DEF PB!Next
<1>2. /\ bState[c] = "Free" /\ bState'[c] = "HandshakingIn"
      /\ \A k \in Link : k # c => bState'[k] = bState[k]
  <2>1. PB!Create(c, "HandshakingIn")
    BY <1>1 DEF PB!OnIncomingSocket
  <2> QED
    BY <2>1, ConstantsOfB, PB!CreateOnLinks DEF TwoInv, PB!Inv
<1>3. aState' = aState /\ backlogA' = backlogA
  BY DEF aVars
<1>4. ASSUME NEW k \in Link, k # c
      PROVE  JointFromB(k)'
  <2>1. Written(bState[k], bState'[k]) = <<>> /\ Written(aState[k], aState'[k]) = <<>>
    BY <1>2, <1>3, <1>4, StatesTyped, NothingWritten
  <2>2. toB[k] \o <<>> = toB[k] /\ toA[k] \o <<>> = toA[k]
    BY StatesTyped, ConcatEmptySeq
  <2>3. /\ toB'[k] = Arrived(bState[k], k \in backlogB, toB[k])
        /\ toA'[k] = Arrived(aState[k], k \in backlogA, toA[k])
    BY <1>2, <1>3, <1>4, <2>1, <2>2 DEF Flow, Deaf, Arrived, NotReading, Gone
  <2> QED
    BY <1>2, <1>3, <1>4, <2>3, JointArrived DEF JointFromB
<1>5. JointFromB(c)'
  <2>1. /\ c \notin backlogA /\ toA[c] = <<>>
        /\ Joint("HandshakingIn", toB[c], FALSE, aState[c], toA[c], c \in backlogA)
    <3>1. (c \in backlogB) = TRUE /\ JointFromB(c) /\ aState[c] \in LinkState
      BY StatesTyped
    <3>2. Joint("Free", toB[c], TRUE, aState[c], toA[c], c \in backlogA)
      BY <1>2, <3>1, Zenon DEF JointFromB
    <3>3. aState[c] \in LinkState
      BY <3>1
    <3> QED
      BY ONLY <3>2, <3>3, Waits, JointAccepted, ZenonT(90)
  <2>2. toB'[c] = toB[c]
    <3>1. Written(aState[c], aState'[c]) = <<>> /\ toB[c] \o <<>> = toB[c]
      BY <1>3, StatesTyped, NothingWritten, ConcatEmptySeq
    <3> QED
      BY <1>2, <3>1 DEF Flow, Deaf
  <2>3. toA'[c] = <<>>
    <3>1. Written("Free", "HandshakingIn") = <<>>
      BY DEF Written
    <3> QED
      BY <1>2, <2>1, <3>1 DEF Flow, Deaf
  <2>4. (c \in backlogB') = FALSE /\ (c \in backlogA') = (c \in backlogA)
    BY <1>3
  <2> QED
    BY <1>2, <1>3, <2>1, <2>2, <2>3, <2>4, Zenon DEF JointFromB
<1>6. toB' = [k \in Link |-> toB'[k]] /\ toA' = [k \in Link |-> toA'[k]]
  BY DEF Flow
<1> QED
  BY <1>1, <1>3, <1>4, <1>5, <1>6, TurnOfB DEF TwoInv, WiresOK

LEMMA BReadsAFrame ==
  ASSUME TwoInv, NEW c \in Link, BReads(c)
  PROVE  TwoInv'
<1> DEFINE restB == [toB EXCEPT ![c] = Tail(@)]
<1>1. /\ UNCHANGED <<aVars, backlogB, backlogA>> /\ Flow(toA, restB)
      /\ c \notin backlogB
  BY DEF BReads, ReadB
<1>2. PB!TypeOK /\ PB!Tables
  BY DEF TwoInv, PB!Inv
<1>3. /\ PB!Next
      /\ toB[c] # <<>> /\ Reads(bState[c], toB[c], bState'[c])
      /\ \A k \in Link : k # c => Kept(bState[k], bState'[k])
  <2> USE ConstantsOfB
  <2>1. ASSUME PB!HelloReceived(c, a, fpA) \/ PB!HelloAckReceived(c, a, fpA)
        PROVE  /\ PB!Next
               /\ bState'[c] \in {"Ready", "Closing"}
               /\ \A k \in Link : k # c => Kept(bState[k], bState'[k])
    <3>1. a \in {a} \cup {b} /\ fpA \in Fp
      BY NodesAssumption
    <3>2. PB!OnLinkReady(c, a, fpA) /\ bState[c] \in PB!Handshaking
      BY <2>1 DEF PB!HelloReceived, PB!HelloAckReceived, PB!Handshaking
    <3>3. \A k \in Link : IF k = c THEN bState'[k] \in {"Ready", "Closing"} ELSE PB!Spared(k)
      BY <1>2, <3>1, <3>2, PB!ReadyOnLinks
    <3> QED
      BY <2>1, <3>1, <3>3 DEF PB!Next, PB!Handshake, PB!Spared, Kept
  <2>2. CASE NextIs(c, toB, "hello") /\ B!HelloReceived(c, a, fpA)
    <3>1. PB!HelloReceived(c, a, fpA)
      BY <2>2, SameReadyB
    <3> QED
      BY <2>1, <2>2, <3>1 DEF NextIs, Reads, PB!HelloReceived
  <2>3. CASE NextIs(c, toB, "hello_ack") /\ B!HelloAckReceived(c, a, fpA)
    <3>1. PB!HelloAckReceived(c, a, fpA)
      BY <2>3, SameReadyB
    <3> QED
      BY <2>1, <2>3, <3>1 DEF NextIs, Reads, PB!HelloAckReceived
  <2>4. CASE NextIs(c, toB, "bye") /\ B!HandshakeAbort(c)
    <3>1. PB!HandshakeAbort(c)
      BY <2>4, SameB
    <3> QED
      BY <1>2, <2>4, <3>1, PB!AbortOnLinks DEF NextIs, Reads, Kept, PB!Next, PB!Handshake
  <2>5. CASE NextIs(c, toB, "bye") /\ bLinks[a] = c /\ B!CloseLinkOf(a)
    <3>1. PB!CloseLinkOf(a)
      BY <2>5, SameB
    <3> QED
      BY <1>2, <2>5, <3>1, PB!CloseOnLinks DEF NextIs, Reads, Kept, PB!Next, PB!Spared
  <2>6. CASE NextIs(c, toB, "fin") /\ B!OnLinkDisconnected(c)
    <3>1. PB!OnLinkDisconnected(c)
      BY <2>6, SameB
    <3> QED
      BY <1>2, <2>6, <3>1, PB!DisconnectedOnLinks DEF NextIs, Reads, Kept, PB!Next
  <2> QED
    BY <2>2, <2>3, <2>4, <2>5, <2>6 DEF BReads
<1>4. bState' \in [Link -> LinkState]
  BY <1>3, OwnStepB DEF TwoInv
<1>5. ASSUME NEW k \in Link
      PROVE  Moves(bState[k], toB[k], k \in backlogB, bState'[k], restB[k])
  <2>1. restB[k] = IF k = c THEN Tail(toB[k]) ELSE toB[k]
    BY DEF TwoInv, WiresOK
  <2> QED
    BY <1>1, <1>3, <2>1 DEF Moves, Unread
<1>6. toB' = [k \in Link |-> toB'[k]] /\ toA' = [k \in Link |-> toA'[k]]
  BY <1>1 DEF Flow
<1> HIDE DEF restB
<1>7. \A k \in Link : JointFromB(k)'
  BY <1>1, <1>4, <1>5, MovedByB
<1> QED
  BY <1>1, <1>3, <1>6, <1>7, TurnOfB DEF TwoInv, WiresOK

\* b deletes a closing link before its bye was written.
LEMMA BDeletesUnflushed ==
  ASSUME TwoInv, NEW c \in Link, bState[c] = "Closing", B!DeleteDeferred(c),
         UNCHANGED <<aVars, backlogB, backlogA>>, Flow(CutBye(toA, c), toB)
  PROVE  TwoInv'
<1>1. PB!DeleteDeferred(c) /\ PB!Next
  BY SameB DEF PB!Next
<1>2. /\ bState'[c] = "Free"
      /\ \A k \in Link : k # c => bState'[k] = bState[k]
  BY <1>1, ConstantsOfB, PB!DeletionOnLinks DEF TwoInv, PB!Inv
<1>3. aState' = aState
  BY DEF aVars
<1>4. \A k \in Link : CutBye(toA, c)[k] = IF k = c THEN Cut(toA[k]) ELSE toA[k]
  BY DEF CutBye, Cut, TwoInv, WiresOK
<1>5. \A k \in Link : /\ Written(aState[k], aState'[k]) = <<>> /\ toB[k] \o <<>> = toB[k]
                      /\ k # c => Written(bState[k], bState'[k]) = <<>> /\ toA[k] \o <<>> = toA[k]
  BY <1>2, <1>3, StatesTyped, NothingWritten, ConcatEmptySeq
<1>6. ASSUME NEW k \in Link, k # c
      PROVE  JointFromB(k)'
  <2>1. /\ toB'[k] = Arrived(bState[k], k \in backlogB, toB[k])
        /\ toA'[k] = Arrived(aState[k], k \in backlogA, toA[k])
    BY <1>2, <1>3, <1>4, <1>5, <1>6 DEF Flow, Deaf, Arrived, NotReading, Gone
  <2> QED
    BY <1>2, <1>3, <1>6, <2>1, JointArrived DEF JointFromB
<1>7. JointFromB(c)'
  <2>1. /\ c \notin backlogB
        /\ Joint("Free", <<>>, c \in backlogB, aState[c],
                 Arrived(aState[c], c \in backlogA, Cut(toA[c]) \o Written("Closing", "Free")),
                 c \in backlogA)
    <3>1. /\ Joint("Closing", toB[c], c \in backlogB, aState[c], toA[c], c \in backlogA)
          /\ aState[c] \in LinkState
      BY StatesTyped DEF JointFromB
    <3> QED
      BY <3>1, Waits, JointCut, ZenonT(90)
  <2>2. toB'[c] = <<>>
    BY <1>2, <2>1 DEF Flow, Deaf
  <2>3. toA'[c] = Arrived(aState[c], c \in backlogA, Cut(toA[c]) \o Written("Closing", "Free"))
    BY <1>2, <1>3, <1>4 DEF Flow, Deaf, Arrived, NotReading, Gone
  <2> QED
    BY <1>2, <1>3, <2>1, <2>2, <2>3 DEF JointFromB
<1>8. toB' = [k \in Link |-> toB'[k]] /\ toA' = [k \in Link |-> toA'[k]]
  BY DEF Flow
<1> QED
  BY <1>1, <1>6, <1>7, <1>8, TurnOfB DEF TwoInv, WiresOK

LEMMA BRestarts ==
  ASSUME TwoInv, B!Restart, backlogB' = {}, UNCHANGED <<aVars, backlogA>>,
         toB' = [c \in Link |-> <<>>],
         toA' = [c \in Link |-> IF Deaf(aState, c, backlogA) THEN <<>> ELSE
                   toA[c] \o (IF c \in backlogB THEN <<"fin">> ELSE Written(bState[c], "Free"))]
  PROVE  TwoInv'
<1>1. PB!Restart /\ PB!Next
  BY SameB DEF PB!Next
<1>2. \A c \in Link : bState'[c] = "Free"
  BY <1>1, ConstantsOfB, PB!RestartOnLinks
<1>3. aState' = aState /\ backlogA' = backlogA
  BY DEF aVars
<1>4. ASSUME NEW c \in Link
      PROVE  JointFromB(c)'
  <2> DEFINE w == IF c \in backlogB THEN <<"fin">> ELSE Written(bState[c], "Free")
             arrives == Arrived(aState[c], c \in backlogA, toA[c] \o w)
  <2>1. JointFromB(c) /\ bState[c] \in LinkState /\ aState[c] \in LinkState
    BY StatesTyped
  <2>2. Joint("Free", <<>>, FALSE, aState[c], arrives, c \in backlogA)
    BY <2>1, Waits, JointRestarted, ZenonT(90) DEF JointFromB
  <2>3. toB'[c] = <<>> /\ toA'[c] = arrives
    BY DEF Deaf, Arrived, NotReading, Gone
  <2>4. (c \in backlogB') = FALSE /\ (c \in backlogA') = (c \in backlogA)
    BY <1>3
  <2> HIDE DEF arrives
  <2> QED
    BY <1>2, <1>3, <2>2, <2>3, <2>4, Zenon DEF JointFromB
<1>5. toB' = [k \in Link |-> toB'[k]] /\ toA' = [k \in Link |-> toA'[k]]
  OBVIOUS
<1> QED
  BY <1>1, <1>3, <1>4, <1>5, TurnOfB DEF TwoInv, WiresOK

\* The steps of b that read nothing and open nothing.
LEMMA BClosesOrDeletes ==
  ASSUME TwoInv, StepB,
         \/ \E c \in Link : B!OnLinkDisconnected(c) \/ B!DeleteDeferred(c)
         \/ B!CloseLinkOf(a) \/ B!User
  PROVE  TwoInv'
<1> USE ConstantsOfB
<1>1. PB!TypeOK /\ PB!Tables
  BY DEF TwoInv, PB!Inv
<1>2. ASSUME NEW c \in Link, B!OnLinkDisconnected(c)
      PROVE  PB!Next /\ \A k \in Link : Unread(bState[k], bState'[k])
  <2>1. PB!OnLinkDisconnected(c)
    BY <1>2, SameB
  <2> QED
    BY <1>1, <2>1, PB!DisconnectedOnLinks DEF PB!Next, Unread, Kept
<1>3. ASSUME NEW c \in Link, B!DeleteDeferred(c)
      PROVE  PB!Next /\ \A k \in Link : Unread(bState[k], bState'[k])
  <2>1. PB!DeleteDeferred(c)
    BY <1>3, SameB
  <2> QED
    BY <1>1, <2>1, PB!DeletionOnLinks DEF PB!Next, Unread, Kept
<1>4. CASE B!CloseLinkOf(a)
  <2>1. PB!CloseLinkOf(a)
    BY <1>4, SameB
  <2>2. PB!Next /\ \A k \in Link : Unread(bState[k], bState'[k])
    BY <1>1, <2>1, PB!CloseOnLinks DEF PB!Next, PB!Spared, Unread, Kept
  <2> QED
    BY <2>2, UnreadByB
<1>5. CASE B!User
  <2>1. PB!User
    BY <1>5, SameB
  <2>2. PB!Next /\ \A k \in Link : Unread(bState[k], bState'[k])
    BY <1>1, <2>1, PB!UserOnLinks DEF PB!Next, PB!Spared, Unread, Kept
  <2> QED
    BY <2>2, UnreadByB
<1> QED
  BY <1>2, <1>3, <1>4, <1>5, UnreadByB

LEMMA BDials ==
  ASSUME TwoInv, NEW c \in Link, Unused(c), B!ConnectTo(c), StepB
  PROVE  TwoInv'
<1>1. PB!ConnectTo(c) /\ PB!Next
  BY SameB DEF PB!Next
<1>2. PB!Create(c, "Connecting")
  BY <1>1 DEF PB!ConnectTo
<1>3. \A k \in Link : IF k = c THEN bState'[k] = "Connecting" ELSE bState'[k] = bState[k]
  BY <1>2, ConstantsOfB, PB!CreateOnLinks DEF TwoInv, PB!Inv
<1> QED
  BY <1>1, <1>3, DialledByB
-----------------------------------------------------------------------------
(* Announcements *)

LEMMA AHears ==
  ASSUME TwoInv, AHearsB
  PROVE  TwoInv'
<1>1. PA!OnPeerAnnounced(b, fpB, TRUE) /\ PA!Next /\ StepA
  BY SameA, NodesAssumption DEF AHearsB, PA!Next
<1>2. \A c \in Link : \/ aState'[c] = aState[c]
                      \/ aState[c] = "Free" /\ aState'[c] = "Connecting"
  BY <1>1, ConstantsOfA, NodesAssumption, PA!AnnouncementOnLinks DEF TwoInv, PA!Inv
<1>3. \A c \in Link : aState[c] = "Free" /\ aState'[c] # "Free" => Unused(c)
  BY DEF AHearsB, OnlyUnused
<1> QED
  BY <1>1, <1>2, <1>3, DialledByA

\* b's id is the greater one: an announcement of a makes it dial nobody.
LEMMA BHears ==
  ASSUME TwoInv, BHearsA
  PROVE  TwoInv'
<1>1. PB!OnPeerAnnounced(a, fpA, TRUE) /\ PB!Next /\ StepB
  BY SameB, NodesAssumption DEF BHearsA, PB!Next
<1>2. \A c \in Link : bState'[c] = bState[c]
  BY <1>1, ConstantsOfB, NodesAssumption, PB!AnnouncementOnLinks DEF TwoInv, PB!Inv
<1> QED
  BY <1>1, <1>2, UnreadByB DEF Unread, Kept
-----------------------------------------------------------------------------
(* Every step *)

LEMMA TwoInvStep ==
  ASSUME TwoInv, [Next]_vars
  PROVE  TwoInv'
<1>1. CASE AHearsB
  BY <1>1, AHears
<1>2. CASE BHearsA
  BY <1>2, BHears
<1>3. ASSUME NEW c \in Link, AddByHand(c)
      PROVE  TwoInv'
  BY <1>3, ADials, BDials DEF AddByHand
<1>4. ASSUME NEW c \in Link, Established(c)
      PROVE  TwoInv'
  BY <1>4, AEstablishes, BEstablishes DEF Established
<1>5. ASSUME NEW c \in Link, Accept(c)
      PROVE  TwoInv'
  BY <1>5, AAccepts, BAccepts DEF Accept
<1>6. ASSUME NEW c \in Link, AReads(c) \/ BReads(c)
      PROVE  TwoInv'
  BY <1>6, AReadsAFrame, BReadsAFrame
<1>7. ASSUME NEW c \in Link, Flushed(c) \/ Broken(c)
      PROVE  TwoInv'
  BY <1>7, AClosesOrDeletes, BClosesOrDeletes DEF Flushed, Broken
<1>8. ASSUME NEW c \in Link, Delete(c)
      PROVE  TwoInv'
  BY <1>8, AClosesOrDeletes, BClosesOrDeletes, ADeletesUnflushed, BDeletesUnflushed DEF Delete
<1>9. CASE Other
  BY <1>9, AClosesOrDeletes, BClosesOrDeletes DEF Other
<1>10. CASE Restarts
  BY <1>10, ARestarts, BRestarts DEF Restarts
<1>11. CASE UNCHANGED vars
  <2>1. UNCHANGED <<aVars, bVars, toA, toB, backlogA, backlogB>>
    BY <1>11 DEF vars, wires
  <2>2. PA!Inv' /\ PB!Inv'
    BY <2>1, OwnStepA, OwnStepB DEF TwoInv
  <2>3. aState' = aState /\ bState' = bState
    BY <2>1 DEF aVars, bVars
  <2> QED
    BY <2>1, <2>2, <2>3 DEF TwoInv, WiresOK, JointFromA
<1> QED
  BY <1>1, <1>2, <1>3, <1>4, <1>5, <1>6, <1>7, <1>8, <1>9, <1>10, <1>11 DEF Next

LEMMA TwoInvInit ==
  ASSUME Init
  PROVE  TwoInv
<1>1. PA!Init /\ PB!Init
  BY SameA, SameB DEF Init
<1>2. PA!Inv /\ PB!Inv
  BY <1>1, ConstantsOfA, ConstantsOfB, PA!InvInit, PB!InvInit
<1>3. \A c \in Link : aState[c] = "Free" /\ bState[c] = "Free"
  BY <1>1 DEF PA!Init, PB!Init
<1>4. WiresOK
  BY DEF Init, WiresOK
<1>5. \A c \in Link : JointFromA(c)
  BY <1>3 DEF Init, JointFromA, Joint, HalfJoint, NotReading, Gone
<1> QED
  BY <1>2, <1>4, <1>5 DEF TwoInv

LEMMA Invariance == Spec => []TwoInv
<1>1. Init => TwoInv
  BY TwoInvInit
<1>2. TwoInv /\ [Next]_vars => TwoInv'
  BY TwoInvStep
<1> QED
  BY <1>1, <1>2, PTL DEF Spec
-----------------------------------------------------------------------------
(* The properties *)

\* Only handshake frames, in sequences, are ever on a wire, and both processes
\* keep their types.
THEOREM WiresTypeCorrect == Spec => []WireTypeOK
<1>1. TwoInv => WireTypeOK
  BY SameA, SameB DEF TwoInv, WiresOK, WireTypeOK, PA!Inv, PB!Inv
<1> QED
  BY <1>1, Invariance, PTL

\* A handshake that is under way has its next frame on the wire, or the other
\* end about to write it, whatever was closed, deleted or restarted meanwhile.
THEOREM HandshakesStayAlive == Spec => []HandshakeAlive
<1>1. ASSUME TwoInv, NEW c \in Link
      PROVE  /\ aState[c] = "HandshakingOut" /\ toA[c] = <<>> =>
                  NextIs(c, toB, "hello") /\ (c \in backlogB \/ bState[c] = "HandshakingIn")
             /\ bState[c] = "HandshakingOut" /\ toB[c] = <<>> =>
                  NextIs(c, toA, "hello") /\ (c \in backlogA \/ aState[c] = "HandshakingIn")
             /\ aState[c] = "HandshakingIn" => toA[c] # <<>>
             /\ bState[c] = "HandshakingIn" => toB[c] # <<>>
  BY <1>1, WireRead DEF TwoInv, JointFromA, Joint, HalfJoint, NextIs, Gone, NotReading
<1>2. TwoInv => HandshakeAlive
  BY <1>1 DEF HandshakeAlive
<1> QED
  BY <1>2, Invariance, PTL

\* No connection stays open on one side only: what an open end still has to
\* read, or what the other end still has to read, closes that gap.
THEOREM NothingHalfOpen == Spec => []NoHalfOpen
<1>1. ASSUME TwoInv, NEW c \in Link
      PROVE  /\ aState[c] = "Ready" /\ toA[c] = <<>> =>
                  \/ bState[c] = "Ready"
                  \/ bState[c] = "HandshakingOut" /\ NextIs(c, toB, "hello_ack")
             /\ bState[c] = "Ready" /\ toB[c] = <<>> =>
                  \/ aState[c] = "Ready"
                  \/ aState[c] = "HandshakingOut" /\ NextIs(c, toA, "hello_ack")
  BY <1>1, WireRead DEF TwoInv, JointFromA, Joint, HalfJoint, NextIs, Gone, NotReading
<1>2. TwoInv => NoHalfOpen
  BY <1>1 DEF NoHalfOpen
<1> QED
  BY <1>2, Invariance, PTL

\* An open connection is the one its process serves the other with.
LEMMA ServesA ==
  ASSUME PA!Inv, NEW c \in Link, aState[c] = "Ready"
  PROVE  aLinks[b] = c
<1>1. c \notin aDoomed /\ c \notin aPending
  BY DEF PA!Inv, PA!Tables, PA!NoLeak, PA!DoomedClosed
<1>2. aLinkToPeer[c] = b
  BY <1>1 DEF PA!Inv, PA!TypeOK, PA!Tables, PA!NoLeak
<1> QED
  BY <1>2 DEF PA!Inv, PA!Tables, PA!LinkTables

LEMMA ServesB ==
  ASSUME PB!Inv, NEW c \in Link, bState[c] = "Ready"
  PROVE  bLinks[a] = c
<1>1. c \notin bDoomed /\ c \notin bPending
  BY DEF PB!Inv, PB!Tables, PB!NoLeak, PB!DoomedClosed
<1>2. bLinkToPeer[c] = a
  BY <1>1 DEF PB!Inv, PB!TypeOK, PB!Tables, PB!NoLeak
<1> QED
  BY <1>2 DEF PB!Inv, PB!Tables, PB!LinkTables

\* When nothing is in flight and nothing is owed, both processes use the same
\* connection or neither has one.
THEOREM BothAgree == Spec => []Agreement
<1>1. ASSUME TwoInv, Quiet, NEW c \in Link
      PROVE  aState[c] = "Ready" <=> bState[c] = "Ready"
  BY <1>1 DEF Quiet, TwoInv, JointFromA, Joint, HalfJoint, Gone, NotReading
<1>2. ASSUME TwoInv, Quiet
      PROVE  aLinks[b] = bLinks[a]
  <2>1. aLinks[b] # None => aLinks[b] \in Link /\ aState[aLinks[b]] = "Ready"
    <3>1. PA!TypeOK /\ PA!Tables /\ b \in {b}
      BY <1>2 DEF TwoInv, PA!Inv
    <3>2. aLinks[b] # None => aLinks[b] \in Link /\ aState[aLinks[b]] \in {"Ready", "Closing"}
      BY <3>1, ConstantsOfA, PA!Serving
    <3> QED
      BY <1>2, <3>2 DEF Quiet
  <2>2. bLinks[a] # None => bLinks[a] \in Link /\ bState[bLinks[a]] = "Ready"
    <3>1. PB!TypeOK /\ PB!Tables /\ a \in {a}
      BY <1>2 DEF TwoInv, PB!Inv
    <3>2. bLinks[a] # None => bLinks[a] \in Link /\ bState[bLinks[a]] \in {"Ready", "Closing"}
      BY <3>1, ConstantsOfB, PB!Serving
    <3> QED
      BY <1>2, <3>2 DEF Quiet
  <2> QED
    BY <1>1, <1>2, <2>1, <2>2, ServesA, ServesB DEF TwoInv
<1>3. TwoInv => Agreement
  BY <1>2 DEF Agreement
<1> QED
  BY <1>3, Invariance, PTL
-----------------------------------------------------------------------------
(* Refinement: each process takes only steps of PeerManager, whose remote    *)
(* ends may do anything, so what is proved of PeerManager holds of both.     *)

LEMMA StepsOfPeerManagers ==
  ASSUME [Next]_vars
  PROVE  /\ PA!Next \/ UNCHANGED aVars
         /\ PB!Next \/ UNCHANGED bVars
<1>1. \A c \in Link : /\ A!HelloReceived(c, b, fpB) \/ A!HelloAckReceived(c, b, fpB) => PA!Next
                      /\ B!HelloReceived(c, a, fpA) \/ B!HelloAckReceived(c, a, fpA) => PB!Next
  BY SameReadyA, SameReadyB, NodesAssumption
     DEF PA!Next, PB!Next, PA!Handshake, PB!Handshake
<1>2. \A c \in Link : A!HandshakeAbort(c) => PA!Next
  BY SameA DEF PA!Next, PA!Handshake
<1>3. \A c \in Link : B!HandshakeAbort(c) => PB!Next
  BY SameB DEF PB!Next, PB!Handshake
<1>4. \A c \in Link : /\ A!OnLinkDisconnected(c) \/ A!DeleteDeferred(c) => PA!Next
                      /\ B!OnLinkDisconnected(c) \/ B!DeleteDeferred(c) => PB!Next
  BY SameA, SameB DEF PA!Next, PB!Next
<1>5. /\ A!CloseLinkOf(b) \/ A!User \/ A!Restart => PA!Next
      /\ B!CloseLinkOf(a) \/ B!User \/ B!Restart => PB!Next
  BY SameA, SameB DEF PA!Next, PB!Next
<1>6. CASE AHearsB \/ BHearsA
  BY <1>6, SameA, SameB, NodesAssumption DEF AHearsB, BHearsA, StepA, StepB, PA!Next, PB!Next
<1>7. CASE \E c \in Link : AddByHand(c)
  BY <1>7, SameA, SameB DEF AddByHand, StepA, StepB, PA!Next, PB!Next
<1>8. CASE \E c \in Link : Established(c)
  BY <1>8, SameA, SameB DEF Established, PA!Next, PB!Next, PA!Handshake, PB!Handshake
<1>9. CASE \E c \in Link : Accept(c)
  BY <1>9, SameA, SameB DEF Accept, PA!Next, PB!Next
<1>10. CASE \E c \in Link : AReads(c)
  BY <1>1, <1>2, <1>4, <1>5, <1>10 DEF AReads, ReadA
<1>11. CASE \E c \in Link : BReads(c)
  BY <1>1, <1>3, <1>4, <1>5, <1>11 DEF BReads, ReadB
<1>12. CASE \E c \in Link : Flushed(c) \/ Broken(c) \/ Delete(c)
  BY <1>4, <1>12 DEF Flushed, Broken, Delete, StepA, StepB
<1>13. CASE Other \/ Restarts
  BY <1>5, <1>13 DEF Other, Restarts, StepA, StepB
<1>14. CASE UNCHANGED vars
  BY <1>14 DEF vars
<1> QED
  BY <1>6, <1>7, <1>8, <1>9, <1>10, <1>11, <1>12, <1>13, <1>14 DEF Next

\* a and b each start as a PeerManager and take only a PeerManager's steps.
THEOREM BothArePeerManagers ==
  Spec => /\ PA!Init /\ [][PA!Next]_(PA!vars)
          /\ PB!Init /\ [][PB!Next]_(PB!vars)
<1>1. Init => PA!Init /\ PB!Init
  BY SameA, SameB DEF Init
<1>2. [Next]_vars => [PA!Next]_(PA!vars) /\ [PB!Next]_(PB!vars)
  BY StepsOfPeerManagers
     DEF aVars, bVars, PA!vars, PA!peerVars, PA!linkVars, PB!vars, PB!peerVars, PB!linkVars
<1> QED
  BY <1>1, <1>2, PTL DEF Spec

=============================================================================
