----------------------------- MODULE ChatProofs -----------------------------
(***************************************************************************)
(* What TLAPS proves of Chat, for any messages, any bounds and any order   *)
(* of the bubbles on the screen.                                           *)
(***************************************************************************)
EXTENDS Chat, FiniteSetTheorems, SequenceTheorems, TLAPS

\* The frames a connection carries.
TextFrame == [type : {"text"}, msg : Msg \ File]
AckFrame == [type : {"text_ack"}, msg : Msg \ File, status : {"Delivered", "Read"}]
OfferFrame == [type : {"file_offer"}, msg : File]
Frames == TextFrame \cup AckFrame \cup OfferFrame

DataTypeOK ==
  /\ row \in [Node -> [Msg -> Status \cup {None}]]
  /\ wire \in [Node -> Seq(Frames)]

\* What a frame on its way to n says holds of the tables r.  A text is from the
\* other node, which has it as Sent, and new; so is an offer, but Sending.  A
\* receipt is for the author, from a node that has the message; "delivered" is the
\* first news the author gets.
TrueFrame(f, n, r) ==
  /\ f.type = "text" =>
       Author[f.msg] # n /\ r[Other(n)][f.msg] = "Sent" /\ r[n][f.msg] = None
  /\ f.type = "file_offer" =>
       Author[f.msg] # n /\ r[Other(n)][f.msg] = "Sending" /\ r[n][f.msg] = None
  /\ f.type = "text_ack" =>
       /\ Author[f.msg] = n /\ r[Other(n)][f.msg] # None
       /\ f.status = "Delivered" => r[n][f.msg] = "Sent"

IsRead(f) == f.type = "text_ack" /\ f.status = "Read"

\* Nothing of a message comes after another frame of it but "read" receipts.
Ordered(q) ==
  \A i, j \in 1 .. Len(q) : i < j /\ q[i].msg = q[j].msg => IsRead(q[j])

Good(n, q, r) == Ordered(q) /\ \A i \in 1 .. Len(q) : TrueFrame(q[i], n, r)

\* What a message is for its author once it is written out: the item of a file
\* stays Sending.
Out(m) == IF m \in File THEN {"Sending"} ELSE {"Sent", "Delivered", "Read"}

\* A node has a received message only as Delivered, and then its author has
\* written it out.
Received ==
  \A n \in Node, m \in Msg : Author[m] # n /\ row[n][m] # None =>
     row[n][m] = "Delivered" /\ row[Other(n)][m] \in Out(m)

ChatInv == DataTypeOK /\ Received /\ \A n \in Node : Good(n, wire[n], row)
-----------------------------------------------------------------------------
(* Nodes, frames and queues *)

LEMMA TwoNodes ==
  ASSUME NEW n \in Node
  PROVE  /\ Other(n) \in Node /\ Other(n) # n /\ Other(Other(n)) = n
         /\ \A o \in Node : o = n \/ o = Other(n)
  BY ChatAssumption DEF Other

LEMMA FrameKinds ==
  ASSUME NEW m \in Msg \ File, NEW s \in {"Delivered", "Read"}
  PROVE  /\ Text(m) \in Frames /\ Text(m).type = "text" /\ Text(m).msg = m
         /\ Ack(m, s) \in Frames /\ Ack(m, s).type = "text_ack" /\ Ack(m, s).msg = m
         /\ Ack(m, s).status = s
  BY DEF Frames, TextFrame, AckFrame, Text, Ack

LEMMA OfferKind ==
  ASSUME NEW m \in File
  PROVE  Offer(m) \in Frames /\ Offer(m).type = "file_offer" /\ Offer(m).msg = m
  BY DEF Frames, OfferFrame, Offer

LEMMA FrameOf ==
  ASSUME NEW f \in Frames
  PROVE  /\ f.msg \in Msg /\ f.type \in {"text", "text_ack", "file_offer"}
         /\ f.type # "file_offer" => f.msg \notin File
         /\ f.type = "file_offer" => f.msg \in File
         /\ f.type = "text_ack" => f.status \in {"Delivered", "Read"}
  BY ChatAssumption DEF Frames, TextFrame, AckFrame, OfferFrame

LEMMA HeadTail ==
  ASSUME NEW q \in Seq(Frames), q # <<>>
  PROVE  /\ Head(q) \in Frames /\ Head(q) = q[1] /\ 1 \in 1 .. Len(q)
         /\ Tail(q) \in Seq(Frames) /\ Len(Tail(q)) = Len(q) - 1 /\ Len(q) \in Nat
         /\ \A i \in 1 .. Len(Tail(q)) : i + 1 \in 1 .. Len(q) /\ Tail(q)[i] = q[i + 1]
  OBVIOUS

LEMMA Appending ==
  ASSUME NEW q \in Seq(Frames), NEW f \in Frames
  PROVE  /\ Append(q, f) \in Seq(Frames) /\ Len(Append(q, f)) = Len(q) + 1 /\ Len(q) \in Nat
         /\ Append(q, f)[Len(q) + 1] = f
         /\ \A i \in 1 .. Len(q) : Append(q, f)[i] = q[i]
  OBVIOUS

LEMMA GoodEmpty ==
  ASSUME NEW n, NEW r
  PROVE  Good(n, <<>>, r)
  BY DEF Good, Ordered

\* The frame that is taken was true, the rest stays good, and of its message
\* only "read" receipts are left.
LEMMA GoodTail ==
  ASSUME NEW n, NEW r, NEW q \in Seq(Frames), q # <<>>, Good(n, q, r)
  PROVE  /\ TrueFrame(Head(q), n, r) /\ Good(n, Tail(q), r)
         /\ \A i \in 1 .. Len(Tail(q)) : Tail(q)[i].msg = Head(q).msg => IsRead(Tail(q)[i])
<1>1. TrueFrame(Head(q), n, r)
  BY HeadTail DEF Good
<1>2. \A i \in 1 .. Len(Tail(q)) : TrueFrame(Tail(q)[i], n, r)
  BY HeadTail DEF Good
<1>3. Ordered(Tail(q))
  <2> SUFFICES ASSUME NEW i \in 1 .. Len(Tail(q)), NEW j \in 1 .. Len(Tail(q)), i < j,
                      Tail(q)[i].msg = Tail(q)[j].msg
               PROVE  IsRead(Tail(q)[j])
    BY DEF Ordered
  <2>1. i + 1 \in 1 .. Len(q) /\ j + 1 \in 1 .. Len(q) /\ i + 1 < j + 1
    BY HeadTail
  <2>2. q[i + 1] = Tail(q)[i] /\ q[j + 1] = Tail(q)[j]
    BY HeadTail
  <2> QED
    BY <2>1, <2>2 DEF Good, Ordered
<1>4. ASSUME NEW i \in 1 .. Len(Tail(q)), Tail(q)[i].msg = Head(q).msg
      PROVE  IsRead(Tail(q)[i])
  <2>1. 1 \in 1 .. Len(q) /\ i + 1 \in 1 .. Len(q) /\ 1 < i + 1
    BY HeadTail
  <2>2. q[1] = Head(q) /\ q[i + 1] = Tail(q)[i]
    BY HeadTail
  <2> QED
    BY <1>4, <2>1, <2>2 DEF Good, Ordered
<1> QED
  BY <1>1, <1>2, <1>3, <1>4 DEF Good

LEMMA GoodAppend ==
  ASSUME NEW n, NEW r, NEW q \in Seq(Frames), NEW f \in Frames, Good(n, q, r), TrueFrame(f, n, r),
         IsRead(f) \/ \A i \in 1 .. Len(q) : q[i].msg # f.msg
  PROVE  Good(n, Append(q, f), r)
<1> DEFINE p == Append(q, f)
<1>1. /\ Len(p) = Len(q) + 1 /\ Len(q) \in Nat /\ p[Len(q) + 1] = f
      /\ \A i \in 1 .. Len(q) : p[i] = q[i]
  BY Appending
<1> HIDE DEF p
<1>2. \A i \in 1 .. Len(p) : TrueFrame(p[i], n, r)
  <2> SUFFICES ASSUME NEW i \in 1 .. Len(p) PROVE TrueFrame(p[i], n, r)
    OBVIOUS
  <2>1. CASE i = Len(q) + 1
    BY <1>1, <2>1
  <2>2. CASE i \in 1 .. Len(q)
    BY <1>1, <2>2 DEF Good
  <2> QED
    BY <1>1, <2>1, <2>2
<1>3. Ordered(p)
  <2> SUFFICES ASSUME NEW i \in 1 .. Len(p), NEW j \in 1 .. Len(p), i < j, p[i].msg = p[j].msg
               PROVE  IsRead(p[j])
    BY DEF Ordered
  <2>1. i \in 1 .. Len(q)
    BY <1>1
  <2>2. CASE j = Len(q) + 1
    BY <1>1, <2>1, <2>2
  <2>3. CASE j \in 1 .. Len(q)
    BY <1>1, <2>1, <2>3 DEF Good, Ordered
  <2> QED
    BY <1>1, <2>2, <2>3
<1> QED
  BY <1>2, <1>3 DEF Good, p
-----------------------------------------------------------------------------
(* Steps *)

\* A status that moves leaves what the frames of other messages say true.
LEMMA GoodMoved ==
  ASSUME DataTypeOK, NEW n \in Node, NEW m \in Msg, NEW s \in Status,
         row' = [row EXCEPT ![n][m] = s],
         NEW k \in Node, NEW q \in Seq(Frames), Good(k, q, row),
         \A i \in 1 .. Len(q) : q[i].msg # m
  PROVE  Good(k, q, row')
<1>1. \A j \in Msg \ {m} : row'[k][j] = row[k][j] /\ row'[Other(k)][j] = row[Other(k)][j]
  BY TwoNodes DEF DataTypeOK
<1>2. ASSUME NEW i \in 1 .. Len(q)
      PROVE  TrueFrame(q[i], k, row')
  <2>1. q[i] \in Frames /\ q[i].msg \in Msg \ {m}
    BY FrameOf
  <2>2. TrueFrame(q[i], k, row)
    BY DEF Good
  <2> QED
    BY <1>1, <2>1, <2>2 DEF TrueFrame
<1> QED
  BY <1>2 DEF Good

\* The steps that leave the tables alone, and the frames or lose them all.
LEMMA Unchanging ==
  ASSUME ChatInv, row' = row, wire' = wire \/ wire' = [k \in Node |-> <<>>]
  PROVE  ChatInv'
<1>1. Received'
  BY DEF ChatInv, Received
<1>2. CASE wire' = wire
  BY <1>1, <1>2 DEF ChatInv, DataTypeOK
<1>3. CASE wire' = [k \in Node |-> <<>>]
  <2>1. DataTypeOK'
    BY <1>3 DEF ChatInv, DataTypeOK
  <2>2. \A n \in Node : Good(n, wire'[n], row')
    BY <1>3, GoodEmpty
  <2> QED
    BY <1>1, <2>1, <2>2 DEF ChatInv
<1> QED
  BY <1>2, <1>3

\* A message its author has not stored is nowhere: not with the other node, and
\* not on the way.
LEMMA Unwritten ==
  ASSUME ChatInv, NEW n \in Node, NEW m \in Msg, Author[m] = n, row[n][m] = None
  PROVE  /\ row[Other(n)][m] = None
         /\ \A k \in Node : \A i \in 1 .. Len(wire[k]) : wire[k][i].msg # m
<1>1. None \notin Status /\ Status = {"Sending", "Sent", "Delivered", "Read"}
  BY ChatAssumption DEF Status
<1>2. row[Other(n)][m] = None
  BY <1>1, TwoNodes DEF ChatInv, Received, Out
<1>3. ASSUME NEW k \in Node, NEW i \in 1 .. Len(wire[k]), wire[k][i].msg = m
      PROVE  FALSE
  <2>1. wire[k][i] \in Frames
    BY DEF ChatInv, DataTypeOK
  <2>2. wire[k][i].type \in {"text", "text_ack", "file_offer"}
    BY <2>1, FrameOf
  <2>3. TrueFrame(wire[k][i], k, row)
    BY DEF ChatInv, Good
  <2>4. CASE k = n
    BY <1>1, <1>2, <1>3, <2>2, <2>3, <2>4 DEF TrueFrame
  <2>5. CASE k = Other(n)
    BY <1>1, <1>3, <2>2, <2>3, <2>5, TwoNodes DEF TrueFrame
  <2> QED
    BY <2>4, <2>5, TwoNodes
<1> QED
  BY <1>2, <1>3

\* A message of n's is stored and written to the connection, in the frame f.
LEMMA StepWritten ==
  ASSUME ChatInv, NEW n \in Node, NEW m \in Msg, NEW f \in Frames, NEW s \in Status,
         Author[m] = n, row[n][m] = None, f.msg = m,
         (f.type = "text" /\ s = "Sent") \/ (f.type = "file_offer" /\ s = "Sending"),
         row' = [row EXCEPT ![n][m] = s],
         wire' = [wire EXCEPT ![Other(n)] = Append(@, f)]
  PROVE  ChatInv'
<1>1. /\ Author[m] = n /\ row[n][m] = None
      /\ row' = [row EXCEPT ![n][m] = s]
      /\ wire' = [wire EXCEPT ![Other(n)] = Append(@, f)]
  OBVIOUS
<1>2. PICK o \in Node : o = Other(n) /\ o # n /\ Other(o) = n /\ \A k \in Node : k = n \/ k = o
  BY TwoNodes
<1>3. /\ row[o][m] = None
      /\ \A k \in Node : \A i \in 1 .. Len(wire[k]) : wire[k][i].msg # m
  BY <1>1, <1>2, Unwritten
<1>4. /\ DataTypeOK /\ wire[n] \in Seq(Frames) /\ wire[o] \in Seq(Frames)
      /\ Good(n, wire[n], row) /\ Good(o, wire[o], row)
  BY <1>2 DEF ChatInv, DataTypeOK
<1>5. f \in Frames /\ f.msg = m
  OBVIOUS
<1>6. /\ row'[n][m] = s /\ row'[o] = row[o]
      /\ \A k \in Msg \ {m} : row'[n][k] = row[n][k]
      /\ wire'[n] = wire[n] /\ wire'[o] = Append(wire[o], f)
  BY <1>1, <1>2, <1>4 DEF DataTypeOK
<1>7. s \in Status
  OBVIOUS
<1>8. Good(n, wire[n], row') /\ Good(o, wire[o], row')
  <2>1. /\ \A i \in 1 .. Len(wire[n]) : wire[n][i].msg # m
        /\ \A i \in 1 .. Len(wire[o]) : wire[o][i].msg # m
        /\ row' = [row EXCEPT ![n][m] = s]
    BY <1>1, <1>3
  <2>2. DataTypeOK /\ n \in Node /\ m \in Msg /\ o \in Node
    BY <1>4
  <2>3. Good(n, wire[n], row')
    BY ONLY <2>1, <2>2, <1>4, <1>7, GoodMoved
  <2>4. Good(o, wire[o], row')
    BY ONLY <2>1, <2>2, <1>4, <1>7, GoodMoved
  <2> QED
    BY <2>3, <2>4
<1>9. TrueFrame(f, o, row')
  BY <1>1, <1>2, <1>3, <1>5, <1>6 DEF TrueFrame
<1>10. Good(o, wire'[o], row')
  BY <1>2, <1>3, <1>4, <1>5, <1>6, <1>8, <1>9, GoodAppend
<1>11. \A k \in Node : Good(k, wire'[k], row')
  BY <1>2, <1>6, <1>8, <1>10
<1>12. DataTypeOK'
  <2>1. wire'[o] \in Seq(Frames)
    BY <1>4, <1>5, <1>6, Appending
  <2>2. wire' \in [Node -> Seq(Frames)]
    BY <1>1, <1>2, <1>4, <1>6, <2>1 DEF DataTypeOK
  <2>3. row' \in [Node -> [Msg -> Status \cup {None}]]
    BY <1>1, <1>4, <1>7 DEF DataTypeOK
  <2> QED
    BY <2>2, <2>3 DEF DataTypeOK
<1>13. Received'
  <2> SUFFICES ASSUME NEW k \in Node, NEW j \in Msg, Author[j] # k, row'[k][j] # None
               PROVE  row'[k][j] = "Delivered" /\ row'[Other(k)][j] \in Out(j)
    BY DEF Received
  <2>1. j # m
    BY <1>1, <1>2, <1>3, <1>6
  <2>2. row'[k][j] = row[k][j] /\ row'[Other(k)][j] = row[Other(k)][j]
    BY <1>2, <1>6, <2>1
  <2> QED
    BY <2>2 DEF ChatInv, Received
<1> QED
  BY <1>1, <1>11, <1>12, <1>13 DEF ChatInv

LEMMA StepSend ==
  ASSUME ChatInv, NEW n \in Node, NEW m \in Msg, SendText(n, m)
  PROVE  /\ ChatInv'
         /\ Author[m] = n /\ row[n][m] = None /\ row' = [row EXCEPT ![n][m] = "Sent"]
<1>1. /\ m \in Msg \ File /\ Author[m] = n /\ row[n][m] = None
      /\ row' = [row EXCEPT ![n][m] = "Sent"]
      /\ wire' = [wire EXCEPT ![Other(n)] = Append(@, Text(m))]
  BY DEF SendText, Stores
<1>2. Text(m) \in Frames /\ Text(m).type = "text" /\ Text(m).msg = m
  BY <1>1, FrameKinds
<1>3. "Sent" \in Status
  BY DEF Status
<1>4. ChatInv'
  BY <1>1, <1>2, <1>3, StepWritten
<1> QED
  BY <1>1, <1>4

LEMMA StepQueueFile ==
  ASSUME ChatInv, NEW n \in Node, NEW m \in Msg, QueueFile(n, m)
  PROVE  /\ ChatInv'
         /\ m \in File /\ Author[m] = n /\ row[n][m] = None
         /\ row' = [row EXCEPT ![n][m] = "Sending"]
<1>1. /\ m \in File /\ Author[m] = n /\ row[n][m] = None
      /\ row' = [row EXCEPT ![n][m] = "Sending"]
      /\ wire' = [wire EXCEPT ![Other(n)] = Append(@, Offer(m))]
  BY DEF QueueFile, Stores
<1>2. Offer(m) \in Frames /\ Offer(m).type = "file_offer" /\ Offer(m).msg = m
  BY <1>1, OfferKind
<1>3. "Sending" \in Status
  BY DEF Status
<1>4. ChatInv'
  BY <1>1, <1>2, <1>3, StepWritten
<1> QED
  BY <1>1, <1>4

LEMMA StepCrashInSend ==
  ASSUME ChatInv, NEW n \in Node, NEW m \in Msg, CrashInSend(n, m)
  PROVE  /\ ChatInv'
         /\ Author[m] = n /\ row[n][m] = None /\ row' = [row EXCEPT ![n][m] = "Sending"]
<1>1. /\ Author[m] = n /\ row[n][m] = None
      /\ row' = [row EXCEPT ![n][m] = "Sending"]
      /\ wire' = [k \in Node |-> <<>>]
  BY DEF CrashInSend, Stores, Break
<1>2. row[Other(n)][m] = None
  BY <1>1, Unwritten
<1>3. DataTypeOK'
  BY <1>1 DEF ChatInv, DataTypeOK, Status
<1>4. \A k \in Node : Good(k, wire'[k], row')
  BY <1>1, GoodEmpty
<1>5. Received'
  <2> SUFFICES ASSUME NEW k \in Node, NEW j \in Msg, Author[j] # k, row'[k][j] # None
               PROVE  row'[k][j] = "Delivered" /\ row'[Other(k)][j] \in Out(j)
    BY DEF Received
  <2>1. j # m
    BY <1>1, <1>2, TwoNodes DEF ChatInv, DataTypeOK
  <2>2. row'[k][j] = row[k][j] /\ row'[Other(k)][j] = row[Other(k)][j]
    BY <1>1, <2>1, TwoNodes DEF ChatInv, DataTypeOK
  <2> QED
    BY <2>2 DEF ChatInv, Received
<1> QED
  BY <1>1, <1>3, <1>4, <1>5 DEF ChatInv

LEMMA StepMarkRead ==
  ASSUME ChatInv, NEW n \in Node, NEW m \in Msg, MarkRead(n, m)
  PROVE  ChatInv' /\ row' = row
<1>1. /\ m \in Msg \ File /\ Author[m] # n /\ row[n][m] # None /\ row' = row
      /\ wire' = [wire EXCEPT ![Other(n)] = Append(@, Ack(m, "Read"))]
  BY DEF MarkRead
<1>2. PICK o \in Node : o = Other(n) /\ o # n /\ Other(o) = n /\ \A k \in Node : k = n \/ k = o
  BY TwoNodes
<1>3. /\ wire[n] \in Seq(Frames) /\ wire[o] \in Seq(Frames)
      /\ Good(n, wire[n], row) /\ Good(o, wire[o], row)
  BY <1>2 DEF ChatInv, DataTypeOK
<1>4. /\ Ack(m, "Read") \in Frames /\ Ack(m, "Read").type = "text_ack"
      /\ Ack(m, "Read").msg = m /\ Ack(m, "Read").status = "Read"
  BY <1>1, FrameKinds
<1>5. wire'[n] = wire[n] /\ wire'[o] = Append(wire[o], Ack(m, "Read"))
  BY <1>1, <1>2 DEF ChatInv, DataTypeOK
<1>6. Author[m] = o
  BY <1>1, <1>2, ChatAssumption
<1>7. TrueFrame(Ack(m, "Read"), o, row) /\ IsRead(Ack(m, "Read"))
  BY <1>1, <1>2, <1>4, <1>6 DEF TrueFrame, IsRead
<1>8. Good(o, wire'[o], row)
  BY <1>3, <1>4, <1>5, <1>7, GoodAppend
<1>9. \A k \in Node : Good(k, wire'[k], row')
  BY <1>1, <1>2, <1>3, <1>5, <1>8
<1>10. DataTypeOK'
  <2>1. wire'[o] \in Seq(Frames)
    BY <1>3, <1>4, <1>5, Appending
  <2> QED
    BY <1>1, <1>2, <1>3, <1>5, <2>1 DEF ChatInv, DataTypeOK
<1>11. Received'
  BY <1>1 DEF ChatInv, Received
<1> QED
  BY <1>1, <1>9, <1>10, <1>11 DEF ChatInv

\* The text on top of a node's queue is new to it, a receipt on top is a status.
LEMMA OnTop ==
  ASSUME ChatInv, NEW n \in Node, wire[n] # <<>>
  PROVE  /\ Head(wire[n]).msg \in Msg
         /\ Head(wire[n]).type # "text_ack" => row[n][Head(wire[n]).msg] = None
         /\ Head(wire[n]).type = "file_offer" => Head(wire[n]).msg \in File
         /\ Head(wire[n]).type = "text_ack" => Head(wire[n]).status \in {"Delivered", "Read"}
<1>1. wire[n] \in Seq(Frames) /\ Good(n, wire[n], row)
  BY DEF ChatInv, DataTypeOK
<1>2. Head(wire[n]) \in Frames /\ TrueFrame(Head(wire[n]), n, row)
  BY <1>1, HeadTail, GoodTail
<1> QED
  BY <1>2, FrameOf DEF TrueFrame

\* The frame on top is taken and no more.
LEMMA StepIgnored ==
  ASSUME ChatInv, NEW n \in Node, wire[n] # <<>>, row' = row,
         wire' = [wire EXCEPT ![n] = Tail(@)]
  PROVE  ChatInv'
<1>1. /\ DataTypeOK /\ wire[n] \in Seq(Frames) /\ Good(n, wire[n], row)
  BY DEF ChatInv, DataTypeOK
<1>2. Tail(wire[n]) \in Seq(Frames) /\ Good(n, Tail(wire[n]), row)
  BY <1>1, HeadTail, GoodTail
<1>3. wire'[n] = Tail(wire[n]) /\ \A k \in Node \ {n} : wire'[k] = wire[k]
  BY DEF ChatInv, DataTypeOK
<1>4. DataTypeOK'
  BY <1>1, <1>2 DEF DataTypeOK
<1>5. \A k \in Node : Good(k, wire'[k], row')
  BY <1>2, <1>3 DEF ChatInv
<1>6. Received'
  BY DEF ChatInv, Received
<1> QED
  BY <1>4, <1>5, <1>6 DEF ChatInv

\* The message m of the frame on top is the other node's, new to n, and what the
\* frame says is all there is of it on the way.
LEMMA Arriving ==
  ASSUME ChatInv, NEW n \in Node, NEW o \in Node, o = Other(n), NEW m \in Msg, wire[n] # <<>>,
         m = Head(wire[n]).msg, Head(wire[n]).type # "text_ack"
  PROVE  /\ Author[m] = o /\ row[n][m] = None /\ row[o][m] \in Out(m)
         /\ Head(wire[n]).type = "text" => m \notin File /\ row[o][m] = "Sent"
         /\ \A i \in 1 .. Len(Tail(wire[n])) : Tail(wire[n])[i].msg # m
         /\ \A i \in 1 .. Len(wire[o]) : wire[o][i].msg # m
<1>1. o = Other(n) /\ o # n /\ Other(o) = n /\ \A k \in Node : k = n \/ k = o
  BY TwoNodes
<1>2. /\ wire[n] \in Seq(Frames) /\ wire[o] \in Seq(Frames)
      /\ Good(n, wire[n], row) /\ Good(o, wire[o], row)
  BY DEF ChatInv, DataTypeOK
<1>3. /\ Head(wire[n]) \in Frames /\ Tail(wire[n]) \in Seq(Frames)
      /\ Head(wire[n]).type \in {"text", "file_offer"}
      /\ Head(wire[n]).type = "text" => m \notin File
      /\ Head(wire[n]).type = "file_offer" => m \in File
  BY <1>2, HeadTail, FrameOf
<1>4. /\ TrueFrame(Head(wire[n]), n, row) /\ Good(n, Tail(wire[n]), row)
      /\ \A i \in 1 .. Len(Tail(wire[n])) : Tail(wire[n])[i].msg = m => IsRead(Tail(wire[n])[i])
  BY <1>2, GoodTail
<1>5. /\ Author[m] = o /\ row[o][m] \in Out(m) /\ row[n][m] = None
      /\ Head(wire[n]).type = "text" => row[o][m] = "Sent"
  BY <1>1, <1>3, <1>4, ChatAssumption DEF TrueFrame, Out
<1>6. ASSUME NEW i \in 1 .. Len(Tail(wire[n])), Tail(wire[n])[i].msg = m
      PROVE  FALSE
  <2>1. TrueFrame(Tail(wire[n])[i], n, row) /\ Tail(wire[n])[i].type = "text_ack"
    BY <1>4, <1>6 DEF Good, IsRead
  <2> QED
    BY <1>1, <1>5, <1>6, <2>1 DEF TrueFrame
<1>7. ASSUME NEW i \in 1 .. Len(wire[o]), wire[o][i].msg = m
      PROVE  FALSE
  <2>1. TrueFrame(wire[o][i], o, row) /\ wire[o][i].type \in {"text", "text_ack", "file_offer"}
    BY <1>2, FrameOf DEF Good
  <2> QED
    BY <1>1, <1>5, <1>7, <2>1 DEF TrueFrame
<1> QED
  BY <1>3, <1>5, <1>6, <1>7

\* It is stored.
LEMMA Arrived ==
  ASSUME ChatInv, NEW n \in Node, NEW o \in Node, o = Other(n), NEW m \in Msg, wire[n] # <<>>,
         m = Head(wire[n]).msg, Head(wire[n]).type # "text_ack",
         row' = [row EXCEPT ![n][m] = "Delivered"]
  PROVE  /\ Tail(wire[n]) \in Seq(Frames) /\ Good(n, Tail(wire[n]), row')
         /\ wire[o] \in Seq(Frames) /\ Good(o, wire[o], row')
         /\ row' \in [Node -> [Msg -> Status \cup {None}]]
         /\ Received'
<1>1. o = Other(n) /\ o # n /\ Other(o) = n /\ \A k \in Node : k = n \/ k = o
  BY TwoNodes
<1>2. /\ DataTypeOK /\ wire[n] \in Seq(Frames) /\ wire[o] \in Seq(Frames)
      /\ Good(n, wire[n], row) /\ Good(o, wire[o], row)
  BY DEF ChatInv, DataTypeOK
<1>3. Tail(wire[n]) \in Seq(Frames) /\ Good(n, Tail(wire[n]), row)
  BY <1>2, HeadTail, GoodTail
<1>4. /\ Author[m] = o /\ row[o][m] \in Out(m)
      /\ \A i \in 1 .. Len(Tail(wire[n])) : Tail(wire[n])[i].msg # m
      /\ \A i \in 1 .. Len(wire[o]) : wire[o][i].msg # m
  BY Arriving
<1>5. /\ row'[n][m] = "Delivered" /\ row'[o] = row[o]
      /\ \A j \in Msg \ {m} : row'[n][j] = row[n][j]
  BY <1>1, <1>2 DEF DataTypeOK
<1>6. "Delivered" \in Status
  BY DEF Status
<1>7. Good(n, Tail(wire[n]), row') /\ Good(o, wire[o], row')
  <2>1. row' = [row EXCEPT ![n][m] = "Delivered"] /\ n \in Node /\ o \in Node /\ m \in Msg
    OBVIOUS
  <2>2. Good(n, Tail(wire[n]), row')
    BY ONLY <2>1, <1>2, <1>3, <1>4, <1>6, GoodMoved
  <2>3. Good(o, wire[o], row')
    BY ONLY <2>1, <1>2, <1>4, <1>6, GoodMoved
  <2> QED
    BY <2>2, <2>3
<1>8. row' \in [Node -> [Msg -> Status \cup {None}]]
  BY <1>2, <1>6 DEF DataTypeOK
<1>9. Received'
  <2> SUFFICES ASSUME NEW k \in Node, NEW j \in Msg, Author[j] # k, row'[k][j] # None
               PROVE  row'[k][j] = "Delivered" /\ row'[Other(k)][j] \in Out(j)
    BY DEF Received
  <2>1. CASE j = m
    BY <1>1, <1>4, <1>5, <2>1
  <2>2. CASE j # m
    <3>1. row'[k][j] = row[k][j] /\ row'[Other(k)][j] = row[Other(k)][j]
      BY <1>1, <1>5, <2>2
    <3> QED
      BY <3>1 DEF ChatInv, Received
  <2> QED
    BY <2>1, <2>2
<1> QED
  BY <1>2, <1>3, <1>7, <1>8, <1>9

LEMMA StepReceiveText ==
  ASSUME ChatInv, NEW n \in Node, ReceiveText(n)
  PROVE  /\ ChatInv'
         /\ \/ row' = row
            \/ \E m \in Msg : /\ Author[m] # n /\ row[n][m] = None
                              /\ row' = [row EXCEPT ![n][m] = "Delivered"]
<1>1. PICK o \in Node : o = Other(n) /\ o # n /\ Other(o) = n /\ \A k \in Node : k = n \/ k = o
  BY TwoNodes
<1>2. PICK m \in Msg : /\ wire[n] # <<>> /\ Head(wire[n]).type = "text" /\ Taken(n, m)
                       /\ m = Head(wire[n]).msg
  BY OnTop DEF ReceiveText, Receives
<1>3. /\ m \notin File /\ Author[m] = o /\ row[n][m] = None /\ row[o][m] = "Sent"
      /\ \A i \in 1 .. Len(wire[o]) : wire[o][i].msg # m
  BY <1>1, <1>2, Arriving
<1>4. CASE trust[n] # "Trusted"
  <2>1. row' = row /\ wire' = [wire EXCEPT ![n] = Tail(@)]
    BY <1>2, <1>4 DEF Taken
  <2> QED
    BY <1>2, <2>1, StepIgnored
<1>5. CASE trust[n] = "Trusted"
  <2>1. /\ row' = [row EXCEPT ![n][m] = "Delivered"]
        /\ wire' = [wire EXCEPT ![n] = Tail(@), ![Other(n)] = Append(@, Ack(m, "Delivered"))]
    BY <1>2, <1>5 DEF Taken, Stores
  <2>2. /\ Tail(wire[n]) \in Seq(Frames) /\ Good(n, Tail(wire[n]), row')
        /\ wire[o] \in Seq(Frames) /\ Good(o, wire[o], row')
    BY <1>1, <1>2, <2>1, Arrived
  <2>3. row' \in [Node -> [Msg -> Status \cup {None}]]
    BY <1>1, <1>2, <2>1, Arrived
  <2>4. Received'
    BY <1>1, <1>2, <2>1, Arrived
  <2>5. /\ wire'[n] = Tail(wire[n]) /\ wire'[o] = Append(wire[o], Ack(m, "Delivered"))
        /\ row'[n][m] = "Delivered" /\ row'[o] = row[o]
    BY <1>1, <2>1 DEF ChatInv, DataTypeOK
  <2>6. /\ Ack(m, "Delivered") \in Frames /\ Ack(m, "Delivered").type = "text_ack"
        /\ Ack(m, "Delivered").msg = m /\ Ack(m, "Delivered").status = "Delivered"
    BY <1>3, FrameKinds
  <2>7. TrueFrame(Ack(m, "Delivered"), o, row')
    BY <1>1, <1>3, <2>5, <2>6, ChatAssumption DEF TrueFrame, Status
  <2>8. Good(o, wire'[o], row')
    BY <1>3, <2>2, <2>5, <2>6, <2>7, GoodAppend
  <2>9. \A k \in Node : Good(k, wire'[k], row')
    BY <1>1, <2>2, <2>5, <2>8
  <2>10. DataTypeOK'
    <3>1. wire'[o] \in Seq(Frames)
      BY <2>2, <2>5, <2>6, Appending
    <3>2. wire' \in [Node -> Seq(Frames)]
      BY <1>1, <2>1, <2>2, <2>5, <3>1 DEF ChatInv, DataTypeOK
    <3> QED
      BY <2>3, <3>2 DEF DataTypeOK
  <2> QED
    BY <1>1, <1>3, <2>1, <2>4, <2>9, <2>10 DEF ChatInv
<1> QED
  BY <1>4, <1>5

LEMMA StepReceiveOffer ==
  ASSUME ChatInv, NEW n \in Node, ReceiveOffer(n)
  PROVE  /\ ChatInv'
         /\ \/ row' = row
            \/ \E m \in File : /\ Author[m] # n /\ row[n][m] = None
                               /\ row' = [row EXCEPT ![n][m] = "Delivered"]
<1>1. PICK o \in Node : o = Other(n) /\ o # n /\ Other(o) = n /\ \A k \in Node : k = n \/ k = o
  BY TwoNodes
<1>2. PICK m \in Msg :
        /\ wire[n] # <<>> /\ Head(wire[n]).type = "file_offer" /\ m = Head(wire[n]).msg
        /\ m \in File /\ wire' = [wire EXCEPT ![n] = Tail(@)]
        /\ row' = row \/ row' = [row EXCEPT ![n][m] = "Delivered"]
  BY OnTop DEF ReceiveOffer, Receives, Stores
<1>3. CASE row' = row
  BY <1>2, <1>3, StepIgnored
<1>4. CASE row' = [row EXCEPT ![n][m] = "Delivered"]
  <2>1. Author[m] = o /\ row[n][m] = None
    BY <1>1, <1>2, Arriving
  <2>2. /\ Tail(wire[n]) \in Seq(Frames) /\ Good(n, Tail(wire[n]), row')
        /\ Good(o, wire[o], row')
    BY <1>1, <1>2, <1>4, Arrived
  <2>3. row' \in [Node -> [Msg -> Status \cup {None}]]
    BY <1>1, <1>2, <1>4, Arrived
  <2>4. Received'
    BY <1>1, <1>2, <1>4, Arrived
  <2>5. wire'[n] = Tail(wire[n]) /\ wire'[o] = wire[o]
    BY <1>1, <1>2 DEF ChatInv, DataTypeOK
  <2>6. \A k \in Node : Good(k, wire'[k], row')
    BY <1>1, <2>2, <2>5
  <2>7. wire' \in [Node -> Seq(Frames)]
    BY <1>2, <2>2 DEF ChatInv, DataTypeOK
  <2>8. DataTypeOK'
    BY <2>3, <2>7 DEF DataTypeOK
  <2> QED
    BY <1>1, <1>2, <1>4, <2>1, <2>4, <2>6, <2>8 DEF ChatInv
<1> QED
  BY <1>2, <1>3, <1>4

LEMMA StepReceiveAck ==
  ASSUME ChatInv, NEW n \in Node, ReceiveAck(n)
  PROVE  /\ ChatInv'
         /\ \E m \in Msg, s \in {"Delivered", "Read"} :
              /\ row[n][m] \in {"Sent", "Delivered", "Read"} /\ (s = "Delivered" => row[n][m] = "Sent")
              /\ Author[m] = n /\ row[Other(n)][m] = "Delivered"
              /\ row' = [row EXCEPT ![n][m] = s]
<1> DEFINE m == Head(wire[n]).msg
           s == Head(wire[n]).status
<1>1. PICK o \in Node : o = Other(n) /\ o # n /\ Other(o) = n /\ \A k \in Node : k = n \/ k = o
  BY TwoNodes
<1>2. /\ DataTypeOK /\ wire[n] \in Seq(Frames) /\ wire[o] \in Seq(Frames)
      /\ Good(n, wire[n], row) /\ Good(o, wire[o], row)
  BY <1>1 DEF ChatInv, DataTypeOK
<1>3. /\ wire[n] # <<>> /\ Head(wire[n]).type = "text_ack"
      /\ wire' = [wire EXCEPT ![n] = Tail(@)]
      /\ row[n][m] # None => row' = [row EXCEPT ![n][m] = s]
  BY DEF ReceiveAck, Receives, Stores, Acknowledged
<1>4. /\ Head(wire[n]) \in Frames /\ m \in Msg \ File /\ Tail(wire[n]) \in Seq(Frames)
      /\ s \in {"Delivered", "Read"}
  BY <1>2, <1>3, HeadTail, FrameOf
<1>5. /\ TrueFrame(Head(wire[n]), n, row) /\ Good(n, Tail(wire[n]), row)
      /\ \A i \in 1 .. Len(Tail(wire[n])) : Tail(wire[n])[i].msg = m => IsRead(Tail(wire[n])[i])
  BY <1>2, <1>3, GoodTail
<1>6. None \notin Status /\ Status = {"Sending", "Sent", "Delivered", "Read"}
  BY ChatAssumption DEF Status
<1>7. /\ Author[m] = n /\ row[o][m] # None
      /\ s = "Delivered" => row[n][m] = "Sent"
  BY <1>1, <1>3, <1>5 DEF TrueFrame
<1>8. row[o][m] = "Delivered" /\ row[n][m] \in {"Sent", "Delivered", "Read"}
  BY <1>1, <1>4, <1>7 DEF ChatInv, Received, Out
<1>9. row[n][m] # None
  BY <1>6, <1>8
<1>10. /\ row' = [row EXCEPT ![n][m] = s] /\ row'[n][m] = s /\ row'[o] = row[o]
       /\ \A j \in Msg \ {m} : row'[n][j] = row[n][j]
       /\ wire'[n] = Tail(wire[n]) /\ wire'[o] = wire[o]
  BY <1>1, <1>2, <1>3, <1>4, <1>9 DEF DataTypeOK
<1>11. ASSUME NEW i \in 1 .. Len(Tail(wire[n]))
       PROVE  TrueFrame(Tail(wire[n])[i], n, row')
  <2>1. TrueFrame(Tail(wire[n])[i], n, row) /\ Tail(wire[n])[i] \in Frames
    BY <1>4, <1>5 DEF Good
  <2>2. CASE Tail(wire[n])[i].msg = m
    <3>1. Tail(wire[n])[i].type = "text_ack" /\ Tail(wire[n])[i].status = "Read"
      BY <1>5, <2>2 DEF IsRead
    <3> QED
      BY <1>1, <1>7, <1>10, <2>1, <2>2, <3>1 DEF TrueFrame
  <2>3. CASE Tail(wire[n])[i].msg # m
    <3>1. Tail(wire[n])[i].msg \in Msg \ {m}
      BY <2>1, <2>3, FrameOf
    <3> QED
      BY <1>1, <1>10, <2>1, <3>1 DEF TrueFrame
  <2> QED
    BY <2>2, <2>3
<1>12. Good(n, wire'[n], row')
  BY <1>5, <1>10, <1>11 DEF Good
<1>13. ASSUME NEW i \in 1 .. Len(wire[o]), wire[o][i].msg = m
       PROVE  FALSE
  <2>1. TrueFrame(wire[o][i], o, row) /\ wire[o][i].type \in {"text", "text_ack", "file_offer"}
    BY <1>2, FrameOf DEF Good
  <2> QED
    BY <1>1, <1>7, <1>13, <2>1 DEF TrueFrame
<1>14. s \in Status
  BY <1>4, <1>6
<1>15. Good(o, wire'[o], row')
  BY <1>2, <1>4, <1>10, <1>13, <1>14, GoodMoved
<1>16. \A k \in Node : Good(k, wire'[k], row')
  BY <1>1, <1>12, <1>15
<1>17. DataTypeOK'
  <2>1. wire' \in [Node -> Seq(Frames)]
    BY <1>2, <1>3, <1>4 DEF DataTypeOK
  <2>2. row' \in [Node -> [Msg -> Status \cup {None}]]
    BY <1>2, <1>10, <1>14 DEF DataTypeOK
  <2> QED
    BY <2>1, <2>2 DEF DataTypeOK
<1>18. Received'
  <2> SUFFICES ASSUME NEW k \in Node, NEW j \in Msg, Author[j] # k, row'[k][j] # None
               PROVE  row'[k][j] = "Delivered" /\ row'[Other(k)][j] \in Out(j)
    BY DEF Received
  <2>1. CASE j = m
    BY <1>1, <1>4, <1>7, <1>8, <1>10, <2>1 DEF Out
  <2>2. CASE j # m
    <3>1. row'[k][j] = row[k][j] /\ row'[Other(k)][j] = row[Other(k)][j]
      BY <1>1, <1>10, <2>2
    <3> QED
      BY <3>1 DEF ChatInv, Received
  <2> QED
    BY <2>1, <2>2
<1> QED
  BY <1>1, <1>4, <1>7, <1>8, <1>10, <1>16, <1>17, <1>18 DEF ChatInv
-----------------------------------------------------------------------------
(* Theorems *)

\* What any step does to the tables: nothing, a row that was not there, or the
\* next status of one that was and that the other node has.
Moves ==
  \/ row' = row
  \/ \E n \in Node, m \in Msg, s \in {"Sending", "Sent"} :
       Author[m] = n /\ row[n][m] = None /\ row' = [row EXCEPT ![n][m] = s]
  \/ \E n \in Node, m \in Msg :
       Author[m] # n /\ row[n][m] = None /\ row' = [row EXCEPT ![n][m] = "Delivered"]
  \/ \E n \in Node, m \in Msg, s \in {"Delivered", "Read"} :
       /\ row[n][m] \in {"Sent", "Delivered", "Read"} /\ (s = "Delivered" => row[n][m] = "Sent")
       /\ Author[m] = n /\ row[Other(n)][m] = "Delivered"
       /\ row' = [row EXCEPT ![n][m] = s]

LEMMA ChatInit == Init => ChatInv
<1> SUFFICES ASSUME Init PROVE ChatInv
  OBVIOUS
<1>1. row = [n \in Node |-> [m \in Msg |-> None]] /\ wire = [n \in Node |-> <<>>]
  BY DEF Init
<1>2. DataTypeOK
  BY <1>1 DEF DataTypeOK
<1>3. \A n \in Node : Good(n, wire[n], row)
  BY <1>1, GoodEmpty
<1>4. Received
  BY <1>1 DEF Received
<1> QED
  BY <1>2, <1>3, <1>4 DEF ChatInv

LEMMA ChatStep == ChatInv /\ [Next]_vars => ChatInv' /\ Moves
<1> SUFFICES ASSUME ChatInv, [Next]_vars PROVE ChatInv' /\ Moves
  OBVIOUS
<1> DEFINE Kept == row' = row /\ (wire' = wire \/ wire' = [k \in Node |-> <<>>])
<1>1. ASSUME Kept PROVE ChatInv' /\ Moves
  BY <1>1, Unchanging DEF Moves
<1>2. ASSUME NEW n \in Node, SelectPeer(n) PROVE Kept
  BY <1>2 DEF SelectPeer, connVars
<1>3. ASSUME NEW n \in Node, LeaveChat(n) PROVE Kept
  BY <1>3 DEF LeaveChat, connVars
<1>4. ASSUME NEW n \in Node, Trust(n) PROVE Kept
  BY <1>4 DEF Trust, connVars
<1>5. ASSUME NEW n \in Node, Block(n) PROVE Kept
  BY <1>5 DEF Block, Break, connVars
<1>6. ASSUME NEW n \in Node, Restart(n) PROVE Kept
  BY <1>6 DEF Restart, Break
<1>7. ASSUME Disconnect PROVE Kept
  BY <1>7 DEF Disconnect, Break
<1>8. ASSUME Reconnect PROVE Kept
  BY <1>8 DEF Reconnect
<1>9. ASSUME UNCHANGED vars PROVE Kept
  BY <1>9 DEF vars, connVars
<1>10. ASSUME NEW n \in Node, ReceiveText(n) PROVE ChatInv' /\ Moves
  BY <1>10, StepReceiveText DEF Moves
<1>11. ASSUME NEW n \in Node, ReceiveAck(n) PROVE ChatInv' /\ Moves
  BY <1>11, StepReceiveAck DEF Moves
<1>12. ASSUME NEW n \in Node, NEW m \in Msg, SendText(n, m) PROVE ChatInv' /\ Moves
  BY <1>12, StepSend DEF Moves
<1>13. ASSUME NEW n \in Node, NEW m \in Msg, MarkRead(n, m) PROVE ChatInv' /\ Moves
  BY <1>13, StepMarkRead DEF Moves
<1>14. ASSUME NEW n \in Node, NEW m \in Msg, CrashInSend(n, m) PROVE ChatInv' /\ Moves
  BY <1>14, StepCrashInSend DEF Moves
<1>15. ASSUME NEW n \in Node, NEW m \in Msg, QueueFile(n, m) PROVE ChatInv' /\ Moves
  BY <1>15, StepQueueFile DEF Moves
<1>16. ASSUME NEW n \in Node, ReceiveOffer(n) PROVE ChatInv' /\ Moves
  BY <1>16, StepReceiveOffer, ChatAssumption DEF Moves
<1> HIDE DEF Kept
<1> QED
  BY <1>1, <1>2, <1>3, <1>4, <1>5, <1>6, <1>7, <1>8, <1>9, <1>10, <1>11, <1>12, <1>13, <1>14,
     <1>15, <1>16 DEF Next

LEMMA StoredStep == ChatInv /\ DeliveredIsStored /\ Moves => DeliveredIsStored'
<1> SUFFICES ASSUME ChatInv, DeliveredIsStored, Moves,
                    NEW m \in Msg, row'[Author[m]][m] \in {"Delivered", "Read"}
             PROVE  row'[Other(Author[m])][m] = "Delivered"
  BY DEF DeliveredIsStored
<1>1. PICK n \in Node, o \in Node :
        n = Author[m] /\ o = Other(n) /\ o # n /\ \A k \in Node : k = n \/ k = o
  BY TwoNodes, ChatAssumption
<1>2. row[n][m] \in {"Delivered", "Read"} => row[o][m] = "Delivered"
  BY <1>1 DEF DeliveredIsStored
<1>3. row'[n][m] \in {"Delivered", "Read"} /\ row \in [Node -> [Msg -> Status \cup {None}]]
  BY <1>1 DEF ChatInv, DataTypeOK
<1>4. "Delivered" # None
  BY ChatAssumption DEF Status
<1>5. CASE row' = row
  BY <1>1, <1>2, <1>3, <1>5
<1>6. ASSUME NEW k \in Node, NEW j \in Msg, NEW s \in {"Sending", "Sent"},
             Author[j] = k, row[k][j] = None, row' = [row EXCEPT ![k][j] = s]
      PROVE  row'[o][m] = "Delivered"
  BY <1>1, <1>2, <1>3, <1>6
<1>7. ASSUME NEW k \in Node, NEW j \in Msg,
             Author[j] # k, row[k][j] = None, row' = [row EXCEPT ![k][j] = "Delivered"]
      PROVE  row'[o][m] = "Delivered"
  BY <1>1, <1>2, <1>3, <1>4, <1>7
<1>8. ASSUME NEW k \in Node, NEW j \in Msg, NEW s \in {"Delivered", "Read"},
             Author[j] = k, row[Other(k)][j] = "Delivered", row' = [row EXCEPT ![k][j] = s]
      PROVE  row'[o][m] = "Delivered"
  BY <1>1, <1>2, <1>3, <1>8
<1> QED
  BY <1>1, <1>5, <1>6, <1>7, <1>8 DEF Moves

\* What is on the wire is true of both tables, and a message's "delivered" comes
\* before its "read", in every reachable state.
THEOREM FramesAreTrue == Spec => []ChatInv
  BY ChatInit, ChatStep, PTL DEF Spec

\* A message shown as delivered is in the other node's history: sendText,
\* handleTextMsg, handleTextAck and markRead between them, whatever breaks.
THEOREM DeliveredMeansStored == Spec => []DeliveredIsStored
<1>1. Init => DeliveredIsStored
  <2> SUFFICES ASSUME Init, NEW m \in Msg PROVE row[Author[m]][m] \notin {"Delivered", "Read"}
    BY DEF DeliveredIsStored
  <2> QED
    BY ChatAssumption DEF Init, Status
<1>2. ChatInv /\ DeliveredIsStored /\ [Next]_vars => DeliveredIsStored'
  BY ChatStep, StoredStep
<1> QED
  BY <1>1, <1>2, FramesAreTrue, PTL DEF Spec

LEMMA Ranks ==
  /\ Rank["Sending"] = 0 /\ Rank["Sent"] = 1 /\ Rank["Delivered"] = 2 /\ Rank["Read"] = 3
  BY DEF Rank, Status

\* A status never goes back: Sending, Sent, Delivered, Read, whatever order the
\* receipts are written, lost and handled in.
THEOREM StatusNeverGoesBack == Spec => StatusForward
<1> DEFINE Forward == \A n \in Node, m \in Msg : row[n][m] # None =>
                        row'[n][m] # None /\ Rank[row'[n][m]] >= Rank[row[n][m]]
<1>1. ChatInv /\ Moves => Forward
  <2> SUFFICES ASSUME ChatInv, Moves, NEW n \in Node, NEW m \in Msg, row[n][m] # None
               PROVE  row'[n][m] # None /\ Rank[row'[n][m]] >= Rank[row[n][m]]
    OBVIOUS
  <2>1. row \in [Node -> [Msg -> Status \cup {None}]] /\ row[n][m] \in Status
    BY DEF ChatInv, DataTypeOK
  <2>2. Rank[row[n][m]] \in Nat
    BY <2>1, Ranks DEF Status
  <2>3. CASE row'[n][m] = row[n][m]
    BY <2>2, <2>3
  <2>4. ASSUME NEW k \in Node, NEW j \in Msg, NEW s, row[k][j] = None,
               row' = [row EXCEPT ![k][j] = s]
        PROVE  row'[n][m] = row[n][m]
    BY <2>1, <2>4
  <2>5. ASSUME NEW k \in Node, NEW j \in Msg, NEW s \in {"Delivered", "Read"},
               row[k][j] \in {"Sent", "Delivered", "Read"}, s = "Delivered" => row[k][j] = "Sent",
               row' = [row EXCEPT ![k][j] = s]
        PROVE  row'[n][m] # None /\ Rank[row'[n][m]] >= Rank[row[n][m]]
    <3>1. CASE k = n /\ j = m
      <4>1. row'[n][m] = s /\ s # None
        BY <2>1, <2>5, <3>1, ChatAssumption DEF Status
      <4> QED
        BY <2>5, <3>1, <4>1, Ranks
    <3>2. CASE ~(k = n /\ j = m)
      BY <2>1, <2>3, <2>5, <3>2
    <3> QED
      BY <3>1, <3>2
  <2> QED
    BY <2>3, <2>4, <2>5 DEF Moves
<1>2. ChatInv /\ [Next]_vars => [Forward]_vars
  BY <1>1, ChatStep
<1>3. StatusForward <=> [][Forward]_vars
  BY DEF StatusForward
<1> HIDE DEF Forward
<1> QED
  BY <1>2, <1>3, FramesAreTrue, PTL DEF Spec
-----------------------------------------------------------------------------
(* The chat on the screen *)

Bubbles == [msg : Msg, status : Status]

HistoryOf(r) == {m \in Msg : r[m] # None}

\* Bubbles of different messages, all of the history r.
Clean(b, r) ==
  /\ b \in Seq(Bubbles)
  /\ \A i \in 1 .. Len(b) : r[b[i].msg] # None
  /\ \A i, j \in 1 .. Len(b) : b[i].msg = b[j].msg => i = j

\* The texts of the history are all there, and whatever is has its status, but for
\* the messages in stale.
Whole(b, r, stale) ==
  /\ \A i \in 1 .. Len(b) : b[i].msg \notin stale => b[i].status = r[b[i].msg]
  /\ \A m \in HistoryOf(r) \ File : \E i \in 1 .. Len(b) : b[i].msg = m

\* What a node shows of its table r: nothing that is not in it, nothing twice,
\* and every text as long as the history fits into a page.
Shows(b, r, sh) ==
  /\ IsFiniteSet(HistoryOf(r))
  /\ Clean(b, r)
  /\ ~sh => b = <<>>
  /\ sh /\ Cardinality(HistoryOf(r)) <= PageSize => Whole(b, r, {})

ViewInv ==
  /\ view \in [Node -> Seq(Bubbles)] /\ shown \in [Node -> BOOLEAN]
  /\ \A n \in Node : Shows(view[n], row[n], shown[n])

LEMMA BubbleOf ==
  ASSUME NEW m \in Msg, NEW s \in Status
  PROVE  Bubble(m, s) \in Bubbles /\ Bubble(m, s).msg = m /\ Bubble(m, s).status = s
  BY DEF Bubble, Bubbles

LEMMA BubbleAt ==
  ASSUME NEW b \in Seq(Bubbles), NEW i \in 1 .. Len(b)
  PROVE  b[i] \in Bubbles /\ b[i].msg \in Msg /\ b[i].status \in Status
<1>1. b[i] \in Bubbles
  OBVIOUS
<1> QED
  BY <1>1 DEF Bubbles

LEMMA Added ==
  ASSUME NEW b \in Seq(Bubbles), NEW e \in Bubbles
  PROVE  /\ Append(b, e) \in Seq(Bubbles) /\ Len(Append(b, e)) = Len(b) + 1 /\ Len(b) \in Nat
         /\ Append(b, e)[Len(b) + 1] = e
         /\ \A i \in 1 .. Len(b) : Append(b, e)[i] = b[i]
  OBVIOUS

LEMMA Removed ==
  ASSUME NEW b \in Seq(Bubbles), NEW k \in 1 .. Len(b)
  PROVE  /\ RemoveAt(b, k) \in Seq(Bubbles) /\ Len(RemoveAt(b, k)) = Len(b) - 1 /\ Len(b) \in Nat
         /\ \A i \in 1 .. Len(b) - 1 : RemoveAt(b, k)[i] = IF i < k THEN b[i] ELSE b[i + 1]
<1> DEFINE p == SubSeq(b, 1, k - 1)
           q == SubSeq(b, k + 1, Len(b))
<1>1. /\ p \in Seq(Bubbles) /\ Len(p) = k - 1
      /\ \A i \in 1 .. k - 1 : p[i] = b[i]
  OBVIOUS
<1>2. /\ q \in Seq(Bubbles) /\ Len(q) = Len(b) - k
      /\ \A i \in 1 .. Len(b) - k : q[i] = b[k + i]
  OBVIOUS
<1>3. RemoveAt(b, k) = p \o q
  BY DEF RemoveAt
<1> HIDE DEF p, q
<1>4. /\ p \o q \in Seq(Bubbles) /\ Len(p \o q) = Len(b) - 1 /\ Len(b) \in Nat
      /\ \A i \in 1 .. Len(b) - 1 :
           (p \o q)[i] = IF i < k THEN p[i] ELSE q[i - (k - 1)]
  <2>1. /\ Len(p \o q) = Len(p) + Len(q) /\ p \o q \in Seq(Bubbles)
        /\ \A i \in 1 .. Len(p) + Len(q) :
             (p \o q)[i] = IF i <= Len(p) THEN p[i] ELSE q[i - Len(p)]
    BY <1>1, <1>2, ConcatProperties
  <2>2. Len(p) + Len(q) = Len(b) - 1 /\ Len(b) \in Nat
    BY <1>1, <1>2
  <2>3. \A i \in 1 .. Len(b) - 1 : i <= k - 1 <=> i < k
    OBVIOUS
  <2> QED
    BY <1>1, <2>1, <2>2, <2>3
<1>5. ASSUME NEW i \in 1 .. Len(b) - 1, ~(i < k)
      PROVE  q[i - (k - 1)] = b[i + 1]
  <2>1. i - (k - 1) \in 1 .. Len(b) - k /\ k + (i - (k - 1)) = i + 1
    BY <1>5
  <2> QED
    BY <1>2, <2>1
<1> QED
  BY <1>1, <1>3, <1>4, <1>5

\* One more bubble, of a message that is new to the history.
LEMMA CleanAdded ==
  ASSUME NEW b, NEW r, NEW m \in Msg, NEW s \in Status, NEW t \in Status,
         r \in [Msg -> Status \cup {None}], r[m] = None, Clean(b, r)
  PROVE  /\ Clean(Append(b, Bubble(m, t)), [r EXCEPT ![m] = s])
         /\ Clean(b, [r EXCEPT ![m] = s])
         /\ Whole(b, r, {}) => Whole(Append(b, Bubble(m, t)), [r EXCEPT ![m] = s], {m})
         /\ Whole(b, r, {}) /\ t = s => Whole(Append(b, Bubble(m, t)), [r EXCEPT ![m] = s], {})
<1> DEFINE e == Bubble(m, t)
           c == Append(b, e)
           z == [r EXCEPT ![m] = s]
<1>1. e \in Bubbles /\ e.msg = m /\ e.status = t /\ b \in Seq(Bubbles) /\ None \notin Status
  BY BubbleOf, ChatAssumption DEF Clean
<1>2. /\ c \in Seq(Bubbles) /\ Len(c) = Len(b) + 1 /\ Len(b) \in Nat
      /\ c[Len(b) + 1] = e /\ \A i \in 1 .. Len(b) : c[i] = b[i]
  BY <1>1, Added
<1>3. z[m] = s /\ \A x \in Msg \ {m} : z[x] = r[x]
  OBVIOUS
<1>4. \A i \in 1 .. Len(b) : b[i] \in Bubbles /\ b[i].msg \in Msg \ {m}
  BY <1>1, BubbleAt DEF Clean
<1> HIDE DEF e, c, z
<1>5. Clean(c, z)
  <2>1. \A i \in 1 .. Len(c) : z[c[i].msg] # None
    BY <1>1, <1>2, <1>3, <1>4 DEF Clean
  <2>2. \A i, j \in 1 .. Len(c) : c[i].msg = c[j].msg => i = j
    <3> SUFFICES ASSUME NEW i \in 1 .. Len(c), NEW j \in 1 .. Len(c), c[i].msg = c[j].msg
                 PROVE  i = j
      OBVIOUS
    <3>1. CASE i \in 1 .. Len(b) /\ j \in 1 .. Len(b)
      BY <1>2, <3>1 DEF Clean
    <3>2. CASE i = Len(b) + 1 \/ j = Len(b) + 1
      BY <1>1, <1>2, <1>4, <3>2
    <3> QED
      BY <1>2, <3>1, <3>2
  <2> QED
    BY <1>2, <2>1, <2>2 DEF Clean
<1>6. Clean(b, z)
  BY <1>3, <1>4 DEF Clean
<1>7. ASSUME Whole(b, r, {})
      PROVE  Whole(c, z, {m}) /\ (t = s => Whole(c, z, {}))
  <2>1. \A i \in 1 .. Len(b) : c[i].status = z[c[i].msg]
    BY <1>2, <1>3, <1>4, <1>7 DEF Whole
  <2>2. ASSUME NEW i \in 1 .. Len(c), c[i].msg # m \/ t = s
        PROVE  c[i].status = z[c[i].msg]
    BY <1>1, <1>2, <1>3, <2>1, <2>2
  <2>3. ASSUME NEW x \in HistoryOf(z) \ File
        PROVE  \E i \in 1 .. Len(c) : c[i].msg = x
    <3>1. CASE x = m
      BY <1>1, <1>2, <3>1
    <3>2. CASE x # m
      <4>1. x \in HistoryOf(r) \ File
        BY <1>3, <2>3, <3>2 DEF HistoryOf
      <4>2. PICK i \in 1 .. Len(b) : b[i].msg = x
        BY <1>7, <4>1 DEF Whole
      <4>3. i \in 1 .. Len(c) /\ c[i] = b[i]
        BY <1>2
      <4> QED
        BY <4>2, <4>3
    <3> QED
      BY <3>1, <3>2
  <2> QED
    BY <2>2, <2>3 DEF Whole
<1> QED
  BY <1>5, <1>6, <1>7 DEF c, z, e

\* The status of a message in the history moves: its bubble is stale.
LEMMA CleanMoved ==
  ASSUME NEW b, NEW r, NEW m \in Msg, NEW s \in Status,
         r \in [Msg -> Status \cup {None}], r[m] # None, Clean(b, r)
  PROVE  /\ Clean(b, [r EXCEPT ![m] = s])
         /\ Whole(b, r, {}) => Whole(b, [r EXCEPT ![m] = s], {m})
<1> DEFINE z == [r EXCEPT ![m] = s]
<1>1. z[m] = s /\ \A x \in Msg \ {m} : z[x] = r[x]
  OBVIOUS
<1>2. b \in Seq(Bubbles) /\ None \notin Status /\ \A i \in 1 .. Len(b) : b[i].msg \in Msg
  BY ChatAssumption, BubbleAt DEF Clean
<1>3. HistoryOf(z) = HistoryOf(r)
  BY <1>1, <1>2 DEF HistoryOf
<1> HIDE DEF z
<1>4. Clean(b, z)
  BY <1>1, <1>2 DEF Clean
<1>5. Whole(b, r, {}) => Whole(b, z, {m})
  BY <1>1, <1>2, <1>3 DEF Whole
<1> QED
  BY <1>4, <1>5 DEF z

\* onMessageStatusChanged keeps one bubble for each message, and the one it is
\* about shows the stored status.
LEMMA RefreshedRight ==
  ASSUME NEW b, NEW r, NEW m \in Msg, NEW page,
         r \in [Msg -> Status \cup {None}], page \subseteq HistoryOf(r), Clean(b, r)
  PROVE  /\ Clean(Refreshed(b, r, page, m), r)
         /\ m \in page /\ Whole(b, r, {m}) => Whole(Refreshed(b, r, page, m), r, {})
         /\ b = <<>> => Refreshed(b, r, page, m) = <<>>
<1> DEFINE found == {k \in DOMAIN b : b[k].msg = m}
<1>1. b \in Seq(Bubbles) /\ DOMAIN b = 1 .. Len(b) /\ Len(b) \in Nat
  BY DEF Clean
<1>2. b = <<>> => found = {}
  BY <1>1
<1>3. CASE ~(m \in page /\ found # {})
  <2>1. Refreshed(b, r, page, m) = b
    BY <1>3 DEF Refreshed
  <2>2. ASSUME m \in page, Whole(b, r, {m}) PROVE Whole(b, r, {})
    <3>1. \A i \in 1 .. Len(b) : b[i].msg # m
      BY <1>1, <1>3, <2>2
    <3> QED
      BY <2>2, <3>1 DEF Whole
  <2> QED
    BY <2>1, <2>2
<1>4. CASE m \in page /\ found # {}
  <2>1. PICK k \in 1 .. Len(b) : b[k].msg = m
    BY <1>1, <1>4
  <2>2. found = {k} /\ k \in Nat
    BY <1>1, <2>1 DEF Clean
  <2>3. Max(found) = k
    BY <2>2 DEF Max
  <2> DEFINE e == Bubble(m, r[m])
             d == RemoveAt(b, k)
             c == Append(d, e)
  <2>4. Refreshed(b, r, page, m) = c
    BY <1>4, <2>3 DEF Refreshed
  <2>5. r[m] \in Status
    BY <1>4 DEF HistoryOf
  <2>6. e \in Bubbles /\ e.msg = m /\ e.status = r[m]
    BY <2>5, BubbleOf
  <2>7. /\ d \in Seq(Bubbles) /\ Len(d) = Len(b) - 1
        /\ \A i \in 1 .. Len(b) - 1 : d[i] = IF i < k THEN b[i] ELSE b[i + 1]
    BY <1>1, Removed
  <2> HIDE DEF d, e
  <2>8. /\ c \in Seq(Bubbles) /\ Len(c) = Len(b) /\ c[Len(b)] = e
        /\ \A i \in 1 .. Len(b) - 1 : c[i] = IF i < k THEN b[i] ELSE b[i + 1]
    <3>1. /\ c \in Seq(Bubbles) /\ Len(c) = Len(d) + 1 /\ Len(d) \in Nat
          /\ c[Len(d) + 1] = e /\ \A i \in 1 .. Len(d) : c[i] = d[i]
      BY <2>6, <2>7, Added
    <3>2. Len(d) + 1 = Len(b)
      BY <1>1, <2>7
    <3> HIDE DEF c
    <3> QED
      BY <2>7, <3>1, <3>2
  <2> HIDE DEF c
  <2> DEFINE from(i) == IF i < k THEN i ELSE i + 1
  <2>9. ASSUME NEW i \in 1 .. Len(b) - 1
        PROVE  /\ from(i) \in 1 .. Len(b) /\ from(i) # k /\ c[i] = b[from(i)]
               /\ c[i].msg # m /\ c[i].msg \in Msg
    <3>1. from(i) \in 1 .. Len(b) /\ from(i) # k /\ c[i] = b[from(i)]
      BY <1>1, <2>8
    <3> HIDE DEF from
    <3> QED
      BY <1>1, <2>1, <3>1, BubbleAt DEF Clean
  <2>10. \A i \in 1 .. Len(c) : i \in 1 .. Len(b) - 1 \/ i = Len(b)
    <3>1. Len(c) = Len(b)
      BY <2>8
    <3>2. Len(b) \in Nat
      BY <1>1
    <3>3. \A l \in Nat : \A i \in 1 .. l : i \in 1 .. l - 1 \/ i = l
      OBVIOUS
    <3> QED
      BY ONLY <3>1, <3>2, <3>3
  <2>11. ASSUME NEW i \in 1 .. Len(c), NEW j \in 1 .. Len(c), c[i].msg = c[j].msg
         PROVE  i = j
    <3>1. CASE i = Len(b) \/ j = Len(b)
      <4>1. c[Len(b)].msg = m /\ \A x \in 1 .. Len(b) - 1 : c[x].msg # m
        BY <2>6, <2>8, <2>9
      <4>2. i \in 1 .. Len(b) - 1 \/ i = Len(b)
        BY <2>10
      <4>3. j \in 1 .. Len(b) - 1 \/ j = Len(b)
        BY <2>10
      <4> QED
        BY <2>11, <3>1, <4>1, <4>2, <4>3
    <3>2. CASE i \in 1 .. Len(b) - 1 /\ j \in 1 .. Len(b) - 1
      <4>1. b[from(i)].msg = b[from(j)].msg /\ from(i) \in 1 .. Len(b) /\ from(j) \in 1 .. Len(b)
        BY <2>9, <2>11, <3>2
      <4>2. from(i) = from(j)
        BY <4>1 DEF Clean
      <4>3. i \in Nat /\ j \in Nat /\ k \in Nat
        BY <1>1, <3>2
      <4> QED
        BY ONLY <4>2, <4>3
    <3>3. (i \in 1 .. Len(b) - 1 \/ i = Len(b)) /\ (j \in 1 .. Len(b) - 1 \/ j = Len(b))
      BY <2>10
    <3> QED
      BY ONLY <3>1, <3>2, <3>3
  <2>12. \A i \in 1 .. Len(c) : r[c[i].msg] # None
    <3> SUFFICES ASSUME NEW i \in 1 .. Len(c) PROVE r[c[i].msg] # None
      OBVIOUS
    <3>1. CASE i = Len(b)
      BY <2>5, <2>6, <2>8, <3>1, ChatAssumption
    <3>2. CASE i \in 1 .. Len(b) - 1
      BY <2>9, <3>2 DEF Clean
    <3>3. i \in 1 .. Len(b) - 1 \/ i = Len(b)
      BY <2>10
    <3> QED
      BY ONLY <3>1, <3>2, <3>3
  <2>13. Clean(c, r)
    BY <2>8, <2>11, <2>12 DEF Clean
  <2>14. ASSUME Whole(b, r, {m}) PROVE Whole(c, r, {})
    <3>1. ASSUME NEW i \in 1 .. Len(c) PROVE c[i].status = r[c[i].msg]
      <4>1. CASE i = Len(b)
        BY <2>6, <2>8, <4>1
      <4>2. CASE i \in 1 .. Len(b) - 1
        <5>1. c[i] = b[from(i)] /\ from(i) \in 1 .. Len(b) /\ b[from(i)].msg # m
          BY <2>9, <4>2
        <5> QED
          BY <2>14, <5>1 DEF Whole
      <4> QED
        BY <2>10, <4>1, <4>2
    <3>2. ASSUME NEW x \in HistoryOf(r) \ File PROVE \E i \in 1 .. Len(c) : c[i].msg = x
      <4>1. PICK j \in 1 .. Len(b) : b[j].msg = x
        BY <2>14 DEF Whole
      <4>2. CASE j = k
        <5>1. Len(b) \in 1 .. Len(c) /\ c[Len(b)].msg = x
          BY <1>1, <2>1, <2>6, <2>8, <4>1, <4>2
        <5> QED
          BY <5>1
      <4>3. CASE j < k
        <5>1. j \in 1 .. Len(b) - 1 /\ from(j) = j
          BY <1>1, <4>3
        <5>2. c[j].msg = x /\ j \in 1 .. Len(c)
          BY <1>1, <2>8, <2>9, <4>1, <5>1
        <5> QED
          BY <5>2
      <4>4. CASE j > k
        <5>1. j - 1 \in 1 .. Len(b) - 1 /\ from(j - 1) = j
          BY <1>1, <4>4
        <5>2. c[j - 1].msg = x /\ j - 1 \in 1 .. Len(c)
          BY <1>1, <2>8, <2>9, <4>1, <5>1
        <5> QED
          BY <5>2
      <4> QED
        BY <1>1, <4>2, <4>3, <4>4
    <3> QED
      BY <3>1, <3>2 DEF Whole
  <2>15. b # <<>>
    BY <1>2, <1>4
  <2> QED
    BY <1>4, <2>4, <2>13, <2>14, <2>15
<1> QED
  BY <1>3, <1>4

LEMMA HistoryGrows ==
  ASSUME NEW r, NEW m \in Msg, NEW s \in Status,
         r \in [Msg -> Status \cup {None}], r[m] = None, IsFiniteSet(HistoryOf(r))
  PROVE  /\ IsFiniteSet(HistoryOf([r EXCEPT ![m] = s]))
         /\ m \in HistoryOf([r EXCEPT ![m] = s])
         /\ Cardinality(HistoryOf([r EXCEPT ![m] = s])) <= PageSize
              => Cardinality(HistoryOf(r)) <= PageSize
<1> DEFINE z == [r EXCEPT ![m] = s]
<1>1. None \notin Status /\ PageSize \in Nat
  BY ChatAssumption
<1>2. HistoryOf(z) = HistoryOf(r) \cup {m}
  BY <1>1 DEF HistoryOf
<1> HIDE DEF z
<1>3. /\ IsFiniteSet(HistoryOf(z)) /\ Cardinality(HistoryOf(z)) \in Nat
      /\ Cardinality(HistoryOf(r)) \in Nat
      /\ Cardinality(HistoryOf(r)) <= Cardinality(HistoryOf(z))
  BY <1>2, FS_AddElement, FS_Subset, FS_CardinalityType
<1>4. Cardinality(HistoryOf(z)) <= PageSize => Cardinality(HistoryOf(r)) <= PageSize
  BY <1>1, <1>3
<1> QED
  BY <1>2, <1>3, <1>4 DEF z

LEMMA HistoryKept ==
  ASSUME NEW r, NEW m \in Msg, NEW s \in Status,
         r \in [Msg -> Status \cup {None}], r[m] # None
  PROVE  HistoryOf([r EXCEPT ![m] = s]) = HistoryOf(r)
  BY ChatAssumption DEF HistoryOf

\* A page is a part of the history, and all of it as long as it fits.
LEMMA PageOf ==
  ASSUME NEW r, IsFiniteSet(HistoryOf(r)), NEW page \in Pages(r)
  PROVE  /\ page \subseteq HistoryOf(r) /\ IsFiniteSet(page)
         /\ Cardinality(HistoryOf(r)) <= PageSize => page = HistoryOf(r)
<1>1. /\ page \subseteq HistoryOf(r)
      /\ Cardinality(page) = IF Cardinality(HistoryOf(r)) < PageSize
                               THEN Cardinality(HistoryOf(r)) ELSE PageSize
  BY DEF Pages, HistoryOf
<1>2. IsFiniteSet(page) /\ (Cardinality(HistoryOf(r)) = Cardinality(page) => HistoryOf(r) = page)
  BY <1>1, FS_Subset
<1>3. Cardinality(HistoryOf(r)) \in Nat /\ PageSize \in Nat
  BY FS_CardinalityType, ChatAssumption
<1> QED
  BY <1>1, <1>2, <1>3

LEMMA ShowsNothing ==
  ASSUME NEW r, IsFiniteSet(HistoryOf(r))
  PROVE  Shows(<<>>, r, FALSE)
  BY DEF Shows, Clean

\* setPeer.
LEMMA ShowsPage ==
  ASSUME NEW r, r \in [Msg -> Status \cup {None}], IsFiniteSet(HistoryOf(r)),
         NEW page \in Pages(r), NEW order \in SetToSeqs(page)
  PROVE  Shows([k \in DOMAIN order |-> Bubble(order[k], r[order[k]])], r, TRUE)
<1> DEFINE b == [k \in DOMAIN order |-> Bubble(order[k], r[order[k]])]
           l == Cardinality(page)
<1>1. /\ page \subseteq HistoryOf(r) /\ IsFiniteSet(page)
      /\ Cardinality(HistoryOf(r)) <= PageSize => page = HistoryOf(r)
  BY PageOf
<1>2. l \in Nat
  BY <1>1, FS_CardinalityType
<1>3. order \in [1 .. l -> page] /\ \A i, j \in 1 .. l : i # j => order[i] # order[j]
  BY DEF SetToSeqs
<1>4. ASSUME NEW k \in 1 .. l
      PROVE  /\ order[k] \in page /\ order[k] \in Msg /\ r[order[k]] \in Status /\ r[order[k]] # None
             /\ Bubble(order[k], r[order[k]]) \in Bubbles
             /\ Bubble(order[k], r[order[k]]).msg = order[k]
             /\ Bubble(order[k], r[order[k]]).status = r[order[k]]
  <2>1. order[k] \in page
    BY <1>3
  <2>2. order[k] \in Msg /\ r[order[k]] # None
    BY <1>1, <2>1 DEF HistoryOf
  <2>3. r[order[k]] \in Status
    BY <2>2
  <2> QED
    BY <2>1, <2>2, <2>3, BubbleOf
<1>5. DOMAIN order = 1 .. l
  BY <1>3
<1> HIDE DEF l
<1>6. \A k \in 1 .. l : /\ b[k] \in Bubbles /\ b[k].msg = order[k] /\ b[k].status = r[order[k]]
                        /\ order[k] \in page /\ r[order[k]] # None
  BY <1>4, <1>5
<1>7. b \in [1 .. l -> Bubbles]
  BY <1>4, <1>5
<1> HIDE DEF b
<1>8. b \in Seq(Bubbles) /\ Len(b) = l
  BY <1>2, <1>7, SeqDef, LenProperties
<1>9. Clean(b, r)
  BY <1>3, <1>6, <1>8 DEF Clean
<1>10. ASSUME page = HistoryOf(r) PROVE Whole(b, r, {})
  <2>1. order \in Injection(1 .. l, page)
    BY <1>3 DEF Injection, IsInjective
  <2>2. Cardinality(1 .. l) = l
    <3>1. Cardinality(1 .. l) = IF 1 > l THEN 0 ELSE l - 1 + 1
      BY <1>2, FS_Interval
    <3> QED
      BY <1>2, <3>1
  <2>3. order \in Surjection(1 .. l, page)
    BY <1>1, <2>1, <2>2, FS_Injection DEF l
  <2>4. \A x \in page : \E i \in 1 .. l : order[i] = x
    BY <2>3 DEF Surjection
  <2>5. \A x \in page : \E i \in 1 .. Len(b) : b[i].msg = x
    BY <1>6, <1>8, <2>4
  <2> QED
    BY <1>6, <1>8, <1>10, <2>5 DEF Whole
<1> QED
  BY <1>1, <1>9, <1>10 DEF Shows, b

LEMMA ShowsLoaded ==
  ASSUME NEW r, r \in [Msg -> Status \cup {None}], IsFiniteSet(HistoryOf(r)), NEW b \in Loads(r)
  PROVE  Shows(b, r, TRUE)
<1>1. PICK page \in Pages(r) :
        b \in {[k \in DOMAIN order |-> Bubble(order[k], r[order[k]])] : order \in SetToSeqs(page)}
  BY DEF Loads
<1>2. PICK order \in SetToSeqs(page) : b = [k \in DOMAIN order |-> Bubble(order[k], r[order[k]])]
  BY <1>1
<1> QED
  BY <1>2, ShowsPage

\* sendText: the bubble is added as Sending and refreshed once the text is sent.
LEMMA ShowsSent ==
  ASSUME NEW b, NEW r, NEW sh \in BOOLEAN, NEW m \in Msg,
         r \in [Msg -> Status \cup {None}], r[m] = None, Shows(b, r, sh),
         NEW page \in Pages([r EXCEPT ![m] = "Sent"])
  PROVE  Shows(Refreshed(IF sh THEN Append(b, Bubble(m, "Sending")) ELSE b,
                         [r EXCEPT ![m] = "Sent"], page, m),
               [r EXCEPT ![m] = "Sent"], sh)
<1> DEFINE z == [r EXCEPT ![m] = "Sent"]
           c == IF sh THEN Append(b, Bubble(m, "Sending")) ELSE b
           d == Refreshed(c, z, page, m)
<1>1. "Sent" \in Status /\ "Sending" \in Status
  BY DEF Status
<1>2. z \in [Msg -> Status \cup {None}]
  BY <1>1
<1>3. Clean(c, z) /\ (sh /\ Whole(b, r, {}) => Whole(c, z, {m})) /\ (~sh => c = <<>>)
  BY <1>1, CleanAdded DEF Shows
<1>4. /\ IsFiniteSet(HistoryOf(z)) /\ m \in HistoryOf(z)
      /\ Cardinality(HistoryOf(z)) <= PageSize => Cardinality(HistoryOf(r)) <= PageSize
  BY <1>1, HistoryGrows DEF Shows
<1> HIDE DEF z, c
<1>5. /\ page \subseteq HistoryOf(z)
      /\ Cardinality(HistoryOf(z)) <= PageSize => page = HistoryOf(z)
  BY <1>4, PageOf DEF z
<1>6. /\ Clean(d, z) /\ (c = <<>> => d = <<>>)
      /\ m \in page /\ Whole(c, z, {m}) => Whole(d, z, {})
  BY <1>2, <1>3, <1>5, RefreshedRight
<1> HIDE DEF d
<1> QED
  BY <1>3, <1>4, <1>5, <1>6 DEF Shows, d, c, z

\* The item of a file is stored, and no bubble added.
LEMMA ShowsNoFile ==
  ASSUME NEW b, NEW r, NEW sh \in BOOLEAN, NEW m \in Msg, NEW s \in Status,
         r \in [Msg -> Status \cup {None}], r[m] = None, m \in File, Shows(b, r, sh)
  PROVE  Shows(b, [r EXCEPT ![m] = s], sh)
<1> DEFINE z == [r EXCEPT ![m] = s]
<1>1. Clean(b, r) /\ (~sh => b = <<>>)
      /\ (sh /\ Cardinality(HistoryOf(r)) <= PageSize => Whole(b, r, {}))
  BY DEF Shows
<1>2. Clean(b, z)
  BY <1>1, CleanAdded
<1>3. /\ IsFiniteSet(HistoryOf(z))
      /\ Cardinality(HistoryOf(z)) <= PageSize => Cardinality(HistoryOf(r)) <= PageSize
  BY HistoryGrows DEF Shows
<1>4. /\ \A x \in Msg \ {m} : z[x] = r[x]
      /\ \A i \in 1 .. Len(b) : b[i].msg \in Msg \ {m}
  BY <1>1, BubbleAt DEF Clean
<1> HIDE DEF z
<1>5. HistoryOf(z) \ File = HistoryOf(r) \ File
  BY <1>4 DEF HistoryOf
<1>6. Whole(b, r, {}) => Whole(b, z, {})
  BY <1>4, <1>5 DEF Whole
<1> QED
  BY <1>1, <1>2, <1>3, <1>6 DEF Shows, z

\* A received text.
LEMMA ShowsReceived ==
  ASSUME NEW b, NEW r, NEW sh \in BOOLEAN, NEW m \in Msg,
         r \in [Msg -> Status \cup {None}], r[m] = None, Shows(b, r, sh)
  PROVE  Shows(IF sh THEN Append(b, Bubble(m, "Delivered")) ELSE b,
               [r EXCEPT ![m] = "Delivered"], sh)
<1> DEFINE z == [r EXCEPT ![m] = "Delivered"]
           c == IF sh THEN Append(b, Bubble(m, "Delivered")) ELSE b
<1>1. "Delivered" \in Status
  BY DEF Status
<1>2. Clean(c, z) /\ (sh /\ Whole(b, r, {}) => Whole(c, z, {})) /\ (~sh => c = <<>>)
  BY <1>1, CleanAdded DEF Shows
<1>3. /\ IsFiniteSet(HistoryOf(z))
      /\ Cardinality(HistoryOf(z)) <= PageSize => Cardinality(HistoryOf(r)) <= PageSize
  BY <1>1, HistoryGrows DEF Shows
<1> HIDE DEF z, c
<1> QED
  BY <1>2, <1>3 DEF Shows, c, z

\* A receipt.
LEMMA ShowsMoved ==
  ASSUME NEW b, NEW r, NEW sh \in BOOLEAN, NEW m \in Msg, NEW s \in Status,
         r \in [Msg -> Status \cup {None}], r[m] # None, Shows(b, r, sh),
         NEW page \in Pages([r EXCEPT ![m] = s])
  PROVE  Shows(Refreshed(b, [r EXCEPT ![m] = s], page, m), [r EXCEPT ![m] = s], sh)
<1> DEFINE z == [r EXCEPT ![m] = s]
           d == Refreshed(b, z, page, m)
<1>1. z \in [Msg -> Status \cup {None}]
  OBVIOUS
<1>2. Clean(b, z) /\ (Whole(b, r, {}) => Whole(b, z, {m}))
  BY CleanMoved DEF Shows
<1>3. HistoryOf(z) = HistoryOf(r) /\ IsFiniteSet(HistoryOf(z)) /\ m \in HistoryOf(z)
  <2>1. HistoryOf(z) = HistoryOf(r)
    BY HistoryKept
  <2>2. m \in HistoryOf(r) /\ IsFiniteSet(HistoryOf(r))
    BY DEF Shows, HistoryOf
  <2> QED
    BY <2>1, <2>2
<1> HIDE DEF z
<1>4. /\ page \subseteq HistoryOf(z)
      /\ Cardinality(HistoryOf(z)) <= PageSize => page = HistoryOf(z)
  BY <1>3, PageOf DEF z
<1>5. /\ Clean(d, z) /\ (b = <<>> => d = <<>>)
      /\ m \in page /\ Whole(b, z, {m}) => Whole(d, z, {})
  BY <1>1, <1>2, <1>4, RefreshedRight
<1> HIDE DEF d
<1> QED
  BY <1>2, <1>3, <1>4, <1>5 DEF Shows, d, z

\* A step of one node's screen and table.
LEMMA ScreenOf ==
  ASSUME ViewInv, NEW n \in Node, NEW b, NEW r, NEW sh \in BOOLEAN,
         row \in [Node -> [Msg -> Status \cup {None}]],
         view' = [view EXCEPT ![n] = b], row' = [row EXCEPT ![n] = r],
         shown' = [shown EXCEPT ![n] = sh], Shows(b, r, sh)
  PROVE  ViewInv'
<1>1. /\ view' \in [Node -> Seq(Bubbles)] /\ shown' \in [Node -> BOOLEAN]
      /\ view'[n] = b /\ row'[n] = r /\ shown'[n] = sh
  BY DEF ViewInv, Shows, Clean
<1>2. \A k \in Node \ {n} : view'[k] = view[k] /\ row'[k] = row[k] /\ shown'[k] = shown[k]
  BY DEF ViewInv
<1>3. ASSUME NEW k \in Node PROVE Shows(view'[k], row'[k], shown'[k])
  <2>1. CASE k = n
    BY <1>1, <2>1
  <2>2. CASE k # n
    BY <1>2, <2>2 DEF ViewInv
  <2> QED
    BY <2>1, <2>2
<1> QED
  BY <1>1, <1>3 DEF ViewInv

\* peerOnlineChanged, on every screen; the tables are those of the step before.
LEMMA Redrawing ==
  ASSUME ViewInv, row \in [Node -> [Msg -> Status \cup {None}]],
         NEW closing, NEW informed, Redraw(closing, informed)
  PROVE  /\ view' \in [Node -> Seq(Bubbles)] /\ shown' \in [Node -> BOOLEAN]
         /\ \A n \in Node : Shows(view'[n], row[n], shown'[n])
         /\ \A n \in Node : n \in closing => view'[n] = <<>> /\ shown'[n] = FALSE
<1>1. ASSUME NEW n \in Node
      PROVE  /\ shown[n] \in BOOLEAN /\ row[n] \in [Msg -> Status \cup {None}]
             /\ Shows(view[n], row[n], shown[n]) /\ IsFiniteSet(HistoryOf(row[n]))
             /\ shown'[n] = (shown[n] /\ n \notin closing)
             /\ view'[n] \in Redrawn(n, closing, informed)
  BY DEF ViewInv, Shows, Redraw
<1>2. ASSUME NEW n \in Node
      PROVE  Shows(view'[n], row[n], shown'[n])
  <2>1. CASE n \in closing
    <3>1. view'[n] = <<>> /\ shown'[n] = FALSE
      BY <1>1, <2>1 DEF Redrawn
    <3> QED
      BY <1>1, <3>1, ShowsNothing
  <2>2. CASE n \notin closing /\ n \in informed /\ shown[n]
    <3>1. view'[n] \in Loads(row[n]) /\ shown'[n] = TRUE
      BY <1>1, <2>2 DEF Redrawn
    <3> QED
      BY <1>1, <3>1, ShowsLoaded
  <2>3. CASE n \notin closing /\ ~(n \in informed /\ shown[n])
    <3>1. view'[n] = view[n] /\ shown'[n] = shown[n]
      BY <1>1, <2>3 DEF Redrawn
    <3> QED
      BY <1>1, <3>1
  <2> QED
    BY <2>1, <2>2, <2>3
<1>3. \A n \in Node : n \in closing => view'[n] = <<>> /\ shown'[n] = FALSE
  BY <1>1 DEF Redrawn
<1>4. shown' \in [Node -> BOOLEAN]
  BY DEF Redraw
<1>5. view' \in [Node -> Seq(Bubbles)]
  <2>1. \A n \in Node : view'[n] \in Seq(Bubbles)
    BY <1>2 DEF Shows, Clean
  <2>2. view' = [n \in Node |-> view'[n]]
    BY DEF Redraw
  <2> QED
    BY <2>1, <2>2
<1> QED
  BY <1>2, <1>3, <1>4, <1>5

LEMMA ViewInit == Init => ViewInv
<1> SUFFICES ASSUME Init PROVE ViewInv
  OBVIOUS
<1>1. ASSUME NEW n \in Node
      PROVE  HistoryOf(row[n]) = {} /\ view[n] = <<>> /\ shown[n] = FALSE
  BY DEF Init, HistoryOf
<1>2. ASSUME NEW n \in Node PROVE Shows(view[n], row[n], shown[n])
  BY <1>1, ShowsNothing, FS_EmptySet
<1>3. view \in [Node -> Seq(Bubbles)] /\ shown \in [Node -> BOOLEAN]
  BY DEF Init
<1> QED
  BY <1>2, <1>3 DEF ViewInv

LEMMA ViewStep == ChatInv /\ ViewInv /\ [Next]_vars => ViewInv'
<1> SUFFICES ASSUME ChatInv, ViewInv, [Next]_vars PROVE ViewInv'
  OBVIOUS
<1> DEFINE Kept == UNCHANGED <<row, view, shown>>
<1>1. ASSUME Kept PROVE ViewInv'
  BY <1>1 DEF ViewInv
<1>2. /\ row \in [Node -> [Msg -> Status \cup {None}]]
      /\ view \in [Node -> Seq(Bubbles)] /\ shown \in [Node -> BOOLEAN]
  BY DEF ChatInv, DataTypeOK, ViewInv
<1>3. ASSUME NEW n \in Node
      PROVE  /\ row[n] \in [Msg -> Status \cup {None}] /\ shown[n] \in BOOLEAN
             /\ Shows(view[n], row[n], shown[n]) /\ IsFiniteSet(HistoryOf(row[n]))
             /\ [row EXCEPT ![n] = row[n]] = row /\ [shown EXCEPT ![n] = shown[n]] = shown
  BY <1>2 DEF ViewInv, Shows
<1>4. ASSUME NEW n \in Node, NEW m \in Msg, NEW s
      PROVE  [row EXCEPT ![n][m] = s] = [row EXCEPT ![n] = [row[n] EXCEPT ![m] = s]]
  BY <1>2
<1>5. ASSUME NEW n \in Node, SelectPeer(n) PROVE ViewInv'
  <2>1. PICK b \in Loads(row[n]) : /\ view' = [view EXCEPT ![n] = b]
                                   /\ shown' = [shown EXCEPT ![n] = TRUE]
                                   /\ row' = row
    BY <1>5 DEF SelectPeer, SetView
  <2>2. Shows(b, row[n], TRUE)
    BY <1>3, ShowsLoaded
  <2>3. row' = [row EXCEPT ![n] = row[n]]
    BY <1>3, <2>1
  <2> QED
    BY <1>2, <2>1, <2>2, <2>3, ScreenOf
<1>6. ASSUME NEW n \in Node, view' = [view EXCEPT ![n] = <<>>],
             shown' = [shown EXCEPT ![n] = FALSE], row' = row
      PROVE  ViewInv'
  <2>1. Shows(<<>>, row[n], FALSE) /\ row' = [row EXCEPT ![n] = row[n]]
    BY <1>3, <1>6, ShowsNothing
  <2> QED
    BY <1>2, <1>6, <2>1, ScreenOf
<1>7. ASSUME NEW n \in Node, LeaveChat(n) PROVE ViewInv'
  BY <1>6, <1>7 DEF LeaveChat, SetView
<1>8. ASSUME NEW n \in Node, ReceiveText(n) PROVE ViewInv'
  <2> DEFINE m == Head(wire[n]).msg
             b == IF shown[n] THEN Append(view[n], Bubble(m, "Delivered")) ELSE view[n]
             r == [row[n] EXCEPT ![m] = "Delivered"]
  <2>1. m \in Msg /\ row[n][m] = None /\ Taken(n, m) /\ shown' = shown
    BY <1>8, OnTop DEF ReceiveText, Receives
  <2>2. CASE trust[n] # "Trusted"
    BY <1>1, <2>1, <2>2 DEF Taken
  <2>3. CASE trust[n] = "Trusted"
    <3>1. view' = [view EXCEPT ![n] = b] /\ row' = [row EXCEPT ![n][m] = "Delivered"]
      BY <2>1, <2>3 DEF Taken, Stores, SetView, Appended
    <3>2. row' = [row EXCEPT ![n] = r]
      BY <1>4, <2>1, <3>1
    <3>3. Shows(b, r, shown[n])
      BY <1>3, <2>1, ShowsReceived
    <3>4. shown' = [shown EXCEPT ![n] = shown[n]]
      BY <1>3, <2>1
    <3>5. shown[n] \in BOOLEAN /\ view' = [view EXCEPT ![n] = b]
      BY <1>3, <3>1
    <3> HIDE DEF b, r, m
    <3> QED
      BY <1>2, <3>2, <3>3, <3>4, <3>5, ScreenOf, Zenon
  <2> QED
    BY <2>2, <2>3
<1>9. ASSUME NEW n \in Node, ReceiveAck(n) PROVE ViewInv'
  <2> DEFINE m == Head(wire[n]).msg
             s == Head(wire[n]).status
  <2>1. m \in Msg /\ s \in {"Delivered", "Read"} /\ shown' = shown
    BY <1>9, OnTop DEF ReceiveAck, Receives
  <2>2. PICK page \in Pages(row'[n]) :
          view' = [view EXCEPT ![n] = Refreshed(view[n], row'[n], page, m)]
    BY <1>9 DEF ReceiveAck, SetView
  <2>3. IF row[n][m] = None THEN row' = row ELSE row' = [row EXCEPT ![n][m] = s]
    BY <1>9 DEF ReceiveAck, Stores, Acknowledged
  <2> HIDE DEF m, s
  <2>4. CASE row[n][m] = None
    <3>1. page \subseteq HistoryOf(row[n]) /\ row' = row
      BY <1>3, <2>2, <2>3, <2>4, PageOf
    <3>2. Refreshed(view[n], row'[n], page, m) = view[n]
      BY <2>4, <3>1 DEF Refreshed, HistoryOf
    <3>3. view' = view
      BY <1>2, <2>2, <3>2
    <3> QED
      BY <1>1, <2>1, <3>1, <3>3
  <2>5. CASE row[n][m] # None
    <3> DEFINE r == [row[n] EXCEPT ![m] = s]
    <3>1. row' = [row EXCEPT ![n] = r] /\ row'[n] = r
      BY <1>2, <1>4, <2>1, <2>3, <2>5
    <3>2. s \in Status
      BY <2>1 DEF Status
    <3>3. Shows(Refreshed(view[n], r, page, m), r, shown[n])
      BY <1>3, <2>1, <2>2, <2>5, <3>1, <3>2, ShowsMoved
    <3>4. shown' = [shown EXCEPT ![n] = shown[n]]
      BY <1>3, <2>1
    <3>5. /\ shown[n] \in BOOLEAN
          /\ view' = [view EXCEPT ![n] = Refreshed(view[n], r, page, m)]
      BY <1>3, <2>2, <3>1
    <3> HIDE DEF r
    <3> QED
      BY <1>2, <3>1, <3>3, <3>4, <3>5, ScreenOf, Zenon
  <2> QED
    BY <2>4, <2>5
<1>10. ASSUME NEW n \in Node, NEW m \in Msg, SendText(n, m) PROVE ViewInv'
  <2> DEFINE r == [row[n] EXCEPT ![m] = "Sent"]
             b == IF shown[n] THEN Append(view[n], Bubble(m, "Sending")) ELSE view[n]
  <2>1. row[n][m] = None /\ row' = [row EXCEPT ![n][m] = "Sent"] /\ shown' = shown
    BY <1>10 DEF SendText, Stores
  <2>2. row' = [row EXCEPT ![n] = r] /\ row'[n] = r
    BY <1>2, <1>4, <2>1
  <2>3. PICK page \in Pages(row'[n]) :
          view' = [view EXCEPT ![n] = Refreshed(b, row'[n], page, m)]
    BY <1>10 DEF SendText, SetView, Appended
  <2>4. Shows(Refreshed(b, r, page, m), r, shown[n])
    BY <1>3, <2>1, <2>2, ShowsSent
  <2>5. shown' = [shown EXCEPT ![n] = shown[n]]
    BY <1>3, <2>1
  <2>6. /\ shown[n] \in BOOLEAN
        /\ view' = [view EXCEPT ![n] = Refreshed(b, r, page, m)]
    BY <1>3, <2>2, <2>3
  <2> HIDE DEF r, b
  <2> QED
    BY <1>2, <2>2, <2>4, <2>5, <2>6, ScreenOf, Zenon
<1>11. ASSUME NEW n \in Node, NEW m \in Msg, CrashInSend(n, m) PROVE ViewInv'
  <2> DEFINE r == [row[n] EXCEPT ![m] = "Sending"]
  <2>1. /\ row[n][m] = None /\ row' = [row EXCEPT ![n][m] = "Sending"]
        /\ Redraw({n}, Node)
    BY <1>11 DEF CrashInSend, Stores
  <2>2. row'[n] = r /\ \A k \in Node \ {n} : row'[k] = row[k]
    BY <1>2, <2>1
  <2>3. "Sending" \in Status
    BY DEF Status
  <2>4. IsFiniteSet(HistoryOf(r))
    BY <1>3, <2>1, <2>3, HistoryGrows
  <2>5. Shows(<<>>, r, FALSE)
    BY <2>4, ShowsNothing
  <2>6. /\ view' \in [Node -> Seq(Bubbles)] /\ shown' \in [Node -> BOOLEAN]
        /\ \A k \in Node : Shows(view'[k], row[k], shown'[k])
        /\ view'[n] = <<>> /\ shown'[n] = FALSE
    BY <1>2, <2>1, Redrawing
  <2> HIDE DEF r
  <2>7. ASSUME NEW k \in Node PROVE Shows(view'[k], row'[k], shown'[k])
    <3>1. CASE k = n
      BY <2>2, <2>5, <2>6, <3>1
    <3>2. CASE k # n
      BY <2>2, <2>6, <3>2
    <3> QED
      BY <3>1, <3>2
  <2> QED
    BY <2>6, <2>7 DEF ViewInv
<1>12. ASSUME NEW closing, NEW informed, Redraw(closing, informed), row' = row PROVE ViewInv'
  BY <1>2, <1>12, Redrawing DEF ViewInv
<1>13. ASSUME NEW n \in Node, Restart(n) PROVE ViewInv'
  <2>1. Redraw({n}, IF up THEN Node ELSE {}) /\ row' = row
    BY <1>13 DEF Restart
  <2> QED
    BY <1>12, <2>1
<1>14. ASSUME NEW n \in Node, Block(n) PROVE ViewInv'
  <2>1. row' = row /\ (Redraw({}, Node) \/ Kept)
    BY <1>14 DEF Block, viewVars
  <2> QED
    BY <1>1, <1>12, <2>1
<1>15. ASSUME Disconnect \/ Reconnect PROVE ViewInv'
  <2>1. Redraw({}, Node) /\ row' = row
    BY <1>15 DEF Disconnect, Reconnect
  <2> QED
    BY <1>12, <2>1
<1>16. ASSUME NEW n \in Node, NEW m \in Msg, NEW s \in Status, row[n][m] = None, m \in File,
              row' = [row EXCEPT ![n][m] = s], UNCHANGED viewVars
       PROVE  ViewInv'
  <2> DEFINE r == [row[n] EXCEPT ![m] = s]
  <2>1. row' = [row EXCEPT ![n] = r]
    BY <1>4, <1>16
  <2>2. Shows(view[n], r, shown[n])
    BY <1>3, <1>16, ShowsNoFile
  <2>3. /\ shown[n] \in BOOLEAN /\ shown' = [shown EXCEPT ![n] = shown[n]]
        /\ view' = [view EXCEPT ![n] = view[n]]
    BY <1>2, <1>3, <1>16 DEF viewVars
  <2> HIDE DEF r
  <2> QED
    BY <1>2, <2>1, <2>2, <2>3, ScreenOf
<1>17. ASSUME NEW n \in Node, NEW m \in Msg, QueueFile(n, m) PROVE ViewInv'
  <2>1. /\ row[n][m] = None /\ m \in File /\ UNCHANGED viewVars
        /\ row' = [row EXCEPT ![n][m] = "Sending"]
    BY <1>17 DEF QueueFile, Stores
  <2>2. "Sending" \in Status
    BY DEF Status
  <2> QED
    BY <1>16, <2>1, <2>2
<1>18. ASSUME NEW n \in Node, ReceiveOffer(n) PROVE ViewInv'
  <2>1. PICK m \in Msg : /\ m = Head(wire[n]).msg /\ m \in File /\ row[n][m] = None
                         /\ UNCHANGED viewVars
                         /\ row' = row \/ row' = [row EXCEPT ![n][m] = "Delivered"]
    BY <1>18, OnTop DEF ReceiveOffer, Receives, Stores
  <2>2. "Delivered" \in Status
    BY DEF Status
  <2>3. CASE row' = row
    BY <1>1, <2>1, <2>3 DEF viewVars
  <2>4. CASE row' = [row EXCEPT ![n][m] = "Delivered"]
    BY <1>16, <2>1, <2>2, <2>4
  <2> QED
    BY <2>1, <2>3, <2>4
<1>19. ASSUME NEW n \in Node, Trust(n) PROVE Kept
  BY <1>19 DEF Trust, viewVars
<1>20. ASSUME NEW n \in Node, NEW m \in Msg, MarkRead(n, m) PROVE Kept
  BY <1>20 DEF MarkRead, viewVars
<1>21. ASSUME UNCHANGED vars PROVE Kept
  BY <1>21 DEF vars, viewVars
<1> HIDE DEF Kept
<1> QED
  BY <1>1, <1>5, <1>7, <1>8, <1>9, <1>10, <1>11, <1>13, <1>14, <1>15, <1>17, <1>18, <1>19, <1>20,
     <1>21 DEF Next

\* The rest of the state.
RestOK ==
  /\ trust \in [Node -> {"Unknown", "Trusted", "Blocked"}]
  /\ up \in BOOLEAN
  /\ drops \in 0 .. MaxDrops /\ reads \in 0 .. MaxReads

LEMMA RestInit == Init => RestOK
  BY ChatAssumption DEF Init, RestOK

LEMMA RestStep == RestOK /\ [Next]_vars => RestOK'
<1> SUFFICES ASSUME RestOK, [Next]_vars PROVE RestOK'
  OBVIOUS
<1> USE ChatAssumption DEF RestOK
<1>1. ASSUME Break PROVE up' \in BOOLEAN /\ drops' \in 0 .. MaxDrops
  <2>1. MaxDrops \in Nat /\ drops \in 0 .. MaxDrops
    OBVIOUS
  <2>2. up' = FALSE /\ drops < MaxDrops /\ drops' = drops + 1
    BY <1>1 DEF Break
  <2>3. drops' \in 0 .. MaxDrops
    BY ONLY <2>1, <2>2
  <2> QED
    BY <2>2, <2>3
<1>2. ASSUME NEW n \in Node,
             \/ SelectPeer(n) \/ LeaveChat(n) \/ ReceiveText(n) \/ ReceiveAck(n) \/ ReceiveOffer(n)
             \/ Trust(n)
      PROVE  RestOK'
  BY <1>2 DEF SelectPeer, LeaveChat, ReceiveText, ReceiveAck, ReceiveOffer, Trust, connVars
<1>3. ASSUME NEW n \in Node, Block(n) PROVE RestOK'
  BY <1>1, <1>3 DEF Block, connVars
<1>4. ASSUME NEW n \in Node, Restart(n) PROVE RestOK'
  BY <1>1, <1>4 DEF Restart
<1>5. ASSUME NEW n \in Node, NEW m \in Msg, SendText(n, m) \/ QueueFile(n, m) PROVE RestOK'
  BY <1>5 DEF SendText, QueueFile
<1>6. ASSUME NEW n \in Node, NEW m \in Msg, MarkRead(n, m) PROVE RestOK'
  BY <1>6 DEF MarkRead
<1>7. ASSUME NEW n \in Node, NEW m \in Msg, CrashInSend(n, m) PROVE RestOK'
  BY <1>1, <1>7 DEF CrashInSend
<1>8. ASSUME Disconnect PROVE RestOK'
  BY <1>1, <1>8 DEF Disconnect
<1>9. ASSUME Reconnect PROVE RestOK'
  BY <1>9 DEF Reconnect
<1>10. ASSUME UNCHANGED vars PROVE RestOK'
  BY <1>10 DEF vars, connVars
<1> QED
  BY <1>2, <1>3, <1>4, <1>5, <1>6, <1>7, <1>8, <1>9, <1>10 DEF Next

LEMMA AllTyped == ChatInv /\ ViewInv /\ RestOK => ChatTypeOK
<1> SUFFICES ASSUME ChatInv, ViewInv, RestOK PROVE ChatTypeOK
  OBVIOUS
<1>1. /\ \A f \in TextFrame : f.msg \in Msg \ File /\ f = Text(f.msg)
      /\ \A f \in OfferFrame : f.msg \in File /\ f = Offer(f.msg)
  BY DEF TextFrame, Text, OfferFrame, Offer
<1>2. \A f \in AckFrame : f.msg \in Msg \ File /\ f.status \in {"Delivered", "Read"} /\ f = Ack(f.msg, f.status)
  BY DEF AckFrame, Ack
<1>3. \A e \in Bubbles : e.msg \in Msg /\ e.status \in Status /\ e = Bubble(e.msg, e.status)
  BY DEF Bubbles, Bubble
<1> DEFINE F ==      {Text(m) : m \in Msg \ File} \cup {Offer(m) : m \in File}
                \cup {Ack(m, s) : m \in Msg \ File, s \in {"Delivered", "Read"}}
           B == {Bubble(m, s) : m \in Msg, s \in Status}
<1>4. Frames \subseteq F
  BY <1>1, <1>2 DEF Frames
<1>5. Bubbles \subseteq B
  BY <1>3
<1> HIDE DEF F, B
<1>6. wire \in [Node -> Seq(F)]
  BY <1>4 DEF ChatInv, DataTypeOK
<1>7. view \in [Node -> Seq(B)]
  BY <1>5 DEF ViewInv
<1>8. row \in [Node -> [Msg -> Status \cup {None}]] /\ shown \in [Node -> BOOLEAN]
  BY DEF ChatInv, DataTypeOK, ViewInv
<1>9. /\ trust \in [Node -> {"Unknown", "Trusted", "Blocked"}] /\ up \in BOOLEAN
      /\ drops \in 0 .. MaxDrops /\ reads \in 0 .. MaxReads
  BY DEF RestOK
<1>10. ChatTypeOK <=>
         /\ row \in [Node -> [Msg -> Status \cup {None}]]
         /\ trust \in [Node -> {"Unknown", "Trusted", "Blocked"}] /\ up \in BOOLEAN
         /\ wire \in [Node -> Seq(F)]
         /\ shown \in [Node -> BOOLEAN] /\ view \in [Node -> Seq(B)]
         /\ drops \in 0 .. MaxDrops /\ reads \in 0 .. MaxReads
  BY DEF ChatTypeOK, F, B
<1> HIDE DEF F, B
<1> QED
  BY <1>6, <1>7, <1>8, <1>9, <1>10

\* Every part of the state stays in its range: rows, frames, bubbles, trust and
\* the counters, through every handler, crash and restart.
THEOREM ChatTypeCorrect == Spec => []ChatTypeOK
  BY ChatInit, ChatStep, ViewInit, ViewStep, RestInit, RestStep, AllTyped, PTL DEF Spec

LEMMA TextsShown == ViewInv => TextsOnScreen
<1> SUFFICES ASSUME ViewInv, NEW n \in Node, shown[n], Cardinality(Stored(n)) <= PageSize
             PROVE  /\ {Bubble(m, row[n][m]) : m \in Stored(n) \ File} \subseteq ToSet(view[n])
                    /\ ToSet(view[n]) \subseteq {Bubble(m, row[n][m]) : m \in Stored(n)}
                    /\ Len(view[n]) = Cardinality(ToSet(view[n]))
  BY DEF TextsOnScreen
<1> DEFINE b == view[n]
           r == row[n]
           H == HistoryOf(r)
<1>1. Stored(n) = H /\ b \in Seq(Bubbles) /\ Len(b) \in Nat
  BY DEF Stored, HistoryOf, ViewInv
<1>2. Clean(b, r) /\ Whole(b, r, {}) /\ IsFiniteSet(H)
  BY <1>1 DEF ViewInv, Shows
<1>3. ASSUME NEW i \in 1 .. Len(b)
      PROVE  b[i].msg \in H /\ b[i] = Bubble(b[i].msg, r[b[i].msg])
  <2>1. b[i] \in Bubbles /\ b[i].msg \in Msg /\ b[i].status = r[b[i].msg] /\ r[b[i].msg] # None
    BY <1>1, <1>2, BubbleAt DEF Clean, Whole
  <2> QED
    BY <2>1 DEF HistoryOf, Bubble, Bubbles
<1> HIDE DEF b, r
<1>4. ToSet(b) = {b[i] : i \in 1 .. Len(b)}
  BY <1>1 DEF ToSet
<1>5. \A x \in ToSet(b) : x \in {Bubble(m, r[m]) : m \in H}
  BY <1>3, <1>4
<1>6. \A x \in {Bubble(m, r[m]) : m \in H \ File} : x \in ToSet(b)
  <2>1. ASSUME NEW m \in H \ File PROVE \E i \in 1 .. Len(b) : b[i] = Bubble(m, r[m])
    BY <1>2, <1>3 DEF Whole
  <2> HIDE DEF H
  <2> QED
    BY <1>4, <2>1
<1>7. Len(b) = Cardinality(ToSet(b))
  <2>1. b \in [1 .. Len(b) -> ToSet(b)]
    BY <1>1, <1>4
  <2>2. \A i, j \in 1 .. Len(b) : b[i] = b[j] => i = j
    BY <1>2 DEF Clean
  <2>3. \A x \in ToSet(b) : \E i \in 1 .. Len(b) : b[i] = x
    BY <1>4
  <2>4. b \in Bijection(1 .. Len(b), ToSet(b))
    BY <2>1, <2>2, <2>3 DEF Bijection, Injection, Surjection, IsInjective
  <2>5. IsFiniteSet(1 .. Len(b)) /\ Cardinality(1 .. Len(b)) = Len(b)
    <3>1. /\ IsFiniteSet(1 .. Len(b))
          /\ Cardinality(1 .. Len(b)) = IF 1 > Len(b) THEN 0 ELSE Len(b) - 1 + 1
      BY <1>1, FS_Interval
    <3> QED
      BY <1>1, <3>1
  <2> QED
    BY <2>4, <2>5, FS_Bijection DEF ExistsBijection
<1> QED
  BY <1>1, <1>5, <1>6, <1>7 DEF b, r

\* The screen agrees with the table while the history fits into a page: what
\* setPeer loads, and what onMessageAppended and onMessageStatusChanged make of
\* it, is each text once and with its stored status, whatever files are offered
\* meanwhile, whose items are not among what is promised to be there.
THEOREM ScreenShowsTexts == Spec => []TextsOnScreen
  BY ChatInit, ChatStep, ViewInit, ViewStep, TextsShown, PTL DEF Spec
=============================================================================
