------------------------- MODULE FileTransferProofs -------------------------
(***************************************************************************)
(* What TLAPS proves of FileTransfer: for any transfers, file sizes and    *)
(* chunk size, it implements FileDelivery, and a transfer whose connection *)
(* holds never waits for nothing.                                          *)
(***************************************************************************)
EXTENDS FileTransfer, TLAPS

Open == {"Pending", "Active", "Paused"}

FrameToS ==
       [type : {"file_accept", "file_reject", "file_pause", "file_resume"}, xfer : Xfer]
  \cup [type : {"file_chunk_req"}, xfer : Xfer, index : Int]
  \cup [type : {"file_complete"}, xfer : Xfer, ok : BOOLEAN]

FrameToR ==
       [type : {"file_offer"}, xfer : Xfer]
  \cup [type : {"file_chunk_meta", "chunk"}, xfer : Xfer, index : Int]

TablesOK ==
  /\ out \in [Xfer -> Open \cup {None}]
  /\ sdb \in [Xfer -> Row \cup {None}] /\ rdb \in [Xfer -> Row \cup {None}]
  /\ in \in [Xfer -> Tracked \cup {None}]
  /\ DOMAIN disk = Xfer
  /\ unheard \in Nat

\* A transfer in memory is one whose row is open, and the receiver has no row of
\* a transfer the sender never offered.
Held ==
  \A x \in Xfer : /\ out[x] # None => sdb[x] \in Open
                  /\ in[x] # None => rdb[x] \in Open
                  /\ rdb[x] # None => sdb[x] # None

\* A verdict on its way to the sender is the one in the receiver's table.
TrueAnswer(f) ==
  /\ f.type = "file_reject" => rdb[f.xfer] = "Cancelled"
  /\ f.type = "file_complete" => rdb[f.xfer] = (IF f.ok THEN "Done" ELSE "Failed")
Answers == {f \in FrameToS : TrueAnswer(f)}

\* An offer on its way is news to the receiver.
NewOffer(f) == f.type = "file_offer" => sdb[f.xfer] # None /\ rdb[f.xfer] = None
News == {f \in FrameToR : NewOffer(f)}

\* It is made once.
OfferedOnce(q) ==
  \A i, j \in 1 .. Len(q) :
    i < j /\ q[i].type = "file_offer" /\ q[j].type = "file_offer" => q[i].xfer # q[j].xfer

\* A dialog is about a transfer that is still waiting for its answer.
Waits(d) == rdb[d.xfer] \in Open /\ in[d.xfer] # None /\ ~in[d.xfer].open
Dialog == {d \in [xfer : Xfer, live : BOOLEAN] : Waits(d)}

AskedOnce(q) == \A i, j \in 1 .. Len(q) : i < j => q[i].xfer # q[j].xfer

TransferInv ==
  /\ TablesOK /\ Held
  /\ toS \in Seq(Answers)
  /\ toR \in Seq(News) /\ OfferedOnce(toR)
  /\ asking \in Seq(Dialog) /\ AskedOnce(asking)
-----------------------------------------------------------------------------
(* Sequences of frames and of dialogs *)

LEMMA Wider ==
  ASSUME NEW A, NEW B, A \subseteq B, NEW q \in Seq(A)
  PROVE  q \in Seq(B)
  OBVIOUS

LEMMA Elementwise ==
  ASSUME NEW A, NEW B, NEW q \in Seq(A), \A i \in 1 .. Len(q) : q[i] \in B
  PROVE  q \in Seq(B)
<1>1. Len(q) \in Nat /\ q = [i \in 1 .. Len(q) |-> q[i]]
  OBVIOUS
<1> QED
  BY <1>1

LEMMA TailOf ==
  ASSUME NEW A, NEW q \in Seq(A), q # <<>>
  PROVE  /\ Head(q) \in A /\ Tail(q) \in Seq(A) /\ Head(q) = q[1] /\ q[1] \in A
         /\ Len(q) \in Nat /\ Len(Tail(q)) = Len(q) - 1
         /\ \A i \in 1 .. Len(Tail(q)) : Tail(q)[i] = q[i + 1] /\ i + 1 \in 1 .. Len(q)
  OBVIOUS

LEMMA Extended ==
  ASSUME NEW A, NEW p \in Seq(A), NEW q \in Seq(A)
  PROVE  p \o q \in Seq(A)
  OBVIOUS

LEMMA One ==
  ASSUME NEW A, NEW a \in A
  PROVE  <<a>> \in Seq(A)
  OBVIOUS

LEMMA NoneSent ==
  ASSUME NEW A
  PROVE  <<>> \in Seq(A)
  OBVIOUS

LEMMA Two ==
  ASSUME NEW A, NEW a \in A, NEW b \in A
  PROVE  <<a, b>> \in Seq(A)
  OBVIOUS

LEMMA OnceTail ==
  ASSUME NEW q \in Seq(News), q # <<>>, OfferedOnce(q)
  PROVE  /\ OfferedOnce(Tail(q))
         /\ Head(q).type = "file_offer" =>
              \A i \in 1 .. Len(Tail(q)) :
                Tail(q)[i].type = "file_offer" => Tail(q)[i].xfer # Head(q).xfer
<1>1. OfferedOnce(Tail(q))
  <2> SUFFICES ASSUME NEW i \in 1 .. Len(Tail(q)), NEW j \in 1 .. Len(Tail(q)), i < j,
                      Tail(q)[i].type = "file_offer", Tail(q)[j].type = "file_offer"
               PROVE  Tail(q)[i].xfer # Tail(q)[j].xfer
    BY DEF OfferedOnce
  <2>1. i + 1 \in 1 .. Len(q) /\ j + 1 \in 1 .. Len(q) /\ i + 1 < j + 1
    BY TailOf
  <2>2. q[i + 1] = Tail(q)[i] /\ q[j + 1] = Tail(q)[j]
    BY TailOf
  <2> QED
    BY <2>1, <2>2 DEF OfferedOnce
<1>2. ASSUME NEW i \in 1 .. Len(Tail(q)), Head(q).type = "file_offer", Tail(q)[i].type = "file_offer"
      PROVE  Tail(q)[i].xfer # Head(q).xfer
  <2>1. 1 \in 1 .. Len(q) /\ i + 1 \in 1 .. Len(q) /\ 1 < i + 1
    BY TailOf
  <2>2. q[1] = Head(q) /\ q[i + 1] = Tail(q)[i]
    BY TailOf
  <2> QED
    BY <1>2, <2>1, <2>2 DEF OfferedOnce
<1> QED
  BY <1>1, <1>2

\* Frames that are not offers may be added, and an offer that is not there yet.
LEMMA OnceMore ==
  ASSUME NEW q \in Seq(FrameToR), NEW p \in Seq(FrameToR), OfferedOnce(q), OfferedOnce(p),
         \A i \in 1 .. Len(q), j \in 1 .. Len(p) :
           q[i].type = "file_offer" /\ p[j].type = "file_offer" => q[i].xfer # p[j].xfer
  PROVE  OfferedOnce(q \o p)
<1> DEFINE s == q \o p
<1>1. /\ Len(q) \in Nat /\ Len(p) \in Nat /\ Len(s) = Len(q) + Len(p)
      /\ \A i \in 1 .. Len(s) : s[i] = IF i <= Len(q) THEN q[i] ELSE p[i - Len(q)]
  OBVIOUS
<1> HIDE DEF s
<1> SUFFICES ASSUME NEW i \in 1 .. Len(s), NEW j \in 1 .. Len(s), i < j,
                    s[i].type = "file_offer", s[j].type = "file_offer"
             PROVE  s[i].xfer # s[j].xfer
  BY DEF OfferedOnce, s
<1>2. CASE j <= Len(q)
  BY <1>1, <1>2 DEF OfferedOnce
<1>3. CASE i <= Len(q) /\ j > Len(q)
  <2>1. s[i] = q[i] /\ s[j] = p[j - Len(q)] /\ i \in 1 .. Len(q) /\ j - Len(q) \in 1 .. Len(p)
    BY <1>1, <1>3
  <2> QED
    BY <2>1
<1>4. CASE i > Len(q)
  <2>1. /\ s[i] = p[i - Len(q)] /\ s[j] = p[j - Len(q)]
        /\ i - Len(q) \in 1 .. Len(p) /\ j - Len(q) \in 1 .. Len(p) /\ i - Len(q) < j - Len(q)
    BY <1>1, <1>4
  <2> QED
    BY <2>1 DEF OfferedOnce
<1> QED
  BY <1>1, <1>2, <1>3, <1>4
-----------------------------------------------------------------------------
(* The tables, as FileDelivery sees them *)

LEMMA Phases ==
  /\ Phase(None) = "none" /\ \A r \in Open : Phase(r) = "open"
  /\ Phase("Done") = "done" /\ Phase("Failed") = "failed" /\ Phase("Cancelled") = "cancelled"
  /\ None \notin Row
<1>1. None \notin Row
  BY SizesAssumption
<1> QED
  BY <1>1 DEF Phase, Open, Row, Terminal

PS(x) == Phase(sdb[x])
PR(x) == Phase(rdb[x])
PW(x) == Intact(x, disk[x])

SameS(X) == \A y \in X : PS(y)' = PS(y)
SameR(X) == \A y \in X : PR(y)' = PR(y)
SameW(X) == \A y \in X : PW(y)' = PW(y)

DStep == Delivery!DNext \/ UNCHANGED Delivery!dvars

LEMMA SimStutter ==
  ASSUME SameS(Xfer), SameR(Xfer), SameW(Xfer)
  PROVE  DStep
  BY DEF DStep, Delivery!dvars, SameS, SameR, SameW, PS, PR, PW

LEMMA SimOffer ==
  ASSUME NEW x \in Xfer, PS(x) = "none", PS(x)' = "open", SameS(Xfer \ {x}), SameR(Xfer), SameW(Xfer)
  PROVE  DStep
<1>1. Delivery!Offer(x)
  BY DEF Delivery!Offer, SameS, SameR, SameW, PS, PR, PW
<1> QED
  BY <1>1 DEF DStep, Delivery!DNext

LEMMA SimAnnounce ==
  ASSUME NEW x \in Xfer, PS(x) # "none", PR(x) = "none", PR(x)' = "open",
         SameS(Xfer), SameR(Xfer \ {x}), SameW(Xfer)
  PROVE  DStep
<1>1. Delivery!Announce(x)
  BY DEF Delivery!Announce, SameS, SameR, SameW, PS, PR, PW
<1> QED
  BY <1>1 DEF DStep, Delivery!DNext

LEMMA SimWrite ==
  ASSUME NEW x \in Xfer, PR(x) = "open",
         PR(x)' = "open" \/ PR(x)' = (IF PW(x)' THEN "done" ELSE "failed"),
         SameS(Xfer), SameR(Xfer \ {x}), SameW(Xfer \ {x})
  PROVE  DStep
<1> DEFINE w == PW(x)'
<1>1. w \in BOOLEAN
  BY DEF PW, Intact
<1>2. Delivery!Write(x)
  <2>1. [y \in Xfer |-> PW(y)'] = [[y \in Xfer |-> PW(y)] EXCEPT ![x] = w]
    BY DEF SameW
  <2>2. \/ [y \in Xfer |-> PR(y)'] = [y \in Xfer |-> PR(y)]
        \/ [y \in Xfer |-> PR(y)'] =
             [[y \in Xfer |-> PR(y)] EXCEPT ![x] = IF w THEN "done" ELSE "failed"]
    BY DEF SameR
  <2>3. [y \in Xfer |-> PS(y)'] = [y \in Xfer |-> PS(y)]
    BY DEF SameS
  <2>4. [y \in Xfer |-> PR(y)][x] = "open"
    OBVIOUS
  <2> QED
    BY <1>1, <2>1, <2>2, <2>3, <2>4 DEF Delivery!Write, PS, PR, PW
<1> QED
  BY <1>2 DEF DStep, Delivery!DNext

LEMMA SimGiveUp ==
  ASSUME NEW x \in Xfer, PR(x) = "open", PR(x)' \in {"failed", "cancelled"},
         SameS(Xfer), SameR(Xfer \ {x}), SameW(Xfer)
  PROVE  DStep
<1>1. Delivery!GiveUp(x)
  BY DEF Delivery!GiveUp, SameS, SameR, SameW, PS, PR, PW
<1> QED
  BY <1>1 DEF DStep, Delivery!DNext

LEMMA SimLearn ==
  ASSUME NEW x \in Xfer, PS(x) = "open", PR(x) \in {"done", "failed", "cancelled"}, PS(x)' = PR(x),
         SameS(Xfer \ {x}), SameR(Xfer), SameW(Xfer)
  PROVE  DStep
<1>1. Delivery!Learn(x)
  BY DEF Delivery!Learn, Delivery!Final, SameS, SameR, SameW, PS, PR, PW
<1> QED
  BY <1>1 DEF DStep, Delivery!DNext

LEMMA SimCancelSend ==
  ASSUME NEW x \in Xfer, PS(x) = "open", PS(x)' = "cancelled",
         SameS(Xfer \ {x}), SameR(Xfer), SameW(Xfer)
  PROVE  DStep
<1>1. Delivery!CancelSend(x)
  BY DEF Delivery!CancelSend, SameS, SameR, SameW, PS, PR, PW
<1> QED
  BY <1>1 DEF DStep, Delivery!DNext
-----------------------------------------------------------------------------
(* What stays true of frames and dialogs when rows move *)

LEMMA AnswersKept ==
  ASSUME \A x \in Xfer : rdb[x] \in Terminal => rdb'[x] = rdb[x]
  PROVE  Answers \subseteq Answers'
<1> SUFFICES ASSUME NEW f \in FrameToS, TrueAnswer(f) PROVE TrueAnswer(f)'
  BY DEF Answers
<1>1. f.xfer \in Xfer
  BY DEF FrameToS
<1> QED
  BY <1>1 DEF TrueAnswer, Terminal

LEMMA NewsKept ==
  ASSUME NEW q \in Seq(News),
         \A x \in Xfer : sdb[x] # None => sdb'[x] # None,
         \A i \in 1 .. Len(q) : q[i].type = "file_offer" => rdb'[q[i].xfer] = rdb[q[i].xfer]
  PROVE  q \in Seq(News')
<1>1. ASSUME NEW i \in 1 .. Len(q) PROVE q[i] \in News'
  <2>1. q[i] \in FrameToR /\ NewOffer(q[i])
    BY DEF News
  <2>2. q[i].xfer \in Xfer
    BY <2>1 DEF FrameToR
  <2>3. NewOffer(q[i])'
    BY <2>1, <2>2 DEF NewOffer
  <2> QED
    BY <2>1, <2>3 DEF News
<1> QED
  BY <1>1, Elementwise

LEMMA DialogsKept ==
  ASSUME NEW q \in Seq(Dialog),
         \A i \in 1 .. Len(q) : LET x == q[i].xfer IN
           /\ rdb'[x] \in Open
           /\ in[x] # None /\ ~in[x].open => in'[x] # None /\ ~in'[x].open
  PROVE  q \in Seq(Dialog')
<1>1. ASSUME NEW i \in 1 .. Len(q) PROVE q[i] \in Dialog'
  BY DEF Dialog, Waits
<1> QED
  BY <1>1, Elementwise
-----------------------------------------------------------------------------
(* The sender's steps *)


\* A step of the sender keeps the invariant when its own table stays in order and
\* what it writes is true.
LEMMA SenderStep ==
  ASSUME TransferInv, UNCHANGED <<in, rdb, disk, asking>>,
         out' \in [Xfer -> Open \cup {None}], sdb' \in [Xfer -> Row \cup {None}], unheard' \in Nat,
         \A x \in Xfer : /\ out'[x] # None => sdb'[x] \in Open
                         /\ sdb[x] # None => sdb'[x] # None,
         toS' = toS \/ (toS # <<>> /\ toS' = Tail(toS)),
         toR' \in Seq(News'), OfferedOnce(toR')
  PROVE  TransferInv'
<1>1. TablesOK' /\ Held'
  BY DEF TransferInv, TablesOK, Held
<1>2. toS' \in Seq(Answers')
  <2>1. toS' \in Seq(Answers)
    BY TailOf DEF TransferInv
  <2>2. Answers \subseteq Answers'
    BY AnswersKept
  <2> QED
    BY <2>1, <2>2, Wider
<1>3. asking' \in Seq(Dialog') /\ AskedOnce(asking')
  BY DEF TransferInv, Dialog, Waits, AskedOnce
<1> QED
  BY <1>1, <1>2, <1>3 DEF TransferInv, OfferedOnce

\* Offers on their way stay news while the receiver's table does not move.
LEMMA NewsStays ==
  ASSUME TransferInv, rdb' = rdb, \A x \in Xfer : sdb[x] # None => sdb'[x] # None
  PROVE  toR \in Seq(News') /\ OfferedOnce(toR)
  BY NewsKept DEF TransferInv

LEMMA StepQueueOutgoing ==
  ASSUME TransferInv, NEW x \in Xfer, QueueOutgoing(x)
  PROVE  TransferInv' /\ DStep
<1> DEFINE f == Msg("file_offer", x)
<1>1. /\ up /\ sdb[x] = None
      /\ out' = [out EXCEPT ![x] = "Pending"] /\ sdb' = [sdb EXCEPT ![x] = "Pending"]
      /\ toR' = toR \o <<f>> /\ unheard' = 0
      /\ UNCHANGED <<in, rdb, disk, asking>> /\ toS' = toS
  BY DEF QueueOutgoing, SendToR, receiverVars
<1>2. TablesOK /\ Held /\ rdb[x] = None
  BY <1>1 DEF TransferInv, Held
<1>3. /\ out' \in [Xfer -> Open \cup {None}] /\ sdb' \in [Xfer -> Row \cup {None}]
      /\ sdb'[x] = "Pending" /\ \A y \in Xfer \ {x} : sdb'[y] = sdb[y] /\ out'[y] = out[y]
  BY <1>1, <1>2 DEF TablesOK, Open, Row
<1>4. "Pending" # None /\ "Pending" \in Open
  BY Phases DEF Row, Open
<1>5. \A y \in Xfer : /\ out'[y] # None => sdb'[y] \in Open
                      /\ sdb[y] # None => sdb'[y] # None
  BY <1>2, <1>3, <1>4 DEF Held
<1>6. toR \in Seq(News') /\ OfferedOnce(toR)
  BY <1>1, <1>5, NewsStays
<1>7. f \in FrameToR /\ f.type = "file_offer" /\ f.xfer = x
  BY DEF Msg, FrameToR
<1>8. f \in News'
  BY <1>1, <1>2, <1>3, <1>4, <1>7 DEF News, NewOffer
<1>9. toR' \in Seq(News')
  BY <1>1, <1>6, <1>8, One, Extended
<1>10. OfferedOnce(toR')
  <2>1. toR \in Seq(FrameToR) /\ <<f>> \in Seq(FrameToR)
    <3>1. News \subseteq FrameToR
      BY DEF News
    <3> QED
      BY <1>7, <3>1, One, Wider DEF TransferInv
  <2>2. OfferedOnce(<<f>>) /\ Len(<<f>>) = 1 /\ <<f>>[1] = f
    BY DEF OfferedOnce
  <2>3. ASSUME NEW i \in 1 .. Len(toR), toR[i].type = "file_offer" PROVE toR[i].xfer # x
    <3>1. toR[i] \in News
      BY DEF TransferInv
    <3> QED
      BY <1>1, <2>3, <3>1 DEF News, NewOffer
  <2>4. \A i \in 1 .. Len(toR), j \in 1 .. Len(<<f>>) :
          toR[i].type = "file_offer" /\ <<f>>[j].type = "file_offer" => toR[i].xfer # <<f>>[j].xfer
    BY <1>7, <2>2, <2>3
  <2> HIDE DEF f
  <2> QED
    BY <1>1, <1>6, <2>1, <2>2, <2>4, OnceMore
<1>11. TransferInv'
  BY <1>1, <1>3, <1>5, <1>9, <1>10, SenderStep
<1>12. DStep
  <2>1. PS(x) = "none" /\ PS(x)' = "open" /\ SameS(Xfer \ {x}) /\ SameR(Xfer) /\ SameW(Xfer)
    BY <1>1, <1>3, <1>4, Phases DEF PS, PR, PW, SameS, SameR, SameW
  <2> QED
    BY <2>1, SimOffer
<1> QED
  BY <1>11, <1>12

LEMMA StepCancelOutgoing ==
  ASSUME TransferInv, NEW x \in Xfer, CancelOutgoing(x)
  PROVE  TransferInv' /\ DStep
<1>1. /\ out[x] # None
      /\ out' = [out EXCEPT ![x] = None] /\ sdb' = [sdb EXCEPT ![x] = "Cancelled"]
      /\ UNCHANGED <<in, rdb, disk, asking, unheard, toS, toR>>
  BY DEF CancelOutgoing, receiverVars, dialogVars, linkVars
<1>2. TablesOK /\ Held /\ sdb[x] \in Open
  BY <1>1 DEF TransferInv, Held
<1>3. /\ out' \in [Xfer -> Open \cup {None}] /\ sdb' \in [Xfer -> Row \cup {None}]
      /\ sdb'[x] = "Cancelled" /\ out'[x] = None
      /\ \A y \in Xfer \ {x} : sdb'[y] = sdb[y] /\ out'[y] = out[y]
  BY <1>1, <1>2 DEF TablesOK, Row
<1>4. \A y \in Xfer : /\ out'[y] # None => sdb'[y] \in Open
                      /\ sdb[y] # None => sdb'[y] # None
  BY <1>2, <1>3, Phases DEF Held, Row
<1>5. TransferInv'
  <2>1. unheard' \in Nat
    BY <1>1, <1>2 DEF TablesOK
  <2> QED
    BY <1>1, <1>3, <1>4, <2>1, NewsStays, SenderStep
<1>6. DStep
  <2>1. PS(x) = "open" /\ PS(x)' = "cancelled" /\ SameS(Xfer \ {x}) /\ SameR(Xfer) /\ SameW(Xfer)
    BY <1>1, <1>2, <1>3, Phases DEF PS, PR, PW, SameS, SameR, SameW
  <2> QED
    BY <2>1, SimCancelSend
<1> QED
  BY <1>5, <1>6

\* The sender's steps that leave each row where it is, or move an open one to
\* another state that is open.
LEMMA OpenStaysOpen ==
  ASSUME TransferInv, UNCHANGED <<in, rdb, disk, asking>>, NEW x \in Xfer,
         NEW v \in Open, NEW w \in Open,
         \/ out' = out /\ sdb' = sdb
         \/ out[x] # None /\ out' = [out EXCEPT ![x] = v] /\ sdb' = sdb
         \/ out[x] # None /\ out' = out /\ sdb' = [sdb EXCEPT ![x] = w]
         \/ out[x] # None /\ out' = [out EXCEPT ![x] = v] /\ sdb' = [sdb EXCEPT ![x] = w],
         toS' = toS \/ (toS # <<>> /\ toS' = Tail(toS)),
         unheard' \in Nat,
         toR' = toR \/ \E p \in Seq(FrameToR) :
           toR' = toR \o p /\ \A i \in 1 .. Len(p) : p[i].type # "file_offer"
  PROVE  TransferInv' /\ DStep
<1>1. TablesOK /\ Held /\ Open \subseteq Row
  BY DEF TransferInv, Open, Row
<1>2. out' \in [Xfer -> Open \cup {None}] /\ sdb' \in [Xfer -> Row \cup {None}]
  BY <1>1 DEF TablesOK
<1>3. \A y \in Xfer : sdb'[y] = sdb[y] \/ (sdb[y] \in Open /\ sdb'[y] \in Open)
  BY <1>1 DEF TablesOK, Held
<1>4. \A y \in Xfer : /\ out'[y] # None => sdb'[y] \in Open
                      /\ sdb[y] # None => sdb'[y] # None
  BY <1>1, <1>3, Phases DEF TablesOK, Held
<1>5. toR \in Seq(News') /\ OfferedOnce(toR)
  BY <1>4, NewsStays
<1>6. toR' \in Seq(News') /\ OfferedOnce(toR')
  <2> SUFFICES ASSUME NEW p \in Seq(FrameToR), toR' = toR \o p,
                      \A i \in 1 .. Len(p) : p[i].type # "file_offer"
               PROVE  toR' \in Seq(News') /\ OfferedOnce(toR')
    BY <1>5 DEF OfferedOnce
  <2>1. p \in Seq(News')
    <3>1. ASSUME NEW i \in 1 .. Len(p) PROVE p[i] \in News'
      <4>1. p[i] \in FrameToR /\ p[i].type # "file_offer"
        OBVIOUS
      <4>2. NewOffer(p[i])'
        BY <4>1 DEF NewOffer
      <4> QED
        BY <4>1, <4>2 DEF News
    <3> QED
      BY <3>1, Elementwise
  <2>2. toR' \in Seq(News')
    BY <1>5, <2>1, Extended
  <2>3. toR \in Seq(FrameToR)
    <3>1. News \subseteq FrameToR
      BY DEF News
    <3> QED
      BY <3>1, Wider DEF TransferInv
  <2>4. OfferedOnce(p)
    BY DEF OfferedOnce
  <2>5. OfferedOnce(toR \o p)
    BY <1>5, <2>3, <2>4, OnceMore
  <2> QED
    BY <2>2, <2>5
<1>7. TransferInv'
  BY <1>2, <1>4, <1>6, SenderStep
<1>8. SameS(Xfer) /\ SameR(Xfer) /\ SameW(Xfer)
  BY <1>3, Phases DEF PS, PR, PW, SameS, SameR, SameW
<1> QED
  BY <1>7, <1>8, SimStutter

LEMMA HeadAnswer ==
  ASSUME TransferInv, NEW type, SenderReads(type)
  PROVE  /\ toS # <<>> /\ Head(toS).type = type /\ Head(toS).xfer \in Xfer
         /\ TrueAnswer(Head(toS))
         /\ type = "file_complete" => Head(toS).ok \in BOOLEAN
         /\ type = "file_chunk_req" => Head(toS).index \in Int
<1>1. toS # <<>> /\ Head(toS).type = type
  BY DEF SenderReads
<1>2. Head(toS) \in Answers
  BY <1>1, TailOf DEF TransferInv
<1>3. Head(toS) \in FrameToS /\ TrueAnswer(Head(toS))
  BY <1>2 DEF Answers
<1> QED
  BY <1>1, <1>3 DEF FrameToS

LEMMA StepPauseOutgoing ==
  ASSUME TransferInv, NEW x \in Xfer, PauseOutgoing(x)
  PROVE  TransferInv' /\ DStep
<1>1. /\ out[x] # None /\ "Paused" \in Open
      /\ out' = [out EXCEPT ![x] = "Paused"] /\ sdb' = [sdb EXCEPT ![x] = "Paused"]
      /\ UNCHANGED <<in, rdb, disk, asking, unheard, toS, toR>>
  BY DEF PauseOutgoing, receiverVars, dialogVars, linkVars, Open
<1>2. unheard' \in Nat
  BY <1>1 DEF TransferInv, TablesOK
<1> QED
  BY <1>1, <1>2, OpenStaysOpen

LEMMA StepAccept ==
  ASSUME TransferInv, OnAccept
  PROVE  TransferInv' /\ DStep
<1> DEFINE x == Head(toS).xfer
<1>1. x \in Xfer /\ toS # <<>>
  BY HeadAnswer DEF OnAccept
<1>2. /\ UNCHANGED <<in, rdb, disk, asking, unheard, toR>> /\ toS' = Tail(toS)
      /\ \/ out' = out /\ sdb' = sdb
         \/ /\ out[x] # None
            /\ out' = [out EXCEPT ![x] = "Active"] /\ sdb' = [sdb EXCEPT ![x] = "Active"]
  BY DEF OnAccept, Update, SenderConsumes, senderVars, receiverVars
<1>3. unheard' \in Nat /\ "Active" \in Open
  BY <1>2 DEF TransferInv, TablesOK, Open
<1> HIDE DEF x
<1> QED
  BY <1>1, <1>2, <1>3, OpenStaysOpen

LEMMA StepChunkReq ==
  ASSUME TransferInv, OnChunkReq
  PROVE  TransferInv' /\ DStep
<1> DEFINE x == Head(toS).xfer
           i == Head(toS).index
           p == Answer(x, i)
<1>1. x \in Xfer /\ toS # <<>> /\ i \in Int
  BY HeadAnswer DEF OnChunkReq
<1>2. /\ UNCHANGED <<in, rdb, disk, asking>> /\ toS' = Tail(toS) /\ out' = out
      /\ \/ sdb' = sdb /\ toR' = toR /\ unheard' = unheard
         \/ /\ out[x] # None /\ sdb' = [sdb EXCEPT ![x] = "Active"] /\ SendToR(p)
  BY DEF OnChunkReq, SenderConsumes, senderVars, receiverVars
<1>3. /\ p \in Seq(FrameToR) /\ \A k \in 1 .. Len(p) : p[k].type # "file_offer"
  <2>1. /\ Chunk("file_chunk_meta", x, i) \in FrameToR /\ Chunk("chunk", x, i) \in FrameToR
        /\ Chunk("file_chunk_meta", x, i).type # "file_offer" /\ Chunk("chunk", x, i).type # "file_offer"
    BY <1>1 DEF Chunk, FrameToR
  <2>2. p = <<Chunk("file_chunk_meta", x, i), Chunk("chunk", x, i)>>
    BY DEF Answer
  <2> HIDE DEF p
  <2> QED
    BY <2>1, <2>2, Two
<1> HIDE DEF x, i, p
<1>4. unheard' \in Nat /\ "Active" \in Open
  BY <1>2 DEF TransferInv, TablesOK, Open, SendToR
<1>5. toR' = toR \/ toR' = toR \o p
  BY <1>2 DEF SendToR
<1> QED
  BY <1>1, <1>2, <1>3, <1>4, <1>5, OpenStaysOpen

LEMMA StepPauseOrResume ==
  ASSUME TransferInv, OnPauseOrResume
  PROVE  TransferInv' /\ DStep
<1> DEFINE x == Head(toS).xfer
<1>1. x \in Xfer /\ toS # <<>>
  BY HeadAnswer DEF OnPauseOrResume
<1>2. /\ UNCHANGED <<in, rdb, disk, asking, sdb, unheard, toR>> /\ toS' = Tail(toS)
      /\ \/ out' = out
         \/ out[x] # None /\ \E v \in {"Paused", "Active"} : out' = [out EXCEPT ![x] = v]
  BY DEF OnPauseOrResume, SenderConsumes, receiverVars
<1>3. unheard' \in Nat /\ {"Paused", "Active"} \subseteq Open
  BY <1>2 DEF TransferInv, TablesOK, Open
<1> HIDE DEF x
<1> QED
  BY <1>1, <1>2, <1>3, OpenStaysOpen

\* The sender takes over a verdict: file_reject and file_complete.
LEMMA StepLearn ==
  ASSUME TransferInv, NEW x \in Xfer, NEW v \in Terminal, rdb[x] = v, Finish(x, v),
         toS # <<>>, toS' = Tail(toS), UNCHANGED <<in, rdb, disk, asking, unheard, toR>>
  PROVE  TransferInv' /\ DStep
<1>1. CASE out[x] = None
  <2>1. UNCHANGED <<out, sdb>> /\ unheard' \in Nat /\ "Active" \in Open
    BY <1>1 DEF Finish, senderVars, TransferInv, TablesOK, Open
  <2> QED
    BY <2>1, OpenStaysOpen
<1>2. CASE out[x] # None
  <2>1. out' = [out EXCEPT ![x] = None] /\ sdb' = [sdb EXCEPT ![x] = v]
    BY <1>2 DEF Finish
  <2>2. TablesOK /\ Held /\ sdb[x] \in Open /\ v \in Row /\ unheard' \in Nat
    BY <1>2 DEF TransferInv, Held, Terminal, Row, TablesOK
  <2>3. /\ out' \in [Xfer -> Open \cup {None}] /\ sdb' \in [Xfer -> Row \cup {None}]
        /\ sdb'[x] = v /\ out'[x] = None
        /\ \A y \in Xfer \ {x} : sdb'[y] = sdb[y] /\ out'[y] = out[y]
    BY <2>1, <2>2 DEF TablesOK
  <2>4. \A y \in Xfer : /\ out'[y] # None => sdb'[y] \in Open
                        /\ sdb[y] # None => sdb'[y] # None
    BY <2>2, <2>3, Phases DEF Held
  <2>5. TransferInv'
    BY <2>2, <2>3, <2>4, NewsStays, SenderStep
  <2>6. PS(x) = "open" /\ PR(x) \in {"done", "failed", "cancelled"} /\ PS(x)' = PR(x)
    BY <2>2, <2>3, Phases DEF PS, PR, Terminal
  <2>7. SameS(Xfer \ {x}) /\ SameR(Xfer) /\ SameW(Xfer)
    BY <2>3 DEF PS, PR, PW, SameS, SameR, SameW
  <2>8. DStep
    BY <2>6, <2>7, SimLearn
  <2> QED
    BY <2>5, <2>8
<1> QED
  BY <1>1, <1>2

LEMMA StepReject ==
  ASSUME TransferInv, OnReject
  PROVE  TransferInv' /\ DStep
<1> DEFINE x == Head(toS).xfer
<1>1. x \in Xfer /\ toS # <<>> /\ rdb[x] = "Cancelled"
  BY HeadAnswer DEF OnReject, TrueAnswer
<1>2. /\ Finish(x, "Cancelled") /\ toS' = Tail(toS)
      /\ UNCHANGED <<in, rdb, disk, asking, unheard, toR>>
  BY DEF OnReject, SenderConsumes, receiverVars
<1>3. "Cancelled" \in Terminal
  BY DEF Terminal
<1> HIDE DEF x
<1> QED
  BY <1>1, <1>2, <1>3, StepLearn

LEMMA StepComplete ==
  ASSUME TransferInv, OnComplete
  PROVE  TransferInv' /\ DStep
<1> DEFINE x == Head(toS).xfer
           v == IF Head(toS).ok THEN "Done" ELSE "Failed"
<1>1. x \in Xfer /\ toS # <<>> /\ rdb[x] = v
  BY HeadAnswer DEF OnComplete, TrueAnswer
<1>2. /\ Finish(x, v) /\ toS' = Tail(toS)
      /\ UNCHANGED <<in, rdb, disk, asking, unheard, toR>>
  BY DEF OnComplete, SenderConsumes, receiverVars
<1>3. v \in Terminal
  BY DEF Terminal
<1> HIDE DEF x, v
<1> QED
  BY <1>1, <1>2, <1>3, StepLearn
-----------------------------------------------------------------------------
(* The receiver's steps *)

LEMMA HeadNews ==
  ASSUME TransferInv, NEW type, ReceiverReads(type)
  PROVE  /\ toR # <<>> /\ Head(toR).type = type /\ Head(toR).xfer \in Xfer
         /\ NewOffer(Head(toR))
         /\ type \in {"file_chunk_meta", "chunk"} => Head(toR).index \in Int
<1>1. toR # <<>> /\ Head(toR).type = type
  BY DEF ReceiverReads, TransferInv, TablesOK
<1>2. Head(toR) \in News
  BY <1>1, TailOf DEF TransferInv
<1>3. Head(toR) \in FrameToR /\ NewOffer(Head(toR))
  BY <1>2 DEF News
<1> QED
  BY <1>1, <1>3 DEF FrameToR

LEMMA AskedTail ==
  ASSUME NEW A, NEW q \in Seq(A), q # <<>>, AskedOnce(q)
  PROVE  /\ AskedOnce(Tail(q))
         /\ \A i \in 1 .. Len(Tail(q)) : Tail(q)[i].xfer # Head(q).xfer
<1>1. AskedOnce(Tail(q))
  <2> SUFFICES ASSUME NEW i \in 1 .. Len(Tail(q)), NEW j \in 1 .. Len(Tail(q)), i < j
               PROVE  Tail(q)[i].xfer # Tail(q)[j].xfer
    BY DEF AskedOnce
  <2>1. i + 1 \in 1 .. Len(q) /\ j + 1 \in 1 .. Len(q) /\ i + 1 < j + 1
    BY TailOf
  <2>2. q[i + 1] = Tail(q)[i] /\ q[j + 1] = Tail(q)[j]
    BY TailOf
  <2> QED
    BY <2>1, <2>2 DEF AskedOnce
<1>2. ASSUME NEW i \in 1 .. Len(Tail(q))
      PROVE  Tail(q)[i].xfer # Head(q).xfer
  <2>1. 1 \in 1 .. Len(q) /\ i + 1 \in 1 .. Len(q) /\ 1 < i + 1
    BY TailOf
  <2>2. q[1] = Head(q) /\ q[i + 1] = Tail(q)[i]
    BY TailOf
  <2> QED
    BY <2>1, <2>2 DEF AskedOnce
<1> QED
  BY <1>1, <1>2

LEMMA TopDialog ==
  ASSUME TransferInv, asking # <<>>
  PROVE  LET x == asking[1].xfer IN
         /\ x \in Xfer /\ rdb[x] \in Open /\ in[x] # None /\ ~in[x].open
         /\ Tail(asking) \in Seq(Dialog) /\ AskedOnce(Tail(asking))
         /\ \A i \in 1 .. Len(Tail(asking)) : Tail(asking)[i].xfer # x
<1>1. asking \in Seq(Dialog) /\ AskedOnce(asking)
  BY DEF TransferInv
<1>2. asking[1] \in Dialog /\ Tail(asking) \in Seq(Dialog) /\ asking[1] = Head(asking)
  BY <1>1, TailOf
<1>3. asking[1].xfer \in Xfer /\ Waits(asking[1])
  BY <1>2 DEF Dialog
<1> QED
  BY <1>1, <1>2, <1>3, AskedTail DEF Waits

\* A step of the receiver that moves only rows that are open keeps the invariant
\* when its own table and dialogs stay in order and what it answers is true.
LEMMA ReceiverStep ==
  ASSUME TransferInv, UNCHANGED <<out, sdb>>,
         rdb' \in [Xfer -> Row \cup {None}], in' \in [Xfer -> Tracked \cup {None}],
         DOMAIN disk' = Xfer, unheard' \in Nat,
         \A x \in Xfer : /\ rdb'[x] = rdb[x] \/ rdb[x] \in Open
                         /\ in'[x] # None => rdb'[x] \in Open,
         toS' = toS \/ (\E p \in Seq(Answers') : toS' = toS \o p),
         toR' = toR \/ (toR # <<>> /\ toR' = Tail(toR)),
         asking' \in Seq(Dialog'), AskedOnce(asking')
  PROVE  TransferInv'
<1>1. TablesOK /\ Held /\ None \notin Open
  BY Phases DEF TransferInv, Open, Row
<1>2. TablesOK' /\ Held'
  BY <1>1 DEF TablesOK, Held
<1>3. toS' \in Seq(Answers')
  <2>1. \A x \in Xfer : rdb[x] \in Terminal => rdb'[x] = rdb[x]
    BY DEF Terminal, Open
  <2>2. Answers \subseteq Answers'
    BY <2>1, AnswersKept
  <2>3. toS \in Seq(Answers')
    BY <2>2, Wider DEF TransferInv
  <2> QED
    BY <2>3, Extended
<1>4. toR' \in Seq(News') /\ OfferedOnce(toR')
  <2>1. toR' \in Seq(News) /\ OfferedOnce(toR')
    <3>1. toR \in Seq(News) /\ OfferedOnce(toR)
      BY DEF TransferInv
    <3>2. CASE toR' = toR
      BY <3>1, <3>2
    <3>3. CASE toR # <<>> /\ toR' = Tail(toR)
      BY <3>1, <3>3, TailOf, OnceTail
    <3> QED
      BY <3>2, <3>3
  <2>2. ASSUME NEW i \in 1 .. Len(toR'), toR'[i].type = "file_offer"
        PROVE  rdb'[toR'[i].xfer] = rdb[toR'[i].xfer]
    <3>1. toR'[i] \in FrameToR /\ NewOffer(toR'[i])
      BY <2>1 DEF News
    <3>2. toR'[i].xfer \in Xfer /\ rdb[toR'[i].xfer] = None
      BY <2>2, <3>1 DEF FrameToR, NewOffer
    <3> QED
      BY <1>1, <3>2
  <2>3. \A x \in Xfer : sdb[x] # None => sdb'[x] # None
    OBVIOUS
  <2> DEFINE q == toR'
  <2>4. q \in Seq(News) /\ \A i \in 1 .. Len(q) : q[i].type = "file_offer" => rdb'[q[i].xfer] = rdb[q[i].xfer]
    BY <2>1, <2>2
  <2> HIDE DEF q
  <2>5. q \in Seq(News')
    BY <2>3, <2>4, NewsKept
  <2> QED
    BY <2>1, <2>5 DEF q
<1> QED
  BY <1>2, <1>3, <1>4 DEF TransferInv, OfferedOnce, AskedOnce

LEMMA StepOffer ==
  ASSUME TransferInv, OnOffer
  PROVE  TransferInv' /\ DStep
<1>1. PICK x \in Xfer : /\ x = Head(toR).xfer /\ toR # <<>> /\ Head(toR).type = "file_offer"
                       /\ sdb[x] # None /\ rdb[x] = None
  BY HeadNews DEF OnOffer, NewOffer
<1> DEFINE d == [xfer |-> x, live |-> TRUE]
<1>2. /\ in' = [in EXCEPT ![x] = Incoming] /\ rdb' = [rdb EXCEPT ![x] = "Pending"]
      /\ asking' = <<d>> \o asking /\ toR' = Tail(toR)
      /\ UNCHANGED <<out, sdb, disk, toS, unheard>>
  BY <1>1 DEF OnOffer, ReceiverConsumes, senderVars
<1>3. TablesOK /\ Held /\ None \notin Open /\ "Pending" \in Open /\ Open \subseteq Row
  BY Phases DEF TransferInv, Open, Row
<1>4. Incoming \in Tracked /\ Incoming # None /\ Incoming.open = FALSE
  <2>1. Incoming \in Tracked /\ Incoming.open = FALSE
    BY DEF Incoming, Tracked, Row, Terminal
  <2> QED
    BY <2>1, SizesAssumption
<1>5. /\ in' \in [Xfer -> Tracked \cup {None}] /\ rdb' \in [Xfer -> Row \cup {None}]
      /\ in'[x] = Incoming /\ rdb'[x] = "Pending"
      /\ \A y \in Xfer \ {x} : in'[y] = in[y] /\ rdb'[y] = rdb[y]
  BY <1>1, <1>2, <1>3, <1>4 DEF TablesOK
<1>6. TablesOK' /\ Held'
  BY <1>1, <1>2, <1>3, <1>5 DEF TablesOK, Held
<1>7. toS' \in Seq(Answers')
  <2>1. \A y \in Xfer : rdb[y] \in Terminal => rdb'[y] = rdb[y]
    BY <1>1, <1>5, Phases DEF Terminal, Row
  <2>2. Answers \subseteq Answers'
    BY <2>1, AnswersKept
  <2> QED
    BY <1>2, <2>2, Wider DEF TransferInv
<1>8. toR' \in Seq(News') /\ OfferedOnce(toR')
  <2> DEFINE q == Tail(toR)
  <2>1. toR \in Seq(News) /\ OfferedOnce(toR)
    BY DEF TransferInv
  <2>2. /\ q \in Seq(News) /\ OfferedOnce(q)
        /\ \A i \in 1 .. Len(q) : q[i].type = "file_offer" => q[i].xfer # x
    BY <1>1, <2>1, TailOf, OnceTail
  <2> HIDE DEF q
  <2>3. ASSUME NEW i \in 1 .. Len(q), q[i].type = "file_offer" PROVE rdb'[q[i].xfer] = rdb[q[i].xfer]
    <3>1. q[i].xfer \in Xfer \ {x}
      <4>1. q[i] \in News
        BY <2>2
      <4> QED
        BY <2>2, <2>3, <4>1 DEF News, FrameToR
    <3> QED
      BY <1>5, <3>1
  <2>4. \A y \in Xfer : sdb[y] # None => sdb'[y] # None
    BY <1>2
  <2>5. q \in Seq(News')
    BY <2>2, <2>3, <2>4, NewsKept
  <2> QED
    BY <1>2, <2>2, <2>5 DEF q
<1>9. ASSUME NEW i \in 1 .. Len(asking) PROVE asking[i].xfer \in Xfer \ {x}
  <2>1. asking[i] \in Dialog
    BY DEF TransferInv
  <2> QED
    BY <1>1, <1>3, <2>1 DEF Dialog, Waits
<1>10. asking' \in Seq(Dialog')
  <2>1. d \in Dialog'
    BY <1>1, <1>3, <1>4, <1>5 DEF Dialog, Waits
  <2>2. asking \in Seq(Dialog')
    <3>1. ASSUME NEW i \in 1 .. Len(asking) PROVE asking[i] \in Dialog'
      <4>1. asking[i] \in Dialog /\ asking[i].xfer \in Xfer \ {x}
        BY <1>9 DEF TransferInv
      <4> QED
        BY <1>5, <4>1 DEF Dialog, Waits
    <3>2. asking \in Seq(Dialog)
      BY DEF TransferInv
    <3> QED
      BY <3>1, <3>2, Elementwise
  <2> HIDE DEF d
  <2> QED
    BY <1>2, <2>1, <2>2, One, Extended
<1>11. AskedOnce(asking')
  <2>1. asking \in Seq(Dialog) /\ AskedOnce(asking)
    BY DEF TransferInv
  <2>2. d.xfer = x
    OBVIOUS
  <2> HIDE DEF d
  <2> DEFINE q == <<d>> \o asking
  <2>3. /\ Len(q) = Len(asking) + 1 /\ Len(asking) \in Nat /\ q[1] = d
        /\ \A i \in 2 .. Len(q) : q[i] = asking[i - 1] /\ i - 1 \in 1 .. Len(asking)
    BY <2>1
  <2> HIDE DEF q
  <2>4. AskedOnce(q)
    <3> SUFFICES ASSUME NEW i \in 1 .. Len(q), NEW j \in 1 .. Len(q), i < j
                 PROVE  q[i].xfer # q[j].xfer
      BY DEF AskedOnce
    <3>1. j \in 2 .. Len(q) /\ (i = 1 \/ i \in 2 .. Len(q))
      BY <2>3
    <3>2. CASE i = 1
      BY <1>9, <2>2, <2>3, <3>1, <3>2
    <3>3. CASE i \in 2 .. Len(q)
      <4>1. /\ q[i] = asking[i - 1] /\ q[j] = asking[j - 1] /\ i - 1 < j - 1
            /\ i - 1 \in 1 .. Len(asking) /\ j - 1 \in 1 .. Len(asking)
        BY <2>3, <3>1, <3>3
      <4> QED
        BY <2>1, <4>1 DEF AskedOnce
    <3> QED
      BY <3>1, <3>2, <3>3
  <2> QED
    BY <1>2, <2>4 DEF q
<1>12. TransferInv'
  BY <1>6, <1>7, <1>8, <1>10, <1>11 DEF TransferInv, OfferedOnce, AskedOnce
<1>13. DStep
  <2>1. /\ PS(x) # "none" /\ PR(x) = "none" /\ PR(x)' = "open"
    <3>1. sdb[x] \in Row
      BY <1>1, <1>3 DEF TablesOK
    <3>2. PS(x) # "none"
      BY <3>1, Phases DEF PS, Open, Row
    <3> QED
      BY <1>1, <1>3, <1>5, <3>2, Phases DEF PR
  <2>2. SameS(Xfer) /\ SameR(Xfer \ {x}) /\ SameW(Xfer)
    BY <1>2, <1>5 DEF PS, PR, PW, SameS, SameR, SameW
  <2> QED
    BY <1>1, <2>1, <2>2, SimAnnounce
<1> QED
  BY <1>12, <1>13

LEMMA SimOpenRow ==
  ASSUME NEW x \in Xfer, NEW r, PR(x) = "open", PR(x)' = Phase(r),
         SameS(Xfer), SameR(Xfer \ {x}), SameW(Xfer \ {x}),
         r \in Open \/ r \in {"Failed", "Cancelled"} \/ r = (IF PW(x)' THEN "Done" ELSE "Failed"),
         r \in {"Failed", "Cancelled"} => SameW(Xfer) \/ r = (IF PW(x)' THEN "Done" ELSE "Failed")
  PROVE  DStep
<1>1. CASE r \in Open
  <2>1. PR(x)' = "open"
    BY <1>1, Phases
  <2> QED
    BY <2>1, SimWrite
<1>2. CASE r = (IF PW(x)' THEN "Done" ELSE "Failed")
  <2>1. PR(x)' = (IF PW(x)' THEN "done" ELSE "failed")
    BY <1>2, Phases
  <2> QED
    BY <2>1, SimWrite
<1>3. CASE r \in {"Failed", "Cancelled"} /\ SameW(Xfer)
  <2>1. PR(x)' \in {"failed", "cancelled"}
    BY <1>3, Phases
  <2> QED
    BY <1>3, <2>1, SimGiveUp
<1> QED
  BY <1>1, <1>2, <1>3

\* The row of x, which is open, moves, with what the receiver keeps of x and
\* with its file.
LEMMA OpenRowMoves ==
  ASSUME TransferInv, UNCHANGED <<out, sdb>>, NEW x \in Xfer, rdb[x] \in Open,
         NEW r \in Row, rdb' = [rdb EXCEPT ![x] = r],
         NEW t \in Tracked \cup {None}, in' = [in EXCEPT ![x] = t], t = None \/ r \in Open,
         DOMAIN disk' = Xfer, \A y \in Xfer \ {x} : disk'[y] = disk[y],
         \/ r \in Open
         \/ r \in {"Failed", "Cancelled"} /\ disk'[x] = disk[x]
         \/ r = (IF Intact(x, disk'[x]) THEN "Done" ELSE "Failed"),
         unheard' \in Nat,
         toS' = toS \/ (\E p \in Seq(Answers') : toS' = toS \o p),
         toR' = toR \/ (toR # <<>> /\ toR' = Tail(toR)),
         asking' \in Seq(Dialog), AskedOnce(asking'),
         \A i \in 1 .. Len(asking') :
           asking'[i].xfer # x \/ (r \in Open /\ t # None /\ t.open = in[x].open)
  PROVE  TransferInv' /\ DStep
<1>1. TablesOK /\ Held
  BY DEF TransferInv
<1>2. /\ in' \in [Xfer -> Tracked \cup {None}] /\ rdb' \in [Xfer -> Row \cup {None}]
      /\ in'[x] = t /\ rdb'[x] = r
      /\ \A y \in Xfer \ {x} : in'[y] = in[y] /\ rdb'[y] = rdb[y]
  BY <1>1 DEF TablesOK
<1>3. \A y \in Xfer : /\ rdb'[y] = rdb[y] \/ rdb[y] \in Open
                      /\ in'[y] # None => rdb'[y] \in Open
  BY <1>1, <1>2 DEF Held
<1>4. asking' \in Seq(Dialog')
  <2> DEFINE q == asking'
  <2>1. ASSUME NEW i \in 1 .. Len(q) PROVE q[i] \in Dialog'
    <3>1. q[i] \in Dialog /\ q[i].xfer \in Xfer /\ Waits(q[i])
      BY DEF Dialog
    <3>2. CASE q[i].xfer # x
      BY <1>2, <3>1, <3>2 DEF Dialog, Waits
    <3>3. CASE q[i].xfer = x /\ r \in Open /\ t # None /\ t.open = in[x].open
      BY <1>2, <3>1, <3>3 DEF Dialog, Waits
    <3> QED
      BY <3>2, <3>3
  <2>2. q \in Seq(Dialog)
    OBVIOUS
  <2> HIDE DEF q
  <2>3. q \in Seq(Dialog')
    BY <2>1, <2>2, Elementwise
  <2> QED
    BY <2>3 DEF q
<1>5. TransferInv'
  BY <1>2, <1>3, <1>4, ReceiverStep
<1>6. PR(x) = "open" /\ PR(x)' = Phase(r) /\ SameS(Xfer) /\ SameR(Xfer \ {x}) /\ SameW(Xfer \ {x})
  BY <1>2, Phases DEF PS, PR, PW, SameS, SameR, SameW
<1>7. r \in {"Failed", "Cancelled"} => SameW(Xfer) \/ r = (IF PW(x)' THEN "Done" ELSE "Failed")
  BY <1>6 DEF SameW, PW, Open
<1>8. r \in Open \/ r \in {"Failed", "Cancelled"} \/ r = (IF PW(x)' THEN "Done" ELSE "Failed")
  BY DEF PW
<1>9. DStep
  BY <1>6, <1>7, <1>8, SimOpenRow
<1> QED
  BY <1>5, <1>9

\* Frames to the sender that give no verdict are never false.
LEMMA NoVerdict ==
  ASSUME NEW x \in Xfer, NEW n \in Int
  PROVE  /\ \A type \in {"file_accept", "file_pause", "file_resume"} : Msg(type, x) \in Answers'
         /\ Request(x, n) \in Answers'
  BY DEF Msg, Request, Chunk, Answers, TrueAnswer, FrameToS

LEMMA VerdictFrame ==
  ASSUME NEW x \in Xfer, NEW v \in BOOLEAN, rdb'[x] = (IF v THEN "Done" ELSE "Failed")
  PROVE  Complete(x, v) \in Answers'
<1>1. CASE v = TRUE
  BY <1>1 DEF Complete, Answers, TrueAnswer, FrameToS
<1>2. CASE v = FALSE
  BY <1>2 DEF Complete, Answers, TrueAnswer, FrameToS
<1> QED
  BY <1>1, <1>2

LEMMA Sent ==
  ASSUME NEW p \in Seq(Answers'), SendToS(p)
  PROVE  toS' = toS \/ (\E q \in Seq(Answers') : toS' = toS \o q)
  BY DEF SendToS

LEMMA InMemory ==
  ASSUME TransferInv, NEW x \in Xfer, in[x] # None
  PROVE  /\ in[x] \in Tracked /\ rdb[x] \in Open /\ rdb[x] \in Row
         /\ in[x].next \in Int /\ in[x].open \in BOOLEAN
         /\ DOMAIN disk = Xfer /\ unheard \in Nat /\ toS \in Seq(Answers) /\ toR \in Seq(News)
         /\ asking \in Seq(Dialog) /\ AskedOnce(asking)
  BY DEF TransferInv, TablesOK, Held, Tracked, Open, Row

LEMMA StepAcceptIncoming ==
  ASSUME TransferInv, AcceptIncoming
  PROVE  TransferInv' /\ DStep
<1>1. PICK x \in Xfer :
        /\ x = asking[1].xfer /\ asking # <<>> /\ rdb[x] \in Open /\ in[x] # None
        /\ Tail(asking) \in Seq(Dialog) /\ AskedOnce(Tail(asking))
        /\ \A i \in 1 .. Len(Tail(asking)) : Tail(asking)[i].xfer # x
  BY TopDialog DEF AcceptIncoming
<1>2. /\ asking' = Tail(asking) /\ UNCHANGED <<out, sdb, disk, toR>>
      /\ unheard' = unheard \/ unheard' \in 0 .. Len(toR)
  BY DEF AcceptIncoming, CloseDialog, senderVars
<1>3. /\ in[x] \in Tracked /\ in[x].next \in Int /\ DOMAIN disk' = Xfer /\ unheard' \in Nat
      /\ rdb[x] \in Row /\ in \in [Xfer -> Tracked \cup {None}] /\ rdb \in [Xfer -> Row \cup {None}]
  BY <1>1, <1>2, InMemory DEF TransferInv, TablesOK
<1>4. CASE UNCHANGED <<in, rdb, toS>>
  <2>1. in' = [in EXCEPT ![x] = in[x]] /\ rdb' = [rdb EXCEPT ![x] = rdb[x]]
    BY <1>3, <1>4
  <2> QED
    BY <1>1, <1>2, <1>3, <1>4, <2>1, OpenRowMoves
<1>5. CASE /\ in' = [in EXCEPT ![x].state = "Active", ![x].open = TRUE]
           /\ rdb' = [rdb EXCEPT ![x] = "Active"]
           /\ SendToS(<<Msg("file_accept", x), Request(x, in[x].next)>>)
  <2> DEFINE t == [in[x] EXCEPT !.state = "Active", !.open = TRUE]
             p == <<Msg("file_accept", x), Request(x, in[x].next)>>
  <2>1. t \in Tracked /\ in' = [in EXCEPT ![x] = t] /\ "Active" \in Open /\ "Active" \in Row
        /\ rdb' = [rdb EXCEPT ![x] = "Active"]
    BY <1>3, <1>5 DEF Tracked, Row, Terminal, Open
  <2>2. p \in Seq(Answers')
    BY <1>3, NoVerdict, Two
  <2>3. toS' = toS \/ (\E q \in Seq(Answers') : toS' = toS \o q)
    BY <1>5, <2>2, Sent
  <2> HIDE DEF t, p
  <2> QED
    BY <1>1, <1>2, <1>3, <2>1, <2>3, OpenRowMoves
<1>6. CASE EndIncoming(x, "Failed") /\ UNCHANGED toS
  <2>1. /\ in' = [in EXCEPT ![x] = None] /\ rdb' = [rdb EXCEPT ![x] = "Failed"]
        /\ "Failed" \in Row /\ disk'[x] = disk[x]
    BY <1>2, <1>6 DEF EndIncoming, Row
  <2> QED
    BY <1>1, <1>2, <1>3, <1>6, <2>1, OpenRowMoves
<1> QED
  BY <1>1, <1>4, <1>5, <1>6 DEF AcceptIncoming

LEMMA StepRejectIncoming ==
  ASSUME TransferInv, RejectIncoming
  PROVE  TransferInv' /\ DStep
<1>1. PICK x \in Xfer :
        /\ x = asking[1].xfer /\ asking # <<>> /\ rdb[x] \in Open /\ in[x] # None
        /\ Tail(asking) \in Seq(Dialog) /\ AskedOnce(Tail(asking))
        /\ \A i \in 1 .. Len(Tail(asking)) : Tail(asking)[i].xfer # x
  BY TopDialog DEF RejectIncoming
<1>2. /\ asking' = Tail(asking) /\ UNCHANGED <<out, sdb, disk, toR>>
      /\ unheard' = unheard \/ unheard' \in 0 .. Len(toR)
  BY DEF RejectIncoming, CloseDialog, senderVars
<1>3. /\ DOMAIN disk' = Xfer /\ unheard' \in Nat /\ rdb \in [Xfer -> Row \cup {None}]
  BY <1>1, <1>2, InMemory DEF TransferInv, TablesOK
<1>4. /\ in' = [in EXCEPT ![x] = None] /\ rdb' = [rdb EXCEPT ![x] = "Cancelled"]
      /\ SendToS(<<Msg("file_reject", x)>>) /\ "Cancelled" \in Row /\ disk'[x] = disk[x]
  BY <1>1, <1>2 DEF RejectIncoming, EndIncoming, Row
<1>5. <<Msg("file_reject", x)>> \in Seq(Answers')
  <2>1. rdb'[x] = "Cancelled"
    BY <1>3, <1>4
  <2>2. Msg("file_reject", x) \in Answers'
    BY <2>1 DEF Msg, Answers, TrueAnswer, FrameToS
  <2> QED
    BY <2>2, One
<1>6. toS' = toS \/ (\E q \in Seq(Answers') : toS' = toS \o q)
  BY <1>4, <1>5, Sent
<1> QED
  BY <1>1, <1>2, <1>3, <1>4, <1>6, OpenRowMoves

\* The steps of the receiver's user, outside of a dialog.
LEMMA StepPause ==
  ASSUME TransferInv, NEW x \in Xfer, Pause(x)
  PROVE  TransferInv' /\ DStep
<1> DEFINE t == [in[x] EXCEPT !.paused = TRUE, !.state = "Paused"]
           p == <<Msg("file_pause", x)>>
<1>1. /\ in[x] # None /\ asking' = asking /\ asking = <<>> /\ UNCHANGED <<out, sdb, disk, toR, unheard>>
      /\ in' = [in EXCEPT ![x].paused = TRUE, ![x].state = "Paused"]
      /\ rdb' = [rdb EXCEPT ![x] = "Paused"] /\ SendToS(p)
  BY DEF Pause, Usable, UserActs, senderVars, dialogVars
<1>2. /\ rdb[x] \in Open /\ DOMAIN disk' = Xfer /\ unheard' \in Nat
      /\ in[x] \in Tracked /\ in \in [Xfer -> Tracked \cup {None}]
  BY <1>1, InMemory DEF TransferInv, TablesOK
<1>3. t \in Tracked /\ in' = [in EXCEPT ![x] = t] /\ "Paused" \in Open /\ "Paused" \in Row
  BY <1>1, <1>2 DEF Tracked, Row, Terminal, Open
<1>4. p \in Seq(Answers')
  <2>1. Msg("file_pause", x) \in Answers'
    BY NoVerdict
  <2> QED
    BY <2>1, One
<1>5. toS' = toS \/ (\E q \in Seq(Answers') : toS' = toS \o q)
  BY <1>1, <1>4, Sent
<1>6. /\ asking' \in Seq(Dialog) /\ AskedOnce(asking')
      /\ \A i \in 1 .. Len(asking') : asking'[i].xfer # x
  BY <1>1 DEF AskedOnce
<1>7. rdb' = [rdb EXCEPT ![x] = "Paused"] /\ UNCHANGED <<out, sdb, disk, toR>>
  BY <1>1
<1> HIDE DEF t, p
<1> QED
  BY <1>2, <1>3, <1>5, <1>6, <1>7, OpenRowMoves

LEMMA StepResume ==
  ASSUME TransferInv, NEW x \in Xfer, Resume(x)
  PROVE  TransferInv' /\ DStep
<1> DEFINE t == [in[x] EXCEPT !.paused = FALSE, !.state = "Active"]
           p == <<Msg("file_resume", x), Request(x, in[x].next)>>
<1>1. /\ in[x] # None /\ asking' = asking /\ asking = <<>> /\ UNCHANGED <<out, sdb, disk, toR, unheard>>
      /\ in' = [in EXCEPT ![x].paused = FALSE, ![x].state = "Active"]
      /\ rdb' = [rdb EXCEPT ![x] = "Active"] /\ SendToS(p)
  BY DEF Resume, Usable, UserActs, senderVars, dialogVars
<1>2. /\ rdb[x] \in Open /\ DOMAIN disk' = Xfer /\ unheard' \in Nat
      /\ in[x] \in Tracked /\ in[x].next \in Int /\ in \in [Xfer -> Tracked \cup {None}]
  BY <1>1, InMemory DEF TransferInv, TablesOK
<1>3. t \in Tracked /\ in' = [in EXCEPT ![x] = t] /\ "Active" \in Open /\ "Active" \in Row
  BY <1>1, <1>2 DEF Tracked, Row, Terminal, Open
<1>4. p \in Seq(Answers')
  BY <1>2, NoVerdict, Two
<1>5. toS' = toS \/ (\E q \in Seq(Answers') : toS' = toS \o q)
  BY <1>1, <1>4, Sent
<1>6. /\ asking' \in Seq(Dialog) /\ AskedOnce(asking')
      /\ \A i \in 1 .. Len(asking') : asking'[i].xfer # x
  BY <1>1 DEF AskedOnce
<1>7. rdb' = [rdb EXCEPT ![x] = "Active"] /\ UNCHANGED <<out, sdb, disk, toR>>
  BY <1>1
<1> HIDE DEF t, p
<1> QED
  BY <1>2, <1>3, <1>5, <1>6, <1>7, OpenRowMoves

LEMMA StepCancelIncoming ==
  ASSUME TransferInv, NEW x \in Xfer, CancelIncoming(x)
  PROVE  TransferInv' /\ DStep
<1>1. /\ in[x] # None /\ asking' = asking /\ asking = <<>>
      /\ UNCHANGED <<out, sdb, disk, toS, toR, unheard>>
      /\ in' = [in EXCEPT ![x] = None] /\ rdb' = [rdb EXCEPT ![x] = "Cancelled"]
  BY DEF CancelIncoming, Usable, UserActs, EndIncoming, senderVars, dialogVars
<1>2. rdb[x] \in Open /\ DOMAIN disk' = Xfer /\ unheard' \in Nat /\ "Cancelled" \in Row
  BY <1>1, InMemory DEF Row
<1>3. /\ asking' \in Seq(Dialog) /\ AskedOnce(asking')
      /\ \A i \in 1 .. Len(asking') : asking'[i].xfer # x
  BY <1>1 DEF AskedOnce
<1> QED
  BY <1>1, <1>2, <1>3, OpenRowMoves

\* A frame is consumed, or not even that.
LEMMA NothingMoves ==
  ASSUME TransferInv, UNCHANGED <<out, sdb, in, rdb, disk, asking, toS>>, unheard' \in Nat,
         toR' = toR \/ (toR # <<>> /\ toR' = Tail(toR))
  PROVE  TransferInv' /\ DStep
<1>1. /\ rdb' \in [Xfer -> Row \cup {None}] /\ in' \in [Xfer -> Tracked \cup {None}] /\ DOMAIN disk' = Xfer
      /\ \A x \in Xfer : in'[x] # None => rdb'[x] \in Open
  BY DEF TransferInv, TablesOK, Held
<1>2. asking' \in Seq(Dialog') /\ AskedOnce(asking')
  BY DEF TransferInv, Dialog, Waits, AskedOnce
<1>3. TransferInv'
  BY <1>1, <1>2, ReceiverStep
<1>4. SameS(Xfer) /\ SameR(Xfer) /\ SameW(Xfer)
  BY DEF PS, PR, PW, SameS, SameR, SameW
<1> QED
  BY <1>3, <1>4, SimStutter

LEMMA StepChunkMeta ==
  ASSUME TransferInv, OnChunkMeta
  PROVE  TransferInv' /\ DStep
<1>1. PICK x \in Xfer, i \in Int : x = Head(toR).xfer /\ i = Head(toR).index /\ toR # <<>>
  BY HeadNews DEF OnChunkMeta
<1>2. /\ UNCHANGED <<out, sdb, rdb, disk, asking, toS, unheard>> /\ toR' = Tail(toR)
      /\ in' = IF in[x] = None THEN in ELSE [in EXCEPT ![x].next = i, ![x].pend = Bytes(x, i)]
  BY <1>1 DEF OnChunkMeta, ReceiverConsumes, senderVars
<1>3. unheard' \in Nat
  BY <1>2 DEF TransferInv, TablesOK
<1>4. CASE in[x] = None
  <2>1. in' = in
    BY <1>2, <1>4
  <2> QED
    BY <1>1, <1>2, <1>3, <2>1, NothingMoves
<1>5. CASE in[x] # None
  <2> DEFINE t == [in[x] EXCEPT !.next = i, !.pend = Bytes(x, i)]
  <2>1. /\ rdb[x] \in Open /\ rdb[x] \in Row /\ in[x] \in Tracked /\ DOMAIN disk' = Xfer
        /\ asking' \in Seq(Dialog) /\ AskedOnce(asking')
        /\ in \in [Xfer -> Tracked \cup {None}] /\ rdb \in [Xfer -> Row \cup {None}]
    BY <1>2, <1>5, InMemory DEF TransferInv, TablesOK, AskedOnce
  <2>2. Bytes(x, i) \in Int
    BY SizesAssumption DEF Bytes, Least
  <2>3. t \in Tracked /\ t.open = in[x].open
    BY <2>1, <2>2 DEF Tracked
  <2>4. in' = [in EXCEPT ![x] = t]
    BY <1>2, <1>5, <2>1 DEF Tracked
  <2>5. rdb' = [rdb EXCEPT ![x] = rdb[x]]
    BY <1>2, <2>1
  <2>6. t # None
    BY <2>3, SizesAssumption
  <2>7. UNCHANGED <<out, sdb, disk, toS>> /\ toR # <<>> /\ toR' = Tail(toR)
    BY <1>1, <1>2
  <2> HIDE DEF t
  <2> QED
    BY <1>3, <2>1, <2>3, <2>4, <2>5, <2>6, <2>7, OpenRowMoves
<1> QED
  BY <1>4, <1>5

\* A transfer that no dialog is about ends with the verdict on its file.
LEMMA VerdictMoves ==
  ASSUME TransferInv, UNCHANGED <<out, sdb, asking>>, NEW x \in Xfer, rdb[x] \in Open,
         NEW v \in BOOLEAN, v = Intact(x, disk'[x]),
         rdb' = [rdb EXCEPT ![x] = IF v THEN "Done" ELSE "Failed"], in' = [in EXCEPT ![x] = None],
         DOMAIN disk' = Xfer, \A y \in Xfer \ {x} : disk'[y] = disk[y], unheard' \in Nat,
         SendToS(<<Complete(x, v)>>), toR # <<>>, toR' = Tail(toR),
         asking \in Seq(Dialog), AskedOnce(asking), \A i \in 1 .. Len(asking) : asking[i].xfer # x
  PROVE  TransferInv' /\ DStep
<1>1. PICK r \in Row : /\ r = (IF Intact(x, disk'[x]) THEN "Done" ELSE "Failed")
                       /\ rdb' = [rdb EXCEPT ![x] = r]
  BY DEF Row
<1>2. rdb'[x] = (IF v THEN "Done" ELSE "Failed")
  BY DEF TransferInv, TablesOK
<1>3. <<Complete(x, v)>> \in Seq(Answers')
  BY <1>2, VerdictFrame, One
<1>4. toS' = toS \/ (\E q \in Seq(Answers') : toS' = toS \o q)
  BY <1>3, Sent
<1>5. asking' \in Seq(Dialog) /\ AskedOnce(asking') /\ \A i \in 1 .. Len(asking') : asking'[i].xfer # x
  OBVIOUS
<1> QED
  BY <1>1, <1>4, <1>5, OpenRowMoves

LEMMA NextPlace ==
  ASSUME NEW t \in Tracked, NEW n \in Int, NEW p \in Int
  PROVE  [t EXCEPT !.next = n, !.pend = p] \in Tracked
  BY DEF Tracked

\* A chunk is written to a file that is open, which no dialog is about.
LEMMA StepWriteChunk ==
  ASSUME TransferInv, NEW x \in Xfer, in[x] # None, in[x].open = TRUE, NEW chunk, WriteChunk(x, chunk),
         UNCHANGED <<out, sdb, asking, unheard>>, toR # <<>>, toR' = Tail(toR)
  PROVE  TransferInv' /\ DStep
<1> DEFINE n == in[x].next + 1
           contents == [disk[x] EXCEPT ![in[x].next] = chunk]
           ok == Intact(x, contents)
<1>1. /\ disk' = [disk EXCEPT ![x] = contents]
      /\ \/ EndIncoming(x, IF ok THEN "Done" ELSE "Failed") /\ SendToS(<<Complete(x, ok)>>)
         \/ /\ in' = [in EXCEPT ![x].next = n, ![x].pend = 0]
            /\ rdb' = [rdb EXCEPT ![x] = "Active"]
            /\ SendToS(NextRequest(x, n))
  BY DEF WriteChunk, Verdict
<1>2. /\ rdb[x] \in Open /\ in[x] \in Tracked /\ n \in Int /\ unheard' \in Nat /\ DOMAIN disk = Xfer
      /\ in \in [Xfer -> Tracked \cup {None}] /\ rdb \in [Xfer -> Row \cup {None}]
  BY InMemory DEF TransferInv, TablesOK
<1>3. /\ asking \in Seq(Dialog) /\ AskedOnce(asking)
      /\ \A i \in 1 .. Len(asking) : asking[i].xfer # x
  <2>1. asking \in Seq(Dialog) /\ AskedOnce(asking)
    BY DEF TransferInv
  <2>2. ASSUME NEW i \in 1 .. Len(asking) PROVE asking[i].xfer # x
    <3>1. asking[i] \in Dialog
      BY <2>1
    <3> QED
      BY <3>1 DEF Dialog, Waits
  <2> QED
    BY <2>1, <2>2
<1>4. ok \in BOOLEAN
  BY DEF Intact
<1> HIDE DEF n, contents
<1>5. DOMAIN disk' = Xfer /\ disk'[x] = contents /\ \A y \in Xfer \ {x} : disk'[y] = disk[y]
  BY <1>1, <1>2
<1>6. ok = Intact(x, disk'[x])
  BY <1>5
<1> HIDE DEF ok
<1>7. CASE EndIncoming(x, IF ok THEN "Done" ELSE "Failed") /\ SendToS(<<Complete(x, ok)>>)
  <2>1. PICK v \in BOOLEAN : v = ok
    BY <1>4
  <2>2. /\ rdb' = [rdb EXCEPT ![x] = IF v THEN "Done" ELSE "Failed"] /\ in' = [in EXCEPT ![x] = None]
        /\ SendToS(<<Complete(x, v)>>)
    BY <1>7, <2>1 DEF EndIncoming
  <2> QED
    BY <1>2, <1>3, <1>5, <1>6, <2>1, <2>2, VerdictMoves
<1>8. CASE /\ in' = [in EXCEPT ![x].next = n, ![x].pend = 0]
           /\ rdb' = [rdb EXCEPT ![x] = "Active"]
           /\ SendToS(NextRequest(x, n))
  <2> DEFINE t == [in[x] EXCEPT !.next = n, !.pend = 0]
  <2>1. t \in Tracked
    <3>1. PICK none \in Int : none = 0
      OBVIOUS
    <3>2. [in[x] EXCEPT !.next = n, !.pend = none] \in Tracked
      BY <1>2, NextPlace
    <3> QED
      BY <3>1, <3>2
  <2>2. in' = [in EXCEPT ![x] = t]
    BY <1>2, <1>8 DEF Tracked
  <2>3. "Active" \in Open /\ "Active" \in Row
    BY DEF Open, Row
  <2>4. NextRequest(x, n) \in Seq(Answers')
    <3>1. Request(x, n) \in Answers'
      BY <1>2, NoVerdict
    <3> QED
      BY <3>1, One, NoneSent DEF NextRequest
  <2>5. toS' = toS \/ (\E q \in Seq(Answers') : toS' = toS \o q)
    BY <1>8, <2>4, Sent
  <2>6. rdb' = [rdb EXCEPT ![x] = "Active"]
    BY <1>8
  <2> HIDE DEF t
  <2> QED
    BY <1>2, <1>3, <1>5, <2>1, <2>2, <2>3, <2>5, <2>6, OpenRowMoves
<1> QED
  BY <1>1, <1>7, <1>8

LEMMA StepBinary ==
  ASSUME TransferInv, OnBinary
  PROVE  TransferInv' /\ DStep
<1>1. /\ toR # <<>> /\ toR' = Tail(toR) /\ UNCHANGED <<out, sdb, asking, unheard>>
      /\ \/ \E x \in Xfer, chunk \in Xfer \X Int : in[x] # None /\ in[x].open /\ WriteChunk(x, chunk)
         \/ UNCHANGED <<in, rdb, disk, toS>>
  <2>1. toR # <<>> /\ Head(toR).xfer \in Xfer /\ Head(toR).index \in Int
    BY HeadNews DEF OnBinary
  <2> QED
    BY <2>1 DEF OnBinary, ReceiverConsumes, senderVars, receiverVars
<1>2. unheard' \in Nat
  BY <1>1 DEF TransferInv, TablesOK
<1>3. CASE UNCHANGED <<in, rdb, disk, toS>>
  BY <1>1, <1>2, <1>3, NothingMoves
<1>4. CASE \E x \in Xfer, chunk \in Xfer \X Int : in[x] # None /\ in[x].open /\ WriteChunk(x, chunk)
  <2>1. PICK x \in Xfer, chunk \in Xfer \X Int : in[x] # None /\ in[x].open /\ WriteChunk(x, chunk)
    BY <1>4
  <2>2. in[x].open = TRUE
    BY <2>1, InMemory
  <2> QED
    BY <1>1, <2>1, <2>2, StepWriteChunk
<1> QED
  BY <1>1, <1>3, <1>4
-----------------------------------------------------------------------------
(* The connection and the processes *)

\* The handlers that wait in dialogs are not those of the current link any more.
Dead(q) == [k \in DOMAIN q |-> [q[k] EXCEPT !.live = FALSE]]

LEMMA DeadDialogs ==
  ASSUME NEW q \in Seq(Dialog), AskedOnce(q)
  PROVE  Dead(q) \in Seq(Dialog) /\ AskedOnce(Dead(q))
<1> DEFINE p == Dead(q)
<1>1. ASSUME NEW k \in 1 .. Len(q) PROVE p[k] \in Dialog /\ p[k].xfer = q[k].xfer
  <2>1. q[k] \in Dialog /\ DOMAIN q = 1 .. Len(q)
    OBVIOUS
  <2> QED
    BY <2>1 DEF Dialog, Waits, Dead
<1>2. p = [k \in 1 .. Len(q) |-> p[k]] /\ Len(q) \in Nat
  BY DEF Dead
<1> HIDE DEF p
<1>3. p \in Seq(Dialog) /\ Len(p) = Len(q)
  BY <1>1, <1>2
<1>4. AskedOnce(p)
  BY <1>1, <1>3 DEF AskedOnce
<1> QED
  BY <1>3, <1>4 DEF p

LEMMA LinkStep ==
  ASSUME TransferInv, UNCHANGED <<sdb, rdb, disk>>, toS' = toS \/ toS' = <<>>, toR' = toR \/ toR' = <<>>,
         unheard' \in Nat,
         out' = out \/ out' = [x \in Xfer |-> None], in' = in \/ in' = [x \in Xfer |-> None],
         asking' = <<>> \/ (asking' \in Seq(Dialog) /\ AskedOnce(asking') /\ in' = in)
  PROVE  TransferInv' /\ DStep
<1>1. TablesOK' /\ Held'
  BY DEF TransferInv, TablesOK, Held
<1>2. toS' \in Seq(Answers') /\ toR' \in Seq(News') /\ OfferedOnce(toR')
  <2>1. Answers' = Answers /\ News' = News
    BY DEF Answers, TrueAnswer, News, NewOffer
  <2>2. toS \in Seq(Answers) /\ toR \in Seq(News) /\ OfferedOnce(toR)
    BY DEF TransferInv
  <2>3. OfferedOnce(<<>>)
    BY DEF OfferedOnce
  <2>4. toS' \in Seq(Answers)
    BY <2>2, NoneSent
  <2>5. toR' \in Seq(News)
    BY <2>2, NoneSent
  <2>6. OfferedOnce(toR')
    BY <2>2, <2>3
  <2> QED
    BY <2>1, <2>4, <2>5, <2>6
<1>3. asking' \in Seq(Dialog') /\ AskedOnce(asking')
  <2>1. CASE asking' = <<>>
    BY <2>1 DEF AskedOnce
  <2>2. CASE asking' \in Seq(Dialog) /\ AskedOnce(asking') /\ in' = in
    <3>1. Dialog' = Dialog
      BY <2>2 DEF Dialog, Waits
    <3> QED
      BY <2>2, <3>1
  <2> QED
    BY <2>1, <2>2
<1>4. TransferInv'
  BY <1>1, <1>2, <1>3 DEF TransferInv, OfferedOnce, AskedOnce
<1>5. SameS(Xfer) /\ SameR(Xfer) /\ SameW(Xfer)
  BY DEF PS, PR, PW, SameS, SameR, SameW
<1> QED
  BY <1>4, <1>5, SimStutter

LEMMA StepDisconnect ==
  ASSUME TransferInv, Disconnect
  PROVE  TransferInv' /\ DStep
<1>1. /\ UNCHANGED <<out, sdb, in, rdb, disk>> /\ toS' = <<>> /\ toR' = <<>> /\ unheard' = 0
      /\ asking' = Dead(asking)
  BY DEF Disconnect, Drop, Dead, senderVars, receiverVars
<1>2. asking' \in Seq(Dialog) /\ AskedOnce(asking')
  BY <1>1, DeadDialogs DEF TransferInv
<1> QED
  BY <1>1, <1>2, LinkStep

LEMMA StepSenderRestart ==
  ASSUME TransferInv, SenderRestart
  PROVE  TransferInv' /\ DStep
<1>1. /\ UNCHANGED <<sdb, in, rdb, disk>> /\ toS' = <<>> /\ toR' = <<>> /\ unheard' = 0
      /\ asking' = Dead(asking) /\ out' = [x \in Xfer |-> None]
  BY DEF SenderRestart, Drop, Dead, receiverVars
<1>2. asking' \in Seq(Dialog) /\ AskedOnce(asking')
  BY <1>1, DeadDialogs DEF TransferInv
<1> QED
  BY <1>1, <1>2, LinkStep

LEMMA StepReceiverRestart ==
  ASSUME TransferInv, ReceiverRestart
  PROVE  TransferInv' /\ DStep
<1>1. /\ UNCHANGED <<out, sdb, rdb, disk>> /\ toS' = <<>> /\ toR' = <<>> /\ unheard' = 0
      /\ asking' = <<>> /\ in' = [x \in Xfer |-> None]
  BY DEF ReceiverRestart, Drop, senderVars
<1> QED
  BY <1>1, LinkStep

LEMMA StepReconnect ==
  ASSUME TransferInv, Reconnect \/ UNCHANGED vars
  PROVE  TransferInv' /\ DStep
<1>1. UNCHANGED <<out, sdb, in, rdb, disk, asking, toS, toR, unheard>>
  BY DEF Reconnect, vars, senderVars, receiverVars, dialogVars, linkVars
<1>2. unheard' \in Nat
  BY <1>1 DEF TransferInv, TablesOK
<1> QED
  BY <1>1, <1>2, NothingMoves
-----------------------------------------------------------------------------
(* Theorems *)

LEMMA TransferInit == Init => TransferInv /\ Delivery!DInit
<1> SUFFICES ASSUME Init PROVE TransferInv /\ Delivery!DInit
  OBVIOUS
<1>1. TablesOK /\ Held
  BY DEF Init, TablesOK, Held
<1>2. toS \in Seq(Answers) /\ toR \in Seq(News) /\ OfferedOnce(toR)
  BY DEF Init, OfferedOnce
<1>3. asking \in Seq(Dialog) /\ AskedOnce(asking)
  BY DEF Init, AskedOnce
<1>4. Delivery!DInit
  <2>1. \A x \in Xfer : Phase(sdb[x]) = "none" /\ Phase(rdb[x]) = "none" /\ Intact(x, disk[x]) \in BOOLEAN
    BY Phases DEF Init, Intact
  <2> QED
    BY <2>1 DEF Delivery!DInit
<1> QED
  BY <1>1, <1>2, <1>3, <1>4 DEF TransferInv

LEMMA TransferStep == TransferInv /\ [Next]_vars => TransferInv' /\ DStep
<1> SUFFICES ASSUME TransferInv, [Next]_vars PROVE TransferInv' /\ DStep
  OBVIOUS
<1>1. CASE OnAccept \/ OnReject \/ OnChunkReq \/ OnPauseOrResume \/ OnComplete
  BY <1>1, StepAccept, StepReject, StepChunkReq, StepPauseOrResume, StepComplete
<1>2. CASE OnOffer \/ OnChunkMeta \/ OnBinary
  BY <1>2, StepOffer, StepChunkMeta, StepBinary
<1>3. CASE AcceptIncoming \/ RejectIncoming
  BY <1>3, StepAcceptIncoming, StepRejectIncoming
<1>4. CASE \E x \in Xfer : QueueOutgoing(x) \/ CancelOutgoing(x) \/ PauseOutgoing(x)
  BY <1>4, StepQueueOutgoing, StepCancelOutgoing, StepPauseOutgoing
<1>5. CASE \E x \in Xfer : Pause(x) \/ Resume(x) \/ CancelIncoming(x)
  BY <1>5, StepPause, StepResume, StepCancelIncoming
<1>6. CASE Disconnect \/ Reconnect \/ SenderRestart \/ ReceiverRestart \/ UNCHANGED vars
  BY <1>6, StepDisconnect, StepReconnect, StepSenderRestart, StepReceiverRestart
<1> QED
  BY <1>1, <1>2, <1>3, <1>4, <1>5, <1>6 DEF Next, SenderHandles, ReceiverHandles

\* A verdict on its way is the one in the receiver's table, an offer is news and
\* made once, and a dialog is about a transfer that still waits for its answer.
THEOREM VerdictsAreTrue == Spec => []TransferInv
  BY TransferInit, TransferStep, PTL DEF Spec

\* Both transfers tables implement FileDelivery: each outcome is final, a file is
\* done only when it is intact, and the sender's outcome is the receiver's.
THEOREM ImplementsDelivery == Spec => KeepsItsPromise
<1>1. TransferInv /\ [Next]_vars => [Delivery!DNext]_(Delivery!dvars)
  BY TransferStep DEF DStep
<1> QED
  BY <1>1, TransferInit, VerdictsAreTrue, PTL DEF Spec, KeepsItsPromise, Delivery!DSpec

\* What an implementation of FileDelivery gives its users.
Honest ==
  \A x \in Xfer : (PS(x) = "done" => PR(x) = "done") /\ (PR(x) = "done" => PW(x))

LEMMA HonestStep == Honest /\ DStep => Honest'
<1> SUFFICES ASSUME Honest, DStep PROVE Honest'
  OBVIOUS
<1> DEFINE S == [x \in Xfer |-> PS(x)]
           R == [x \in Xfer |-> PR(x)]
           W == [x \in Xfer |-> PW(x)]
<1>1. /\ \A x \in Xfer : S[x] = PS(x) /\ R[x] = PR(x) /\ W[x] = PW(x)
      /\ \A x \in Xfer : S'[x] = PS(x)' /\ R'[x] = PR(x)' /\ W'[x] = PW(x)'
      /\ DOMAIN S = Xfer /\ DOMAIN R = Xfer /\ DOMAIN W = Xfer
  OBVIOUS
<1>2. \/ UNCHANGED <<S, R, W>>
      \/ \E x \in Xfer : S' = [S EXCEPT ![x] = "open"] /\ UNCHANGED <<R, W>>
      \/ \E x \in Xfer : R' = [R EXCEPT ![x] = "open"] /\ R[x] = "none" /\ UNCHANGED <<S, W>>
      \/ \E x \in Xfer, w \in BOOLEAN :
           /\ R[x] = "open" /\ W' = [W EXCEPT ![x] = w] /\ UNCHANGED S
           /\ UNCHANGED R \/ R' = [R EXCEPT ![x] = IF w THEN "done" ELSE "failed"]
      \/ \E x \in Xfer, o \in {"failed", "cancelled"} :
           R[x] = "open" /\ R' = [R EXCEPT ![x] = o] /\ UNCHANGED <<S, W>>
      \/ \E x \in Xfer : S' = [S EXCEPT ![x] = R[x]] /\ UNCHANGED <<R, W>>
      \/ \E x \in Xfer : S' = [S EXCEPT ![x] = "cancelled"] /\ UNCHANGED <<R, W>>
  BY DEF DStep, Delivery!dvars, Delivery!DNext, Delivery!Offer, Delivery!Announce, Delivery!Write,
         Delivery!GiveUp, Delivery!Learn, Delivery!CancelSend, PS, PR, PW
<1>3. \A x \in Xfer : (S[x] = "done" => R[x] = "done") /\ (R[x] = "done" => W[x])
  BY <1>1 DEF Honest
<1> HIDE DEF S, R, W
<1>4. \A x \in Xfer : (S'[x] = "done" => R'[x] = "done") /\ (R'[x] = "done" => W'[x])
  BY <1>1, <1>2, <1>3
<1> QED
  BY <1>1, <1>4 DEF Honest

\* A file the sender's history calls done is done in the receiver's, and what the
\* receiver has on disk is the file that was offered.
THEOREM DoneIsIntact ==
  Spec => [](\A x \in Xfer : sdb[x] = "Done" => rdb[x] = "Done" /\ Intact(x, disk[x]))
<1>1. Init => Honest
  <2> SUFFICES ASSUME Init, NEW x \in Xfer PROVE PS(x) = "none" /\ PR(x) = "none"
    BY DEF Honest
  <2> QED
    BY Phases DEF Init, PS, PR
<1>2. TransferInv /\ Honest =>
        \A x \in Xfer : sdb[x] = "Done" => rdb[x] = "Done" /\ Intact(x, disk[x])
  <2> SUFFICES ASSUME TransferInv, Honest, NEW x \in Xfer, sdb[x] = "Done"
               PROVE  rdb[x] = "Done" /\ Intact(x, disk[x])
    OBVIOUS
  <2>1. PR(x) = "done" /\ PW(x)
    BY Phases DEF Honest, PS
  <2>2. rdb[x] \in Row \cup {None}
    BY DEF TransferInv, TablesOK
  <2> QED
    BY <2>1, <2>2, Phases DEF PR, PW, Row, Open
<1>3. TransferInv /\ Honest /\ [Next]_vars => Honest'
  BY TransferStep, HonestStep
<1> QED
  BY <1>1, <1>2, <1>3, VerdictsAreTrue, PTL DEF Spec
-----------------------------------------------------------------------------
(* Chunks and their places *)

\* There is a chunk at place i of the file.
Fits(x, i) == i \in Nat /\ i * ChunkSize < FileSize[x]
Place(x, i) == i = 0 \/ Fits(x, i)

LEMMA DivOf ==
  ASSUME NEW m \in Nat, NEW n \in Nat \ {0}
  PROVE  /\ m \div n \in Int
         /\ (m \div n) * n <= m /\ m < ((m \div n) + 1) * n
  OBVIOUS

\* Chunks counts the chunks.
LEMMA FitsChunks ==
  ASSUME NEW x \in Xfer
  PROVE  Chunks(x) \in Int /\ \A i \in Nat : Fits(x, i) <=> i < Chunks(x)
<1> DEFINE m == FileSize[x]
           n == ChunkSize
           q == (m + n - 1) \div n
<1>1. m \in Nat /\ n \in Nat \ {0} /\ Chunks(x) = q
  BY SizesAssumption DEF Chunks
<1> HIDE DEF m, n
<1>2. q \in Int /\ q * n <= m + n - 1 /\ m + n - 1 < (q + 1) * n
  BY <1>1, DivOf
<1> HIDE DEF q
<1>3. (q + 1) * n = q * n + n /\ q * n \in Int
  BY <1>1, <1>2
<1>4. ASSUME NEW i \in Nat PROVE i * n < m <=> i < q
  <2>1. i * n \in Int /\ (i + 1) * n = i * n + n
    BY <1>1
  <2>2. CASE i < q
    <3>1. (i + 1) * n <= q * n
      BY <1>1, <1>2, <2>2
    <3> QED
      BY <1>1, <1>2, <1>3, <2>1, <2>2, <3>1
  <2>3. CASE i >= q
    <3>1. i * n >= q * n
      BY <1>1, <1>2, <2>3
    <3> QED
      BY <1>1, <1>2, <1>3, <2>1, <2>3, <3>1
  <2> QED
    BY <1>2, <2>2, <2>3
<1> QED
  BY <1>1, <1>2, <1>4 DEF Fits, m, n

\* A chunk is never empty.
LEMMA FitsBytes ==
  ASSUME NEW x \in Xfer, NEW i, Fits(x, i)
  PROVE  Bytes(x, i) \in Nat \ {0}
<1>1. /\ FileSize[x] \in Nat /\ ChunkSize \in Nat \ {0}
      /\ i * ChunkSize \in Int /\ i * ChunkSize < FileSize[x]
  BY SizesAssumption DEF Fits
<1> QED
  BY <1>1 DEF Bytes, Least
-----------------------------------------------------------------------------
(* Bounds *)

\* Requests ask for a chunk that exists, or for the first one; chunks exist.
AskedFrame == {f \in FrameToS : f.type = "file_chunk_req" => Place(f.xfer, f.index)}
ServedFrame == {f \in FrameToR : f.type \in {"file_chunk_meta", "chunk"} => Fits(f.xfer, f.index)}

AtPlace(x) == in[x] # None => Place(x, in[x].next) /\ in[x].pend \in {0, Bytes(x, in[x].next)}

BoundInv ==
  /\ toS \in Seq(AskedFrame) /\ toR \in Seq(ServedFrame)
  /\ \A x \in Xfer : AtPlace(x)
  /\ up \in BOOLEAN /\ unheard \in 0 .. Len(toR)
  /\ drops \in 0 .. MaxDrops /\ pauses \in 0 .. MaxPauses
-----------------------------------------------------------------------------
(* While the connection holds *)

Holds(q, types, x) == \E i \in 1 .. Len(q) : q[i].type \in types /\ q[i].xfer = x

Offered(x) == Holds(toR, {"file_offer"}, x)
Served(x) == Holds(toR, {"file_chunk_meta", "chunk"}, x)
Wanted(x) == Holds(toS, {"file_chunk_req"}, x)
Told(x) == Holds(toS, {"file_complete"}, x)
Asking(x) == \E k \in 1 .. Len(asking) : asking[k].xfer = x

\* Why a transfer the sender has open need not be waited for in vain: its offer
\* is on its way or being answered, its next chunk is asked for or on its way,
\* or the receiver has paused it or ended it.
Going(x) ==
  \/ Offered(x) \/ Asking(x) \/ Told(x)
  \/ in[x] # None /\ in[x].open /\ (in[x].paused \/ Wanted(x) \/ Served(x))
  \/ in[x] = None /\ rdb[x] \in {"Failed", "Cancelled"}

\* A chunk comes right after its meta frame.
Paired(q) ==
  \A i \in 1 .. Len(q) :
    /\ q[i].type = "file_chunk_meta" =>
         i + 1 \in 1 .. Len(q) /\ q[i + 1] = Chunk("chunk", q[i].xfer, q[i].index)
    /\ q[i].type = "chunk" /\ i > 1 => q[i - 1].type = "file_chunk_meta"

\* A transfer of the table m waits for bytes exactly when its chunk is the next
\* frame.
Announced(q, m) ==
  /\ \A x \in Xfer : m[x] # None /\ m[x].pend # 0 =>
       q # <<>> /\ Head(q) = Chunk("chunk", x, m[x].next)
  /\ q # <<>> /\ Head(q).type = "chunk" /\ m[Head(q).xfer] # None =>
       m[Head(q).xfer].pend = Bytes(Head(q).xfer, Head(q).index)

Calm ==
  /\ up
  /\ \A k \in 1 .. Len(asking) : asking[k].live
  /\ \A x \in Xfer : in[x] # None /\ ~in[x].open => Asking(x)
  /\ Paired(toR) /\ Announced(toR, in)
  /\ \A x \in Xfer : out[x] # None /\ FileSize[x] > 0 => Going(x)

RunInv == BoundInv /\ (drops = 0 => Calm)

LEMMA HoldsTail ==
  ASSUME NEW A, NEW q \in Seq(A), q # <<>>, NEW types, NEW x, Holds(q, types, x)
  PROVE  (Head(q).type \in types /\ Head(q).xfer = x) \/ Holds(Tail(q), types, x)
<1>1. PICK i \in 1 .. Len(q) : q[i].type \in types /\ q[i].xfer = x
  BY DEF Holds
<1>2. CASE i = 1
  BY <1>1, <1>2, TailOf
<1>3. CASE i # 1
  <2>1. i - 1 \in 1 .. Len(Tail(q)) /\ Tail(q)[i - 1] = q[i]
    BY <1>3, TailOf
  <2> QED
    BY <1>1, <2>1 DEF Holds
<1> QED
  BY <1>2, <1>3

LEMMA Joined ==
  ASSUME NEW A, NEW q \in Seq(A), NEW p \in Seq(A)
  PROVE  /\ q \o p \in Seq(A) /\ Len(q) \in Nat /\ Len(p) \in Nat /\ Len(q \o p) = Len(q) + Len(p)
         /\ \A i \in 1 .. Len(q) : i \in 1 .. Len(q \o p) /\ (q \o p)[i] = q[i]
         /\ \A i \in 1 .. Len(p) : Len(q) + i \in 1 .. Len(q \o p) /\ (q \o p)[Len(q) + i] = p[i]
         /\ \A k \in 1 .. Len(q \o p) : k \in 1 .. Len(q) \/ \E i \in 1 .. Len(p) : k = Len(q) + i
<1>1. /\ q \o p \in Seq(A) /\ Len(q) \in Nat /\ Len(p) \in Nat /\ Len(q \o p) = Len(q) + Len(p)
      /\ \A k \in 1 .. Len(q) + Len(p) : (q \o p)[k] = IF k <= Len(q) THEN q[k] ELSE p[k - Len(q)]
  OBVIOUS
<1> DEFINE l == Len(q)
           m == Len(p)
<1>2. /\ \A i \in 1 .. l : i \in 1 .. l + m /\ i <= l
      /\ \A i \in 1 .. m : l + i \in 1 .. l + m /\ ~(l + i <= l) /\ (l + i) - l = i
      /\ \A k \in 1 .. l + m : k \in 1 .. l \/ (k - l \in 1 .. m /\ k = l + (k - l))
  <2>1. l \in Nat /\ m \in Nat
    BY <1>1
  <2> HIDE DEF l, m
  <2> QED
    BY <2>1
<1> QED
  BY <1>1, <1>2

LEMMA HoldsJoined ==
  ASSUME NEW A, NEW q \in Seq(A), NEW p \in Seq(A), NEW types, NEW x
  PROVE  Holds(q \o p, types, x) <=> Holds(q, types, x) \/ Holds(p, types, x)
<1> DEFINE s == q \o p
<1>1. /\ \A i \in 1 .. Len(q) : i \in 1 .. Len(s) /\ s[i] = q[i]
      /\ \A i \in 1 .. Len(p) : Len(q) + i \in 1 .. Len(s) /\ s[Len(q) + i] = p[i]
      /\ \A k \in 1 .. Len(s) : k \in 1 .. Len(q) \/ \E i \in 1 .. Len(p) : k = Len(q) + i
  BY Joined
<1> HIDE DEF s
<1>2. ASSUME Holds(s, types, x) PROVE Holds(q, types, x) \/ Holds(p, types, x)
  <2>1. PICK k \in 1 .. Len(s) : s[k].type \in types /\ s[k].xfer = x
    BY <1>2 DEF Holds
  <2>2. CASE k \in 1 .. Len(q)
    BY <1>1, <2>1, <2>2 DEF Holds
  <2>3. CASE \E i \in 1 .. Len(p) : k = Len(q) + i
    BY <1>1, <2>1, <2>3 DEF Holds
  <2> QED
    BY <1>1, <2>2, <2>3
<1>3. ASSUME Holds(q, types, x) PROVE Holds(s, types, x)
  BY <1>1, <1>3 DEF Holds
<1>4. ASSUME Holds(p, types, x) PROVE Holds(s, types, x)
  BY <1>1, <1>4 DEF Holds
<1> QED
  BY <1>2, <1>3, <1>4 DEF s

LEMMA PairedTail ==
  ASSUME NEW q \in Seq(FrameToR), q # <<>>, Paired(q)
  PROVE  /\ Paired(Tail(q))
         /\ IF Head(q).type = "file_chunk_meta"
              THEN Tail(q) # <<>> /\ Head(Tail(q)) = Chunk("chunk", Head(q).xfer, Head(q).index)
              ELSE Tail(q) = <<>> \/ Head(Tail(q)).type # "chunk"
<1> DEFINE t == Tail(q)
<1>1. /\ Head(q) = q[1] /\ Len(q) \in Nat /\ Len(t) = Len(q) - 1
      /\ \A i \in 1 .. Len(t) : t[i] = q[i + 1] /\ i + 1 \in 1 .. Len(q)
      /\ t \in Seq(FrameToR)
  BY TailOf
<1>2. t # <<>> => Head(t) = t[1] /\ 1 \in 1 .. Len(t)
  BY <1>1, TailOf
<1>3. 2 \in 1 .. Len(q) => 1 \in 1 .. Len(t) /\ t # <<>>
  <2>1. 2 \in 1 .. Len(q) => 1 \in 1 .. Len(t) /\ Len(t) # 0
    BY <1>1
  <2>2. Len(<<>>) = 0
    OBVIOUS
  <2> QED
    BY <2>1, <2>2, Zenon
<1> HIDE DEF t
<1>4. Paired(t)
  <2> SUFFICES ASSUME NEW i \in 1 .. Len(t)
               PROVE  /\ t[i].type = "file_chunk_meta" =>
                           i + 1 \in 1 .. Len(t) /\ t[i + 1] = Chunk("chunk", t[i].xfer, t[i].index)
                      /\ t[i].type = "chunk" /\ i > 1 => t[i - 1].type = "file_chunk_meta"
    BY DEF Paired
  <2>1. t[i] = q[i + 1] /\ i + 1 \in 1 .. Len(q)
    BY <1>1
  <2>2. ASSUME t[i].type = "file_chunk_meta"
        PROVE  i + 1 \in 1 .. Len(t) /\ t[i + 1] = Chunk("chunk", t[i].xfer, t[i].index)
    <3>1. (i + 1) + 1 \in 1 .. Len(q) /\ q[(i + 1) + 1] = Chunk("chunk", t[i].xfer, t[i].index)
      BY <2>1, <2>2 DEF Paired
    <3>2. i + 1 \in 1 .. Len(t)
      BY <1>1, <3>1
    <3> QED
      BY <1>1, <3>1, <3>2
  <2>3. ASSUME t[i].type = "chunk", i > 1
        PROVE  t[i - 1].type = "file_chunk_meta"
    <3>1. q[(i + 1) - 1].type = "file_chunk_meta"
      BY <2>1, <2>3 DEF Paired
    <3>2. i - 1 \in 1 .. Len(t) /\ (i - 1) + 1 = i /\ (i + 1) - 1 = i
      BY <1>1, <2>3
    <3>3. t[i - 1] = q[i]
      BY <1>1, <3>2
    <3> QED
      BY <3>1, <3>2, <3>3
  <2> QED
    BY <2>2, <2>3
<1>5. 1 \in 1 .. Len(q)
  BY TailOf
<1>6. ASSUME Head(q).type = "file_chunk_meta"
      PROVE  t # <<>> /\ Head(t) = Chunk("chunk", Head(q).xfer, Head(q).index)
  <2>1. 1 + 1 \in 1 .. Len(q) /\ q[1 + 1] = Chunk("chunk", Head(q).xfer, Head(q).index)
    BY <1>1, <1>5, <1>6 DEF Paired
  <2> QED
    BY <1>1, <1>2, <1>3, <2>1
<1>7. ASSUME Head(q).type # "file_chunk_meta", t # <<>>
      PROVE  Head(t).type # "chunk"
  <2>1. Head(t) = q[2] /\ 2 \in 1 .. Len(q)
    BY <1>1, <1>2, <1>7
  <2>2. q[2].type = "chunk" => q[2 - 1].type = "file_chunk_meta"
    BY <2>1 DEF Paired
  <2> QED
    BY <1>1, <1>7, <2>1, <2>2
<1> QED
  BY <1>4, <1>6, <1>7 DEF t

LEMMA PairedJoined ==
  ASSUME NEW q \in Seq(FrameToR), NEW p \in Seq(FrameToR), Paired(q), Paired(p), p # <<>>,
         p[1].type # "chunk"
  PROVE  Paired(q \o p)
<1> DEFINE s == q \o p
<1>1. /\ Len(q) \in Nat /\ Len(p) \in Nat /\ Len(s) = Len(q) + Len(p)
      /\ \A i \in 1 .. Len(q) : i \in 1 .. Len(s) /\ s[i] = q[i]
      /\ \A i \in 1 .. Len(p) : Len(q) + i \in 1 .. Len(s) /\ s[Len(q) + i] = p[i]
      /\ \A k \in 1 .. Len(s) : k \in 1 .. Len(q) \/ \E i \in 1 .. Len(p) : k = Len(q) + i
  BY Joined
<1> HIDE DEF s
<1> SUFFICES ASSUME NEW k \in 1 .. Len(s)
             PROVE  /\ s[k].type = "file_chunk_meta" =>
                         k + 1 \in 1 .. Len(s) /\ s[k + 1] = Chunk("chunk", s[k].xfer, s[k].index)
                    /\ s[k].type = "chunk" /\ k > 1 => s[k - 1].type = "file_chunk_meta"
  BY DEF Paired, s
<1>2. CASE k \in 1 .. Len(q)
  <2>1. s[k] = q[k]
    BY <1>1, <1>2
  <2>2. ASSUME s[k].type = "file_chunk_meta"
        PROVE  k + 1 \in 1 .. Len(s) /\ s[k + 1] = Chunk("chunk", s[k].xfer, s[k].index)
    <3>1. k + 1 \in 1 .. Len(q) /\ q[k + 1] = Chunk("chunk", s[k].xfer, s[k].index)
      BY <1>2, <2>1, <2>2 DEF Paired
    <3> QED
      BY <1>1, <3>1
  <2>3. ASSUME s[k].type = "chunk", k > 1
        PROVE  s[k - 1].type = "file_chunk_meta"
    <3>1. q[k - 1].type = "file_chunk_meta" /\ k - 1 \in 1 .. Len(q)
      BY <1>1, <1>2, <2>1, <2>3 DEF Paired
    <3> QED
      BY <1>1, <3>1
  <2> QED
    BY <2>2, <2>3
<1>3. ASSUME NEW i \in 1 .. Len(p), k = Len(q) + i
      PROVE  /\ s[k].type = "file_chunk_meta" =>
                  k + 1 \in 1 .. Len(s) /\ s[k + 1] = Chunk("chunk", s[k].xfer, s[k].index)
             /\ s[k].type = "chunk" /\ k > 1 => s[k - 1].type = "file_chunk_meta"
  <2>1. s[k] = p[i]
    BY <1>1, <1>3
  <2>2. ASSUME s[k].type = "file_chunk_meta"
        PROVE  k + 1 \in 1 .. Len(s) /\ s[k + 1] = Chunk("chunk", s[k].xfer, s[k].index)
    <3>1. i + 1 \in 1 .. Len(p) /\ p[i + 1] = Chunk("chunk", s[k].xfer, s[k].index)
      BY <2>1, <2>2 DEF Paired
    <3>2. Len(q) + (i + 1) \in 1 .. Len(s) /\ s[Len(q) + (i + 1)] = p[i + 1]
      BY <1>1, <3>1
    <3>3. Len(q) + (i + 1) = k + 1
      BY <1>1, <1>3
    <3> QED
      BY <3>1, <3>2, <3>3
  <2>3. ASSUME s[k].type = "chunk", k > 1
        PROVE  s[k - 1].type = "file_chunk_meta"
    <3>1. i > 1 /\ i - 1 \in 1 .. Len(p)
      BY <1>1, <2>1, <2>3
    <3>2. p[i - 1].type = "file_chunk_meta"
      BY <2>1, <2>3, <3>1 DEF Paired
    <3>3. s[Len(q) + (i - 1)] = p[i - 1]
      BY <1>1, <3>1
    <3>4. Len(q) + (i - 1) = k - 1
      BY <1>1, <1>3
    <3> QED
      BY <3>2, <3>3, <3>4
  <2> QED
    BY <2>2, <2>3
<1> QED
  BY <1>1, <1>2, <1>3

LEMMA PairedSent ==
  ASSUME NEW x \in Xfer, NEW i \in Int
  PROVE  /\ <<Msg("file_offer", x)>> \in Seq(FrameToR) /\ <<Msg("file_offer", x)>> # <<>>
         /\ Paired(<<Msg("file_offer", x)>>) /\ <<Msg("file_offer", x)>>[1].type # "chunk"
         /\ Answer(x, i) \in Seq(FrameToR) /\ Answer(x, i) # <<>>
         /\ Paired(Answer(x, i)) /\ Answer(x, i)[1].type # "chunk"
<1> DEFINE o == Msg("file_offer", x)
           m == Chunk("file_chunk_meta", x, i)
           c == Chunk("chunk", x, i)
<1>1. /\ o \in FrameToR /\ o.type = "file_offer"
      /\ m \in FrameToR /\ m.type = "file_chunk_meta" /\ m.xfer = x /\ m.index = i
      /\ c \in FrameToR /\ c.type = "chunk"
  BY DEF Msg, Chunk, FrameToR
<1>2. c = Chunk("chunk", m.xfer, m.index)
  BY <1>1
<1> HIDE DEF o, m, c
<1>3. <<o>> \in Seq(FrameToR) /\ <<m, c>> \in Seq(FrameToR) /\ <<o>> # <<>> /\ <<m, c>> # <<>>
  BY <1>1, One, Two
<1>4. Paired(<<o>>) /\ <<o>>[1].type # "chunk"
  BY <1>1 DEF Paired
<1>5. Paired(<<m, c>>) /\ <<m, c>>[1].type # "chunk"
  BY <1>1, <1>2 DEF Paired
<1> QED
  BY <1>3, <1>4, <1>5 DEF Answer, o, m, c

\* What the sender writes is behind what is announced.
LEMMA AnnouncedJoined ==
  ASSUME NEW q \in Seq(FrameToR), NEW p \in Seq(FrameToR), NEW m, Announced(q, m), p # <<>>,
         p[1].type # "chunk"
  PROVE  Announced(q \o p, m)
<1>1. CASE q = <<>>
  <2>1. q \o p = p /\ Head(p) = p[1]
    BY <1>1
  <2> QED
    BY <1>1, <2>1 DEF Announced
<1>2. CASE q # <<>>
  <2>1. q \o p # <<>> /\ Head(q \o p) = Head(q)
    BY <1>2
  <2> QED
    BY <1>2, <2>1 DEF Announced
<1> QED
  BY <1>1, <1>2

\* Transfers that end, or change but for the chunk they are at.
LEMMA AnnouncedAlike ==
  ASSUME NEW q \in Seq(FrameToR), NEW m, NEW n, Announced(q, m),
         \A x \in Xfer : n[x] # None =>
           m[x] # None /\ n[x].pend = m[x].pend /\ n[x].next = m[x].next
  PROVE  Announced(q, n)
<1>1. q # <<>> => Head(q).xfer \in Xfer
  <2>1. q # <<>> => Head(q) \in FrameToR
    BY TailOf
  <2> QED
    BY <2>1 DEF FrameToR
<1> QED
  BY <1>1 DEF Announced

LEMMA RunTypes ==
  ASSUME TransferInv, RunInv
  PROVE  /\ toS \in Seq(FrameToS) /\ toR \in Seq(FrameToR)
         /\ toS \in Seq(AskedFrame) /\ toR \in Seq(ServedFrame)
         /\ \A x \in Xfer : in[x] # None =>
              /\ in[x] \in Tracked /\ in[x].open \in BOOLEAN /\ in[x].paused \in BOOLEAN
              /\ Place(x, in[x].next) /\ in[x].next \in Nat
              /\ in[x].pend \in {0, Bytes(x, in[x].next)}
<1>1. toS \in Seq(AskedFrame) /\ toR \in Seq(ServedFrame) /\ \A x \in Xfer : AtPlace(x)
  BY DEF RunInv, BoundInv
<1>2. AskedFrame \subseteq FrameToS /\ ServedFrame \subseteq FrameToR
  BY DEF AskedFrame, ServedFrame
<1>3. toS \in Seq(FrameToS) /\ toR \in Seq(FrameToR)
  BY <1>1, <1>2, Wider
<1>4. ASSUME NEW x \in Xfer, in[x] # None
      PROVE  /\ in[x] \in Tracked /\ in[x].open \in BOOLEAN /\ in[x].paused \in BOOLEAN
             /\ Place(x, in[x].next) /\ in[x].next \in Nat
             /\ in[x].pend \in {0, Bytes(x, in[x].next)}
  <2>1. in[x] \in Tracked
    BY <1>4 DEF TransferInv, TablesOK
  <2> QED
    BY <1>1, <1>4, <2>1 DEF Tracked, AtPlace, Place, Fits
<1> QED
  BY <1>1, <1>3, <1>4

LEMMA FitFrames ==
  ASSUME NEW x \in Xfer
  PROVE  /\ Msg("file_offer", x) \in ServedFrame
         /\ \A t \in {"file_accept", "file_reject", "file_pause", "file_resume"} : Msg(t, x) \in AskedFrame
         /\ \A i : Place(x, i) => Request(x, i) \in AskedFrame
         /\ \A i : Fits(x, i) =>
              Chunk("file_chunk_meta", x, i) \in ServedFrame /\ Chunk("chunk", x, i) \in ServedFrame
         /\ \A ok \in BOOLEAN : Complete(x, ok) \in AskedFrame
  BY DEF Msg, Request, Chunk, Complete, AskedFrame, ServedFrame, FrameToS, FrameToR, Place, Fits

\* The frames of x that matter are still there, or are not needed any more.
LEMMA GoesOn ==
  ASSUME NEW x \in Xfer, Going(x), in'[x] = in[x], rdb'[x] = rdb[x],
         Asking(x) => Asking(x)', Offered(x) => Offered(x)', Told(x) => Told(x)',
         Wanted(x) => Wanted(x)' \/ Served(x)', Served(x) => Served(x)'
  PROVE  Going(x)'
  BY DEF Going

\* A step of the sender.  What it takes from the receiver is answered.
LEMMA SenderRuns ==
  ASSUME TransferInv, RunInv, UNCHANGED <<in, rdb, asking, up, drops, pauses>>,
         toS' = toS \/ (toS # <<>> /\ toS' = Tail(toS)),
         \/ toR' = toR /\ unheard' = unheard
         \/ \E p \in Seq(ServedFrame) : SendToR(p) /\ p # <<>> /\ Paired(p) /\ p[1].type # "chunk",
         \A x \in Xfer : out'[x] # None /\ FileSize[x] > 0 /\ up =>
           \/ Offered(x)'
           \/ /\ out[x] # None /\ (Told(x) => Told(x)')
              /\ Wanted(x) => Wanted(x)' \/ Served(x)'
  PROVE  RunInv'
<1>1. /\ toS \in Seq(AskedFrame) /\ toR \in Seq(ServedFrame) /\ toR \in Seq(FrameToR)
      /\ unheard \in 0 .. Len(toR) /\ ServedFrame \subseteq FrameToR
  BY RunTypes DEF RunInv, BoundInv, ServedFrame
<1>2. toS' \in Seq(AskedFrame)
  BY <1>1, TailOf
<1>3. CASE toR' = toR /\ unheard' = unheard
  <2>1. BoundInv'
    BY <1>1, <1>2, <1>3 DEF RunInv, BoundInv, AtPlace
  <2>2. ASSUME Calm PROVE Calm'
    <3>1. ASSUME NEW x \in Xfer, out'[x] # None, FileSize[x] > 0 PROVE Going(x)'
      <4>1. Asking(x) => Asking(x)'
        BY DEF Asking
      <4>2. (Offered(x) => Offered(x)') /\ (Served(x) => Served(x)')
        BY <1>3 DEF Offered, Served
      <4>3. CASE Offered(x)'
        BY <4>3 DEF Going
      <4>4. CASE ~Offered(x)'
        <5>1. /\ out[x] # None /\ (Told(x) => Told(x)')
              /\ Wanted(x) => Wanted(x)' \/ Served(x)'
          BY <2>2, <3>1, <4>4 DEF Calm
        <5>2. Going(x)
          BY <2>2, <3>1, <5>1 DEF Calm
        <5> QED
          BY <4>1, <4>2, <5>1, <5>2, GoesOn
      <4> QED
        BY <4>3, <4>4
    <3> QED
      BY <1>3, <2>2, <3>1 DEF Calm, Asking
  <2> QED
    BY <2>1, <2>2 DEF RunInv
<1>4. ASSUME NEW p \in Seq(ServedFrame), SendToR(p), p # <<>>, Paired(p), p[1].type # "chunk"
      PROVE  RunInv'
  <2>1. p \in Seq(FrameToR) /\ toR \o p \in Seq(ServedFrame) /\ Len(toR \o p) \in Nat
    BY <1>1, Wider, Extended
  <2>2. IF up THEN toR' = toR \o p /\ unheard' = 0 ELSE toR' = toR /\ unheard' = unheard
    BY <1>4 DEF SendToR
  <2>3. toR' \in Seq(ServedFrame) /\ unheard' \in 0 .. Len(toR')
    <3>1. CASE up
      <4>1. toR' = toR \o p /\ unheard' = 0
        BY <2>2, <3>1
      <4>2. 0 \in 0 .. Len(toR \o p)
        BY <2>1
      <4> QED
        BY <2>1, <4>1, <4>2, Zenon
    <3>2. CASE ~up
      BY <1>1, <2>2, <3>2
    <3> QED
      BY <3>1, <3>2
  <2>4. BoundInv'
    BY <1>2, <2>3 DEF RunInv, BoundInv, AtPlace
  <2>5. ASSUME Calm PROVE Calm'
    <3>1. toR' = toR \o p
      BY <2>2, <2>5 DEF Calm
    <3>2. Paired(toR') /\ Announced(toR', in)
      BY <1>1, <1>4, <2>1, <2>5, <3>1, PairedJoined, AnnouncedJoined DEF Calm
    <3>3. ASSUME NEW x \in Xfer, out'[x] # None, FileSize[x] > 0 PROVE Going(x)'
      <4>1. Asking(x) => Asking(x)'
        BY DEF Asking
      <4>2. (Offered(x) => Offered(x)') /\ (Served(x) => Served(x)')
        BY <1>1, <2>1, <3>1, HoldsJoined DEF Offered, Served
      <4>3. CASE Offered(x)'
        BY <4>3 DEF Going
      <4>4. CASE ~Offered(x)'
        <5>1. /\ out[x] # None /\ (Told(x) => Told(x)')
              /\ Wanted(x) => Wanted(x)' \/ Served(x)'
          BY <2>5, <3>3, <4>4 DEF Calm
        <5>2. Going(x)
          BY <2>5, <3>3, <5>1 DEF Calm
        <5> QED
          BY <4>1, <4>2, <5>1, <5>2, GoesOn
      <4> QED
        BY <4>3, <4>4
    <3>4. \A x \in Xfer : in'[x] # None /\ ~in'[x].open => Asking(x)'
      BY <2>5 DEF Calm, Asking
    <3> QED
      BY <2>5, <3>2, <3>3, <3>4 DEF Calm
  <2> QED
    BY <2>4, <2>5 DEF RunInv
<1> QED
  BY <1>3, <1>4

\* A frame of another type is taken from the receiver's answers.
LEMMA OtherTaken ==
  ASSUME TransferInv, RunInv, toS # <<>>, toS' = Tail(toS), NEW x \in Xfer,
         Head(toS).type \notin {"file_chunk_req", "file_complete"} \/ Head(toS).xfer # x
  PROVE  (Wanted(x) => Wanted(x)') /\ (Told(x) => Told(x)')
  BY RunTypes, HoldsTail DEF Wanted, Told

LEMMA RunQueueOutgoing ==
  ASSUME TransferInv, RunInv, NEW x \in Xfer, QueueOutgoing(x)
  PROVE  RunInv'
<1> DEFINE p == <<Msg("file_offer", x)>>
<1>1. /\ UNCHANGED <<in, rdb, asking, up, drops, pauses, toS>>
      /\ up /\ SendToR(p) /\ out' = [out EXCEPT ![x] = "Pending"]
  BY DEF QueueOutgoing, receiverVars, bounds
<1>2. p \in Seq(ServedFrame) /\ p # <<>> /\ Paired(p) /\ p[1].type # "chunk"
  BY FitFrames, PairedSent, One
<1>3. Offered(x)'
  <2>1. toR' = toR \o p
    BY <1>1 DEF SendToR
  <2>2. p \in Seq(ServedFrame) /\ toR \in Seq(ServedFrame)
    BY <1>2, RunTypes
  <2>3. Holds(p, {"file_offer"}, x)
    BY DEF Holds, Msg
  <2> HIDE DEF p
  <2> QED
    BY <2>1, <2>2, <2>3, HoldsJoined DEF Offered
<1>4. \A y \in Xfer \ {x} : out'[y] = out[y]
  BY <1>1 DEF TransferInv, TablesOK
<1>5. \A y \in Xfer : (Told(y) => Told(y)') /\ (Wanted(y) => Wanted(y)')
  BY <1>1 DEF Told, Wanted
<1> HIDE DEF p
<1> QED
  BY <1>1, <1>2, <1>3, <1>4, <1>5, SenderRuns

\* The sender's steps that touch nothing but its own table.
LEMMA RunOwnTable ==
  ASSUME TransferInv, RunInv, NEW x \in Xfer, CancelOutgoing(x) \/ PauseOutgoing(x)
  PROVE  RunInv'
<1>1. /\ UNCHANGED <<in, rdb, asking, up, drops, pauses, toS, toR, unheard>>
      /\ \A y \in Xfer : out'[y] # None => out[y] # None
  BY DEF CancelOutgoing, PauseOutgoing, receiverVars, dialogVars, linkVars, bounds, TransferInv, TablesOK
<1>2. \A y \in Xfer : (Told(y) => Told(y)') /\ (Wanted(y) => Wanted(y)')
  BY <1>1 DEF Told, Wanted
<1> QED
  BY <1>1, <1>2, SenderRuns

LEMMA RunTold ==
  ASSUME TransferInv, RunInv, OnAccept \/ OnReject \/ OnPauseOrResume \/ OnComplete
  PROVE  RunInv'
<1>1. /\ UNCHANGED <<in, rdb, asking, up, drops, pauses, toR, unheard>>
      /\ toS # <<>> /\ toS' = Tail(toS)
  BY DEF OnAccept, OnReject, OnPauseOrResume, OnComplete, SenderReads, SenderConsumes,
         receiverVars, bounds
<1>2. ASSUME NEW y \in Xfer, out'[y] # None
      PROVE  out[y] # None /\ (Told(y) => Told(y)') /\ (Wanted(y) => Wanted(y)')
  <2>1. DOMAIN out = Xfer
    BY DEF TransferInv, TablesOK
  <2>2. CASE OnAccept \/ OnReject \/ OnPauseOrResume
    <3>1. Head(toS).type \notin {"file_chunk_req", "file_complete"}
      BY <2>2 DEF OnAccept, OnReject, OnPauseOrResume, SenderReads
    <3>2. out[y] # None
      BY <1>2, <2>1, <2>2 DEF OnAccept, OnReject, OnPauseOrResume, Update, Finish, senderVars
    <3> QED
      BY <1>1, <3>1, <3>2, OtherTaken
  <2>3. CASE OnComplete
    <3>1. out[y] # None /\ Head(toS).xfer # y
      BY <1>2, <2>1, <2>3 DEF OnComplete, Finish, senderVars
    <3> QED
      BY <1>1, <3>1, OtherTaken
  <2> QED
    BY <2>2, <2>3
<1> QED
  BY <1>1, <1>2, SenderRuns

\* A request for a chunk is answered as long as the sender has the transfer open.
LEMMA RunChunkReq ==
  ASSUME TransferInv, RunInv, OnChunkReq
  PROVE  RunInv'
<1>2. PICK x \in Xfer, i \in Int : x = Head(toS).xfer /\ i = Head(toS).index /\ Place(x, i)
  <2>1. toS # <<>> /\ Head(toS).type = "file_chunk_req"
    BY DEF OnChunkReq, SenderReads
  <2>2. Head(toS) \in AskedFrame
    BY <2>1, RunTypes, TailOf
  <2> QED
    BY <2>1, <2>2 DEF AskedFrame, FrameToS
<1> DEFINE p == Answer(x, i)
<1>1. /\ UNCHANGED <<in, rdb, asking, up, drops, pauses, out>>
      /\ toS # <<>> /\ toS' = Tail(toS) /\ Head(toS).type = "file_chunk_req"
      /\ IF out[x] # None /\ i * ChunkSize < FileSize[x]
           THEN SendToR(p) ELSE toR' = toR /\ unheard' = unheard
  BY <1>2 DEF OnChunkReq, SenderReads, SenderConsumes, receiverVars, senderVars, bounds
<1>3. FileSize[x] \in Nat /\ ChunkSize \in Nat \ {0}
  BY <1>2, SizesAssumption
<1>4. i \in Nat
  BY <1>2 DEF Place, Fits
<1>5. CASE out[x] # None /\ i * ChunkSize < FileSize[x]
  <2>1. Fits(x, i)
    BY <1>4, <1>5 DEF Fits
  <2>2. p \in Seq(ServedFrame) /\ p # <<>> /\ Paired(p) /\ p[1].type # "chunk"
    BY <1>2, <2>1, FitFrames, PairedSent, Two DEF Answer
  <2>3. ASSUME up PROVE Served(x)'
    <3>1. toR' = toR \o p /\ toR \in Seq(ServedFrame)
      BY <1>1, <1>5, <2>3, RunTypes DEF SendToR
    <3>2. Holds(p, {"file_chunk_meta", "chunk"}, x)
      <4>1. p[1].type = "file_chunk_meta" /\ p[1].xfer = x /\ 1 \in 1 .. Len(p)
        BY DEF Answer, Chunk
      <4> HIDE DEF p
      <4> QED
        BY <4>1 DEF Holds
    <3> HIDE DEF p
    <3> QED
      BY <2>2, <3>1, <3>2, HoldsJoined DEF Served
  <2>4. \A y \in Xfer : (Told(y) => Told(y)') /\ (y # x => (Wanted(y) => Wanted(y)'))
    <3> SUFFICES ASSUME NEW y \in Xfer
                 PROVE  (Told(y) => Told(y)') /\ (y # x => (Wanted(y) => Wanted(y)'))
      OBVIOUS
    <3>1. Told(y) => Told(y)'
      BY <1>1, RunTypes, HoldsTail DEF Told
    <3> QED
      BY <1>1, <1>2, <3>1, OtherTaken
  <2> HIDE DEF p
  <2>5. /\ toS' = toS \/ (toS # <<>> /\ toS' = Tail(toS))
        /\ \E q \in Seq(ServedFrame) : SendToR(q) /\ q # <<>> /\ Paired(q) /\ q[1].type # "chunk"
    BY <1>1, <1>5, <2>2
  <2>6. ASSUME NEW y \in Xfer, out'[y] # None, FileSize[y] > 0, up
        PROVE  out[y] # None /\ (Told(y) => Told(y)') /\ (Wanted(y) => Wanted(y)' \/ Served(y)')
    BY <1>1, <2>3, <2>4, <2>6
  <2> QED
    BY <1>1, <2>5, <2>6, SenderRuns
<1>6. CASE ~(out[x] # None /\ i * ChunkSize < FileSize[x])
  <2>1. out[x] = None \/ ~(FileSize[x] > 0)
    BY <1>2, <1>3, <1>6 DEF Place, Fits
  <2>2. \A y \in Xfer : (Told(y) => Told(y)') /\ (y # x => (Wanted(y) => Wanted(y)'))
    <3> SUFFICES ASSUME NEW y \in Xfer
                 PROVE  (Told(y) => Told(y)') /\ (y # x => (Wanted(y) => Wanted(y)'))
      OBVIOUS
    <3>1. Told(y) => Told(y)'
      BY <1>1, RunTypes, HoldsTail DEF Told
    <3> QED
      BY <1>1, <1>2, <3>1, OtherTaken
  <2> HIDE DEF p
  <2> QED
    BY <1>1, <1>6, <2>1, <2>2, SenderRuns
<1> QED
  BY <1>5, <1>6

\* What the receiver writes is added to what it wrote before.
LEMMA AskedKept ==
  ASSUME TransferInv, RunInv, NEW types, NEW x \in Xfer,
         toS' = toS \/ (\E p \in Seq(AskedFrame) : SendToS(p)), Holds(toS, types, x)
  PROVE  Holds(toS', types, x)
<1>1. CASE toS' = toS
  BY <1>1
<1>2. ASSUME NEW p \in Seq(AskedFrame), SendToS(p)
      PROVE  Holds(toS', types, x)
  <2>1. Holds(toS \o p, types, x)
    BY RunTypes, HoldsJoined
  <2> QED
    BY <1>2, <2>1 DEF SendToS
<1> QED
  BY <1>1, <1>2

LEMMA NewlyAsked ==
  ASSUME TransferInv, RunInv, up, NEW types, NEW x \in Xfer,
         NEW p \in Seq(AskedFrame), SendToS(p), Holds(p, types, x)
  PROVE  Holds(toS', types, x)
  BY RunTypes, HoldsJoined DEF SendToS

\* A step of the receiver about another transfer.
LEMMA OthersGo ==
  ASSUME TransferInv, RunInv, NEW x \in Xfer, Going(x), in'[x] = in[x], rdb'[x] = rdb[x],
         Asking(x) => Asking(x)', toS' = toS \/ (\E p \in Seq(AskedFrame) : SendToS(p)),
         toR' = toR \/ (toR # <<>> /\ toR' = Tail(toR) /\ Head(toR).xfer # x)
  PROVE  Going(x)'
<1>1. (Told(x) => Told(x)') /\ (Wanted(x) => Wanted(x)')
  BY AskedKept DEF Told, Wanted
<1>2. (Offered(x) => Offered(x)') /\ (Served(x) => Served(x)')
  BY RunTypes, HoldsTail DEF Offered, Served
<1> QED
  BY <1>1, <1>2, GoesOn

\* A step of the receiver keeps the bounds, and in calm what it is left to show.
LEMMA ReceiverRuns ==
  ASSUME TransferInv, RunInv, UNCHANGED <<out, up, drops>>, pauses' \in 0 .. MaxPauses,
         toS' = toS \/ (\E p \in Seq(AskedFrame) : SendToS(p)),
         \/ toR' = toR /\ unheard' \in 0 .. Len(toR)
         \/ toR # <<>> /\ toR' = Tail(toR) /\ unheard' = unheard /\ unheard < Len(toR),
         \A x \in Xfer : AtPlace(x)',
         Calm => /\ \A k \in 1 .. Len(asking') : asking'[k].live
                 /\ \A x \in Xfer : in'[x] # None /\ ~in'[x].open => Asking(x)'
                 /\ Announced(toR', in')
                 /\ \A x \in Xfer : Going(x) => Going(x)'
  PROVE  RunInv'
<1>1. toS \in Seq(AskedFrame) /\ toR \in Seq(ServedFrame) /\ toR \in Seq(FrameToR)
  BY RunTypes
<1>2. toS' \in Seq(AskedFrame)
  BY <1>1, Extended DEF SendToS
<1>3. toR' \in Seq(ServedFrame) /\ unheard' \in 0 .. Len(toR')
  <2>1. CASE toR' = toR /\ unheard' \in 0 .. Len(toR)
    BY <1>1, <2>1
  <2>2. CASE toR # <<>> /\ toR' = Tail(toR) /\ unheard' = unheard /\ unheard < Len(toR)
    <3>1. unheard \in 0 .. Len(toR)
      BY DEF RunInv, BoundInv
    <3>2. Tail(toR) \in Seq(ServedFrame) /\ Len(toR) \in Nat /\ Len(Tail(toR)) = Len(toR) - 1
      BY <1>1, <2>2, TailOf
    <3>3. unheard \in 0 .. Len(Tail(toR))
      <4> DEFINE m == Len(toR)
                 n == Len(Tail(toR))
      <4>1. unheard \in 0 .. m /\ unheard < m /\ m \in Nat /\ n = m - 1
        BY <2>2, <3>1, <3>2
      <4> HIDE DEF m, n
      <4>2. unheard \in 0 .. n
        BY <4>1
      <4> QED
        BY <4>2 DEF n
    <3> QED
      BY <2>2, <3>2, <3>3
  <2> QED
    BY <2>1, <2>2
<1>4. BoundInv'
  BY <1>2, <1>3 DEF RunInv, BoundInv
<1>5. ASSUME Calm PROVE Calm'
  <2>1. Paired(toR')
    BY <1>1, <1>5, PairedTail DEF Calm
  <2>2. \A x \in Xfer : out'[x] # None /\ FileSize[x] > 0 => Going(x)'
    BY <1>5 DEF Calm
  <2> QED
    BY <1>5, <2>1, <2>2 DEF Calm
<1> QED
  BY <1>4, <1>5 DEF RunInv

\* Behind a frame that announces no chunk, no transfer may wait for bytes.
LEMMA NoneAnnounced ==
  ASSUME NEW q \in Seq(FrameToR), q # <<>>, Paired(q), Head(q).type # "file_chunk_meta", NEW m,
         \A x \in Xfer : m[x] # None => m[x].pend = 0
  PROVE  Announced(Tail(q), m)
  BY PairedTail DEF Announced

LEMMA RunOffer ==
  ASSUME TransferInv, RunInv, OnOffer
  PROVE  RunInv'
<1>1. PICK x \in Xfer : x = Head(toR).xfer /\ toR # <<>> /\ Head(toR).type = "file_offer"
  BY HeadNews DEF OnOffer
<1> DEFINE d == [xfer |-> x, live |-> TRUE]
<1>2. /\ in' = [in EXCEPT ![x] = Incoming] /\ rdb' = [rdb EXCEPT ![x] = "Pending"]
      /\ asking' = <<d>> \o asking /\ toR' = Tail(toR) /\ unheard < Len(toR)
      /\ UNCHANGED <<out, toS, up, unheard, drops, pauses>>
  BY <1>1, RunTypes DEF OnOffer, ReceiverConsumes, ReceiverReads, senderVars, bounds, RunInv, BoundInv
<1>3. /\ in'[x] = Incoming /\ \A y \in Xfer \ {x} : in'[y] = in[y] /\ rdb'[y] = rdb[y]
  BY <1>2 DEF TransferInv, TablesOK
<1>4. /\ Len(asking') = Len(asking) + 1 /\ Len(asking) \in Nat /\ asking'[1] = d
      /\ \A k \in 1 .. Len(asking) : k + 1 \in 1 .. Len(asking') /\ asking'[k + 1] = asking[k]
      /\ \A k \in 1 .. Len(asking') : k = 1 \/ (k - 1 \in 1 .. Len(asking) /\ asking'[k] = asking[k - 1])
  <2>1. asking \in Seq(Dialog)
    BY DEF TransferInv
  <2> HIDE DEF d
  <2> QED
    BY <1>2, <2>1
<1>5. Asking(x)' /\ \A y \in Xfer : Asking(y) => Asking(y)'
  <2>1. d.xfer = x /\ 1 \in 1 .. Len(asking')
    BY <1>4
  <2> HIDE DEF d
  <2> QED
    BY <1>4, <2>1 DEF Asking
<1>6. \A y \in Xfer : AtPlace(y)'
  <2>1. AtPlace(x)'
    BY <1>3 DEF AtPlace, Incoming, Place
  <2>2. ASSUME NEW y \in Xfer \ {x} PROVE AtPlace(y)'
    BY <1>3 DEF RunInv, BoundInv, AtPlace
  <2> QED
    BY <2>1, <2>2
<1>7. ASSUME Calm
      PROVE  /\ \A k \in 1 .. Len(asking') : asking'[k].live
             /\ \A y \in Xfer : in'[y] # None /\ ~in'[y].open => Asking(y)'
             /\ Announced(toR', in')
             /\ \A y \in Xfer : Going(y) => Going(y)'
  <2>1. \A k \in 1 .. Len(asking') : asking'[k].live
    <3>1. d.live
      OBVIOUS
    <3> HIDE DEF d
    <3> QED
      BY <1>4, <1>7, <3>1 DEF Calm
  <2>2. \A y \in Xfer : in'[y] # None /\ ~in'[y].open => Asking(y)'
    BY <1>3, <1>5, <1>7 DEF Calm
  <2>3. Announced(toR', in')
    <3>1. ASSUME NEW y \in Xfer, in'[y] # None PROVE in'[y].pend = 0
      <4>1. CASE y = x
        BY <1>3, <4>1 DEF Incoming
      <4>2. CASE y # x
        BY <1>1, <1>3, <1>7, <3>1, <4>2 DEF Calm, Announced, Chunk
      <4> QED
        BY <4>1, <4>2
    <3> QED
      BY <1>1, <1>2, <1>7, <3>1, RunTypes, NoneAnnounced DEF Calm
  <2>4. ASSUME NEW y \in Xfer, Going(y) PROVE Going(y)'
    <3>1. CASE y = x
      BY <1>5, <3>1 DEF Going
    <3>2. CASE y # x
      BY <1>1, <1>2, <1>3, <1>5, <2>4, <3>2, OthersGo
    <3> QED
      BY <3>1, <3>2
  <2> QED
    BY <2>1, <2>2, <2>3, <2>4
<1>8. pauses' \in 0 .. MaxPauses
  BY <1>2 DEF RunInv, BoundInv
<1> QED
  BY <1>1, <1>2, <1>6, <1>7, <1>8, ReceiverRuns

LEMMA RunChunkMeta ==
  ASSUME TransferInv, RunInv, OnChunkMeta
  PROVE  RunInv'
<1>1. PICK x \in Xfer, i \in Int :
        x = Head(toR).xfer /\ i = Head(toR).index /\ toR # <<>> /\ Head(toR).type = "file_chunk_meta"
  BY HeadNews DEF OnChunkMeta
<1>2. /\ UNCHANGED <<out, rdb, asking, toS, up, unheard, drops, pauses>> /\ toR' = Tail(toR)
      /\ unheard < Len(toR)
      /\ in' = IF in[x] = None THEN in ELSE [in EXCEPT ![x].next = i, ![x].pend = Bytes(x, i)]
  BY <1>1, RunTypes DEF OnChunkMeta, ReceiverConsumes, ReceiverReads, senderVars, bounds, RunInv, BoundInv
<1>3. Fits(x, i)
  <2>1. Head(toR) \in ServedFrame
    BY <1>1, RunTypes, TailOf
  <2> QED
    BY <1>1, <2>1 DEF ServedFrame
<1>4. /\ \A y \in Xfer \ {x} : in'[y] = in[y]
      /\ in[x] = None => in'[x] = None
      /\ in[x] # None => /\ in'[x] # None /\ in'[x].next = i /\ in'[x].pend = Bytes(x, i)
                         /\ in'[x].open = in[x].open /\ in'[x].paused = in[x].paused
  <2>1. CASE in[x] = None
    BY <1>2, <2>1
  <2>2. CASE in[x] # None
    <3> DEFINE t == [in[x] EXCEPT !.next = i, !.pend = Bytes(x, i)]
    <3>1. in[x] \in Tracked /\ in \in [Xfer -> Tracked \cup {None}] /\ Bytes(x, i) \in Int
      BY <1>3, <2>2, RunTypes, FitsBytes DEF TransferInv, TablesOK
    <3>2. /\ t \in Tracked /\ t.next = i /\ t.pend = Bytes(x, i)
          /\ t.open = in[x].open /\ t.paused = in[x].paused
      BY <3>1 DEF Tracked
    <3>3. in' = [in EXCEPT ![x] = t]
      BY <1>2, <2>2, <3>1 DEF Tracked
    <3> HIDE DEF t
    <3>4. in'[x] = t /\ t # None /\ \A y \in Xfer \ {x} : in'[y] = in[y]
      BY <3>1, <3>2, <3>3, SizesAssumption
    <3> QED
      BY <2>2, <3>2, <3>4
  <2> QED
    BY <2>1, <2>2
<1>5. \A y \in Xfer : AtPlace(y)'
  <2>1. AtPlace(x)'
    BY <1>3, <1>4 DEF AtPlace, Place
  <2>2. ASSUME NEW y \in Xfer \ {x} PROVE AtPlace(y)'
    BY <1>4 DEF RunInv, BoundInv, AtPlace
  <2> QED
    BY <2>1, <2>2
<1>6. ASSUME Calm
      PROVE  /\ \A k \in 1 .. Len(asking') : asking'[k].live
             /\ \A y \in Xfer : in'[y] # None /\ ~in'[y].open => Asking(y)'
             /\ Announced(toR', in')
             /\ \A y \in Xfer : Going(y) => Going(y)'
  <2>1. \A k \in 1 .. Len(asking') : asking'[k].live
    BY <1>2, <1>6 DEF Calm
  <2>2. \A y \in Xfer : Asking(y) => Asking(y)'
    BY <1>2 DEF Asking
  <2>3. \A y \in Xfer : in'[y] # None /\ ~in'[y].open => Asking(y)'
    BY <1>4, <1>6, <2>2 DEF Calm
  <2>4. toR' # <<>> /\ Head(toR') = Chunk("chunk", x, i)
    BY <1>1, <1>2, <1>6, RunTypes, PairedTail DEF Calm
  <2>5. Announced(toR', in')
    <3>1. ASSUME NEW y \in Xfer, in'[y] # None, in'[y].pend # 0
          PROVE  toR' # <<>> /\ Head(toR') = Chunk("chunk", y, in'[y].next)
      <4>1. CASE y = x
        BY <1>4, <2>4, <3>1, <4>1
      <4>2. CASE y # x
        BY <1>1, <1>4, <1>6, <3>1, <4>2 DEF Calm, Announced, Chunk
      <4> QED
        BY <4>1, <4>2
    <3>2. ASSUME in'[Head(toR').xfer] # None
          PROVE  in'[Head(toR').xfer].pend = Bytes(Head(toR').xfer, Head(toR').index)
      <4>1. Head(toR').xfer = x /\ Head(toR').index = i
        BY <2>4 DEF Chunk
      <4> QED
        BY <1>4, <3>2, <4>1
    <3> QED
      BY <3>1, <3>2 DEF Announced
  <2>6. ASSUME NEW y \in Xfer, Going(y) PROVE Going(y)'
    <3>1. CASE y = x
      <4>1. (Offered(x) => Offered(x)') /\ (Told(x) => Told(x)')
        BY <1>1, <1>2, RunTypes, HoldsTail DEF Offered, Told
      <4>2. Served(x)'
        <5>1. toR' \in Seq(FrameToR)
          BY <1>1, <1>2, RunTypes, TailOf
        <5>2. 1 \in 1 .. Len(toR') /\ toR'[1] = Chunk("chunk", x, i)
          BY <2>4, <5>1, TailOf
        <5> QED
          BY <5>2 DEF Served, Holds, Chunk
      <4> QED
        BY <1>2, <1>4, <2>2, <2>6, <3>1, <4>1, <4>2 DEF Going
    <3>2. CASE y # x
      BY <1>1, <1>2, <1>4, <2>2, <2>6, <3>2, OthersGo
    <3> QED
      BY <3>1, <3>2
  <2> QED
    BY <2>1, <2>3, <2>5, <2>6
<1>7. pauses' \in 0 .. MaxPauses
  BY <1>2 DEF RunInv, BoundInv
<1> QED
  BY <1>1, <1>2, <1>5, <1>6, <1>7, ReceiverRuns

\* Where a chunk is written there was one to come; if another is to come, its
\* place is next.
LEMMA NextFits ==
  ASSUME NEW x \in Xfer, NEW i \in Nat, ~IsLast(x, i)
  PROVE  Fits(x, i)
<1>1. Chunks(x) \in Int /\ (Fits(x, i) <=> i < Chunks(x))
  BY FitsChunks
<1> QED
  BY <1>1 DEF IsLast

\* A chunk that was announced is written where it belongs, and the next one is
\* asked for unless the transfer is paused or at its end.
LEMMA RunWriteChunk ==
  ASSUME TransferInv, RunInv, NEW x \in Xfer, in[x] # None, in[x].open = TRUE,
         NEW chunk, WriteChunk(x, chunk), UNCHANGED <<out, asking, up, unheard, drops, pauses>>,
         toR # <<>>, toR' = Tail(toR), unheard < Len(toR), Head(toR).type = "chunk",
         Calm => Head(toR).xfer = x
  PROVE  RunInv'
<1> DEFINE n == in[x].next + 1
<1>1. /\ in[x] \in Tracked /\ in[x].next \in Nat /\ n \in Nat /\ n \in Int /\ in[x].paused \in BOOLEAN
      /\ in \in [Xfer -> Tracked \cup {None}] /\ rdb \in [Xfer -> Row \cup {None}]
  BY RunTypes DEF TransferInv, TablesOK
<1>2. PICK ok \in BOOLEAN :
        IF IsLast(x, n)
          THEN EndIncoming(x, IF ok THEN "Done" ELSE "Failed") /\ SendToS(<<Complete(x, ok)>>)
          ELSE /\ in' = [in EXCEPT ![x].next = n, ![x].pend = 0]
               /\ rdb' = [rdb EXCEPT ![x] = "Active"]
               /\ SendToS(NextRequest(x, n))
  BY DEF WriteChunk, Verdict, Intact
<1> HIDE DEF n
<1>3. IF IsLast(x, n) THEN in'[x] = None
      ELSE /\ in'[x] # None /\ in'[x].next = n /\ in'[x].pend = 0
           /\ in'[x].open = in[x].open /\ in'[x].paused = in[x].paused
  <2>1. CASE IsLast(x, n)
    BY <1>1, <1>2, <2>1 DEF EndIncoming
  <2>2. CASE ~IsLast(x, n)
    <3> DEFINE t == [in[x] EXCEPT !.next = n, !.pend = 0]
    <3>1. t \in Tracked /\ t.next = n /\ t.pend = 0 /\ t.open = in[x].open /\ t.paused = in[x].paused
      <4>1. PICK none \in Int : none = 0
        OBVIOUS
      <4>2. [in[x] EXCEPT !.next = n, !.pend = none] \in Tracked
        BY <1>1, NextPlace
      <4> QED
        BY <1>1, <4>1, <4>2 DEF Tracked
    <3>2. in' = [in EXCEPT ![x] = t]
      BY <1>1, <1>2, <2>2 DEF Tracked
    <3> HIDE DEF t
    <3>3. in'[x] = t /\ t # None
      BY <1>1, <3>1, <3>2, SizesAssumption
    <3> QED
      BY <2>2, <3>1, <3>3
  <2> QED
    BY <2>1, <2>2
<1>4. \A y \in Xfer \ {x} : in'[y] = in[y] /\ rdb'[y] = rdb[y]
  BY <1>1, <1>2 DEF EndIncoming
<1>5. ~IsLast(x, n) => Fits(x, n)
  BY <1>1, NextFits
<1>6. \A y \in Xfer : AtPlace(y)'
  <2>1. AtPlace(x)'
    BY <1>3, <1>5 DEF AtPlace, Place
  <2>2. ASSUME NEW y \in Xfer \ {x} PROVE AtPlace(y)'
    BY <1>4 DEF RunInv, BoundInv, AtPlace
  <2> QED
    BY <2>1, <2>2
<1>7. PICK p \in Seq(AskedFrame) :
        /\ SendToS(p)
        /\ IsLast(x, n) => p = <<Complete(x, ok)>>
        /\ ~IsLast(x, n) /\ ~in[x].paused => p = <<Request(x, n)>>
  <2>1. CASE IsLast(x, n)
    BY <1>2, <2>1, FitFrames, One
  <2>2. CASE ~IsLast(x, n)
    <3>1. Request(x, n) \in AskedFrame
      BY <1>5, <2>2, FitFrames DEF Place
    <3>2. <<Request(x, n)>> \in Seq(AskedFrame) /\ <<>> \in Seq(AskedFrame)
      BY <3>1, One, NoneSent
    <3> QED
      BY <1>2, <2>2, <3>2 DEF NextRequest
  <2> QED
    BY <2>1, <2>2
<1>8. ASSUME Calm
      PROVE  /\ \A k \in 1 .. Len(asking') : asking'[k].live
             /\ \A y \in Xfer : in'[y] # None /\ ~in'[y].open => Asking(y)'
             /\ Announced(toR', in')
             /\ \A y \in Xfer : Going(y) => Going(y)'
  <2>1. \A k \in 1 .. Len(asking') : asking'[k].live
    BY <1>8 DEF Calm
  <2>2. \A y \in Xfer : Asking(y) => Asking(y)'
    BY DEF Asking
  <2>3. ASSUME NEW y \in Xfer, in'[y] # None, ~in'[y].open PROVE Asking(y)'
    <3>1. y # x
      BY <1>3, <2>3
    <3> QED
      BY <1>4, <1>8, <2>2, <2>3, <3>1 DEF Calm
  <2>4. Announced(toR', in')
    <3>1. ASSUME NEW y \in Xfer, in'[y] # None PROVE in'[y].pend = 0
      <4>1. CASE y = x
        BY <1>3, <3>1, <4>1
      <4>2. CASE y # x
        BY <1>4, <1>8, <3>1, <4>2 DEF Calm, Announced, Chunk
      <4> QED
        BY <4>1, <4>2
    <3> QED
      BY <1>8, <3>1, RunTypes, NoneAnnounced DEF Calm
  <2>5. Going(x)'
    <3>1. CASE IsLast(x, n)
      <4>1. Holds(p, {"file_complete"}, x)
        BY <1>7, <3>1 DEF Holds, Complete
      <4>2. Told(x)'
        BY <1>7, <1>8, <4>1, NewlyAsked DEF Told, Calm
      <4> QED
        BY <4>2 DEF Going
    <3>2. CASE ~IsLast(x, n) /\ in[x].paused
      <4>1. in'[x] # None /\ in'[x].open = TRUE /\ in'[x].paused
        BY <1>3, <3>2
      <4> QED
        BY <4>1 DEF Going
    <3>3. CASE ~IsLast(x, n) /\ ~in[x].paused
      <4>1. Holds(p, {"file_chunk_req"}, x)
        <5>1. p = <<Request(x, n)>>
          BY <1>7, <3>3
        <5>2. 1 \in 1 .. Len(p) /\ p[1] = Request(x, n)
          BY <5>1
        <5>3. Request(x, n).type = "file_chunk_req" /\ Request(x, n).xfer = x
          BY DEF Request, Chunk
        <5> QED
          BY <5>2, <5>3 DEF Holds
      <4>2. Wanted(x)'
        BY <1>7, <1>8, <4>1, NewlyAsked DEF Wanted, Calm
      <4>3. in'[x] # None /\ in'[x].open = TRUE
        BY <1>3, <3>3
      <4> QED
        BY <4>2, <4>3 DEF Going
    <3> QED
      BY <3>1, <3>2, <3>3
  <2>6. ASSUME NEW y \in Xfer, Going(y), y # x PROVE Going(y)'
    BY <1>4, <1>7, <1>8, <2>2, <2>6, OthersGo
  <2> QED
    BY <2>1, <2>3, <2>4, <2>5, <2>6
<1>9. pauses' \in 0 .. MaxPauses
  BY DEF RunInv, BoundInv
<1> QED
  BY <1>6, <1>7, <1>8, <1>9, ReceiverRuns

\* In calm a chunk reaches the transfer it is of, or one that is not there.
LEMMA RunBinary ==
  ASSUME TransferInv, RunInv, OnBinary
  PROVE  RunInv'
<1>1. PICK y \in Xfer, i \in Int :
        y = Head(toR).xfer /\ i = Head(toR).index /\ toR # <<>> /\ Head(toR).type = "chunk"
  BY HeadNews DEF OnBinary
<1>2. /\ UNCHANGED <<out, asking, up, unheard, drops, pauses>> /\ toR' = Tail(toR)
      /\ unheard < Len(toR) /\ Listening
  BY <1>1, RunTypes DEF OnBinary, ReceiverConsumes, ReceiverReads, senderVars, bounds, RunInv, BoundInv
<1> DEFINE waiting == {x \in Xfer : in[x] # None /\ in[x].pend = Bytes(y, i)}
<1>3. \/ \E x \in waiting : in[x].open /\ WriteChunk(x, <<y, i>>)
      \/ /\ waiting = {} \/ \E x \in waiting : ~in[x].open
         /\ UNCHANGED <<in, rdb, disk, toS>>
  BY <1>1 DEF OnBinary, receiverVars
<1>4. Bytes(y, i) \in Nat \ {0}
  <2>1. Head(toR) \in ServedFrame
    BY <1>1, RunTypes, TailOf
  <2> QED
    BY <1>1, <2>1, FitsBytes DEF ServedFrame
<1>5. CASE \E x \in waiting : in[x].open /\ WriteChunk(x, <<y, i>>)
  <2>1. PICK x \in waiting : in[x].open /\ WriteChunk(x, <<y, i>>)
    BY <1>5
  <2>2. x \in Xfer /\ in[x] # None /\ in[x].pend # 0 /\ in[x].open = TRUE
    BY <1>4, <2>1, RunTypes
  <2>3. Calm => Head(toR).xfer = x
    BY <2>2 DEF Calm, Announced, Chunk
  <2> QED
    BY <1>1, <1>2, <2>1, <2>2, <2>3, RunWriteChunk
<1>6. CASE /\ waiting = {} \/ \E x \in waiting : ~in[x].open
           /\ UNCHANGED <<in, rdb, disk, toS>>
  <2>1. \A x \in Xfer : AtPlace(x)'
    BY <1>6 DEF RunInv, BoundInv, AtPlace
  <2>2. ASSUME Calm
        PROVE  /\ \A k \in 1 .. Len(asking') : asking'[k].live
               /\ \A x \in Xfer : in'[x] # None /\ ~in'[x].open => Asking(x)'
               /\ Announced(toR', in')
               /\ \A x \in Xfer : Going(x) => Going(x)'
    <3>1. \A x \in Xfer : Asking(x) => Asking(x)'
      BY <1>2 DEF Asking
    <3>2. asking \in Seq(Dialog) /\ DOMAIN asking = 1 .. Len(asking)
      BY DEF TransferInv
    <3>3. in[y] = None
      <4>1. \A x \in Xfer : ~Asking(x)
        BY <1>2, <2>2, <3>2 DEF Listening, Calm, Asking
      <4>2. waiting = {}
        BY <1>6, <2>2, <4>1 DEF Calm
      <4>3. in[y] # None => y \in waiting
        BY <1>1, <2>2 DEF Calm, Announced
      <4> QED
        BY <4>2, <4>3
    <3>4. Announced(toR', in')
      <4>1. ASSUME NEW x \in Xfer, in[x] # None PROVE in[x].pend = 0
        BY <1>1, <2>2, <3>3, <4>1 DEF Calm, Announced, Chunk
      <4>2. Announced(Tail(toR), in)
        BY <1>1, <2>2, <4>1, RunTypes, NoneAnnounced DEF Calm
      <4> QED
        BY <1>2, <1>6, <4>2
    <3>5. ASSUME NEW x \in Xfer, Going(x) PROVE Going(x)'
      <4>1. CASE x = y
        <5>1. (Offered(y) => Offered(y)') /\ (Told(y) => Told(y)')
          BY <1>1, <1>2, <1>6, RunTypes, HoldsTail DEF Offered, Told
        <5> QED
          BY <1>6, <3>1, <3>3, <3>5, <4>1, <5>1 DEF Going
      <4>2. CASE x # y
        BY <1>1, <1>2, <1>6, <3>1, <3>5, <4>2, OthersGo
      <4> QED
        BY <4>1, <4>2
    <3> QED
      BY <1>2, <1>6, <2>2, <3>1, <3>4, <3>5 DEF Calm
  <2>3. pauses' \in 0 .. MaxPauses
    BY <1>2 DEF RunInv, BoundInv
  <2> QED
    BY <1>1, <1>2, <1>6, <2>1, <2>2, <2>3, ReceiverRuns
<1> QED
  BY <1>3, <1>5, <1>6

\* The dialog about x, the newest one, closes.
LEMMA Closed ==
  ASSUME TransferInv, RunInv, asking # <<>>, CloseDialog, NEW x \in Xfer, x = asking[1].xfer
  PROVE  /\ UNCHANGED <<out, up, toR, drops, pauses>>
         /\ unheard' \in 0 .. Len(toR) /\ pauses' \in 0 .. MaxPauses
         /\ \A y \in Xfer \ {x} : Asking(y) => Asking(y)'
         /\ Calm => \A k \in 1 .. Len(asking') : asking'[k].live
<1>1. /\ asking' = Tail(asking) /\ UNCHANGED <<out, up, toR, drops, pauses>>
      /\ unheard' = unheard \/ unheard' \in 0 .. Len(toR)
  BY DEF CloseDialog, senderVars, bounds
<1>2. unheard' \in 0 .. Len(toR) /\ pauses' \in 0 .. MaxPauses
  BY <1>1 DEF RunInv, BoundInv
<1>3. asking \in Seq(Dialog)
  BY DEF TransferInv
<1>4. /\ Len(asking) \in Nat /\ Len(Tail(asking)) = Len(asking) - 1
      /\ \A i \in 1 .. Len(Tail(asking)) : Tail(asking)[i] = asking[i + 1] /\ i + 1 \in 1 .. Len(asking)
  BY <1>3, TailOf
<1>5. ASSUME NEW y \in Xfer \ {x}, Asking(y) PROVE Asking(y)'
  <2>1. PICK k \in 1 .. Len(asking) : asking[k].xfer = y
    BY <1>5 DEF Asking
  <2>2. k - 1 \in 1 .. Len(Tail(asking)) /\ (k - 1) + 1 = k
    BY <1>4, <2>1
  <2>3. Tail(asking)[k - 1].xfer = y
    BY <1>4, <2>1, <2>2
  <2> QED
    BY <1>1, <2>2, <2>3 DEF Asking
<1>6. Calm => \A k \in 1 .. Len(asking') : asking'[k].live
  BY <1>1, <1>4 DEF Calm
<1> QED
  BY <1>1, <1>2, <1>5, <1>6

LEMMA RunAccept ==
  ASSUME TransferInv, RunInv, AcceptIncoming
  PROVE  RunInv'
<1>1. PICK x \in Xfer : x = asking[1].xfer /\ asking # <<>> /\ in[x] # None /\ CloseDialog
  BY TopDialog DEF AcceptIncoming
<1>2. /\ UNCHANGED <<out, up, toR, drops, pauses>>
      /\ unheard' \in 0 .. Len(toR) /\ pauses' \in 0 .. MaxPauses
      /\ \A y \in Xfer \ {x} : Asking(y) => Asking(y)'
      /\ Calm => \A k \in 1 .. Len(asking') : asking'[k].live
  BY <1>1, Closed
<1>3. /\ in[x] \in Tracked /\ in[x].next \in Nat /\ Place(x, in[x].next)
      /\ in \in [Xfer -> Tracked \cup {None}] /\ rdb \in [Xfer -> Row \cup {None}]
  BY <1>1, RunTypes DEF TransferInv, TablesOK
<1>4. CASE ~up /\ UNCHANGED <<in, rdb, toS>>
  <2>1. \A y \in Xfer : AtPlace(y)'
    BY <1>4 DEF RunInv, BoundInv, AtPlace
  <2> QED
    BY <1>2, <1>4, <2>1, ReceiverRuns DEF Calm
<1>5. CASE /\ up
           /\ in' = [in EXCEPT ![x].state = "Active", ![x].open = TRUE]
           /\ rdb' = [rdb EXCEPT ![x] = "Active"]
           /\ SendToS(<<Msg("file_accept", x), Request(x, in[x].next)>>)
  <2> DEFINE t == [in[x] EXCEPT !.state = "Active", !.open = TRUE]
             p == <<Msg("file_accept", x), Request(x, in[x].next)>>
  <2>1. in' = [in EXCEPT ![x] = t]
    BY <1>3, <1>5 DEF Tracked
  <2>2. t \in Tracked /\ t.open = TRUE /\ t.next = in[x].next /\ t.pend = in[x].pend
    BY <1>3 DEF Tracked, Row, Terminal
  <2>3. p \in Seq(AskedFrame)
    BY <1>3, FitFrames, Two
  <2>4. Holds(p, {"file_chunk_req"}, x)
    <3>1. 2 \in 1 .. Len(p) /\ p[2] = Request(x, in[x].next)
      OBVIOUS
    <3>2. Request(x, in[x].next).type = "file_chunk_req" /\ Request(x, in[x].next).xfer = x
      BY DEF Request, Chunk
    <3> QED
      BY <3>1, <3>2 DEF Holds
  <2>5. SendToS(p)
    BY <1>5
  <2> HIDE DEF t, p
  <2>6. in'[x] = t /\ t # None /\ \A y \in Xfer \ {x} : in'[y] = in[y] /\ rdb'[y] = rdb[y]
    BY <1>3, <1>5, <2>1, <2>2, SizesAssumption
  <2>7. \A y \in Xfer : AtPlace(y)'
    BY <1>1, <2>2, <2>6 DEF RunInv, BoundInv, AtPlace
  <2>8. Wanted(x)'
    BY <1>5, <2>3, <2>4, <2>5, NewlyAsked DEF Wanted
  <2>9. ASSUME Calm
        PROVE  /\ \A y \in Xfer : in'[y] # None /\ ~in'[y].open => Asking(y)'
               /\ Announced(toR', in')
               /\ \A y \in Xfer : Going(y) => Going(y)'
    <3>1. \A y \in Xfer : in'[y] # None =>
            in[y] # None /\ in'[y].pend = in[y].pend /\ in'[y].next = in[y].next
      BY <1>1, <2>2, <2>6
    <3>2. Announced(toR', in')
      BY <1>2, <2>9, <3>1, RunTypes, AnnouncedAlike DEF Calm
    <3>3. ASSUME NEW y \in Xfer, in'[y] # None, ~in'[y].open PROVE Asking(y)'
      <4>1. y # x
        BY <2>2, <2>6, <3>3
      <4> QED
        BY <1>2, <2>6, <2>9, <3>3, <4>1 DEF Calm
    <3>4. ASSUME NEW y \in Xfer, Going(y) PROVE Going(y)'
      <4>1. CASE y = x
        BY <2>2, <2>6, <2>8, <4>1 DEF Going
      <4>2. CASE y # x
        BY <1>2, <2>3, <2>5, <2>6, <3>4, <4>2, OthersGo
      <4> QED
        BY <4>1, <4>2
    <3> QED
      BY <3>2, <3>3, <3>4
  <2> QED
    BY <1>2, <2>3, <2>5, <2>7, <2>9, ReceiverRuns
<1>6. CASE EndIncoming(x, "Failed") /\ UNCHANGED toS
  <2>1. /\ in'[x] = None /\ rdb'[x] = "Failed"
        /\ \A y \in Xfer \ {x} : in'[y] = in[y] /\ rdb'[y] = rdb[y]
    BY <1>3, <1>6 DEF EndIncoming
  <2>2. \A y \in Xfer : AtPlace(y)'
    BY <2>1 DEF RunInv, BoundInv, AtPlace
  <2>3. ASSUME Calm
        PROVE  /\ \A y \in Xfer : in'[y] # None /\ ~in'[y].open => Asking(y)'
               /\ Announced(toR', in')
               /\ \A y \in Xfer : Going(y) => Going(y)'
    <3>1. Announced(toR', in')
      BY <1>2, <2>1, <2>3, RunTypes, AnnouncedAlike DEF Calm
    <3>2. \A y \in Xfer : in'[y] # None /\ ~in'[y].open => Asking(y)'
      BY <1>2, <2>1, <2>3 DEF Calm
    <3>3. ASSUME NEW y \in Xfer, Going(y) PROVE Going(y)'
      <4>1. CASE y = x
        BY <2>1, <4>1 DEF Going
      <4>2. CASE y # x
        BY <1>2, <1>6, <2>1, <3>3, <4>2, OthersGo
      <4> QED
        BY <4>1, <4>2
    <3> QED
      BY <3>1, <3>2, <3>3
  <2> QED
    BY <1>2, <1>6, <2>2, <2>3, ReceiverRuns
<1> QED
  BY <1>1, <1>4, <1>5, <1>6 DEF AcceptIncoming

\* A transfer the receiver gives up, whatever it still writes.
LEMMA RunGivesUp ==
  ASSUME TransferInv, RunInv, NEW x \in Xfer, EndIncoming(x, "Cancelled"),
         UNCHANGED <<out, up, toR, drops, pauses>>, unheard' \in 0 .. Len(toR),
         toS' = toS \/ (\E p \in Seq(AskedFrame) : SendToS(p)),
         \A y \in Xfer \ {x} : Asking(y) => Asking(y)',
         Calm => \A k \in 1 .. Len(asking') : asking'[k].live
  PROVE  RunInv'
<1>1. /\ in'[x] = None /\ rdb'[x] = "Cancelled"
      /\ \A y \in Xfer \ {x} : in'[y] = in[y] /\ rdb'[y] = rdb[y]
  BY DEF EndIncoming, TransferInv, TablesOK
<1>2. \A y \in Xfer : AtPlace(y)'
  BY <1>1 DEF RunInv, BoundInv, AtPlace
<1>3. ASSUME Calm
      PROVE  /\ \A y \in Xfer : in'[y] # None /\ ~in'[y].open => Asking(y)'
             /\ Announced(toR', in')
             /\ \A y \in Xfer : Going(y) => Going(y)'
  <2>1. Announced(toR', in')
    BY <1>1, <1>3, RunTypes, AnnouncedAlike DEF Calm
  <2>2. \A y \in Xfer : in'[y] # None /\ ~in'[y].open => Asking(y)'
    BY <1>1, <1>3 DEF Calm
  <2>3. ASSUME NEW y \in Xfer, Going(y) PROVE Going(y)'
    <3>1. CASE y = x
      BY <1>1, <3>1 DEF Going
    <3>2. CASE y # x
      BY <1>1, <2>3, <3>2, OthersGo
    <3> QED
      BY <3>1, <3>2
  <2> QED
    BY <2>1, <2>2, <2>3
<1>4. pauses' \in 0 .. MaxPauses
  BY DEF RunInv, BoundInv
<1> QED
  BY <1>2, <1>3, <1>4, ReceiverRuns

LEMMA RunReject ==
  ASSUME TransferInv, RunInv, RejectIncoming
  PROVE  RunInv'
<1>1. PICK x \in Xfer : x = asking[1].xfer /\ asking # <<>> /\ CloseDialog
  BY TopDialog DEF RejectIncoming
<1>2. EndIncoming(x, "Cancelled") /\ SendToS(<<Msg("file_reject", x)>>)
  BY <1>1 DEF RejectIncoming
<1>3. <<Msg("file_reject", x)>> \in Seq(AskedFrame)
  BY FitFrames, One
<1> QED
  BY <1>1, <1>2, <1>3, Closed, RunGivesUp

LEMMA RunCancelIncoming ==
  ASSUME TransferInv, RunInv, NEW x \in Xfer, CancelIncoming(x)
  PROVE  RunInv'
<1>1. UNCHANGED <<out, asking, unheard, up, toS, toR, drops, pauses>> /\ EndIncoming(x, "Cancelled")
  BY DEF CancelIncoming, UserActs, senderVars, dialogVars
<1>2. unheard' \in 0 .. Len(toR) /\ \A y \in Xfer : Asking(y) => Asking(y)'
  BY <1>1 DEF RunInv, BoundInv, Asking
<1>3. Calm => \A k \in 1 .. Len(asking') : asking'[k].live
  BY <1>1 DEF Calm
<1> QED
  BY <1>1, <1>2, <1>3, RunGivesUp

\* The user pauses a transfer or has it go on, which asks for its next chunk.
LEMMA RunShifts ==
  ASSUME TransferInv, RunInv, NEW x \in Xfer, Usable(x),
         UNCHANGED <<out, asking, unheard, up, toR, drops>>, pauses' \in 0 .. MaxPauses,
         NEW t \in Tracked, in' = [in EXCEPT ![x] = t],
         t.open = in[x].open, t.next = in[x].next, t.pend = in[x].pend,
         \A y \in Xfer \ {x} : rdb'[y] = rdb[y],
         NEW p \in Seq(AskedFrame), SendToS(p), t.paused \/ Holds(p, {"file_chunk_req"}, x)
  PROVE  RunInv'
<1>1. in[x] # None /\ asking = <<>> /\ \A y \in Xfer : ~Asking(y) /\ (Asking(y) => Asking(y)')
  BY DEF Usable, Asking
<1>2. in'[x] = t /\ t # None /\ t.open \in BOOLEAN /\ \A y \in Xfer \ {x} : in'[y] = in[y]
  <2>1. in \in [Xfer -> Tracked \cup {None}]
    BY DEF TransferInv, TablesOK
  <2> QED
    BY <2>1, SizesAssumption DEF Tracked
<1>3. \A y \in Xfer : AtPlace(y)'
  BY <1>1, <1>2 DEF RunInv, BoundInv, AtPlace
<1>4. ASSUME Calm
      PROVE  /\ \A k \in 1 .. Len(asking') : asking'[k].live
             /\ \A y \in Xfer : in'[y] # None /\ ~in'[y].open => Asking(y)'
             /\ Announced(toR', in')
             /\ \A y \in Xfer : Going(y) => Going(y)'
  <2>1. in[x].open
    BY <1>1, <1>4 DEF Calm
  <2>2. \A y \in Xfer : in'[y] # None =>
          in[y] # None /\ in'[y].pend = in[y].pend /\ in'[y].next = in[y].next
    BY <1>1, <1>2
  <2>3. Announced(toR', in')
    <3>1. toR \in Seq(FrameToR) /\ Announced(toR, in) /\ toR' = toR
      BY <1>4, RunTypes DEF Calm
    <3> DEFINE n == in'
    <3>2. \A y \in Xfer : n[y] # None => in[y] # None /\ n[y].pend = in[y].pend /\ n[y].next = in[y].next
      BY <2>2
    <3> HIDE DEF n
    <3>3. Announced(toR, n)
      BY ONLY <3>1, <3>2, AnnouncedAlike
    <3> QED
      BY <3>1, <3>3 DEF n
  <2>4. \A y \in Xfer : in'[y] # None /\ ~in'[y].open => Asking(y)'
    BY <1>1, <1>2, <1>4, <2>1 DEF Calm
  <2>5. Going(x)'
    <3>1. t.paused \/ Wanted(x)'
      BY <1>4, NewlyAsked DEF Wanted, Calm
    <3> QED
      BY <1>2, <2>1, <3>1 DEF Going
  <2>6. ASSUME NEW y \in Xfer, Going(y), y # x PROVE Going(y)'
    BY <1>1, <1>2, <2>6, OthersGo
  <2> QED
    BY <1>4, <2>3, <2>4, <2>5, <2>6 DEF Calm
<1>5. toR' = toR /\ unheard' \in 0 .. Len(toR) /\ UNCHANGED <<out, up, drops>>
  BY DEF RunInv, BoundInv
<1>6. toS' = toS \/ (\E q \in Seq(AskedFrame) : SendToS(q))
  OBVIOUS
<1> QED
  BY <1>3, <1>4, <1>5, <1>6, ReceiverRuns

LEMMA RunPause ==
  ASSUME TransferInv, RunInv, NEW x \in Xfer, Pause(x)
  PROVE  RunInv'
<1> DEFINE t == [in[x] EXCEPT !.paused = TRUE, !.state = "Paused"]
<1>1. /\ UNCHANGED <<out, asking, unheard, up, toR, drops>> /\ Usable(x)
      /\ in' = [in EXCEPT ![x].paused = TRUE, ![x].state = "Paused"]
      /\ rdb' = [rdb EXCEPT ![x] = "Paused"] /\ SendToS(<<Msg("file_pause", x)>>)
      /\ pauses < MaxPauses /\ pauses' = pauses + 1
  BY DEF Pause, UserActs, senderVars, dialogVars
<1>2. in[x] \in Tracked /\ in \in [Xfer -> Tracked \cup {None}]
  BY <1>1, RunTypes DEF Usable, TransferInv, TablesOK
<1>3. in' = [in EXCEPT ![x] = t]
  BY <1>1, <1>2 DEF Tracked
<1>4. /\ t \in Tracked /\ t.paused = TRUE
      /\ t.open = in[x].open /\ t.next = in[x].next /\ t.pend = in[x].pend
  BY <1>2 DEF Tracked, Row, Terminal
<1> HIDE DEF t
<1>5. pauses' \in 0 .. MaxPauses
  BY <1>1, SizesAssumption DEF RunInv, BoundInv
<1>6. <<Msg("file_pause", x)>> \in Seq(AskedFrame)
  BY FitFrames, One
<1>7. \A y \in Xfer \ {x} : rdb'[y] = rdb[y]
  BY <1>1 DEF TransferInv, TablesOK
<1> QED
  BY <1>1, <1>3, <1>4, <1>5, <1>6, <1>7, RunShifts

LEMMA RunResume ==
  ASSUME TransferInv, RunInv, NEW x \in Xfer, Resume(x)
  PROVE  RunInv'
<1> DEFINE t == [in[x] EXCEPT !.paused = FALSE, !.state = "Active"]
           p == <<Msg("file_resume", x), Request(x, in[x].next)>>
<1>1. /\ UNCHANGED <<out, asking, unheard, up, toR, drops>> /\ Usable(x)
      /\ in' = [in EXCEPT ![x].paused = FALSE, ![x].state = "Active"]
      /\ rdb' = [rdb EXCEPT ![x] = "Active"] /\ SendToS(p)
  BY DEF Resume, UserActs, senderVars, dialogVars
<1>2. in[x] \in Tracked /\ in \in [Xfer -> Tracked \cup {None}] /\ Place(x, in[x].next)
  BY <1>1, RunTypes DEF Usable, TransferInv, TablesOK
<1>3. in' = [in EXCEPT ![x] = t]
  BY <1>1, <1>2 DEF Tracked
<1>4. t \in Tracked /\ t.open = in[x].open /\ t.next = in[x].next /\ t.pend = in[x].pend
  BY <1>2 DEF Tracked, Row, Terminal
<1> HIDE DEF t
<1>5. pauses' \in 0 .. MaxPauses
  <2>1. pauses \in 0 .. MaxPauses /\ MaxPauses \in Nat
    BY SizesAssumption DEF RunInv, BoundInv
  <2>2. pauses' = pauses \/ (pauses < MaxPauses /\ pauses' = pauses + 1)
    BY DEF Resume
  <2> QED
    BY ONLY <2>1, <2>2
<1>6. p \in Seq(AskedFrame)
  BY <1>2, FitFrames, Two
<1>7. \A y \in Xfer \ {x} : rdb'[y] = rdb[y]
  BY <1>1 DEF TransferInv, TablesOK
<1>8. Holds(p, {"file_chunk_req"}, x)
  <2>1. 2 \in 1 .. Len(p) /\ p[2] = Request(x, in[x].next)
    OBVIOUS
  <2>2. Request(x, in[x].next).type = "file_chunk_req" /\ Request(x, in[x].next).xfer = x
    BY DEF Request, Chunk
  <2> QED
    BY <2>1, <2>2 DEF Holds
<1> HIDE DEF p
<1> QED
  BY <1>1, <1>3, <1>4, <1>5, <1>6, <1>7, <1>8, RunShifts

\* A connection that breaks ends the calm.
LEMMA RunDrop ==
  ASSUME TransferInv, RunInv, Drop, in' = in \/ in' = [x \in Xfer |-> None]
  PROVE  RunInv'
<1>1. /\ drops < MaxDrops /\ drops' = drops + 1 /\ up' = FALSE
      /\ toS' = <<>> /\ toR' = <<>> /\ unheard' = 0 /\ pauses' = pauses
  BY DEF Drop
<1>2. drops' \in 0 .. MaxDrops /\ drops' # 0
  BY <1>1, SizesAssumption DEF RunInv, BoundInv
<1>3. toS' \in Seq(AskedFrame) /\ toR' \in Seq(ServedFrame) /\ unheard' \in 0 .. Len(toR')
  BY <1>1
<1>4. \A x \in Xfer : AtPlace(x)'
  BY DEF RunInv, BoundInv, AtPlace
<1>5. up' \in BOOLEAN /\ pauses' \in 0 .. MaxPauses
  BY <1>1 DEF RunInv, BoundInv
<1>6. BoundInv'
  BY <1>2, <1>3, <1>4, <1>5 DEF BoundInv
<1> QED
  BY <1>2, <1>6 DEF RunInv

LEMMA RunInit == Init => RunInv
<1> SUFFICES ASSUME Init PROVE RunInv
  OBVIOUS
<1>1. BoundInv
  BY SizesAssumption DEF Init, BoundInv, AtPlace
<1>2. Calm
  BY DEF Init, Calm, Paired, Announced
<1> QED
  BY <1>1, <1>2 DEF RunInv

LEMMA RunStep == TransferInv /\ RunInv /\ [Next]_vars => RunInv'
<1> SUFFICES ASSUME TransferInv, RunInv, [Next]_vars PROVE RunInv'
  OBVIOUS
<1>1. CASE OnAccept \/ OnReject \/ OnChunkReq \/ OnPauseOrResume \/ OnComplete
  BY <1>1, RunTold, RunChunkReq
<1>2. CASE OnOffer \/ OnChunkMeta \/ OnBinary
  BY <1>2, RunOffer, RunChunkMeta, RunBinary
<1>3. CASE AcceptIncoming \/ RejectIncoming
  BY <1>3, RunAccept, RunReject
<1>4. CASE \E x \in Xfer : QueueOutgoing(x) \/ CancelOutgoing(x) \/ PauseOutgoing(x)
  BY <1>4, RunQueueOutgoing, RunOwnTable
<1>5. CASE \E x \in Xfer : Pause(x) \/ Resume(x) \/ CancelIncoming(x)
  BY <1>5, RunPause, RunResume, RunCancelIncoming
<1>6. CASE Disconnect \/ SenderRestart \/ ReceiverRestart
  BY <1>6, RunDrop DEF Disconnect, SenderRestart, ReceiverRestart, receiverVars
<1>7. CASE Reconnect
  <2>1. /\ ~up /\ up' = TRUE /\ UNCHANGED <<in, toS, toR, unheard, drops, pauses>>
    BY <1>7 DEF Reconnect, receiverVars, dialogVars, bounds
  <2>2. BoundInv'
    BY <2>1 DEF RunInv, BoundInv, AtPlace
  <2> QED
    BY <2>1, <2>2 DEF RunInv, Calm
<1>8. CASE UNCHANGED vars
  <2>1. UNCHANGED <<out, in, rdb, asking, unheard, up, toS, toR, drops, pauses>>
    BY <1>8 DEF vars, senderVars, receiverVars, dialogVars, linkVars, bounds
  <2>2. BoundInv'
    BY <2>1 DEF RunInv, BoundInv, AtPlace
  <2>3. Calm => Calm'
    BY <2>1 DEF Calm, Going, Offered, Asking, Told, Wanted, Served
  <2> QED
    BY <2>1, <2>2, <2>3 DEF RunInv
<1> QED
  BY <1>1, <1>2, <1>3, <1>4, <1>5, <1>6, <1>7, <1>8 DEF Next, SenderHandles, ReceiverHandles

\* Requests and chunks are about places of the file, and as long as the
\* connection holds whatever a transfer waits for is on its way.
THEOREM TransfersGoOn == Spec => []RunInv
  BY RunInit, RunStep, VerdictsAreTrue, PTL DEF Spec

\* The tables, what the receiver keeps of a transfer and the counters have the
\* values the code can give them; no transfer is ever past the end of its file.
THEOREM FileTypeCorrect == Spec => []FileTypeOK
<1>1. TransferInv /\ RunInv => FileTypeOK
  <2> SUFFICES ASSUME TransferInv, RunInv PROVE FileTypeOK
    OBVIOUS
  <2>1. /\ out \in [Xfer -> {"Pending", "Active", "Paused", None}]
        /\ sdb \in [Xfer -> Row \cup {None}] /\ rdb \in [Xfer -> Row \cup {None}]
    <3>1. Open \cup {None} = {"Pending", "Active", "Paused", None}
      BY DEF Open
    <3> QED
      BY <3>1 DEF TransferInv, TablesOK
  <2>2. ASSUME NEW x \in Xfer, in[x] # None
        PROVE  /\ in[x].state \in {"Pending", "Active", "Paused"}
               /\ in[x].open \in BOOLEAN /\ in[x].paused \in BOOLEAN
               /\ in[x].next = 0 \/ in[x].next < Chunks(x)
               /\ in[x].pend \in {0, Bytes(x, in[x].next)}
    <3>1. /\ in[x] \in Tracked /\ in[x].open \in BOOLEAN /\ in[x].paused \in BOOLEAN
          /\ Place(x, in[x].next) /\ in[x].next \in Nat
          /\ in[x].pend \in {0, Bytes(x, in[x].next)}
      BY <2>2, RunTypes
    <3>2. in[x].state \in {"Pending", "Active", "Paused"}
      BY <3>1 DEF Tracked, Row, Terminal
    <3>3. in[x].next = 0 \/ in[x].next < Chunks(x)
      BY <3>1, FitsChunks DEF Place
    <3> QED
      BY <3>1, <3>2, <3>3
  <2>3. /\ up \in BOOLEAN /\ unheard \in 0 .. Len(toR)
        /\ drops \in 0 .. MaxDrops /\ pauses \in 0 .. MaxPauses
    BY DEF RunInv, BoundInv
  <2> QED
    BY <2>1, <2>2, <2>3 DEF FileTypeOK
<1> QED
  BY <1>1, VerdictsAreTrue, TransfersGoOn, PTL

LEMMA HeldFrame ==
  ASSUME NEW q, NEW types, NEW x, Holds(q, types, x), DOMAIN q = 1 .. Len(q)
  PROVE  \E f \in ToSet(q) : f.type \in types /\ f.xfer = x
  BY DEF Holds, ToSet

\* As long as the connection holds, a transfer the sender has open never waits
\* for nothing: a frame that moves it is on its way, or it is the receiver's
\* user that holds it up or has ended it.
THEOREM NothingStalls == Spec => []NeverStalls
<1>1. TransferInv /\ RunInv => NeverStalls
  <2> SUFFICES ASSUME TransferInv, RunInv, NEW x \in Xfer,
                      drops = 0, out[x] # None, FileSize[x] > 0
               PROVE  \/ {f \in Frames(x) :
                            f.type \notin {"file_pause", "file_resume", "file_accept"}} # {}
                      \/ \E k \in DOMAIN asking : asking[k].xfer = x
                      \/ in[x] # None /\ in[x].paused
                      \/ in[x] = None /\ rdb[x] \in {"Failed", "Cancelled"}
    BY DEF NeverStalls
  <2>1. Going(x)
    BY DEF RunInv, Calm
  <2>2. DOMAIN toS = 1 .. Len(toS) /\ DOMAIN toR = 1 .. Len(toR) /\ DOMAIN asking = 1 .. Len(asking)
    BY DEF TransferInv
  <2>3. CASE Offered(x) \/ Served(x)
    <3>1. PICK f \in ToSet(toR) : f.type \in {"file_offer", "file_chunk_meta", "chunk"} /\ f.xfer = x
      BY <2>2, <2>3, HeldFrame DEF Offered, Served
    <3> QED
      BY <3>1 DEF Frames
  <2>4. CASE Told(x) \/ Wanted(x)
    <3>1. PICK f \in ToSet(toS) : f.type \in {"file_complete", "file_chunk_req"} /\ f.xfer = x
      BY <2>2, <2>4, HeldFrame DEF Told, Wanted
    <3> QED
      BY <3>1 DEF Frames
  <2>5. CASE Asking(x)
    BY <2>2, <2>5 DEF Asking
  <2> QED
    BY <2>1, <2>3, <2>4, <2>5 DEF Going
<1> QED
  BY <1>1, VerdictsAreTrue, TransfersGoOn, PTL
=============================================================================
