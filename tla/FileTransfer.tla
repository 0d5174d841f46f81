---------------------------- MODULE FileTransfer ----------------------------
(***************************************************************************)
(* File transfers in one direction between two trusted peers: the sending  *)
(* half of one FileTransferManager (m_outgoing), the receiving half of the *)
(* other (m_incoming), the connection between them, both transfers tables, *)
(* the receiver's files and its modal dialogs about offers.                *)
(*                                                                         *)
(* A handler is one action.  The connection carries frames in order; a     *)
(* broken one loses what it still carried, and another one may follow.     *)
(* A definition named ..._Bug is a plausible mistake in the definition     *)
(* that follows it, for showing that a property would notice.              *)
(***************************************************************************)
EXTENDS Integers, Sequences, SequencesExt, FiniteSets

CONSTANTS Xfer,       \* transfer ids
          FileSize,   \* size of the file behind each transfer
          ChunkSize,  \* the sender's chunk_size setting
          MaxDrops,   \* bound on broken connections and restarts
          MaxPauses,  \* bound on the receiver's pauses, and on its resumes of what
                      \* is not paused
          None

Row == {"Pending", "Active", "Paused", "Done", "Failed", "Cancelled"}
Terminal == {"Done", "Failed", "Cancelled"}

\* What m_incoming keeps of a transfer.
Tracked == [state : Row \ Terminal, open : BOOLEAN, next : Int, pend : Int, paused : BOOLEAN]

ASSUME SizesAssumption ==
  /\ FileSize \in [Xfer -> Nat]
  /\ ChunkSize \in Nat \ {0}
  /\ MaxDrops \in Nat /\ MaxPauses \in Nat
  /\ None \notin Row \cup Tracked

VARIABLES
  out,      \* m_outgoing: the state of each transfer, None when not there
  sdb,      \* the sender's transfers table: the state column, None when no row
  in,       \* m_incoming, None when not there
  rdb,      \* the receiver's transfers table
  disk,     \* the chunk found at each place of the receiver's file
  up,       \* are the two connected
  toS, toR, \* frames on their way to the sender and to the receiver
  asking,   \* the open offer dialogs, the newest first; each nests the event
            \* loop inside the handler of the frame, live while that frame's
            \* connection is the current one
  unheard,  \* the frames at the end of toR that came in while such a dialog
            \* was open: no readyRead is emitted for them until more arrive
  drops, pauses   \* counted against the bounds

senderVars   == <<out, sdb>>
receiverVars == <<in, rdb, disk>>
dialogVars   == <<asking, unheard>>
linkVars     == <<up, toS, toR>>
bounds       == <<drops, pauses>>
vars == <<senderVars, receiverVars, dialogVars, linkVars, bounds>>

Least(m, n) == IF m < n THEN m ELSE n
Chunks(x) == (FileSize[x] + ChunkSize - 1) \div ChunkSize
Bytes(x, i) == Least(ChunkSize, FileSize[x] - i * ChunkSize)

Hole == <<None, 0>>
Untouched(x) == [i \in 0 .. Chunks(x) - 1 |-> Hole]
\* The SHA-256 of the file on disk is the offered one.
Intact(x, contents) == contents = [i \in 0 .. Chunks(x) - 1 |-> <<x, i>>]
-----------------------------------------------------------------------------
Init ==
  /\ out = [x \in Xfer |-> None] /\ sdb = [x \in Xfer |-> None]
  /\ in = [x \in Xfer |-> None] /\ rdb = [x \in Xfer |-> None]
  /\ disk = [x \in Xfer |-> Untouched(x)]
  /\ up = TRUE /\ toS = <<>> /\ toR = <<>>
  /\ asking = <<>> /\ unheard = 0
  /\ drops = 0 /\ pauses = 0
-----------------------------------------------------------------------------
(* Frames.  Without a connection a frame is simply not sent.               *)

SendToS(frames) == toS' = IF up THEN toS \o frames ELSE toS
SendToR(frames) ==
  /\ toR' = IF up THEN toR \o frames ELSE toR
  /\ unheard' = IF up /\ frames # <<>> THEN 0 ELSE unheard

Msg(type, x) == [type |-> type, xfer |-> x]
Chunk(type, x, i) == [type |-> type, xfer |-> x, index |-> i]
Complete(x, ok) == [type |-> "file_complete", xfer |-> x, ok |-> ok]

Request(x, i) == Chunk("file_chunk_req", x, i)

\* The receiver's link delivers frames unless its handler sits in a dialog.
Listening == \A k \in DOMAIN asking : ~asking[k].live

SenderReads(type) == toS # <<>> /\ Head(toS).type = type
ReceiverReads(type) == Len(toR) > unheard /\ Listening /\ Head(toR).type = type
-----------------------------------------------------------------------------
(* The sender *)

\* Its item in the chat is Chat's QueueFile.
QueueOutgoing(x) ==
  /\ up /\ sdb[x] = None
  /\ out' = [out EXCEPT ![x] = "Pending"]
  /\ sdb' = [sdb EXCEPT ![x] = "Pending"]
  /\ SendToR(<<Msg("file_offer", x)>>)
  /\ UNCHANGED <<receiverVars, asking, up, toS, bounds>>

\* cancel() on an outgoing transfer; the receiver is not told.
CancelOutgoing(x) ==
  /\ out[x] # None
  /\ out' = [out EXCEPT ![x] = None]
  /\ sdb' = [sdb EXCEPT ![x] = "Cancelled"]
  /\ UNCHANGED <<receiverVars, dialogVars, linkVars, bounds>>

\* pause() on an outgoing transfer: nothing but what is shown and stored changes,
\* and the next chunk sent makes the row Active again.
PauseOutgoing(x) ==
  /\ out[x] # None
  /\ out' = [out EXCEPT ![x] = "Paused"]
  /\ sdb' = [sdb EXCEPT ![x] = "Paused"]
  /\ UNCHANGED <<receiverVars, dialogVars, linkVars, bounds>>

\* The state of the transfer and of its row after a frame about x, when the
\* transfer is still known.
Update(x, state) ==
  IF out[x] = None THEN UNCHANGED senderVars
  ELSE /\ out' = [out EXCEPT ![x] = state]
       /\ sdb' = [sdb EXCEPT ![x] = state]

Finish(x, state) ==
  IF out[x] = None THEN UNCHANGED senderVars
  ELSE /\ out' = [out EXCEPT ![x] = None]
       /\ sdb' = [sdb EXCEPT ![x] = state]

SenderConsumes ==
  /\ toS' = Tail(toS)
  /\ UNCHANGED <<receiverVars, asking, up, bounds>>

OnAccept ==
  /\ SenderReads("file_accept")
  /\ Update(Head(toS).xfer, "Active")
  /\ SenderConsumes /\ UNCHANGED <<toR, unheard>>

OnReject ==
  /\ SenderReads("file_reject")
  /\ Finish(Head(toS).xfer, "Cancelled")
  /\ SenderConsumes /\ UNCHANGED <<toR, unheard>>

\* sendChunk: the meta frame and the chunk are written together; an index past
\* the end of the file is ignored, the state of the transfer is not looked at.
Answer(x, i) == <<Chunk("file_chunk_meta", x, i), Chunk("chunk", x, i)>>

OnChunkReq ==
  /\ SenderReads("file_chunk_req")
  /\ LET x == Head(toS).xfer  i == Head(toS).index IN
     IF out[x] # None /\ i * ChunkSize < FileSize[x]
       THEN /\ SendToR(Answer(x, i))
            /\ sdb' = [sdb EXCEPT ![x] = "Active"]
            /\ UNCHANGED out
       ELSE UNCHANGED <<senderVars, toR, unheard>>
  /\ SenderConsumes

\* file_pause and file_resume change what the sender shows, not its row.
OnPauseOrResume ==
  /\ SenderReads("file_pause") \/ SenderReads("file_resume")
  /\ LET x == Head(toS).xfer IN
     out' = IF out[x] = None THEN out
            ELSE [out EXCEPT ![x] = IF Head(toS).type = "file_pause" THEN "Paused" ELSE "Active"]
  /\ SenderConsumes /\ UNCHANGED <<sdb, toR, unheard>>

OnComplete ==
  /\ SenderReads("file_complete")
  /\ Finish(Head(toS).xfer, IF Head(toS).ok THEN "Done" ELSE "Failed")
  /\ SenderConsumes /\ UNCHANGED <<toR, unheard>>
-----------------------------------------------------------------------------
(* The receiver *)

Incoming == [state |-> "Pending", open |-> FALSE, next |-> 0, pend |-> 0, paused |-> FALSE]

ReceiverConsumes ==
  /\ toR' = Tail(toR)
  /\ UNCHANGED <<senderVars, up, unheard, bounds>>

\* The dialog opens inside the handler: incomingOffer is emitted directly.  The item
\* in the chat is Chat's ReceiveOffer.
OnOffer ==
  /\ ReceiverReads("file_offer")
  /\ LET x == Head(toR).xfer IN
     /\ in' = [in EXCEPT ![x] = Incoming]
     /\ rdb' = [rdb EXCEPT ![x] = "Pending"]
     /\ asking' = <<[xfer |-> x, live |-> TRUE]>> \o asking
  /\ ReceiverConsumes /\ UNCHANGED <<disk, toS>>

\* The newest dialog, the only one that can be answered, closes.  If it kept the
\* current link waiting, its handler goes on with what it had already read.
CloseDialog ==
  /\ asking' = Tail(asking)
  /\ unheard' \in IF asking[1].live THEN 0 .. Len(toR) ELSE {unheard}
  /\ UNCHANGED <<senderVars, disk, up, toR, bounds>>

\* eraseIncoming, with the state the row is left in.
EndIncoming(x, state) ==
  /\ in' = [in EXCEPT ![x] = None]
  /\ rdb' = [rdb EXCEPT ![x] = state]

\* Without a connection the answer is dropped and the offer stays pending.
AcceptIncoming ==
  /\ asking # <<>>
  /\ LET x == asking[1].xfer IN
     IF ~up THEN UNCHANGED <<in, rdb, toS>>
     ELSE \/ /\ in' = [in EXCEPT ![x].state = "Active", ![x].open = TRUE]
             /\ rdb' = [rdb EXCEPT ![x] = "Active"]
             /\ SendToS(<<Msg("file_accept", x), Request(x, in[x].next)>>)
          \/ EndIncoming(x, "Failed") /\ UNCHANGED toS   \* the file cannot be opened
  /\ CloseDialog

RejectIncoming ==
  /\ asking # <<>>
  /\ EndIncoming(asking[1].xfer, "Cancelled")
  /\ SendToS(<<Msg("file_reject", asking[1].xfer)>>)
  /\ CloseDialog

\* The window is usable: no dialog is open, and the transfer is there.
Usable(x) == asking = <<>> /\ in[x] # None

UserActs == UNCHANGED <<senderVars, disk, dialogVars, up, toR, drops>>

Pause(x) ==
  /\ Usable(x) /\ pauses < MaxPauses
  /\ pauses' = pauses + 1
  /\ in' = [in EXCEPT ![x].paused = TRUE, ![x].state = "Paused"]
  /\ rdb' = [rdb EXCEPT ![x] = "Paused"]
  /\ SendToS(<<Msg("file_pause", x)>>)
  /\ UserActs

\* The chunk that was under way is asked for again; the transfer need not be paused.
Resume(x) ==
  /\ Usable(x) /\ (in[x].paused \/ pauses < MaxPauses)
  /\ pauses' = IF in[x].paused THEN pauses ELSE pauses + 1
  /\ in' = [in EXCEPT ![x].paused = FALSE, ![x].state = "Active"]
  /\ rdb' = [rdb EXCEPT ![x] = "Active"]
  /\ SendToS(<<Msg("file_resume", x), Request(x, in[x].next)>>)
  /\ UserActs

\* cancel() on an incoming transfer; the sender is not told.
CancelIncoming(x) ==
  /\ Usable(x)
  /\ EndIncoming(x, "Cancelled")
  /\ UserActs /\ UNCHANGED <<toS, pauses>>

OnChunkMeta ==
  /\ ReceiverReads("file_chunk_meta")
  /\ LET x == Head(toR).xfer  i == Head(toR).index IN
     in' = IF in[x] = None THEN in
           ELSE [in EXCEPT ![x].next = i, ![x].pend = Bytes(x, i)]
  /\ ReceiverConsumes /\ UNCHANGED <<rdb, disk, toS, asking>>

\* One chunk more is expected than there are.
IsLast_OffByOneBug(x, n) == n > Chunks(x)

\* nextIndex >= totalChunks.
IsLast(x, n) == n >= Chunks(x)

\* The digest is not compared.
Verdict_TrustingBug(x, contents) == TRUE

\* finishIncomingOk reads the file back and compares the digests.
Verdict(x, contents) == Intact(x, contents)

\* A transfer is asked for its next chunk while it is paused, and only then.
NextRequest_InvertedBug(x, n) == IF in[x].paused THEN <<Request(x, n)>> ELSE <<>>

NextRequest(x, n) == IF in[x].paused THEN <<>> ELSE <<Request(x, n)>>

\* The chunk is written where x expects its next one.
WriteChunk(x, chunk) ==
  LET n == in[x].next + 1
      contents == [disk[x] EXCEPT ![in[x].next] = chunk]
      ok == Verdict(x, contents)
  IN /\ disk' = [disk EXCEPT ![x] = contents]
     /\ IF IsLast(x, n)
          THEN /\ EndIncoming(x, IF ok THEN "Done" ELSE "Failed")
               /\ SendToS(<<Complete(x, ok)>>)
          ELSE /\ in' = [in EXCEPT ![x].next = n, ![x].pend = 0]
               /\ rdb' = [rdb EXCEPT ![x] = "Active"]
               /\ SendToS(NextRequest(x, n))

\* onPeerBinary: a chunk carries no id.  It goes to the first transfer of the
\* hash table that waits for as many bytes; it is dropped when there is none, or
\* when that one has no file open.
OnBinary ==
  /\ ReceiverReads("chunk")
  /\ LET y == Head(toR).xfer  i == Head(toR).index
         waiting == {x \in Xfer : in[x] # None /\ in[x].pend = Bytes(y, i)}
     IN \/ \E x \in waiting : in[x].open /\ WriteChunk(x, <<y, i>>)
        \/ /\ waiting = {} \/ \E x \in waiting : ~in[x].open
           /\ UNCHANGED <<receiverVars, toS>>
  /\ ReceiverConsumes /\ UNCHANGED asking
-----------------------------------------------------------------------------
(* The connection, and the two processes *)

\* What is still on its way is lost, and the link whose handlers wait in dialogs
\* is not the current one any more.
Drop ==
  /\ drops < MaxDrops
  /\ drops' = drops + 1
  /\ up' = FALSE
  /\ toS' = <<>> /\ toR' = <<>> /\ unheard' = 0
  /\ UNCHANGED pauses

Disconnect ==
  /\ up /\ Drop
  /\ asking' = [k \in DOMAIN asking |-> [asking[k] EXCEPT !.live = FALSE]]
  /\ UNCHANGED <<senderVars, receiverVars>>

Reconnect ==
  /\ ~up
  /\ up' = TRUE
  /\ UNCHANGED <<senderVars, receiverVars, dialogVars, toS, toR, bounds>>

\* m_outgoing and m_incoming are not kept; the tables and the files are.
SenderRestart ==
  /\ Drop
  /\ out' = [x \in Xfer |-> None]
  /\ asking' = [k \in DOMAIN asking |-> [asking[k] EXCEPT !.live = FALSE]]
  /\ UNCHANGED <<sdb, receiverVars>>

ReceiverRestart ==
  /\ Drop
  /\ in' = [x \in Xfer |-> None]
  /\ asking' = <<>>
  /\ UNCHANGED <<senderVars, rdb, disk>>
-----------------------------------------------------------------------------
SenderHandles == OnAccept \/ OnReject \/ OnChunkReq \/ OnPauseOrResume \/ OnComplete
ReceiverHandles == OnOffer \/ OnChunkMeta \/ OnBinary

Next ==
  \/ SenderHandles \/ ReceiverHandles
  \/ AcceptIncoming \/ RejectIncoming
  \/ \E x \in Xfer : QueueOutgoing(x) \/ CancelOutgoing(x) \/ PauseOutgoing(x)
                  \/ Pause(x) \/ Resume(x) \/ CancelIncoming(x)
  \/ Disconnect \/ Reconnect \/ SenderRestart \/ ReceiverRestart

\* Frames that arrive are handled.  No user has to act, no connection to come back.
Spec == Init /\ [][Next]_vars /\ WF_vars(SenderHandles) /\ WF_vars(ReceiverHandles)
-----------------------------------------------------------------------------
(* Properties *)

FileTypeOK ==
  /\ out \in [Xfer -> {"Pending", "Active", "Paused", None}]
  /\ sdb \in [Xfer -> Row \cup {None}] /\ rdb \in [Xfer -> Row \cup {None}]
  /\ \A x \in Xfer : in[x] # None =>
       /\ in[x].state \in {"Pending", "Active", "Paused"}
       /\ in[x].open \in BOOLEAN /\ in[x].paused \in BOOLEAN
       /\ in[x].next = 0 \/ in[x].next < Chunks(x)
       /\ in[x].pend \in {0, Bytes(x, in[x].next)}
  /\ up \in BOOLEAN /\ unheard \in 0 .. Len(toR)
  /\ drops \in 0 .. MaxDrops /\ pauses \in 0 .. MaxPauses

Frames(x) == {f \in ToSet(toS) \cup ToSet(toR) : f.xfer = x}

\* As long as the connection holds, a transfer the sender has open never waits
\* for nothing: something about it is on its way, or the receiver's user has to
\* answer, has paused it, or has ended it without a word (cancel, and a file
\* that cannot be opened).  Empty files are the exception: no request is answered.
NeverStalls ==
  \A x \in Xfer : drops = 0 /\ out[x] # None /\ FileSize[x] > 0 =>
    \/ {f \in Frames(x) : f.type \notin {"file_pause", "file_resume", "file_accept"}} # {}
    \/ \E k \in DOMAIN asking : asking[k].xfer = x
    \/ in[x] # None /\ in[x].paused
    \/ in[x] = None /\ rdb[x] \in {"Failed", "Cancelled"}

Phase(row) ==
  CASE row = None -> "none"
    [] row \in Row \ Terminal -> "open"
    [] row = "Done" -> "done"
    [] row = "Failed" -> "failed"
    [] row = "Cancelled" -> "cancelled"

Delivery == INSTANCE FileDelivery WITH
              sent <- [x \in Xfer |-> Phase(sdb[x])],
              got <- [x \in Xfer |-> Phase(rdb[x])],
              whole <- [x \in Xfer |-> Intact(x, disk[x])]

\* Both tables keep what file delivery promises, through lost frames, chunks in
\* the wrong file, repeated requests, cancellation and restarts of either side.
KeepsItsPromise == Delivery!DSpec

\* What excuses a running transfer from reaching its end.
Excused(x) ==
  \/ drops > 0 \/ out[x] = None \/ FileSize[x] = 0
  \/ asking # <<>> \/ (in[x] # None /\ in[x].paused)

\* A transfer the receiver is writing reaches its end, unless the user, the
\* connection or the sender stopped it, or bytes that came in during a dialog
\* were never announced.
Finishes == \A x \in Xfer : rdb[x] = "Active" ~> rdb[x] \in Terminal \/ Excused(x) \/ unheard > 0

\* Other offers, once answered, do not stop a transfer that is under way.  The
\* code does not keep this.
OffersDoNotStall == \A x \in Xfer : rdb[x] = "Active" ~> rdb[x] \in Terminal \/ Excused(x)

\* A transfer that both sides still hold goes on after the connection is back.
ResumesAfterReconnect ==
  \A x \in Xfer : rdb[x] = "Active" /\ in[x] # None /\ out[x] # None ~>
     ~up \/ in[x] = None \/ out[x] = None \/ in[x].paused \/ asking # <<>>

\* A chunk is only ever written to its own file, at its own place.
ChunksStayApart ==
  \A x \in Xfer : \A i \in DOMAIN disk[x] : disk[x][i] \in {Hole, <<x, i>>}
=============================================================================
