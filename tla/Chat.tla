-------------------------------- MODULE Chat --------------------------------
(***************************************************************************)
(* The messages between two nodes: each node's messages table, the chat    *)
(* view that shows it, the connection that carries texts, their            *)
(* acknowledgements and offers of files, and the trust either node has in  *)
(* the other.  Of a file only its item in the chat is here, the transfer   *)
(* is FileTransfer's.  Either node gives its item an id of its own, which  *)
(* nothing sent ever names: the two are one member of File here.           *)
(*                                                                         *)
(* What PeerManager does to connect the two is reduced to what it          *)
(* guarantees here: no connection with a peer that is blocked on either    *)
(* side, and frames in order on a connection until it breaks.              *)
(* A definition named ..._Bug is a plausible mistake in the definition     *)
(* that follows it, for showing that a property would notice.              *)
(***************************************************************************)
EXTENDS Naturals, Sequences, SequencesExt, FiniteSets

CONSTANTS Node,       \* the two nodes
          Msg,        \* message ids
          File,       \* those of the chat items of files
          Author,     \* the node each message is written on
          PageSize,   \* rows a chat view loads, and looks at to refresh one
          MaxDrops,   \* bound on broken connections and restarts
          MaxReads,   \* bound on the read receipts
          None

Status == {"Sending", "Sent", "Delivered", "Read"}

ASSUME ChatAssumption ==
  /\ \E n1, n2 \in Node : n1 # n2 /\ Node = {n1, n2}
  /\ None \notin Status
  /\ Author \in [Msg -> Node] /\ File \subseteq Msg
  /\ PageSize \in Nat /\ MaxDrops \in Nat /\ MaxReads \in Nat

VARIABLES
  row,     \* the status column of the messages table, None when no row
  trust,   \* what each node thinks of the other
  up,      \* are the two connected
  wire,    \* frames on their way to each node
  shown,   \* is the chat with the other node the one on the screen
  view,    \* the rows of that chat, from top to bottom
  drops, reads   \* counted against the bounds

connVars == <<up, wire>>
viewVars == <<shown, view>>
vars == <<row, trust, connVars, viewVars, drops, reads>>

Rank == [s \in Status |-> CASE s = "Sending" -> 0 [] s = "Sent" -> 1
                            [] s = "Delivered" -> 2 [] s = "Read" -> 3]

Other(n) == CHOOSE o \in Node : o # n
Stored(n) == {m \in Msg : row[n][m] # None}
Bubble(m, status) == [msg |-> m, status |-> status]
Text(m) == [type |-> "text", msg |-> m]
Ack(m, status) == [type |-> "text_ack", msg |-> m, status |-> status]
Offer(m) == [type |-> "file_offer", msg |-> m]
-----------------------------------------------------------------------------
Init ==
  /\ row = [n \in Node |-> [m \in Msg |-> None]]
  /\ trust = [n \in Node |-> "Unknown"]
  /\ up = TRUE /\ wire = [n \in Node |-> <<>>]
  /\ shown = [n \in Node |-> FALSE] /\ view = [n \in Node |-> <<>>]
  /\ drops = 0 /\ reads = 0
-----------------------------------------------------------------------------
(* The chat view *)

\* MessageRepository::page: the newest PageSize rows.  Half of the timestamps
\* come from the other node's clock, so those may be any.
Pages(rows) ==
  LET stored == {m \in Msg : rows[m] # None} IN
  {page \in SUBSET stored :
     Cardinality(page) = IF Cardinality(stored) < PageSize THEN Cardinality(stored) ELSE PageSize}

\* setPeer: a page, in the order of the timestamps.
Loads(rows) ==
  UNION {{[k \in DOMAIN order |-> Bubble(order[k], rows[order[k]])] : order \in SetToSeqs(page)} :
           page \in Pages(rows)}

\* onMessageAppended.
Appended(n, m, status) == IF shown[n] THEN Append(view[n], Bubble(m, status)) ELSE view[n]

\* The bubble keeps its status.
Refreshed_StaleBug(bubbles, rows, page, m) == bubbles

\* onMessageStatusChanged: the lowest bubble of m is taken out and, rendered again
\* from the table, appended at the bottom; nothing when it or its row is not found.
Refreshed(bubbles, rows, page, m) ==
  LET found == {k \in DOMAIN bubbles : bubbles[k].msg = m} IN
  IF m \in page /\ found # {}
    THEN Append(RemoveAt(bubbles, Max(found)), Bubble(m, rows[m]))
    ELSE bubbles

SetView(n, bubbles) == view' = [view EXCEPT ![n] = bubbles]

\* What n's screen may show after peerOnlineChanged has reached the informed
\* nodes: the open chat is loaded once more; a window that closes shows nothing.
Redrawn(n, closing, informed) ==
  IF n \in closing THEN {<<>>}
  ELSE IF n \in informed /\ shown[n] THEN Loads(row[n])
  ELSE {view[n]}

Redraw(closing, informed) ==
  /\ shown' = [n \in Node |-> shown[n] /\ n \notin closing]
  /\ view' \in [Node -> UNION {Redrawn(n, closing, informed) : n \in Node}]
  /\ \A n \in Node : view'[n] \in Redrawn(n, closing, informed)

\* onPeerSelected and setSearchFilter; also the peerOnlineChanged of a sweep.
SelectPeer(n) ==
  /\ \E bubbles \in Loads(row[n]) : SetView(n, bubbles)
  /\ shown' = [shown EXCEPT ![n] = TRUE]
  /\ UNCHANGED <<row, trust, connVars, drops, reads>>

\* Another peer, or none, is selected.
LeaveChat(n) ==
  /\ shown[n]
  /\ shown' = [shown EXCEPT ![n] = FALSE]
  /\ SetView(n, <<>>)
  /\ UNCHANGED <<row, trust, connVars, drops, reads>>
-----------------------------------------------------------------------------
(* Messages *)

Stores(n, m, status) == row' = [row EXCEPT ![n][m] = status]

\* PeerManager::sendText: stored and shown as Sending, written to the
\* connection, then Sent.
SendText(n, m) ==
  /\ up /\ trust[n] = "Trusted"
  /\ m \notin File /\ Author[m] = n /\ row[n][m] = None
  /\ Stores(n, m, "Sent")
  /\ wire' = [wire EXCEPT ![Other(n)] = Append(@, Text(m))]
  /\ \E page \in Pages(row'[n]) :
       SetView(n, Refreshed(Appended(n, m, "Sending"), row'[n], page, m))
  /\ UNCHANGED <<trust, up, shown, drops, reads>>

\* A text is acknowledged before the sender's trust is looked at.
Taken_AnywayBug(n, m) ==
  /\ wire' = [wire EXCEPT ![n] = Tail(@), ![Other(n)] = Append(@, Ack(m, "Delivered"))]
  /\ IF trust[n] = "Trusted"
       THEN Stores(n, m, "Delivered") /\ SetView(n, Appended(n, m, "Delivered"))
       ELSE UNCHANGED <<row, view>>

\* The acknowledgement is left out.
Taken_SilentBug(n, m) ==
  /\ wire' = [wire EXCEPT ![n] = Tail(@)]
  /\ IF trust[n] = "Trusted"
       THEN Stores(n, m, "Delivered") /\ SetView(n, Appended(n, m, "Delivered"))
       ELSE UNCHANGED <<row, view>>

\* A text of a trusted peer is stored, shown and acknowledged, any other ignored.
Taken(n, m) ==
  IF trust[n] = "Trusted"
    THEN /\ Stores(n, m, "Delivered")
         /\ SetView(n, Appended(n, m, "Delivered"))
         /\ wire' = [wire EXCEPT ![n] = Tail(@), ![Other(n)] = Append(@, Ack(m, "Delivered"))]
    ELSE /\ wire' = [wire EXCEPT ![n] = Tail(@)]
         /\ UNCHANGED <<row, view>>

Receives(n, type) == wire[n] # <<>> /\ Head(wire[n]).type = type

ReceiveText(n) ==
  /\ Receives(n, "text")
  /\ Taken(n, Head(wire[n]).msg)
  /\ UNCHANGED <<trust, up, shown, drops, reads>>

\* "read" and the rest confused.
Acknowledged_SwappedBug(ack) == IF ack.status = "Read" THEN "Delivered" ELSE "Read"

\* Only "delivered" is known, anything else is a failure.
Acknowledged_UnknownBug(ack) == IF ack.status = "Delivered" THEN "Delivered" ELSE "Failed"

Acknowledged(ack) == ack.status

\* text_ack, from a peer of any trust: updateStatus, messageStatusChanged.
ReceiveAck(n) ==
  /\ Receives(n, "text_ack")
  /\ LET m == Head(wire[n]).msg IN
     /\ IF row[n][m] = None THEN UNCHANGED row ELSE Stores(n, m, Acknowledged(Head(wire[n])))
     /\ \E page \in Pages(row'[n]) : SetView(n, Refreshed(view[n], row'[n], page, m))
  /\ wire' = [wire EXCEPT ![n] = Tail(@)]
  /\ UNCHANGED <<trust, up, shown, drops, reads>>

\* PeerManager::markRead, for a text received.
MarkRead(n, m) ==
  /\ up /\ reads < MaxReads
  /\ m \notin File /\ Author[m] # n /\ row[n][m] # None
  /\ reads' = reads + 1
  /\ wire' = [wire EXCEPT ![Other(n)] = Append(@, Ack(m, "Read"))]
  /\ UNCHANGED <<row, trust, up, viewVars, drops>>

\* FileTransferManager::queueOutgoing: the item is stored, the view is not told,
\* and the offer written, whatever the trust; the item stays Sending for good.
QueueFile(n, m) ==
  /\ up
  /\ m \in File /\ Author[m] = n /\ row[n][m] = None
  /\ Stores(n, m, "Sending")
  /\ wire' = [wire EXCEPT ![Other(n)] = Append(@, Offer(m))]
  /\ UNCHANGED <<trust, up, viewVars, drops, reads>>

\* file_offer: from a trusted peer the item is stored, and again not shown.
ReceiveOffer(n) ==
  /\ Receives(n, "file_offer")
  /\ IF trust[n] = "Trusted"
       THEN Stores(n, Head(wire[n]).msg, "Delivered")
       ELSE UNCHANGED row
  /\ wire' = [wire EXCEPT ![n] = Tail(@)]
  /\ UNCHANGED <<trust, up, viewVars, drops, reads>>
-----------------------------------------------------------------------------
(* Trust, the connection and the processes *)

Break ==
  /\ drops < MaxDrops
  /\ drops' = drops + 1
  /\ up' = FALSE
  /\ wire' = [n \in Node |-> <<>>]

Disconnect == up /\ Break /\ Redraw({}, Node) /\ UNCHANGED <<row, trust, reads>>

\* The end of a handshake; a new fingerprint turns Trusted into Unknown.
Reconnect ==
  /\ ~up /\ \A n \in Node : trust[n] # "Blocked"
  /\ up' = TRUE
  /\ \E changed \in SUBSET Node :
       trust' = [n \in Node |-> IF n \in changed THEN "Unknown" ELSE trust[n]]
  /\ Redraw({}, Node)
  /\ UNCHANGED <<row, wire, drops, reads>>

Trust(n) ==
  /\ trust[n] # "Trusted"
  /\ trust' = [trust EXCEPT ![n] = "Trusted"]
  /\ UNCHANGED <<row, connVars, viewVars, drops, reads>>

\* The link of a peer that becomes blocked is closed.
Block(n) ==
  /\ trust[n] # "Blocked"
  /\ trust' = [trust EXCEPT ![n] = "Blocked"]
  /\ IF up THEN Break /\ Redraw({}, Node) ELSE UNCHANGED <<connVars, viewVars, drops>>
  /\ UNCHANGED <<row, reads>>

Restart(n) ==
  /\ Break /\ Redraw({n}, IF up THEN Node ELSE {})
  /\ UNCHANGED <<row, trust, reads>>

\* The process ends within sendText, between insert and updateStatus: what was
\* written to the socket was still buffered.
CrashInSend(n, m) ==
  /\ up /\ trust[n] = "Trusted"
  /\ m \notin File /\ Author[m] = n /\ row[n][m] = None
  /\ Stores(n, m, "Sending")
  /\ Break /\ Redraw({n}, Node)
  /\ UNCHANGED <<trust, reads>>
-----------------------------------------------------------------------------
Next ==
  \/ \E n \in Node : SelectPeer(n) \/ LeaveChat(n) \/ ReceiveText(n) \/ ReceiveAck(n)
                     \/ ReceiveOffer(n) \/ Trust(n) \/ Block(n) \/ Restart(n)
  \/ \E n \in Node, m \in Msg : SendText(n, m) \/ QueueFile(n, m) \/ MarkRead(n, m)
                                \/ CrashInSend(n, m)
  \/ Disconnect \/ Reconnect

\* Frames that arrive are handled.
Spec ==
  /\ Init /\ [][Next]_vars
  /\ \A n \in Node : WF_vars(ReceiveText(n)) /\ WF_vars(ReceiveAck(n)) /\ WF_vars(ReceiveOffer(n))
-----------------------------------------------------------------------------
(* Properties *)

ChatTypeOK ==
  /\ row \in [Node -> [Msg -> Status \cup {None}]]
  /\ trust \in [Node -> {"Unknown", "Trusted", "Blocked"}]
  /\ up \in BOOLEAN
  /\ wire \in [Node -> Seq(      {Text(m) : m \in Msg \ File} \cup {Offer(m) : m \in File}
                            \cup {Ack(m, s) : m \in Msg \ File, s \in {"Delivered", "Read"}})]
  /\ shown \in [Node -> BOOLEAN]
  /\ view \in [Node -> Seq({Bubble(m, s) : m \in Msg, s \in Status})]
  /\ drops \in 0 .. MaxDrops /\ reads \in 0 .. MaxReads

\* A message shown as delivered is in the other node's history, whatever was
\* lost, blocked, distrusted or restarted meanwhile.
DeliveredIsStored ==
  \A m \in Msg : LET n == Author[m] IN
    row[n][m] \in {"Delivered", "Read"} => row[Other(n)][m] = "Delivered"

\* A status never goes back, on any order of deliveries, receipts, reconnections
\* and crashes.
StatusForward ==
  [][\A n \in Node, m \in Msg : row[n][m] # None =>
       row'[n][m] # None /\ Rank[row'[n][m]] >= Rank[row[n][m]]]_vars

\* The chat on the screen shows the table's texts: each of them, and what else
\* there is, once and with its stored status, as long as the history fits into a
\* page.  Not so the items of files: FileTransferManager stores them without
\* messageAppended, and PRD.md:173-175 (FR-F3), where the item appears in the
\* history of the chat, holds of the open chat only from its next loading on.
TextsOnScreen ==
  \A n \in Node : shown[n] /\ Cardinality(Stored(n)) <= PageSize =>
    /\ {Bubble(m, row[n][m]) : m \in Stored(n) \ File} \subseteq ToSet(view[n])
    /\ ToSet(view[n]) \subseteq {Bubble(m, row[n][m]) : m \in Stored(n)}
    /\ Len(view[n]) = Cardinality(ToSet(view[n]))

\* A text that reaches a node that goes on trusting the sender is confirmed,
\* unless the connection breaks.
Confirmed ==
  \A m \in Msg : LET n == Author[m]  o == Other(n) IN
    Text(m) \in ToSet(wire[o]) ~> row[n][m] \in {"Delivered", "Read"} \/ ~up \/ trust[o] # "Trusted"
=============================================================================
