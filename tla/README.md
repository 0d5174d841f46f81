# NodeTalk in TLA+

NodeTalk is a serverless LAN messenger: one Qt process per user, which finds
other instances by UDP announcements, keeps one TCP connection per peer, and
sends texts and files over it to peers its user trusts. This directory models
the parts of `src/` that decide who is connected, who is trusted, what
becomes of a message and a file, when a peer is logged as lost, and under which
identity a node appears. TLC checks the models on small instances; TLAPS proves most of their
safety properties for every value of the constants.

Paths below are relative to the repository; `net/X.cpp` stands for
`src/net/X.cpp`.

## 1. Inventory

Everything runs in one thread, in the Qt event loop. "Concurrency" is therefore
the order in which the loop delivers events, the deferred calls and deletions it
owes, event loops *nested* by modal dialogs, the two processes at the ends of a
connection, and crashes.

| Component | State | Operations | Talks to | What is hard | Module |
| --- | --- | --- | --- | --- | --- |
| `net/PeerManager` | `m_peers` (trust, fingerprint, online, lastSeen) and its table; `m_links`, `m_linkToPeer`, `m_pendingLinks`; posted prompts | announcements and byes, dial, accept, end of handshake, disconnection, trust, block, sweep, texts, receipts | `PeerLink` (signals), repositories, `MainWindow` (signals), `FileTransferManager` (signals) | links that replace each other, late and doubled `disconnected`, reuse of a deleted object's address, a crash between two writes | `PeerManager`, `TwoNodes`, `Chat`, `Presence` |
| `net/PeerLink` | `m_state`, the socket, the reader | connect, handshake, read loop, close, errors | socket, `PeerManager` | who writes what in which state, a bye cut off by the deletion, a deletion under its own handler | `PeerManager`, `TwoNodes`, `Framing`, `LinkLifetime` |
| `net/TransportServer` | the listening socket | accept | `PeerManager` | accepts come later than the kernel's handshake | `TwoNodes` (`Accept`) |
| `net/Protocol` | `m_buf`, `m_error` | encode, append, next | `PeerLink` | any cut of the stream, the limit, payloads like headers | `Framing` |
| `net/FileTransferManager` | `m_outgoing`, `m_incoming`, the files, the transfers table; the chat items of files in the messages table | offer, accept, reject, chunk request, chunk, pause, resume, cancel, complete | `PeerManager`, `MainWindow` | chunks without an id, duplicate requests, broken connections between two frames, dialogs nested in a socket handler | `FileTransfer`, `FileDelivery`; the chat items in `Chat` |
| trust prompts of `ui/MainWindow` | `m_trustQueue`, `m_trustQueued`, `m_trustPromptActive` | enqueue, process, dialog | `PeerManager` | the dialog nests the event loop, and everything goes on inside it | `TrustPrompt` |
| `ui/ChatView` | the rows on the screen | setPeer, append, refresh one status | messages table, `PeerManager` (signals) | a cached row that has to follow a table with two writers, only one of which tells the view | `Chat` |
| `db/*Repository` | the tables | insert, upsert, update | SQLite | which writer writes which column | in the modules of their users |
| `net/DiscoveryService` | two UDP sockets, a 5 s timer | announce, bye, filter datagrams | `PeerManager` | datagrams lost, doubled (broadcast and multicast), late; the node's own ones come back | `Presence`, `Startup`; its outputs are inputs of `PeerManager` and `TwoNodes` |
| `db/Database` | the file, the schema version | open, migrate | SQLite | a crash between the commit of the schema and the version | `Startup` |
| `core/Identity`, `core/Settings` | id and fingerprint, key/value pairs | ensure, get, set | SQLite | a crash between two writes, a write that fails, two launches | `Startup` |
| `main.cpp`, `app/Application` | the lock file, the services | start, shutdown, translator | all | starts that overlap or end half-way; the order of destruction | `Startup`; a restart is one action of the other modules |
| `core/EventLog`, `app/Logger` | event rows, a rolling file | append; the event panel lists them | - | no other part reads them | not modelled; when `peer_lost` is logged is in `Presence` |
| other `ui/*`, packaging | widgets | display, forward clicks | - | - | not modelled |

What makes each part correct, in a sentence: the link tables of `PeerManager`
agree with each other and with the objects that exist; trust is bound to a
fingerprint and only the user gives or takes it; every undecided peer is asked
about, once at a time; two processes agree on their connection and no handshake
hangs; a file is done only when it is intact, has one outcome on each side and is
not forgotten on the way; a message shown as delivered is stored at the other
side, and the open chat shows the stored texts; the sweep logs no peer as lost
that runs and whose clock and datagrams lag no more than the timeout allows for; a node
keeps the identity it once announced, and a marked schema is there.
`PROJECT.json` lists the hazards behind these, with their lines.

Who is *shown* online is not the sweep's matter. `allPeers`, `findPeer` and `isOnline`
tell it by the link alone (`PeerManager.cpp:58-86`), and the list and the window ask
them whenever a signal comes, without a look at its argument
(`PeerListModel.cpp:88-96`, `MainWindow.cpp:175-178`). So the display is `m_links`,
which `LinkTables` is about; the cached bit `m_peers[p].online` that the sweep writes
is read by the sweep alone and decides nothing but the entry `peer_lost` of the event
log and when the display is drawn anew.

## 2. Modules

    PeerManager ---- EXTENDS ----> TrustPrompt        the window's prompts
         |  |------- EXTENDS ----> LinkLifetime       links under offer dialogs
         |  \------- INSTANCE x2 -> TwoNodes          two processes and the wires
         \---------- EXTENDS ----> PeerManagerProofs
    TrustPrompt, PeerManagerProofs -> TrustPromptProofs
    TwoNodes, 2 x PeerManagerProofs -> TwoNodesProofs
    FileDelivery --- INSTANCE ---> FileTransfer       refinement
    FileTransfer --- EXTENDS ----> FileTransferProofs
    Chat, Framing ---------------> ChatProofs, FramingProofs
    Presence, Startup -----------> PresenceProofs, StartupProofs
    MC_*                           instances for TLC

An action is one handler (one slot, one user operation, one timer), run to
completion, with every call it makes that changes state. A definition ending in
`_...Bug` is a plausible mistake in the definition after it. Nothing uses it; put in
that definition's place it makes the property named for it in `PROJECT.json`
(`mutants`) fail, which shows that the property depends on the code.

**PeerManager** is one process with arbitrary remote ends. `trust`, `fp` are the
cache `m_peers`, `dbTrust`, `dbFp` the table; `lstate` is `PeerLink::m_state` of
every link object (`"Free"`: no such object); `links`, `linkToPeer`, `pending` are
the three tables; `doomed` is what `deleteLater` has posted, `asks` the posted
`trustPromptRequested` lambdas. `OnLinkReady` is the end of the handshake: a self
connection is refused (`RefuseSelf`), a blocked peer refused after its data is
taken over (`RefuseBlocked`), any other admitted, which replaces a previous link
(`Admit`). `OnLinkDisconnected` may come for any existing link at any time, and
more than once. `CrashInDemotion` is the one point inside a handler where a crash
leaves the tables between two writes; any other crash is `Restart`. Nicknames,
labels and addresses are left out, and `lastSeen` is a bit, `fresh`: is it within
the timeout.

**TrustPrompt** adds the queue of `MainWindow`. The open dialog is state
(`dialog`), not an action, so every `PeerManager` action may happen while it is open.
`posted` counts the `processNextTrustPrompt` calls in the event queue (bound:
`MaxPosted`; at the bound the next posted request waits).

**TwoNodes** runs two instances of PeerManager. `Written` says what a link writes
when a handler takes it from one state to another; `Flow` appends that to the FIFO
wire of the connection. `backlogA`/`backlogB` are connections the kernel has made
and the program has not accepted. A deleted object may lose the bye it had still
to write (`CutBye`). The sweep, the ageing of `lastSeen`, the prompts and the
crash inside a demotion are left out here: they touch neither links nor wires.
`CalmSpec` is the same with nothing but announcements to start things.

**FileTransfer** has both halves of transfers in one direction between two
trusted peers. A file is a sequence of chunks, each chunk its transfer and index,
so that the digest comparison is "every chunk in its own place" (`Intact`).
`asking` is the stack of open offer dialogs. Such a dialog runs inside the
`readyRead` handler of the link; Qt does not emit `readyRead` recursively, so
nothing of that link is handled meanwhile (`Listening`) and the bytes that arrived
meanwhile stay unannounced until more arrive (`unheard`).
**FileDelivery** is the abstract promise, in terms of the two tables only.

**Chat** has the messages tables of two nodes, the texts, receipts and offers of files
between them, and the chat views. The table has two writers: `PeerManager`, whose
signals the view follows, and `FileTransferManager` (`QueueFile`, `ReceiveOffer`), which
inserts the item of a file and tells the view nothing. `Pages` is the query behind a
view: the newest rows, by timestamps that partly come from the other node's clock,
hence any subset of the right size. `Loads` is the view after `setPeer`: when the user
selects the chat or types into the search bar (`SelectPeer`), and on every
`peerOnlineChanged` of the peer (`Redraw`), which the end and the return of the
connection emit.

**Framing** is the byte stream of one direction: `Encode`, and `FrameReader` with the
read loop over any cut of the stream: `NextFrame` is one call of `next()`, `Drained` the
loop, called once for each byte, which `DrainedReached` proves to be enough. Bytes have three values and the
length two bytes; only the ratio to the limit matters to the code.
(`docs/PROTOCOL.md` section 2 says that the length covers the type byte too; the code,
its test and `PRD.md` 7.2 have it cover the payload only, and so has the model.)

**Presence** is one peer's announcements, the network, and our `lastSeen`, link, cached
bit `online` and sweep, in seconds: what the event log's `peer_lost` goes by, not what the
list shows (section 1). Nothing holds a point in time: a clock is the time since something
happened or until it is due, so no time is bounded (`ClockView` merges clock values no
guard and no property tells apart). An announcement carries the sender's clock, which
differs from ours by `skew`, and `onPeerAnnounced` takes it over even when it is older
than the last, while `onLinkReady` writes our own. At most `MaxMiss` announcements in
a row get lost altogether, each arrival takes at most `MaxDelay`, and either datagram
of the pair may come first or alone.

**Startup** is a sequence of launches on one data directory. `pc` says how far each
process has come through `main`, `Database::open`, `migrate`, `Identity::ensure` and
`DiscoveryService::start`, one writing statement per step, so that a crash may fall between
any two. `wal` is the database after each commit since the last checkpoint: a
crash keeps all of it, a loss of power only a prefix (`journal_mode=WAL`,
`synchronous=NORMAL`). A read that fails gives the default and a write that fails is
ignored, as in the code; `lost` collects the keys whose value went that way, and the
promises about the identity are made for the others. `HearOwn` lets the node receive any
announcement it ever made, and `Accepted` has the filters of `handleDatagram` that
should recognise them.

**LinkLifetime** adds to PeerManager the offer dialogs that are opened inside the read
handler of a link. `stack` are the links whose handlers wait in a dialog, and `level` how
deep the event loop was when a deletion was posted; Qt runs a deferred deletion only in
a loop that is nested no deeper. The trust dialog is opened from a posted call, with no
handler of a link below it, and needs no such stack.

## 3. Runs

| Run | Instance | Shows |
| --- | --- | --- |
| `peer_manager` | 1 peer we dial, 2 fingerprints, 3 links, no symmetry | `TypeOK`, `LinkTables`, `NoDangling`, `NoLeak`, `CachePersisted`, `LinkedOnline`, `BlockedCut`; actions: `TrustKeepsFingerprint`, `BlockedSticks`; liveness: `BlockedGoes`, `ClosedFreed` |
| `trust_prompt` | 2 peers, 2 fingerprints, 2 links, 2 posted calls | `PromptTypeOK`, `PromptOwed`, `QueueServed`, `DialogUndecided` |
| `two_nodes` | 2 processes, 2 connections at a time | `WireTypeOK`, `HandshakeAlive`, `NoHalfOpen`, `Agreement`; liveness: `HandshakesEnd` |
| `file_transfer` | files of 2 and 1 chunks, one break or restart, one pause or resumption of what was not paused | `FileTypeOK`, `NeverStalls`; refinement: `KeepsItsPromise`; liveness: `Finishes` |
| `chat` | a text each way and a file, a page of 2, two breaks, restarts or crashes, one read receipt | `ChatTypeOK`, `DeliveredIsStored`, `TextsOnScreen`; actions: `StatusForward`; liveness: `Confirmed` |
| `framing` | up to 3 frames of lengths 0 to 3, limit 2 | `FramingTypeOK`, `WholeFrames`, `FailsOnHeader`, `BufferBounded` |
| `presence` | the code's 5 s and 2 s, a timeout of 21 s; ways of up to 5 s, one miss in a row, a clock from 1 s behind to 1 s ahead | `PresenceTypeOK`, `LostInTime`; actions: `NeverLost` |
| `startup` | 2 launches that may overlap, any number of restarts, 4 generated values | `StartupTypeOK`, `SchemaComplete`, `OneIdentity`, `NotItsOwnPeer` |
| `trust_prompt_shown`, `two_nodes_calm`, `file_transfer_stale`, `link_lifetime` | 1 peer and 2 links; 2 connections; 2 files; 1 peer and 2 links | findings, below |

Why the bounds are enough. Two links are what it takes to
replace a link, have the old one disconnect late, delete it and use its address again;
with three (`peer_manager`) that happens twice over and beside a pending link. Nothing
in the code compares more than the new and the previous link. Two fingerprints tell
"the same" from "another". One peer suffices where the tables of peers are independent of
each other (and `PeerManagerProofs` has any number); two make prompts compete. Two
connections make the duplicate that the smaller id is to avoid. For files, a long and a short file whose
short last chunk and whose only chunk have different sizes, and a full first chunk
and a full only chunk that have the same, give both outcomes of the search for the
waiting transfer. `MaxDrops`, `MaxPauses`, `MaxReads`, `MaxPosted`, `MaxSent` bound
counters; one break separates before and after, a second one (`chat`) ends the connection that
came back. A page of two rows with two texts and a file makes a row fall off the page, and two of the three
leave it whole. The periods of `presence` are the
program's; its delay of one whole period lets an announcement arrive after the
next one, and its timeout is one second above the default, which a clock one second behind
needs. Four generated values are two identities: one that gets lost and the one after it;
two launches are one that holds the lock and one that competes, or one that died
and its successor.

Symmetry and views. Links, fingerprints, launches and generated values (and peers, where
none is dialled) are used only in equality tests, and symmetry is used in runs without
liveness only. `PromptView` leaves out `fresh` and `online`, `NetworkView` also the
prompts and the stored copies, `Unordered` the order of the bubbles: no guard, no
other primed variable and no property of the run reads what is left out (for fingerprints
in `NetworkView`: each node always shows the same one). `ClockView` cuts the clocks off
above their last comparison. States that a view merges therefore have the same futures, as
far as the properties of the run can tell.

Fairness. Weak fairness only on what the Qt event loop and the kernels do by
themselves: posted calls and deletions run, a socket on which `disconnectFromHost`
was called reports its disconnection, a connection attempt ends, an arrived frame is
read. No user has to answer, unpause or trust, no connection has to come back, and no
peer has to announce itself. `Presence` and `Startup` have safety properties only and no
fairness: that timers fire in time is a guard of `Second`, which lets no second pass
while a timer is due.

`CHECK_DEADLOCK FALSE` where the system may stop: when all transfers, messages or
frames of the instance are used up.

### Findings

- `trust_prompt_shown`: the trust dialog shows one fingerprint and its acceptance
  trusts whatever the cache holds by then.
- `two_nodes_calm`: the "smaller id dials" rule does not exclude duplicates, because
  pending links are not looked at and every announcement comes twice; the second
  connection cuts the first.
- `file_transfer_stale`: a chunk can be written into the file of an interrupted
  transfer. The digest keeps such a file from being called done.
- `link_lifetime`: a link that ends while the dialog about its offer is open is deleted
  under the read handler that opened the dialog and that goes on with it.

Seen while modelling, and recorded among the hazards where they are one:

- An offer's dialog, nested in the socket handler, can leave the chunk of a running
  transfer unread until more bytes come (`OffersDoNotStall` in `FileTransfer` states the
  contrary; no run checks it).
- A transfer is not resumed after a reconnection (`ResumesAfterReconnect` in
  `FileTransfer` says what is promised).
- Empty files never finish (`NeverStalls` and `Finishes` exempt them).
- A receipt moves its bubble to the bottom of the chat.
- A write to the messages table that fails goes unnoticed: the acknowledgement is sent,
  and `DeliveredIsStored` would not hold.
- `PRD.md:129-134` (FR-D3, FR-D4) and `docs/PROTOCOL.md:28-29` call a peer online as long
  as its announcements are fresh. The list and the window go by the link
  (`PeerManager.cpp:64`): a peer that runs and announces itself, and whose link has ended, is
  shown offline until it is connected again. Only the cached bit follows the documents; after
  a link has ended, the next sweep sets it again as long as `lastSeen` is within the timeout, and
  `LostInTime` bounds how long it stays.
- The item of a file appears in an open chat only when the chat is loaded again, by a
  selection, a search or a `peerOnlineChanged` (`FileTransferManager.cpp:112` and `282`
  emit nothing the view listens to, `ChatView.cpp:77-80`), where `PRD.md:173-175` (FR-F3)
  has each file appear as a chat item. `TextsOnScreen` speaks of texts for this reason.
- A file's chat item stays "sending", and `max_parallel_transfers` is never read.
- Pausing, resuming and `markRead` have no caller in the user interface of this commit;
  they are modelled as the public operations they are.

## 4. Proofs

Each `...Proofs` module proves its theorems for arbitrary constants that meet the
assumption of the module it extends:

| Assumption | Says |
| --- | --- |
| `ConstantsAssumption` (`PeerManager`) | our id and the null value are nobody else's |
| `NodesAssumption` (`TwoNodes`) | the two ids differ, both nodes' fingerprints are fingerprints, the null value is no id, fingerprint or connection |
| `PresenceAssumption` | the timeout outlasts the longest time without news: an announcement as late as it can be from a clock that is behind, then the misses, then the way of the next. It bounds the lag of the clock, the delay and the misses, none of which the code ensures. The program's 20 s and 5 s meet it with one miss, ways of up to 5 s and a clock that is not behind, or ways of up to 2 s and a clock up to 6 s behind |
| `StartupAssumption` | the null value is no launch and no generated value |
| `ChatAssumption` | there are two nodes, each message or chat item of a file has one of them as its author, and the null value is no status |
| `FramingAssumption` | a byte can hold each frame type, the length field has at least one byte, payloads consist of bytes and their lengths fit into the field |
| `SizesAssumption` (`FileTransfer`) | file sizes are numbers, the chunk size is not 0, the null value is no row and no entry |

| Module | Theorem | Statement |
| --- | --- | --- |
| `PeerManagerProofs` | `TypeCorrect` | `Spec => []TypeOK` |
| | `LinkTablesInverse` | `Spec => []LinkTables` |
| | `LinksDoNotLeak` | `Spec => [](NoLeak /\ DoomedClosed)` |
| | `NothingDangles` | `Spec => []NoDangling` |
| | `CacheIsPersisted` | `Spec => []CachePersisted` |
| | `LinkedIsOnline` | `Spec => []LinkedOnline` |
| | `BlockedIsCut` | `Spec => []BlockedCut` |
| | `FingerprintKept` | `Spec => TrustKeepsFingerprint` |
| | `BlockIsKept` | `Spec => BlockedSticks` |
| `TrustPromptProofs` | `PromptTypeCorrect` | `PromptSpec => []PromptTypeOK` |
| | `QueueIsServed` | `PromptSpec => []QueueServed` |
| | `DialogIsUndecided` | `PromptSpec => []DialogUndecided` |
| | `PromptIsOwed` | `PromptSpec => []PromptOwed` |
| | `PeerManagerKept` | `PromptSpec => [](LinkTables /\ NoDangling /\ CachePersisted /\ BlockedCut)` |
| `TwoNodesProofs` | `WiresTypeCorrect` | `Spec => []WireTypeOK` |
| | `HandshakesStayAlive` | `Spec => []HandshakeAlive` |
| | `NothingHalfOpen` | `Spec => []NoHalfOpen` |
| | `BothAgree` | `Spec => []Agreement` |
| | `BothArePeerManagers` | `Spec` implements `PeerManager`'s `Init /\ [][Next]_vars` twice |
| `FramingProofs` | `DecodeEncoded` | decoding gives back an encoded frame and leaves what follows |
| | `DrainedReached` | the read loop ends idle, within one call for each byte |
| | `FramingCorrect` | `Spec => []FramingInv` |
| | `FramingTypeCorrect` | `Spec => []FramingTypeOK` |
| | `FramesAreWhole` | `Spec => []WholeFrames` |
| | `FailsWithHeader` | `Spec => []FailsOnHeader` |
| | `BufferIsBounded` | `Spec => []BufferBounded` |
| `PresenceProofs` | `PresenceTypeCorrect`, `GoneIsLostInTime` | `Spec => []PresenceTypeOK`, `Spec => []LostInTime` |
| | `RunningIsNotLost` | `Spec => NeverLost` |
| `StartupProofs` | `StartupTypeCorrect`, `SchemaIsComplete` | `Spec => []StartupTypeOK`, `Spec => []SchemaComplete` |
| | `IdentityIsOne`, `SelfIsRecognised` | `Spec => []OneIdentity`, `Spec => []NotItsOwnPeer` |
| `ChatProofs` | `FramesAreTrue` | `Spec => []ChatInv` |
| | `DeliveredMeansStored` | `Spec => []DeliveredIsStored` |
| | `StatusNeverGoesBack` | `Spec => StatusForward` |
| | `ChatTypeCorrect` | `Spec => []ChatTypeOK` |
| | `ScreenShowsTexts` | `Spec => []TextsOnScreen` |
| `FileTransferProofs` | `VerdictsAreTrue` | `Spec => []TransferInv` |
| | `ImplementsDelivery` | `Spec => KeepsItsPromise` |
| | `DoneIsIntact` | done at the sender is done and intact at the receiver |
| | `FileTypeCorrect` | `Spec => []FileTypeOK` |
| | `TransfersGoOn` | `Spec => []RunInv` |
| | `NothingStalls` | `Spec => []NeverStalls` |

Hardly any of these is inductive alone.

*PeerManager.* `LinkTables` survives the admission of a
link only if that link is in no table yet, which is `NoLeak` for links in the
handshake; `NoLeak` survives a deletion only if the deleted link is in no table, which
is `NoDangling`; `NoDangling` survives the replacement of a link only if the two tables
are inverse; `BlockedCut` survives the posted deletion of a replaced link only
with `DoomedClosed`; `LinkedOnline` survives a sweep only if a linked peer is known
(`LinkedKnown`). `Inv` is their conjunction with the type invariant and
`CachePersisted`. The proof has one lemma per group of actions for the tables, one
step per action in `InvStep`, and the two action properties follow from a lemma that
lists all the ways a peer's cached row can change (`PeerRowSteps`).

*TrustPrompt.* `PromptInv` adds to that `Inv` the window's part. Whoever is owed a prompt
has it posted, queued or open, so a prompt may leave the queue only for a peer that is
decided, gone, or asked now; that needs the open dialog to be about a peer that is still
undecided (`DialogUndecided`), which in turn rests on no handler in the background
deciding about an undecided peer (`UndecidedStays`).

*TwoNodes.* The invariant describes each connection by itself: `Joint` lists what the states
of its two ends, the frames on its two wires and its place in the backlogs can be to each
other, up to exchanging the ends. Five shapes are enough, because a deleted end writes
only what is still to be flushed and a closed one nothing. That no handler touches the
ends of two connections in a way `Joint` does not allow follows from what
`PeerManagerProofs` says of one process: `TwoInv` has its `Inv` twice, and every
`PeerManager` action is reduced to what it does to one end (`Unread`, `Reads`).
The same lemmas show that each process takes only steps of `PeerManager`
(`BothArePeerManagers`), so that what is proved of one process with arbitrary remote ends
holds of both. `HandshakeAlive`, `NoHalfOpen` and `Agreement` are then read off the shapes.

*Presence.* `LostInTime` compares the cached bit with the peer's last sign, but the sweep
looks at `lastSeen` and is up to one interval old. The invariant bounds the age of
`lastSeen`, and of everything under way, by the time since the last sign. `NeverLost` looks
forward instead: `NextInTime` says that the next announcement to arrive, one under way or
the first that will not be missed, comes before the timeout.

*Startup.* `OneIdentity` follows from every announced value being the stored one
(`AnnouncedIsStored`), which holds because a process announces what it read or
stored itself (`MemIsStored`) and only the holder of the lock runs (`OneProcess`): two
starts that each found nothing could otherwise generate and announce their own.
`NotItsOwnPeer` needs that an announced value is still the stored one for some key.

*Chat.* `DeliveredIsStored` depends on receipts under way, hence on every frame on the
wire being true of both tables (`TrueFrame`); that a handled frame does not make a later
one false is the order of a message's frames (`Ordered`: nothing follows another frame
of the same message but a receipt "read"). `TextsOnScreen` speaks of histories that fit into
a page only, and a view that once held fewer texts than the history need not catch up: the
invariant `ViewInv` adds that a view shows nothing twice and nothing that is not stored,
and that the stored history is finite, so that a page of a history that fits is all of it.

*FileTransfer.* The refinement of `FileDelivery` needs that a verdict on its way is the one
in the receiver's table (`Answers`), that a transfer in memory has an open row (`Held`),
that an offer arrives once and is news (`OfferedOnce`, `News`), and that a dialog is
about a row that still waits for its answer (`Dialog`, `AskedOnce`): a row would
otherwise go back from an end state. Frames behind are never examined, only that they are
frames of the right kind. `NeverStalls` does need them: `Calm`, which holds until the
first break, says that a chunk is right behind its meta frame (`Paired`), that the
transfer which waits for bytes is the one whose chunk comes next (`Announced`; hence a
chunk goes to its own transfer although it carries no id), that no dialog is about a
broken connection, and that an open transfer is `Going`: offered, asked about, paused or ended by the
receiver, or with its next chunk requested or on its way. `BoundInv` holds after a break
too: requests and chunks are about places of the file (`Place`, `Fits`), which also types
`m_incoming`. For `OnChunkReq` to answer such a request, `FitsChunks` relates the number of
chunks, a division, to the places in the file.

*Framing.* `FramingInv` says where the reader is: it has handed on the first frames of the
stream and its buffer is exactly what has arrived behind them, or it has failed there. The
operators of the model are recursive functions (the digits of a length, `FlattenSeq`, the
loop), and what they compute is proved by induction over sets of numbers: `SetInduction` follows from the
library's `WFMin`, which takes no predicate, and `Unbounded` gives the function that a
recursive definition asks for. With these, `ShiftedSteps` and `DeclaredLength` read the
length back from its digits, `WireSteps` and `WireGrows` place each frame in the stream,
`HeaderRead` decodes a buffer that begins with a frame or with enough of it, and
`NextReached` and `DrainedReached` are one call and the loop.

Only model-checked: liveness, that is `BlockedGoes`, `ClosedFreed`, `HandshakesEnd`,
`Finishes` and `Confirmed` (fairness and `ENABLED` are beyond the prover).

No module uses a `RECURSIVE` operator.

## 5. What is assumed or left out

Assumptions of the models:

- Outside `Startup`, database statements succeed, and a statement is durable at once.
- Remote processes in `TwoNodes`, `FileTransfer` and `Chat` run this program; in
  `PeerManager`, `TrustPrompt` and `LinkLifetime` they may do anything.
- `FileTransfer` has one direction and trusted peers; `Chat` reduces the connection to
  what `PeerManager` and `TwoNodes` establish.
- `TwoNodes` leaves out the prompts: a dialog there would only delay a handler.

Not modelled, and why:

- Typing indicator, search, nicknames, labels, `rename`, settings pages and the tray:
  display data that no stored or sent state depends on.
- Addresses, ports and malformed datagrams or JSON: parsing without state; a
  frame or datagram that is refused changes nothing.
- `EventLog` and `Logger`: append-only records that only the event panel lists.
- The order in which `Application::shutdown` and `~PeerManager` destroy objects: an
  invalidated iterator there is a question of C++ object lifetime, and afterwards there is no state
  left to relate to; the line is among the hazards.
- Repository queries (`search`, `findById`, the lists): pure reads.
- Packaging, translations, icons: no program logic.

What could follow: failing writes in `Chat` and `PeerManager` with a weaker promise; the
resumption of transfers once the code has it.
