------------------------------ MODULE Startup ------------------------------
(***************************************************************************)
(* The starts and ends of node-talk on one data directory: the lock file,  *)
(* the database with its schema version, the two settings that make up the *)
(* node's identity, and what the node announces of itself.                 *)
(*                                                                         *)
(* Every statement that writes to the database is a step of its own, and a *)
(* process may die between any two.  With journal_mode=WAL and             *)
(* synchronous=NORMAL a commit survives the death of the process, but a    *)
(* loss of power may take back the newest commits.                         *)
(* A definition named ..._Bug is a plausible mistake in the definition     *)
(* that follows it, for showing that a property would notice.              *)
(***************************************************************************)
EXTENDS Naturals, Sequences

CONSTANTS Proc,    \* launches of the program
          Value,   \* values of generated ids and fingerprints
          None

ASSUME StartupAssumption == None \notin Proc \cup Value

Key == {"peer_id", "fingerprint"}

VARIABLES
  lock,       \* the process the lock file names
  pc,         \* how far each process has come
  mem,        \* m_peerId and m_fingerprint of each process
  wal,        \* the database after each commit since the last checkpoint
  used,       \* the values generated so far, for either key
  announced,  \* every identity some process has announced
  self,       \* those the node has taken for another peer
  lost        \* the keys whose value was lost by a failed statement or power

vars == <<lock, pc, mem, wal, used, announced, self, lost>>

\* What a process is about to do.
Phase == {"Off", "Open", "Version", "Read", "EnsureId", "EnsureFp", "Start", "Up"}
Stored == [Key -> Value \cup {None}]
Identities == [Key -> Value]
Database == [tables : BOOLEAN, version : {0, 1}, keys : Stored]

db == wal[Len(wal)]
NoKeys == [k \in Key |-> None]
Running == {p \in Proc : pc[p] # "Off"}

Init ==
  /\ lock = None
  /\ pc = [p \in Proc |-> "Off"]
  /\ mem = [p \in Proc |-> NoKeys]
  /\ wal = <<[tables |-> FALSE, version |-> 0, keys |-> NoKeys]>>
  /\ used = {} /\ announced = {} /\ self = {} /\ lost = {}
-----------------------------------------------------------------------------
At(p, phase) == pc[p] = phase
Goes(p, phase) == pc' = [pc EXCEPT ![p] = phase]
\* A commit that changes nothing writes nothing.
Commits(state) == wal' = IF state = db THEN wal ELSE Append(wal, state)

\* tryLock succeeds on any lock file.
LockFree_Bug == TRUE

\* No lock file, or one whose process is dead.
LockFree == lock = None \/ lock \notin Running

\* main: a second instance says so and returns.
Launch(p) ==
  /\ At(p, "Off") /\ LockFree
  /\ lock' = p
  /\ Goes(p, "Open")
  /\ UNCHANGED <<mem, wal, used, announced, self, lost>>

\* The process returns from main: after shutdown(), or because the database
\* could not be opened or migrated, or the server could not listen.
Exit(p) ==
  /\ pc[p] \in {"Open", "Start", "Up"}
  /\ lock' = None
  /\ Goes(p, "Off")
  /\ mem' = [mem EXCEPT ![p] = NoKeys]
  /\ UNCHANGED <<wal, used, announced, self, lost>>

Crash(p) ==
  /\ pc[p] # "Off"
  /\ Goes(p, "Off")
  /\ mem' = [mem EXCEPT ![p] = NoKeys]
  /\ UNCHANGED <<lock, wal, used, announced, self, lost>>

\* The version is stored before the tables are there.
Migrated_OrderBug == [db EXCEPT !.version = 1]

\* The tables of schema 1, in one transaction.
Migrated == [db EXCEPT !.tables = TRUE]

\* migrate: only a database below the current version is worked on; one whose
\* version cannot be read counts as one of version 0.
Migrate(p) ==
  /\ At(p, "Open")
  /\ \/ db.version >= 1 /\ Goes(p, "Read") /\ UNCHANGED wal
     \/ Goes(p, "Version") /\ Commits(Migrated)
  /\ UNCHANGED <<lock, mem, used, announced, self, lost>>

\* setUserVersion, outside the transaction; whether it worked is not looked at.
SetUserVersion(p) ==
  /\ At(p, "Version")
  /\ Goes(p, "Read")
  /\ Commits([db EXCEPT !.version = 1]) \/ UNCHANGED wal
  /\ UNCHANGED <<lock, mem, used, announced, self, lost>>

\* Identity::ensure begins by reading both settings; a query that fails gives
\* the empty default.
ReadKeys(p) ==
  /\ At(p, "Read")
  /\ Goes(p, "EnsureId")
  /\ \E failed \in SUBSET Key :
       /\ mem' = [mem EXCEPT ![p] = [k \in Key |-> IF k \in failed THEN None ELSE db.keys[k]]]
       /\ lost' = lost \cup {k \in failed : db.keys[k] # None}
  /\ UNCHANGED <<lock, wal, used, announced, self>>

\* What is missing is not noticed.
Missing_NeverBug(p, k) == FALSE

Missing(p, k) == mem[p][k] = None

\* A missing value is generated and stored; a write that fails is "not fatal".
Ensure(p, k) ==
  IF Missing(p, k)
    THEN \E v \in Value \ used :
           /\ used' = used \cup {v}
           /\ mem' = [mem EXCEPT ![p][k] = v]
           /\ \/ Commits([db EXCEPT !.keys[k] = v]) /\ UNCHANGED lost
              \/ lost' = lost \cup {k} /\ UNCHANGED wal
    ELSE UNCHANGED <<used, mem, wal, lost>>

EnsurePeerId(p) ==
  /\ At(p, "EnsureId") /\ Goes(p, "EnsureFp")
  /\ Ensure(p, "peer_id")
  /\ UNCHANGED <<lock, announced, self>>

EnsureFingerprint(p) ==
  /\ At(p, "EnsureFp") /\ Goes(p, "Start")
  /\ Ensure(p, "fingerprint")
  /\ UNCHANGED <<lock, announced, self>>

\* The server listens, then DiscoveryService::start sends the first announcement;
\* onTick repeats it.
StartServices(p) ==
  /\ At(p, "Start") /\ Goes(p, "Up")
  /\ announced' = announced \cup {mem[p]}
  /\ UNCHANGED <<lock, mem, wal, used, self, lost>>

\* The fingerprint is not compared.
Accepted_IdOnlyBug(p, a) == a["peer_id"] # mem[p]["peer_id"]

\* The tests of handleDatagram that recognise the node itself.
Accepted(p, a) ==
  /\ a["peer_id"] # mem[p]["peer_id"]
  /\ a["fingerprint"] # mem[p]["fingerprint"]

\* An announcement of this node, an earlier one even, comes back to it.
HearOwn(p) ==
  /\ At(p, "Up")
  /\ \E a \in announced : Accepted(p, a) /\ self' = self \cup {a}
  /\ UNCHANGED <<lock, pc, mem, wal, used, announced, lost>>

Checkpoint ==
  /\ wal' = <<db>>
  /\ UNCHANGED <<lock, pc, mem, used, announced, self, lost>>

\* The machine loses power, and the newest commits may be gone.
PowerLoss ==
  /\ \E n \in 1 .. Len(wal) :
       /\ wal' = SubSeq(wal, 1, n)
       /\ lost' = lost \cup {k \in Key : wal[n].keys[k] # db.keys[k]}
  /\ pc' = [p \in Proc |-> "Off"]
  /\ mem' = [p \in Proc |-> NoKeys]
  /\ UNCHANGED <<lock, used, announced, self>>
-----------------------------------------------------------------------------
Next ==
  \/ \E p \in Proc :
       \/ Launch(p) \/ Exit(p) \/ Crash(p)
       \/ Migrate(p) \/ SetUserVersion(p)
       \/ ReadKeys(p) \/ EnsurePeerId(p) \/ EnsureFingerprint(p)
       \/ StartServices(p) \/ HearOwn(p)
  \/ Checkpoint \/ PowerLoss

Spec == Init /\ [][Next]_vars
-----------------------------------------------------------------------------
(* Properties *)

StartupTypeOK ==
  /\ lock \in Proc \cup {None}
  /\ pc \in [Proc -> Phase]
  /\ mem \in [Proc -> Stored]
  /\ wal \in Seq(Database) /\ wal # <<>>
  /\ used \subseteq Value
  /\ announced \subseteq Identities /\ self \subseteq announced
  /\ lost \subseteq Key

\* A schema version is never seen without its tables, on any prefix of the
\* commits that a crash or a loss of power may leave, and no process goes on to
\* the settings without them.
SchemaComplete ==
  /\ \A n \in 1 .. Len(wal) : wal[n].version = 1 => wal[n].tables
  /\ \A p \in Running : pc[p] \notin {"Open"} => db.tables

\* However often it is started, at the same time even, and wherever a start was
\* cut off, a node announces one value of each key, unless a failed statement
\* or a loss of power has taken the key's value.
OneIdentity == \A k \in Key \ lost : \A a1, a2 \in announced : a1[k] = a2[k]

\* A node does not list itself as a peer as long as one of the two values of
\* its identity has survived.
NotItsOwnPeer == lost # Key => self = {}
=============================================================================
