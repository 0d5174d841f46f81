--------------------------- MODULE StartupProofs ---------------------------
(***************************************************************************)
(* What TLAPS proves of Startup, for any number of launches and of         *)
(* generated values.                                                       *)
(***************************************************************************)
EXTENDS Startup, TLAPS

\* The phases of a process that has read both settings.
HasRead == {"EnsureId", "EnsureFp", "Start", "Up"}

\* Those in which the value of k is there.
HasValue(k) == IF k = "peer_id" THEN {"EnsureFp", "Start", "Up"} ELSE {"Start", "Up"}

\* Only the process that holds the lock is running.
OneProcess == \A p \in Proc : pc[p] # "Off" => lock = p

\* From the phase that ensures it on, a process has a value of each key.
Ensured == \A p \in Proc, k \in Key : pc[p] \in HasValue(k) => mem[p][k] \in Value

\* A process works with the stored value of a key that was never lost.
MemIsStored ==
  \A p \in Proc : \A k \in Key \ lost : pc[p] \in HasRead => mem[p][k] = db.keys[k]

\* So does whoever has heard the node.
AnnouncedIsStored == \A k \in Key \ lost : \A a \in announced : a[k] = db.keys[k]

Inv ==
  /\ StartupTypeOK /\ OneProcess /\ Ensured
  /\ MemIsStored /\ AnnouncedIsStored
  /\ SchemaComplete /\ NotItsOwnPeer
-----------------------------------------------------------------------------
(* The database *)

LEMMA DbType ==
  ASSUME StartupTypeOK
  PROVE  /\ Len(wal) \in Nat \ {0} /\ db = wal[Len(wal)]
         /\ \A n \in 1 .. Len(wal) : wal[n] \in Database
         /\ db \in Database /\ db.keys \in Stored
<1>1. wal \in Seq(Database) /\ wal # <<>>
  BY DEF StartupTypeOK
<1>2. Len(wal) \in Nat \ {0} /\ \A n \in 1 .. Len(wal) : wal[n] \in Database
  BY <1>1
<1>3. db \in Database
  BY <1>2 DEF db
<1> QED
  BY <1>2, <1>3 DEF db, Database

\* A commit leaves the earlier ones and makes the database the new state.
LEMMA CommitEffect ==
  ASSUME StartupTypeOK, NEW state \in Database, Commits(state)
  PROVE  /\ wal' \in Seq(Database) /\ wal' # <<>>
         /\ db' = state
         /\ \A n \in 1 .. Len(wal') : (n \in 1 .. Len(wal) /\ wal'[n] = wal[n]) \/ wal'[n] = state
<1>1. wal \in Seq(Database) /\ wal # <<>>
  BY DEF StartupTypeOK
<1>2. CASE state = db
  BY <1>1, <1>2 DEF Commits, db
<1>3. CASE state # db
  <2>1. wal' = Append(wal, state)
    BY <1>3 DEF Commits
  <2>2. Len(wal') = Len(wal) + 1 /\ wal' \in Seq(Database) /\ wal'[Len(wal) + 1] = state
    BY <1>1, <2>1
  <2>3. \A n \in 1 .. Len(wal) : wal'[n] = wal[n]
    BY <1>1, <2>1
  <2> QED
    BY <1>1, <2>2, <2>3 DEF db
<1> QED
  BY <1>2, <1>3

\* A prefix of the commits is what a loss of power leaves.
LEMMA PrefixEffect ==
  ASSUME StartupTypeOK, NEW n \in 1 .. Len(wal), wal' = SubSeq(wal, 1, n)
  PROVE  /\ wal' \in Seq(Database) /\ wal' # <<>>
         /\ db' = wal[n]
         /\ \A i \in 1 .. Len(wal') : i \in 1 .. Len(wal) /\ wal'[i] = wal[i]
<1>1. wal \in Seq(Database) /\ Len(wal) \in Nat
  BY DEF StartupTypeOK
<1>2. n \in Nat /\ n >= 1 /\ n <= Len(wal)
  BY <1>1
<1>3. Len(wal') = n /\ \A i \in 1 .. n : wal'[i] = wal[i]
  BY <1>1, <1>2
<1>4. wal' \in Seq(Database)
  BY <1>1, <1>2
<1> QED
  BY <1>2, <1>3, <1>4 DEF db
-----------------------------------------------------------------------------
(* One lemma for each kind of step *)

\* Steps that leave the database and what was announced alone, and end or begin
\* a process.
LEMMA StepPhase ==
  ASSUME Inv, NEW p \in Proc, Launch(p) \/ Exit(p) \/ Crash(p)
  PROVE  Inv'
<1>1. UNCHANGED <<wal, used, announced, self, lost>> /\ db' = db
  BY DEF Launch, Exit, Crash, db
<1>2. /\ pc' \in [Proc -> Phase] /\ mem' \in [Proc -> Stored] /\ lock' \in Proc \cup {None}
      /\ \A q \in Proc \ {p} : pc'[q] = pc[q] /\ mem'[q] = mem[q]
      /\ pc'[p] \in {"Off", "Open"}
  <2>1. /\ \/ pc' = [pc EXCEPT ![p] = "Open"] /\ mem' = mem
           \/ pc' = [pc EXCEPT ![p] = "Off"] /\ mem' = [mem EXCEPT ![p] = NoKeys]
        /\ lock' \in {lock, p, None}
    BY DEF Launch, Exit, Crash, Goes
  <2>2. NoKeys \in Stored
    BY DEF NoKeys, Stored
  <2> QED
    BY <2>1, <2>2 DEF Inv, StartupTypeOK, Phase
<1>3. OneProcess'
  <2>1. CASE Launch(p)
    <3>1. \A q \in Proc : pc[q] = "Off"
      BY <2>1, StartupAssumption DEF Launch, LockFree, Running, Inv, OneProcess
    <3> QED
      BY <1>2, <2>1, <3>1 DEF OneProcess, Launch
  <2>2. CASE Exit(p)
    <3>1. \A q \in Proc \ {p} : pc[q] = "Off"
      BY <2>2 DEF Exit, Inv, OneProcess
    <3> QED
      BY <2>2, <1>2, <3>1 DEF OneProcess, Exit, Goes, Inv, StartupTypeOK
  <2>3. CASE Crash(p)
    BY <2>3, <1>2 DEF OneProcess, Crash, Goes, Inv, StartupTypeOK
  <2> QED
    BY <2>1, <2>2, <2>3
<1>4. StartupTypeOK'
  BY <1>1, <1>2 DEF Inv, StartupTypeOK
<1>5. Ensured' /\ MemIsStored' /\ AnnouncedIsStored'
  BY <1>1, <1>2 DEF Inv, Ensured, MemIsStored, AnnouncedIsStored, HasRead, HasValue
<1>6. NotItsOwnPeer'
  BY <1>1 DEF Inv, NotItsOwnPeer
<1>7. SchemaComplete'
  <2>1. ASSUME NEW q \in Proc, pc'[q] \notin {"Off", "Open"}
        PROVE  db'.tables
    BY <1>1, <1>2, <2>1 DEF Inv, SchemaComplete, Running
  <2> QED
    BY <1>1, <2>1 DEF Inv, SchemaComplete, Running
<1> QED
  BY <1>7, <1>3, <1>4, <1>5, <1>6 DEF Inv

\* The migration and the schema version.
LEMMA StepSchema ==
  ASSUME Inv, NEW p \in Proc, Migrate(p) \/ SetUserVersion(p)
  PROVE  Inv'
<1>1. UNCHANGED <<lock, mem, used, announced, self, lost>>
  BY DEF Migrate, SetUserVersion
<1>2. /\ pc' \in [Proc -> Phase] /\ pc[p] # "Off"
      /\ \A q \in Proc \ {p} : pc'[q] = pc[q]
      /\ pc'[p] \in {"Version", "Read"}
  BY DEF Inv, StartupTypeOK, Migrate, SetUserVersion, Goes, At, Phase
<1>3. db \in Database /\ \A n \in 1 .. Len(wal) : wal[n].version = 1 => wal[n].tables
  BY DbType DEF Inv, SchemaComplete
<1> DEFINE Result == /\ wal' \in Seq(Database) /\ wal' # <<>> /\ db'.keys = db.keys
                     /\ db'.tables
                     /\ \A n \in 1 .. Len(wal') : wal'[n].version = 1 => wal'[n].tables
<1>4. Result
  <2>1. CASE wal' = wal /\ db.tables
    BY <2>1, <1>3 DEF db, Inv, StartupTypeOK
  <2>2. ASSUME NEW state \in Database, Commits(state), state.tables, state.keys = db.keys
        PROVE  Result
    BY <2>2, <1>3, CommitEffect DEF Inv
  <2>3. CASE Migrate(p)
    <3>1. Migrated \in Database /\ Migrated.tables /\ Migrated.keys = db.keys
      BY <1>3 DEF Migrated, Database
    <3>2. db.version >= 1 => db.tables
      BY <1>3, DbType DEF Database, Inv
    <3> QED
      BY <2>1, <2>2, <2>3, <3>1, <3>2 DEF Migrate
  <2>4. CASE SetUserVersion(p)
    <3>1. db.tables
      BY <2>4 DEF SetUserVersion, At, Inv, SchemaComplete, Running
    <3> DEFINE state == [db EXCEPT !.version = 1]
    <3>2. state \in Database /\ state.tables /\ state.keys = db.keys
      BY <1>3, <3>1 DEF Database
    <3>3. Commits(state) \/ wal' = wal
      BY <2>4 DEF SetUserVersion
    <3> HIDE DEF state
    <3> QED
      BY <2>1, <2>2, <3>1, <3>2, <3>3
  <2> QED
    BY <2>3, <2>4
<1>5. StartupTypeOK'
  BY <1>1, <1>2, <1>4 DEF Inv, StartupTypeOK
<1>6. OneProcess' /\ Ensured' /\ MemIsStored' /\ AnnouncedIsStored' /\ NotItsOwnPeer'
  BY <1>1, <1>2, <1>4 DEF Inv, OneProcess, Ensured, MemIsStored, AnnouncedIsStored,
     NotItsOwnPeer, HasRead, HasValue
<1>7. SchemaComplete'
  BY <1>4 DEF SchemaComplete
<1> QED
  BY <1>5, <1>6, <1>7 DEF Inv

LEMMA StepRead ==
  ASSUME Inv, NEW p \in Proc, ReadKeys(p)
  PROVE  Inv'
<1>1. UNCHANGED <<lock, wal, used, announced, self>> /\ db' = db /\ pc[p] = "Read"
  BY DEF ReadKeys, At, db
<1>2. PICK failed \in SUBSET Key :
        /\ mem' = [mem EXCEPT ![p] = [k \in Key |-> IF k \in failed THEN None ELSE db.keys[k]]]
        /\ lost' = lost \cup {k \in failed : db.keys[k] # None}
  BY DEF ReadKeys
<1>3. db.keys \in Stored
  BY DbType DEF Inv
<1>4. /\ pc' \in [Proc -> Phase] /\ pc'[p] = "EnsureId"
      /\ \A q \in Proc \ {p} : pc'[q] = pc[q] /\ mem'[q] = mem[q]
  BY <1>2 DEF Inv, StartupTypeOK, ReadKeys, Goes, Phase
<1>5. /\ mem' \in [Proc -> Stored] /\ lost \subseteq lost' /\ lost' \subseteq Key
      /\ \A k \in Key \ lost' : mem'[p][k] = db.keys[k]
  BY <1>2, <1>3 DEF Inv, StartupTypeOK, Stored
<1>6. StartupTypeOK'
  BY <1>1, <1>4, <1>5 DEF Inv, StartupTypeOK
<1>7. OneProcess' /\ Ensured'
  BY <1>1, <1>4 DEF Inv, OneProcess, Ensured, HasValue
<1>8. MemIsStored' /\ AnnouncedIsStored'
  BY <1>1, <1>4, <1>5 DEF Inv, MemIsStored, AnnouncedIsStored, HasRead
<1>9. SchemaComplete'
  BY <1>1, <1>4 DEF Inv, SchemaComplete, Running
<1>10. NotItsOwnPeer'
  BY <1>1, <1>5 DEF Inv, NotItsOwnPeer, StartupTypeOK
<1> QED
  BY <1>6, <1>7, <1>8, <1>9, <1>10 DEF Inv

\* The two steps of Identity::ensure that make up what is missing.
LEMMA StepEnsure ==
  ASSUME Inv, NEW p \in Proc, EnsurePeerId(p) \/ EnsureFingerprint(p)
  PROVE  Inv'
<1>1. UNCHANGED <<lock, announced, self>> /\ pc[p] \in {"EnsureId", "EnsureFp"}
  BY DEF EnsurePeerId, EnsureFingerprint, At
<1>2. PICK k \in Key : /\ Ensure(p, k)
                       /\ \/ k = "peer_id" /\ pc'[p] = "EnsureFp" /\ pc[p] = "EnsureId"
                          \/ k = "fingerprint" /\ pc'[p] = "Start" /\ pc[p] = "EnsureFp"
  BY DEF EnsurePeerId, EnsureFingerprint, At, Goes, Key, Inv, StartupTypeOK
<1>3. pc' \in [Proc -> Phase] /\ \A q \in Proc \ {p} : pc'[q] = pc[q] /\ pc[q] = "Off"
  BY <1>1 DEF Inv, StartupTypeOK, EnsurePeerId, EnsureFingerprint, Goes, Phase, OneProcess
<1>4. db \in Database /\ db.keys \in Stored /\ db.tables
  BY <1>1, DbType DEF Inv, SchemaComplete, Running
<1>5. CASE mem[p][k] # None
  <2>1. UNCHANGED <<used, mem, wal, lost>> /\ db' = db
    BY <1>2, <1>5 DEF Ensure, Missing, db
  <2>2. mem[p][k] \in Value
    BY <1>5 DEF Inv, StartupTypeOK, Stored
  <2>3. StartupTypeOK'
    BY <1>1, <1>3, <2>1 DEF Inv, StartupTypeOK
  <2>4. OneProcess' /\ NotItsOwnPeer' /\ AnnouncedIsStored'
    BY <1>1, <1>2, <1>3, <2>1 DEF Inv, OneProcess, NotItsOwnPeer, AnnouncedIsStored
  <2>5. Ensured'
    BY <1>2, <1>3, <2>1, <2>2 DEF Inv, Ensured, HasValue, Key
  <2>6. MemIsStored'
    BY <1>2, <1>3, <2>1 DEF Inv, MemIsStored, HasRead
  <2>7. SchemaComplete'
    BY <1>4, <2>1 DEF Inv, SchemaComplete
  <2> QED
    BY <2>3, <2>4, <2>5, <2>6, <2>7 DEF Inv
<1>6. CASE mem[p][k] = None
  <2>1. PICK v \in Value :
          /\ used' = used \cup {v} /\ mem' = [mem EXCEPT ![p][k] = v]
          /\ \/ Commits([db EXCEPT !.keys[k] = v]) /\ UNCHANGED lost
             \/ lost' = lost \cup {k} /\ UNCHANGED wal
    BY <1>2, <1>6 DEF Ensure, Missing
  <2>2. /\ mem' \in [Proc -> Stored] /\ mem'[p][k] = v
        /\ \A j \in Key \ {k} : mem'[p][j] = mem[p][j]
        /\ \A q \in Proc \ {p} : mem'[q] = mem[q]
    BY <2>1 DEF Inv, StartupTypeOK, Stored
  <2>3. /\ wal' \in Seq(Database) /\ wal' # <<>> /\ lost \subseteq lost' /\ lost' \subseteq Key
        /\ db'.tables
        /\ \A n \in 1 .. Len(wal') : wal'[n].version = 1 => wal'[n].tables
        /\ \A j \in Key \ {k} : db'.keys[j] = db.keys[j]
        /\ k \notin lost' => db'.keys[k] = v
    <3> DEFINE state == [db EXCEPT !.keys[k] = v]
    <3>1. CASE Commits(state) /\ UNCHANGED lost
      <4>1. /\ state \in Database /\ state.tables = db.tables /\ state.keys[k] = v
            /\ \A j \in Key \ {k} : state.keys[j] = db.keys[j]
        BY <1>4 DEF Database, Stored
      <4> HIDE DEF state
      <4>2. /\ wal' \in Seq(Database) /\ wal' # <<>> /\ db' = state
            /\ \A n \in 1 .. Len(wal') : (n \in 1 .. Len(wal) /\ wal'[n] = wal[n]) \/ wal'[n] = state
        BY <3>1, <4>1, CommitEffect DEF Inv
      <4> QED
        BY <1>4, <3>1, <4>1, <4>2 DEF Inv, StartupTypeOK, SchemaComplete
    <3>2. CASE lost' = lost \cup {k} /\ UNCHANGED wal
      <4>1. db' = db
        BY <3>2 DEF db
      <4> QED
        BY <1>4, <3>2, <4>1 DEF Inv, StartupTypeOK, SchemaComplete
    <3> QED
      BY <2>1, <3>1, <3>2
  <2>4. StartupTypeOK'
    BY <1>1, <1>3, <2>1, <2>2, <2>3 DEF Inv, StartupTypeOK
  <2>5. OneProcess' /\ NotItsOwnPeer'
    BY <1>1, <1>3, <2>3 DEF Inv, OneProcess, NotItsOwnPeer, StartupTypeOK
  <2>6. Ensured'
    BY <1>2, <1>3, <2>2 DEF Inv, Ensured, HasValue, Key
  <2>7. MemIsStored'
    BY <1>1, <1>2, <1>3, <2>2, <2>3 DEF Inv, MemIsStored, HasRead
  <2>8. AnnouncedIsStored'
    <3>1. k \notin lost => announced = {}
      <4> SUFFICES ASSUME k \notin lost, NEW a \in announced
                   PROVE  FALSE
        OBVIOUS
      <4>1. a[k] \in Value /\ a[k] = db.keys[k]
        BY DEF Inv, StartupTypeOK, Identities, AnnouncedIsStored
      <4>2. db.keys[k] = None
        BY <1>1, <1>6 DEF Inv, MemIsStored, HasRead
      <4> QED
        BY <4>1, <4>2, StartupAssumption
    <3> QED
      BY <1>1, <2>3, <3>1 DEF Inv, AnnouncedIsStored
  <2>9. SchemaComplete'
    BY <2>3 DEF SchemaComplete
  <2> QED
    BY <2>4, <2>5, <2>6, <2>7, <2>8, <2>9 DEF Inv
<1> QED
  BY <1>5, <1>6

LEMMA StepAnnounce ==
  ASSUME Inv, NEW p \in Proc, StartServices(p)
  PROVE  Inv'
<1>1. /\ UNCHANGED <<lock, mem, wal, used, self, lost>> /\ db' = db
      /\ announced' = announced \cup {mem[p]} /\ pc[p] = "Start"
  BY DEF StartServices, At, db
<1>2. pc' \in [Proc -> Phase] /\ pc'[p] = "Up" /\ \A q \in Proc \ {p} : pc'[q] = pc[q]
  BY DEF Inv, StartupTypeOK, StartServices, Goes, Phase
<1>3. mem[p] \in Identities
  <2>1. mem[p] \in Stored /\ \A k \in Key : mem[p][k] \in Value
    BY <1>1 DEF Inv, StartupTypeOK, Ensured, HasValue
  <2> QED
    BY <2>1 DEF Stored, Identities
<1>4. StartupTypeOK'
  BY <1>1, <1>2, <1>3 DEF Inv, StartupTypeOK
<1>5. OneProcess' /\ Ensured' /\ NotItsOwnPeer'
  BY <1>1, <1>2 DEF Inv, OneProcess, Ensured, HasValue, NotItsOwnPeer
<1>6. MemIsStored' /\ AnnouncedIsStored'
  BY <1>1, <1>2 DEF Inv, MemIsStored, AnnouncedIsStored, HasRead
<1>7. SchemaComplete'
  BY <1>1, <1>2 DEF Inv, SchemaComplete, Running
<1> QED
  BY <1>4, <1>5, <1>6, <1>7 DEF Inv

\* With one of its values kept, a node recognises everything it has announced.
LEMMA StepHear ==
  ASSUME Inv, NEW p \in Proc, HearOwn(p)
  PROVE  Inv'
<1>1. UNCHANGED <<lock, pc, mem, wal, used, announced, lost>> /\ db' = db /\ pc[p] = "Up"
  BY DEF HearOwn, At, db
<1>2. PICK a \in announced : Accepted(p, a) /\ self' = self \cup {a}
  BY DEF HearOwn
<1>3. lost = Key
  <2>1. \A k \in Key \ lost : a[k] = mem[p][k]
    BY <1>1 DEF Inv, AnnouncedIsStored, MemIsStored, HasRead
  <2>2. \A k \in Key : a[k] # mem[p][k]
    BY <1>2 DEF Accepted, Key
  <2> QED
    BY <2>1, <2>2 DEF Inv, StartupTypeOK
<1>4. StartupTypeOK'
  BY <1>1, <1>2 DEF Inv, StartupTypeOK
<1>5. OneProcess' /\ Ensured' /\ MemIsStored' /\ AnnouncedIsStored' /\ SchemaComplete'
  BY <1>1 DEF Inv, OneProcess, Ensured, MemIsStored, AnnouncedIsStored, SchemaComplete, Running
<1>6. NotItsOwnPeer'
  BY <1>1, <1>3 DEF NotItsOwnPeer
<1> QED
  BY <1>4, <1>5, <1>6 DEF Inv

LEMMA StepMachine ==
  ASSUME Inv, Checkpoint \/ PowerLoss
  PROVE  Inv'
<1>1. db \in Database /\ Len(wal) \in Nat \ {0} /\ db = wal[Len(wal)]
  BY DbType DEF Inv
<1>2. CASE Checkpoint
  <2>1. /\ UNCHANGED <<lock, pc, mem, used, announced, self, lost>>
        /\ wal' = <<db>>
    BY <1>2 DEF Checkpoint
  <2>2. /\ wal' \in Seq(Database) /\ wal' # <<>> /\ Len(wal') = 1 /\ wal'[1] = db /\ db' = db
    BY <1>1, <2>1 DEF db
  <2>3. StartupTypeOK'
    BY <2>1, <2>2 DEF Inv, StartupTypeOK
  <2>4. OneProcess' /\ Ensured' /\ MemIsStored' /\ AnnouncedIsStored' /\ NotItsOwnPeer'
    BY <2>1, <2>2 DEF Inv, OneProcess, Ensured, MemIsStored, AnnouncedIsStored, NotItsOwnPeer
  <2>5. SchemaComplete'
    BY <1>1, <2>1, <2>2 DEF Inv, SchemaComplete, Running
  <2> QED
    BY <2>3, <2>4, <2>5 DEF Inv
<1>3. CASE PowerLoss
  <2>1. PICK n \in 1 .. Len(wal) :
          /\ wal' = SubSeq(wal, 1, n)
          /\ lost' = lost \cup {k \in Key : wal[n].keys[k] # db.keys[k]}
    BY <1>3 DEF PowerLoss
  <2>2. /\ wal' \in Seq(Database) /\ wal' # <<>> /\ db' = wal[n]
        /\ \A i \in 1 .. Len(wal') : i \in 1 .. Len(wal) /\ wal'[i] = wal[i]
    BY <2>1, PrefixEffect DEF Inv
  <2>3. /\ pc' = [p \in Proc |-> "Off"] /\ mem' = [p \in Proc |-> NoKeys]
        /\ UNCHANGED <<lock, used, announced, self>>
    BY <1>3 DEF PowerLoss
  <2>4. lost \subseteq lost' /\ lost' \subseteq Key /\ \A k \in Key \ lost' : db'.keys[k] = db.keys[k]
    BY <2>1, <2>2 DEF Inv, StartupTypeOK
  <2>5. StartupTypeOK'
    BY <2>2, <2>3, <2>4 DEF Inv, StartupTypeOK, Phase, NoKeys, Stored
  <2>6. OneProcess' /\ Ensured' /\ MemIsStored'
    BY <2>3 DEF OneProcess, Ensured, MemIsStored, HasRead, HasValue
  <2>7. AnnouncedIsStored' /\ NotItsOwnPeer'
    BY <2>3, <2>4 DEF Inv, AnnouncedIsStored, NotItsOwnPeer, StartupTypeOK
  <2>8. SchemaComplete'
    BY <2>2, <2>3 DEF Inv, SchemaComplete, Running
  <2> QED
    BY <2>5, <2>6, <2>7, <2>8 DEF Inv
<1> QED
  BY <1>2, <1>3

LEMMA Invariance == Spec => []Inv
<1>1. Init => Inv
  <2> SUFFICES ASSUME Init PROVE Inv
    OBVIOUS
  <2>1. wal \in Seq(Database) /\ wal # <<>> /\ \A n \in 1 .. Len(wal) : wal[n].version # 1
    BY DEF Init, Database, Stored, NoKeys
  <2>2. StartupTypeOK
    BY <2>1 DEF Init, StartupTypeOK, Phase, NoKeys, Stored
  <2>3. SchemaComplete
    BY <2>1 DEF Init, SchemaComplete, Running
  <2> QED
    BY <2>2, <2>3 DEF Init, Inv, OneProcess, Ensured, MemIsStored, AnnouncedIsStored,
       NotItsOwnPeer, HasRead, HasValue
<1>2. Inv /\ [Next]_vars => Inv'
  <2> SUFFICES ASSUME Inv, [Next]_vars PROVE Inv'
    OBVIOUS
  <2>1. CASE UNCHANGED vars
    <3>1. db' = db
      BY <2>1 DEF vars, db
    <3> QED
      BY <2>1, <3>1 DEF vars, Inv, StartupTypeOK, OneProcess, Ensured, MemIsStored,
         AnnouncedIsStored, SchemaComplete, NotItsOwnPeer, Running
  <2> QED
    BY <2>1, StepPhase, StepSchema, StepRead, StepEnsure, StepAnnounce, StepHear, StepMachine DEF Next
<1> QED
  BY <1>1, <1>2, PTL DEF Spec

\* Every reachable state is well typed: what is announced has both values.
THEOREM StartupTypeCorrect == Spec => []StartupTypeOK
<1>1. Inv => StartupTypeOK
  BY DEF Inv
<1> QED
  BY <1>1, Invariance, PTL

\* The migration may be cut off anywhere and run again.
THEOREM SchemaIsComplete == Spec => []SchemaComplete
<1>1. Inv => SchemaComplete
  BY DEF Inv
<1> QED
  BY <1>1, Invariance, PTL

\* However many launches compete, a node announces one identity.
THEOREM IdentityIsOne == Spec => []OneIdentity
<1>1. Inv => OneIdentity
  BY DEF Inv, AnnouncedIsStored, OneIdentity
<1> QED
  BY <1>1, Invariance, PTL

\* A node does not take itself for a peer.
THEOREM SelfIsRecognised == Spec => []NotItsOwnPeer
<1>1. Inv => NotItsOwnPeer
  BY DEF Inv
<1> QED
  BY <1>1, Invariance, PTL
=============================================================================
