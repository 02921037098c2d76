------------------------------ MODULE PearSyncLog ------------------------------
(***************************************************************************)
(* What Main's log says, proved for any values of the constants: whose     *)
(* entries it holds, the versions it gives to files, and the stretch of it *)
(* that a push has written.                                                *)
(***************************************************************************)
EXTENDS PearSyncTypes

-----------------------------------------------------------------------------
(* What a step can touch                                                   *)

Domains ==
    /\ DOMAIN pc = Proc /\ DOMAIN job = Proc /\ DOMAIN last = Proc /\ DOMAIN batch = Proc
    /\ DOMAIN out = Proc /\ DOMAIN acks = Proc /\ DOMAIN garbage = Proc
    /\ DOMAIN wal = Node /\ DOMAIN files = Node /\ DOMAIN owners = Node /\ DOMAIN devices = Node
    /\ DOMAIN staging = Node /\ DOMAIN objects = Node /\ DOMAIN deviceId = Node

\* Every process has its locals, and every node its database.
LEMMA TypedDomains == TypeInv => Domains
BY DEF TypeInv, Domains, DbTypes, NodeTypes, Control, ControlTypes, DataTypes

\* The locals of q and the private state of n after a step that is not theirs.
SameLocals(q) ==
    /\ pc'[q] = pc[q] /\ job'[q] = job[q] /\ last'[q] = last[q] /\ batch'[q] = batch[q]
    /\ out'[q] = out[q] /\ acks'[q] = acks[q] /\ garbage'[q] = garbage[q]
SameStore(n) ==
    staging'[n] = staging[n] /\ objects'[n] = objects[n] /\ deviceId'[n] = deviceId[n]
SameTables(n) ==
    /\ wal'[n] = wal[n] /\ files'[n] = files[n]
    /\ owners'[n] = owners[n] /\ devices'[n] = devices[n]
Local(p) ==
    /\ \A q \in Proc \ {p} : SameLocals(q)
    /\ \A n \in Node \ {At[p]} : SameStore(n)
    /\ \A n \in Node \ {At[p], Main} : SameTables(n)

\* A command that ends drops its own locals only.
LEMMA FinishIsLocal ==
    ASSUME Domains, NEW p \in Proc, Finish(p)
    PROVE  \A q \in Proc \ {p} : SameLocals(q)
BY DEF Domains, Finish, Goto, SameLocals

\* So does one that goes on after an exception.
LEMMA ThrowIsLocal ==
    ASSUME Domains, NEW p \in Proc, Throw(p)
    PROVE  \A q \in Proc \ {p} : SameLocals(q)
BY FinishIsLocal DEF Domains, Throw, GoOn, Goto, SameLocals

\* Opening a database concerns that database.
LEMMA OpenIsLocal ==
    ASSUME Domains, NEW p \in Proc, OpenDatabase(At[p]), UNCHANGED <<wal, files, devices>>
    PROVE  \A n \in Node \ {At[p], Main} : SameTables(n)
BY DEF Domains, OpenDatabase, SameTables

\* addWalEntry runs on Main.
LEMMA AddIsLocal ==
    ASSUME Domains, NEW e, AddWalEntry(e)
    PROVE  \A n \in Node \ {Main} : SameTables(n)
BY DEF Domains, AddWalEntry, SameTables

\* The first step of a command is local.
LEMMA StartIsLocal ==
    ASSUME Domains, NEW p \in Proc, Start(p)
    PROVE  Local(p)
<1>1. ASSUME NEW c, NEW paths, NEW next, StartSync(p, c, paths, next)
      PROVE  Local(p)
  BY <1>1, OpenIsLocal
     DEF StartSync, Goto, localVars, nodeVars, Domains, Local, SameLocals, SameStore
<1>2. CASE StartConnect(p)
  BY <1>2, OpenIsLocal
     DEF StartConnect, Goto, localVars, Domains, Local, SameLocals, SameStore
<1>3. CASE StartUpdate(p) \/ StartPush(p) \/ StartPull(p) \/ StartCleanup(p) \/ StartRemove(p)
  BY <1>3, <1>1 DEF StartUpdate, StartPush, StartPull, StartCleanup, StartRemove
<1>4. CASE Disconnect(p)
  BY <1>4, OpenIsLocal DEF Disconnect, localVars, Domains, Local, SameLocals, SameStore
<1>5. ASSUME NEW path \in Path, NEW hash \in Hash, AddObject(p, path, hash)
      PROVE  Local(p)
  BY <1>5, OpenIsLocal DEF AddObject, Goto, localVars, Domains, Local, SameLocals, SameStore
<1>6. CASE Unstage(p)
  BY <1>6, OpenIsLocal DEF Unstage, localVars, Domains, Local, SameLocals, SameStore
<1> QED BY <1>2, <1>3, <1>4, <1>5, <1>6 DEF Start

\* A step of p changes the locals of p, the private state of its node, and no
\* database but that of its node and Main's.
LEMMA StepIsLocal ==
    ASSUME Domains, NEW p \in Proc, Start(p) \/ Step(p) \/ Abort(p)
    PROVE  Local(p)
<1>1. CASE Start(p)
  BY <1>1, StartIsLocal
<1>2. CASE Register(p)
  BY <1>2 DEF Register, Goto, localVars, nodeVars, Domains, Local, SameLocals, SameStore, SameTables
<1>3. CASE RegisterLog(p)
  BY <1>3, AddIsLocal DEF RegisterLog, Goto, localVars, nodeVars, Domains, Local, SameLocals, SameStore
<1>4. CASE Configure(p)
  BY <1>4, FinishIsLocal DEF Configure, dbVars, Domains, Local, SameStore, SameTables
<1>5. CASE SyncRead(p)
  <2>1. \A q \in Proc \ {p} : SameLocals(q)
    BY <1>5, ThrowIsLocal DEF SyncRead, Goto, Domains, SameLocals
  <2> QED BY <1>5, <2>1, OpenIsLocal DEF SyncRead, nodeVars, Local, SameStore
<1>6. CASE SyncRequest(p)
  BY <1>6 DEF SyncRequest, Goto, dbVars, nodeVars, Domains, Local, SameLocals, SameStore, SameTables
<1>7. CASE SyncApply(p)
  BY <1>7 DEF SyncApply, ApplyWalEntries, Goto, nodeVars, Domains, Local, SameLocals, SameStore,
              SameTables
<1>8. CASE Report(p)
  BY <1>8, FinishIsLocal DEF Report, dbVars, nodeVars, Domains, Local, SameStore, SameTables
<1>9. CASE AddStage(p)
  BY <1>9, FinishIsLocal DEF AddStage, dbVars, Domains, Local, SameStore, SameTables
<1>10. CASE PushCollect(p)
  <2>1. \A q \in Proc \ {p} : SameLocals(q)
    BY <1>10, FinishIsLocal DEF PushCollect, Goto, Domains, SameLocals
  <2> QED BY <1>10, <2>1 DEF PushCollect, dbVars, nodeVars, Local, SameStore, SameTables
<1>11. CASE PushLock(p)
  BY <1>11 DEF PushLock, Goto, dbVars, nodeVars, localVars, Domains, Local, SameLocals, SameStore,
               SameTables
<1>12. CASE PushAppend(p)
  BY <1>12, AddIsLocal DEF PushAppend, Goto, nodeVars, Domains, Local, SameLocals, SameStore
<1>13. CASE PushSettle(p)
  BY <1>13 DEF PushSettle, Goto, dbVars, localVars, Domains, Local, SameLocals, SameStore, SameTables
<1>14. CASE PullOpen(p)
  BY <1>14, OpenIsLocal DEF PullOpen, Goto, localVars, nodeVars, Domains, Local, SameLocals, SameStore
<1>15. CASE PullFetch(p)
  <2>1. \A q \in Proc \ {p} : SameLocals(q)
    BY <1>15, FinishIsLocal DEF PullFetch, Goto, localVars, Domains, SameLocals
  <2>2. \A n \in Node \ {At[p]} : SameStore(n)
    BY <1>15 DEF PullFetch, Domains, SameStore
  <2> QED BY <1>15, <2>1, <2>2 DEF PullFetch, dbVars, Local, SameTables
<1>16. CASE CleanupSelect(p)
  <2>1. \A q \in Proc \ {p} : SameLocals(q)
    BY <1>16, FinishIsLocal DEF CleanupSelect, Goto, localVars, Domains, SameLocals
  <2> QED BY <1>16, <2>1, OpenIsLocal DEF CleanupSelect, nodeVars, Local, SameStore
<1>17. CASE CleanupRows(p)
  <2>1. \A q \in Proc \ {p} : SameLocals(q)
    BY <1>17, FinishIsLocal DEF CleanupRows, Goto, localVars, Domains, SameLocals
  <2>2. \A n \in Node \ {At[p], Main} : SameTables(n)
    BY <1>17 DEF CleanupRows, OpenDatabase, Domains, SameTables
  <2> QED BY <1>17, <2>1, <2>2 DEF CleanupRows, nodeVars, Local, SameStore
<1>18. CASE CleanupScan(p)
  BY <1>18 DEF CleanupScan, Goto, dbVars, nodeVars, Domains, Local, SameLocals, SameStore, SameTables
<1>19. CASE CleanupDelete(p)
  <2>1. \A q \in Proc \ {p} : SameLocals(q)
    BY <1>19, FinishIsLocal DEF CleanupDelete, Domains, SameLocals
  <2>2. \A n \in Node \ {At[p]} : SameStore(n)
    BY <1>19 DEF CleanupDelete, Domains, SameStore
  <2> QED BY <1>19, <2>1, <2>2 DEF CleanupDelete, dbVars, Local, SameTables
<1>20. CASE Unreachable(p)
  BY <1>20, ThrowIsLocal DEF Unreachable, dbVars, Local, SameStore, SameTables
<1>21. CASE Abort(p)
  BY <1>21, ThrowIsLocal, FinishIsLocal DEF Abort, dbVars, Local, SameStore, SameTables
<1>22. CASE PushOpen(p)
  <2>1. \A q \in Proc \ {p} : SameLocals(q)
    BY <1>22, FinishIsLocal DEF PushOpen, Goto, localVars, Domains, SameLocals
  <2> QED BY <1>22, <2>1, OpenIsLocal DEF PushOpen, nodeVars, Local, SameStore
<1> QED
  BY <1>1, <1>2, <1>3, <1>4, <1>5, <1>6, <1>7, <1>8, <1>9, <1>10, <1>11, <1>12, <1>13,
     <1>14, <1>15, <1>16, <1>17, <1>18, <1>19, <1>20, <1>21, <1>22 DEF Step

\* deinit touches no command, and no other node.
LEMMA DeinitIsLocal ==
    ASSUME Domains, NEW p \in Proc, Deinit(p)
    PROVE  LET n == At[p]
           IN  /\ n \in Node /\ n # Main
               /\ \A q \in Proc : SameLocals(q)
               /\ mutex' = mutex
               /\ \A q \in Proc : At[q] = n => pc[q] = "idle"
               /\ \A m \in Node \ {n} : SameStore(m) /\ SameTables(m)
               /\ \/ SameStore(n) /\ SameTables(n) /\ lost' = lost
                  \/ /\ wal'[n] = Empty /\ files'[n] = Empty /\ owners'[n] = {}
                     /\ devices'[n] = Empty /\ staging'[n] = Empty /\ objects'[n] = {}
                     /\ deviceId'[n] = 0
                     /\ lost' = lost \cup (objects[n] \X {d \in DOMAIN devices[Main] :
                                                              devices[Main][d] = n})
<1> DEFINE n == At[p]
<1>1. n \in Node /\ n # Main /\ mutex' = mutex /\ \A q \in Proc : At[q] = n => pc[q] = "idle"
  BY SyncAssumption DEF Deinit
<1>2. \A q \in Proc : SameLocals(q)
  BY DEF Deinit, localVars, SameLocals
<1>3. CASE UNCHANGED <<dbVars, staging, objects, deviceId, lost>>
  BY <1>1, <1>2, <1>3 DEF dbVars, SameStore, SameTables
<1>4. CASE ~UNCHANGED <<dbVars, staging, objects, deviceId, lost>>
  <2>1. /\ wal' = [wal EXCEPT ![n] = Empty]
        /\ files' = [files EXCEPT ![n] = Empty]
        /\ owners' = [owners EXCEPT ![n] = {}]
        /\ devices' = [devices EXCEPT ![n] = Empty]
        /\ staging' = [staging EXCEPT ![n] = Empty]
        /\ objects' = [objects EXCEPT ![n] = {}]
        /\ deviceId' = [deviceId EXCEPT ![n] = 0]
        /\ lost' = lost \cup (objects[n] \X {d \in DOMAIN devices[Main] : devices[Main][d] = n})
    BY <1>4 DEF Deinit
  <2>2. \A m \in Node \ {n} : SameStore(m) /\ SameTables(m)
    BY <2>1 DEF Domains, SameStore, SameTables
  <2>3. /\ wal'[n] = Empty /\ files'[n] = Empty /\ owners'[n] = {}
        /\ devices'[n] = Empty /\ staging'[n] = Empty /\ objects'[n] = {} /\ deviceId'[n] = 0
    BY <1>1, <2>1 DEF Domains
  <2> QED BY <1>1, <1>2, <2>1, <2>2, <2>3
<1> QED BY <1>3, <1>4

\* In particular it leaves Main's log and devices alone.
LEMMA DeinitSparesMain ==
    ASSUME Domains, NEW p \in Proc, Deinit(p)
    PROVE  /\ Main \in Node \ {At[p]} /\ SameTables(Main) /\ SameStore(Main)
           /\ \A q \in Proc : SameLocals(q)
           /\ \A q \in Proc : At[q] = At[p] => pc[q] = "idle"
           /\ mutex' = mutex
<1>1. Main \in Node \ {At[p]}
  BY SyncAssumption DEF Deinit
<1> QED BY <1>1, DeinitIsLocal

-----------------------------------------------------------------------------
(* Device ids                                                              *)

\* A table of ids that agrees with a DeviceUpdate.
Names(t, d, a) == d \in DOMAIN t /\ t[d] = a

\* An address has one id, and every entry of Main's log speaks of a known one, or is
\* that of a push whose node was disconnected meanwhile.
IdTable ==
    /\ \A d, e \in DOMAIN devices[Main] : devices[Main][d] = devices[Main][e] => d = e
    /\ \A s \in DOMAIN wal[Main] :
         IF wal[Main][s].op = "DeviceUpdate"
         THEN Names(devices[Main], wal[Main][s].device, wal[Main][s].address)
         ELSE wal[Main][s].owner = 0 \/ wal[Main][s].owner \in DOMAIN devices[Main]

\* The id a command works for is that of its node or none, and what it is about to
\* push it pushes under that id; nothing is left to push while it does not work.
Identified(p) ==
    /\ pc[p] \in Working /\ job[p].me # 0 => Names(devices[Main], job[p].me, At[p])
    /\ pc[p] \notin Working => out[p] = <<>>
    /\ \A i \in DOMAIN out[p] :
         /\ out[p][i].op \in {"FileUpdate", "OwnerUpdate", "OwnerDelete"}
         /\ pc[p] \in {"lock", "append"} => out[p][i].owner = job[p].me

DeviceInv ==
    /\ IdTable
    /\ \A n \in Node : Connected(n) => Names(devices[Main], deviceId[n], n)
    /\ \A p \in Proc : Identified(p)

\* A batch that names no device otherwise than the table does leaves it alone.
LEMMA DevicesKept ==
    ASSUME NEW t, t = [d \in DOMAIN t |-> t[d]], NEW m \in Nat, NEW b, DOMAIN b \subseteq 0 .. m,
           \A s \in DOMAIN b : b[s].op = "DeviceUpdate" => Names(t, b[s].device, b[s].address)
    PROVE  ApplyToDevices(t, b) = t
<1> DEFINE ids == {b[s].device : s \in {r \in DOMAIN b : b[r].op = "DeviceUpdate"}}
           U == [d \in ids |-> b[Max(DeviceWrites(b, d))].address]
<1>1. ApplyToDevices(t, b) = [k \in ids \cup DOMAIN t |-> IF k \in ids THEN U[k] ELSE t[k]]
  BY DEF ApplyToDevices, InsertOrReplace, InsertOrIgnore
<1>2. ids \subseteq DOMAIN t
  BY DEF Names
<1>3. ASSUME NEW d \in ids
      PROVE  U[d] = t[d]
  <2> DEFINE S == DeviceWrites(b, d)
  <2>1. S \subseteq 0 .. m /\ S # {}
    BY <1>3 DEF DeviceWrites
  <2>2. Max(S) \in S
    BY <2>1, MaxOfBounded
  <2>3. Max(S) \in DOMAIN b /\ b[Max(S)].op = "DeviceUpdate" /\ b[Max(S)].device = d
    BY <2>2 DEF DeviceWrites
  <2> QED BY <2>3 DEF Names
<1> HIDE DEF ids, U
<1>4. ids \cup DOMAIN t = DOMAIN t
  BY <1>2
<1>5. \A k \in DOMAIN t : (IF k \in ids THEN U[k] ELSE t[k]) = t[k]
  BY <1>3
<1> QED BY <1>1, <1>4, <1>5

\* The steps that touch Main's log or its devices.
LEMMA IdKinds ==
    ASSUME NEW p \in Proc, Start(p) \/ Step(p) \/ Abort(p)
    PROVE  \/ wal' = wal /\ devices' = devices
           \/ Register(p) \/ RegisterLog(p) \/ PushAppend(p) \/ SyncApply(p)
<1>1. ASSUME NEW c, NEW paths, NEW next, StartSync(p, c, paths, next)
      PROVE  wal' = wal /\ devices' = devices
  BY <1>1 DEF StartSync
<1>2. CASE Start(p)
  BY <1>1, <1>2 DEF Start, StartConnect, StartUpdate, StartPush, StartPull, StartCleanup,
                    StartRemove, Disconnect, AddObject, Unstage
<1>3. CASE \/ Configure(p) \/ SyncRequest(p) \/ Report(p) \/ AddStage(p) \/ PushLock(p)
           \/ PushSettle(p) \/ PullFetch(p) \/ CleanupScan(p) \/ CleanupDelete(p)
           \/ PushCollect(p) \/ Unreachable(p) \/ Abort(p)
  BY <1>3 DEF Configure, SyncRequest, Report, AddStage, PushCollect, PushLock, PushSettle,
              PullFetch, CleanupScan, CleanupDelete, Unreachable, Abort, dbVars
<1>4. CASE SyncRead(p) \/ PushOpen(p) \/ PullOpen(p) \/ CleanupSelect(p) \/ CleanupRows(p)
  BY <1>4 DEF SyncRead, PushOpen, PullOpen, CleanupSelect, CleanupRows
<1> QED BY <1>2, <1>3, <1>4 DEF Step

\* What addWalEntry does to Main's log: one entry more, with the proposed
\* device and owner.
LEMMA AddEffect ==
    ASSUME SyncInv, JustifiedInv, TypeInv, NEW e \in Entry, AddWalEntry(e)
    PROVE  /\ Length(Main) \in Nat
           /\ DOMAIN wal[Main] = 1 .. Length(Main)
           /\ DOMAIN wal'[Main] = 1 .. (Length(Main) + 1)
           /\ Length(Main)' = Length(Main) + 1
           /\ \A s \in DOMAIN wal[Main] : wal'[Main][s] = wal[Main][s]
           /\ wal'[Main][Length(Main) + 1] = Versioned(files[Main], e)
           /\ Versioned(files[Main], e) \in StoredEntry
<1> DEFINE k == Length(Main)
           v == Versioned(files[Main], e)
<1>0. /\ Main \in Node /\ k \in Nat /\ DOMAIN wal[Main] = 1 .. k
      /\ IsTable(files[Main], Path \X (Nat \ {0}), Row) /\ DOMAIN wal = Node
  BY SyncAssumption DEF SyncInv, LogInv, TypeInv, DbTypes
<1>1. PICK b \in Nat : Bound(b)
  BY DEF TypeInv, Bounded
<1>2. \A x \in DOMAIN files[Main] : x[2] <= b
  BY <1>0, <1>1, RowsBounded
<1>3. v \in StoredEntry
  BY <1>0, <1>1, <1>2, VersionedTyped
<1>4. wal'[Main] = InsertOrIgnore(wal[Main], Single(k + 1, v))
  BY <1>0 DEF AddWalEntry, Length
<1>5. /\ DOMAIN wal'[Main] = 1 .. (k + 1)
      /\ \A s \in 1 .. k : wal'[Main][s] = wal[Main][s]
      /\ wal'[Main][k + 1] = v
      /\ LastSeqId(wal'[Main]) = k + 1
  BY <1>0, <1>4, InsertAtEnd
<1> QED BY <1>0, <1>3, <1>5 DEF Length

\* The version is all that addWalEntry changes in an entry.
LEMMA VersionedKeeps ==
    ASSUME NEW f, NEW e \in Entry
    PROVE  LET v == Versioned(f, e)
           IN  /\ v.op = e.op
               /\ e.op # "DeviceUpdate" => v.owner = e.owner
               /\ e.op = "DeviceUpdate" => v = e
               /\ e.op \in {"FileUpdate", "FileDelete"} => v.path = e.path
               /\ e.op \in {"FileUpdate", "OwnerUpdate", "OwnerDelete"} => v.hash = e.hash
BY DEF Versioned, Entry, IsFileEntry

Grows == \A d \in DOMAIN devices[Main] : Names(devices'[Main], d, devices[Main][d])

\* An entry that is true to the table of ids leaves it alone.
LEMMA AddKeepsIds ==
    ASSUME SyncInv, JustifiedInv, TypeInv, IdTable, NEW e \in Entry, AddWalEntry(e),
           IF e.op = "DeviceUpdate" THEN Names(devices[Main], e.device, e.address)
                                    ELSE e.owner = 0 \/ e.owner \in DOMAIN devices[Main]
    PROVE  IdTable' /\ devices'[Main] = devices[Main]
<1> DEFINE k == Length(Main)
           v == Versioned(files[Main], e)
           t == devices[Main]
<1>0. Main \in Node /\ DOMAIN devices = Node /\ t = [d \in DOMAIN t |-> t[d]] /\ k \in Nat
  BY SyncAssumption DEF TypeInv, DbTypes, IsTable, SyncInv, LogInv
<1>1. IF v.op = "DeviceUpdate" THEN Names(t, v.device, v.address)
                               ELSE v.owner = 0 \/ v.owner \in DOMAIN t
  BY VersionedKeeps
<1>2. devices'[Main] = t
  <2>1. devices'[Main] = ApplyToDevices(t, Single(k + 1, v))
    BY <1>0 DEF AddWalEntry, Length
  <2>2. DOMAIN Single(k + 1, v) \subseteq 0 .. (k + 1) /\ k + 1 \in Nat
    BY <1>0 DEF Single
  <2>3. \A s \in DOMAIN Single(k + 1, v) : Single(k + 1, v)[s] = v
    BY DEF Single
  <2> HIDE DEF v, t, k
  <2> QED BY <1>0, <1>1, <2>1, <2>2, <2>3, DevicesKept
<1>3. /\ DOMAIN wal[Main] = 1 .. k /\ DOMAIN wal'[Main] = 1 .. (k + 1)
      /\ \A s \in DOMAIN wal[Main] : wal'[Main][s] = wal[Main][s]
      /\ wal'[Main][k + 1] = v
  BY AddEffect
<1>4. ASSUME NEW s \in DOMAIN wal'[Main]
      PROVE  IF wal'[Main][s].op = "DeviceUpdate"
             THEN Names(t, wal'[Main][s].device, wal'[Main][s].address)
             ELSE wal'[Main][s].owner = 0 \/ wal'[Main][s].owner \in DOMAIN t
  <2>1. CASE s = k + 1
    BY <1>1, <1>3, <2>1
  <2>2. CASE s # k + 1
    <3>1. s \in DOMAIN wal[Main]
      BY <1>0, <1>3, <2>2
    <3> QED BY <1>3, <3>1 DEF IdTable
  <2> QED BY <2>1, <2>2
<1> QED BY <1>2, <1>4 DEF IdTable

\* What p is about to push is true to it: p pushes for its node's device.
LEMMA OutIsTyped ==
    ASSUME TypeInv, NEW p \in Proc, pc[p] = "append"
    PROVE  LET i == Len(acks[p]) + 1
           IN  i \in DOMAIN out[p] /\ out[p][i] \in Entry
<1>1. pc[p] \in Working
  BY DEF Working, Label
<1>2. out[p] \in Seq(Entry) /\ acks[p] \in Seq(Nat) /\ Len(acks[p]) < Len(out[p])
  BY <1>1, WorkingJob DEF TypeInv, Fits
<1> QED BY <1>2

\* Ids are never taken back or given away, whatever registers, pushes or syncs.
LEMMA IdTableKept ==
    ASSUME SyncInv, JustifiedInv, TypeInv, DeviceInv, NEW p \in Proc,
           Start(p) \/ Step(p) \/ Abort(p)
    PROVE  IdTable' /\ Grows
<1> DEFINE t == devices[Main]
<1>0. /\ Main \in Node /\ At[p] \in Node /\ DOMAIN devices = Node /\ DOMAIN wal = Node
      /\ DOMAIN job = Proc
      /\ t = [d \in DOMAIN t |-> t[d]] /\ IsTable(t, DeviceId, Node)
      /\ Length(Main) \in Nat /\ DOMAIN wal[Main] = 1 .. Length(Main)
  BY SyncAssumption DEF TypeInv, DbTypes, Control, ControlTypes, IsTable, SyncInv, LogInv
<1>1. CASE wal' = wal /\ devices' = devices
  BY <1>1 DEF DeviceInv, IdTable, Grows, Names
<1>2. CASE Register(p)
  <2>1. wal' = wal
    BY <1>2 DEF Register
  <2>2. CASE Registered(t, At[p])
    BY <1>0, <1>2, <2>1, <2>2 DEF Register, DeviceInv, IdTable, Grows, Names
  <2>3. CASE ~Registered(t, At[p])
    <3> DEFINE id == NewDeviceId(t)
    <3>1. devices'[Main] = InsertOrIgnore(t, Single(id, At[p]))
      BY <1>0, <1>2, <2>3 DEF Register
    <3>2. DOMAIN devices'[Main] = DOMAIN t \cup {id}
      BY <3>1 DEF InsertOrIgnore, Single
    <3>3. \A d \in DOMAIN t : devices'[Main][d] = t[d]
      BY <3>1 DEF InsertOrIgnore
    <3>4. id \notin DOMAIN t => devices'[Main][id] = At[p]
      BY <3>1 DEF InsertOrIgnore, Single
    <3>5. \A d \in DOMAIN t : t[d] # At[p]
      BY <2>3 DEF Registered
    <3> HIDE DEF id
    <3>6. Grows
      BY <3>2, <3>3 DEF Grows, Names
    <3>7. \A d, e \in DOMAIN devices'[Main] : devices'[Main][d] = devices'[Main][e] => d = e
      BY <3>2, <3>3, <3>4, <3>5 DEF DeviceInv, IdTable
    <3> QED BY <2>1, <3>2, <3>3, <3>6, <3>7 DEF DeviceInv, IdTable, Names
  <2> QED BY <2>2, <2>3
<1>3. CASE RegisterLog(p)
  <2> DEFINE e == DeviceUpdate(job[p].me, At[p])
  <2>1. pc[p] = "registerLog" /\ AddWalEntry(e)
    BY <1>3 DEF RegisterLog
  <2>2. pc[p] \in Working
    BY <2>1 DEF Working, Label
  <2>3. job[p].me \in DeviceId /\ Names(t, job[p].me, At[p])
    BY <2>1, <2>2, WorkingJob DEF TypeInv, Fits, DeviceInv, Identified, DeviceId
  <2>4. e \in Entry /\ e.op = "DeviceUpdate" /\ Names(t, e.device, e.address)
    BY <1>0, <2>3 DEF DeviceUpdate, Entry
  <2> HIDE DEF e
  <2> QED BY <2>1, <2>4, AddKeepsIds DEF DeviceInv, Grows, Names
<1>4. CASE PushAppend(p)
  <2> DEFINE e == out[p][Len(acks[p]) + 1]
  <2>1. pc[p] = "append" /\ AddWalEntry(e)
    BY <1>4 DEF PushAppend
  <2>2. pc[p] \in Working /\ Len(acks[p]) + 1 \in DOMAIN out[p] /\ e \in Entry
    BY <2>1, OutIsTyped DEF Working, Label
  <2>3. e.op # "DeviceUpdate" /\ e.owner = job[p].me
        /\ (job[p].me = 0 \/ job[p].me \in DOMAIN t)
    BY <2>1, <2>2 DEF DeviceInv, Identified, Names
  <2> HIDE DEF e
  <2> QED BY <2>1, <2>2, <2>3, AddKeepsIds DEF DeviceInv, Grows, Names
<1>5. CASE SyncApply(p)
  <2>1. wal'[Main] = wal[Main]
    BY <1>5, ApplyEffect
  <2>2. devices'[Main] = t
    <3>1. CASE At[p] # Main
      BY <1>0, <1>5, <3>1 DEF SyncApply, ApplyWalEntries
    <3>2. CASE At[p] = Main
      <4>1. devices'[Main] = ApplyToDevices(t, batch[p])
        BY <1>0, <1>5, <3>2 DEF SyncApply, ApplyWalEntries
      <4>2. PICK to \in 0 .. Length(Main) : Stretch(batch[p], last[p], to)
        BY <1>5 DEF SyncInv, BatchInv, SyncApply
      <4>3. \A s \in DOMAIN batch[p] : s \in DOMAIN wal[Main] /\ batch[p][s] = wal[Main][s]
        BY <1>0, <4>2 DEF Stretch
      <4>4. DOMAIN batch[p] \subseteq 0 .. Length(Main)
        BY <1>0, <4>3
      <4>5. \A s \in DOMAIN batch[p] : batch[p][s].op = "DeviceUpdate"
                => Names(t, batch[p][s].device, batch[p][s].address)
        BY <4>3 DEF DeviceInv, IdTable
      <4> QED BY <1>0, <4>1, <4>4, <4>5, DevicesKept
    <3> QED BY <3>1, <3>2
  <2> QED BY <2>1, <2>2 DEF DeviceInv, IdTable, Grows, Names
<1> QED BY <1>1, <1>2, <1>3, <1>4, <1>5, IdKinds

\* Where nothing changes for a process, it stays identified.
LEMMA IdentifiedStays ==
    ASSUME NEW p \in Proc, Identified(p), Grows, out'[p] = out[p], job'[p].me = job[p].me,
           pc'[p] \in Working <=> pc[p] \in Working,
           pc'[p] \in {"lock", "append"} => pc[p] \in {"lock", "append"}
    PROVE  Identified(p)'
BY DEF Identified, Grows, Names

\* What it pushes next it pushes under the id it works for, or finds configured.
LEMMA IdentifiedPushes ==
    ASSUME NEW p \in Proc, DeviceInv, Grows,
           job'[p].me = job[p].me \/ job'[p].me = deviceId[At[p]],
           pc[p] \in Working, pc'[p] \in Working,
           \A i \in DOMAIN out'[p] :
               /\ out'[p][i].op \in {"FileUpdate", "OwnerUpdate", "OwnerDelete"}
               /\ pc'[p] \in {"lock", "append"} => out'[p][i].owner = job'[p].me
    PROVE  Identified(p)'
<1>1. At[p] \in Node
  BY SyncAssumption
<1>2. CASE job'[p].me = job[p].me
  BY <1>2 DEF DeviceInv, Identified, Grows, Names
<1>3. CASE job'[p].me = deviceId[At[p]]
  BY <1>1, <1>3 DEF DeviceInv, Connected, Identified, Grows, Names
<1> QED BY <1>2, <1>3

\* A command that has ended has nothing left to push.
LEMMA FinishIdentified ==
    ASSUME Domains, NEW p \in Proc, Finish(p)
    PROVE  Identified(p)'
<1>1. pc'[p] = "idle" /\ out'[p] = <<>>
  BY DEF Finish, Goto, Domains
<1> QED BY <1>1 DEF Identified, Working, Label

\* A command takes the id its node is configured with.
LEMMA StartIdentified ==
    ASSUME TypeInv, DeviceInv, Grows, NEW p \in Proc, Start(p)
    PROVE  Identified(p)'
<1>0. Domains /\ At[p] \in Node /\ job \in [Proc -> Job]
  BY TypedDomains, SyncAssumption DEF TypeInv, Control, ControlTypes
<1>1. pc[p] = "idle" => out[p] = <<>>
  BY DEF DeviceInv, Identified, Working
<1>2. ASSUME NEW c, NEW paths, NEW next, StartSync(p, c, paths, next)
      PROVE  Identified(p)'
  <2>1. /\ pc[p] = "idle" /\ out'[p] = out[p] /\ pc'[p] = "read"
        /\ job'[p].me = deviceId[At[p]] /\ Connected(At[p])
    BY <1>0, <1>2 DEF StartSync, CanStart, Goto, localVars, Domains, NoJob
  <2>2. Names(devices[Main], deviceId[At[p]], At[p])
    BY <1>0, <2>1 DEF DeviceInv
  <2> QED BY <1>1, <2>1, <2>2 DEF Identified, Grows, Names
<1>3. CASE StartConnect(p)
  <2>1. pc[p] = "idle" /\ out'[p] = out[p] /\ pc'[p] = "register"
    BY <1>0, <1>3 DEF StartConnect, CanStart, Goto, localVars, Domains
  <2> QED BY <1>1, <2>1 DEF Identified, Working
<1>4. CASE StartUpdate(p) \/ StartPush(p) \/ StartPull(p) \/ StartCleanup(p) \/ StartRemove(p)
  BY <1>4, <1>2 DEF StartUpdate, StartPush, StartPull, StartCleanup, StartRemove
<1>5. CASE Disconnect(p)
  <2>1. pc' = pc /\ out' = out /\ job' = job
    BY <1>5 DEF Disconnect, localVars
  <2> QED BY <2>1, IdentifiedStays DEF DeviceInv
<1>6. ASSUME NEW path \in Path, NEW hash \in Hash, AddObject(p, path, hash)
      PROVE  Identified(p)'
  <2>1. pc[p] = "idle" /\ out'[p] = out[p] /\ pc'[p] \in {"idle", "stage"}
    BY <1>0, <1>6 DEF AddObject, Goto, localVars, Domains
  <2> QED BY <1>1, <2>1 DEF Identified, Working
<1>7. CASE Unstage(p)
  <2>1. pc' = pc /\ out' = out /\ job' = job
    BY <1>7 DEF Unstage, localVars
  <2> QED BY <2>1, IdentifiedStays DEF DeviceInv
<1> QED BY <1>3, <1>4, <1>5, <1>6, <1>7 DEF Start

\* One that goes on after an exception has nothing to push either.
LEMMA ThrowIdentified ==
    ASSUME TypeInv, DeviceInv, Grows, NEW p \in Proc, Throw(p)
    PROVE  Identified(p)'
<1>0. Domains /\ Identified(p)
  BY TypedDomains DEF DeviceInv
<1>1. CASE GoOn(p) /\ Caught(p)
  <2>1. pc[p] \in Working /\ pc'[p] = "fetch" /\ out'[p] = <<>> /\ job' = job
    BY <1>0, <1>1 DEF GoOn, Caught, Goto, Domains, Working, Label
  <2>2. pc'[p] \in Working
    BY <2>1 DEF Working, Label
  <2> QED BY <2>1, <2>2, IdentifiedPushes
<1> QED BY <1>0, <1>1, FinishIdentified DEF Throw

\* A running command works on for its node's device.
LEMMA StepIdentified ==
    ASSUME TypeInv, DeviceInv, Grows, NEW p \in Proc, Step(p) \/ Abort(p), IdTable'
    PROVE  Identified(p)'
<1>0. /\ Domains /\ At[p] \in Node /\ job[p] \in Job /\ Identified(p)
      /\ DOMAIN devices = Node /\ Main \in Node
  BY TypedDomains, SyncAssumption DEF TypeInv, Control, ControlTypes, DeviceInv, DbTypes
<1>w. \A l \in Label \ {"idle", "register", "stage"} : l \in Working
  BY DEF Working
<1>f. ASSUME Finish(p)
      PROVE  Identified(p)'
  BY <1>0, <1>f, FinishIdentified
<1>1. CASE Register(p)
  <2> DEFINE t == devices[Main]
             n == At[p]
             id == IF Registered(t, n) THEN DeviceOf(t, n) ELSE NewDeviceId(t)
  <2>1. pc[p] = "register" /\ out'[p] = out[p] /\ out[p] = <<>>
    BY <1>0, <1>1 DEF Register, localVars, Identified, Working
  <2>2. job'[p].me = id
    BY <1>0, <1>1 DEF Register, Domains, Job
  <2>3. Names(devices'[Main], id, n)
    <3>1. CASE Registered(t, n)
      <4>1. id \in DOMAIN t /\ t[id] = n
        BY <3>1 DEF Registered, DeviceOf
      <4> QED BY <4>1 DEF Grows
    <3>2. CASE ~Registered(t, n)
      <4>1. devices'[Main] = InsertOrIgnore(t, Single(id, n))
        BY <1>0, <1>1, <3>2 DEF Register
      <4>2. id \in DOMAIN devices'[Main]
        BY <4>1 DEF InsertOrIgnore, Single
      <4>3. id \notin DOMAIN t
        <5> PICK b \in Nat : Bound(b)
          BY DEF TypeInv, Bounded
        <5>1. DOMAIN t \subseteq 0 .. b
          BY <1>0 DEF Bound, TypeInv, DbTypes, IsTable, DeviceId
        <5>2. CASE DOMAIN t = {}
          BY <5>2
        <5>3. CASE DOMAIN t # {}
          <6>1. Max(DOMAIN t) \in Nat /\ \A d \in DOMAIN t : Max(DOMAIN t) >= d
            BY <5>1, <5>3, MaxOfBounded
          <6>2. id = Max(DOMAIN t) + 1
            BY <3>2, <5>3 DEF NewDeviceId
          <6>3. \A d \in DOMAIN t : d \in Nat
            BY <5>1
          <6> QED BY <6>1, <6>2, <6>3
        <5> QED BY <5>2, <5>3
      <4>4. devices'[Main][id] = n
        BY <4>1, <4>3 DEF InsertOrIgnore, Single
      <4> QED BY <4>2, <4>4 DEF Names
    <3> QED BY <3>1, <3>2
  <2> QED BY <2>1, <2>2, <2>3 DEF Identified
<1>2. CASE RegisterLog(p)
  <2>1. /\ pc[p] = "registerLog" /\ out' = out /\ job' = job
        /\ pc'[p] \in {"configure", "request"}
    BY <1>0, <1>2 DEF RegisterLog, Registration, Goto, localVars, Domains
  <2> QED BY <1>0, <1>w, <2>1, IdentifiedStays DEF Label
<1>3. CASE SyncRead(p)
  <2>1. Throw(p) \/ (pc'[p] = "request" /\ pc[p] = "read" /\ out' = out /\ job' = job)
    BY <1>0, <1>3 DEF SyncRead, Goto, Domains
  <2> QED BY <1>0, <1>w, <2>1, ThrowIdentified, IdentifiedStays DEF Label
<1>4. CASE SyncRequest(p)
  <2>1. pc'[p] = "apply" /\ pc[p] = "request" /\ out' = out /\ job' = job
    BY <1>0, <1>4 DEF SyncRequest, Goto, Domains
  <2> QED BY <1>0, <1>w, <2>1, IdentifiedStays DEF Label
<1>5. CASE SyncApply(p)
  <2>1. pc'[p] = job[p].next /\ pc[p] = "apply" /\ out' = out /\ job' = job
    BY <1>0, <1>5 DEF SyncApply, Goto, Domains
  <2>2. pc[p] \in Working /\ pc'[p] \in Working /\ pc'[p] \notin {"lock", "append"}
    <3>1. pc[p] \in Working /\ job[p].next \in Returns
      BY <1>w, <2>1 DEF TypeInv, Control, Fits, Syncing, Label
    <3> QED BY <2>1, <3>1 DEF Returns, Working, Label
  <2> QED BY <1>0, <2>1, <2>2, IdentifiedStays
<1>6. CASE PushCollect(p)
  <2> DEFINE ready == {q \in DOMAIN staging[At[p]] : staging[At[p]][q] \in objects[At[p]]}
  <2>1. CASE Finish(p)
    BY <1>f, <2>1
  <2>2. CASE ready # {}
    <3>1. PICK order \in Orders(ready) :
             out' = [out EXCEPT ![p] = [i \in DOMAIN order |->
                       FileUpdate(order[i], staging[At[p]][order[i]], 0, deviceId[At[p]])]]
      BY <1>6, <2>2 DEF PushCollect
    <3>2. /\ pc[p] = "collect" /\ pc'[p] = "lock" /\ job'[p].me = deviceId[At[p]]
      BY <1>0, <1>6, <2>2 DEF PushCollect, Goto, Domains, Job
    <3>3. \A i \in DOMAIN out'[p] : /\ out'[p][i].op = "FileUpdate"
                                    /\ out'[p][i].owner = deviceId[At[p]]
      BY <1>0, <3>1 DEF FileUpdate, Domains
    <3>4. pc[p] \in Working /\ pc'[p] \in Working
      BY <1>w, <3>2 DEF Label
    <3> QED BY <1>0, <3>2, <3>3, <3>4, IdentifiedPushes
  <2> QED BY <1>6, <2>1, <2>2 DEF PushCollect
<1>7. CASE PushLock(p)
  <2>1. pc'[p] = "append" /\ pc[p] = "lock" /\ out' = out /\ job' = job
    BY <1>0, <1>7 DEF PushLock, Goto, Domains, localVars
  <2> QED BY <1>0, <1>w, <2>1, IdentifiedStays DEF Label
<1>8. CASE PushAppend(p)
  <2>1. /\ pc'[p] \in {"append", "settle", "read"} /\ pc[p] = "append" /\ out' = out
        /\ job'[p].me = job[p].me
    BY <1>0, <1>8 DEF PushAppend, Goto, Domains, Job
  <2> QED BY <1>0, <1>w, <2>1, IdentifiedStays DEF Label
<1>9. CASE PushSettle(p)
  <2>1. /\ pc'[p] \in {"settle", "read"} /\ pc[p] = "settle" /\ out' = out
        /\ job'[p].me = job[p].me
    BY <1>0, <1>9 DEF PushSettle, Goto, Domains, localVars, Job
  <2> QED BY <1>0, <1>w, <2>1, IdentifiedStays DEF Label
<1>10. CASE PullOpen(p)
  <2>1. /\ pc'[p] = "fetch" /\ pc[p] = "open" /\ out' = out
        /\ job'[p].me = deviceId[At[p]]
    BY <1>0, <1>10 DEF PullOpen, Goto, Domains, localVars, Job
  <2>2. pc[p] \in Working /\ pc'[p] \in Working
    BY <1>w, <2>1 DEF Label
  <2> QED BY <1>0, <2>1, <2>2, IdentifiedPushes DEF Identified
<1>11. CASE PullFetch(p)
  <2> DEFINE hash(q) == CurrentHash(files[At[p]], q)
  <2>1. CASE Finish(p)
    BY <1>f, <2>1
  <2>2. CASE UNCHANGED pc /\ UNCHANGED out /\ \E q : job' = [job EXCEPT ![p].paths = @ \ {q}]
    <3>1. job'[p].me = job[p].me /\ pc'[p] = pc[p] /\ out'[p] = out[p]
      BY <1>0, <2>2 DEF Domains, Job
    <3> QED BY <1>0, <3>1, IdentifiedStays
  <2>3. ASSUME NEW q, job' = [job EXCEPT ![p].paths = @ \ {q}],
               out' = [out EXCEPT ![p] = <<OwnerUpdate(hash(q), job[p].me)>>],
               Goto(p, "lock")
        PROVE  Identified(p)'
    <3>1. /\ pc[p] = "fetch" /\ pc'[p] = "lock" /\ job'[p].me = job[p].me
          /\ out'[p] = <<OwnerUpdate(hash(q), job[p].me)>>
      BY <1>0, <1>11, <2>3 DEF PullFetch, Goto, Domains, Job
    <3>2. \A i \in DOMAIN out'[p] : out'[p][i].op = "OwnerUpdate" /\ out'[p][i].owner = job[p].me
      BY <3>1 DEF OwnerUpdate
    <3>3. pc[p] \in Working /\ pc'[p] \in Working
      BY <1>w, <3>1 DEF Label
    <3> QED BY <1>0, <3>1, <3>2, <3>3, IdentifiedPushes
  <2> QED BY <1>11, <2>1, <2>2, <2>3 DEF PullFetch, localVars
<1>12. CASE CleanupSelect(p)
  <2>1. \/ Finish(p)
        \/ pc'[p] = "read" /\ pc[p] = "select" /\ out' = out /\ job'[p].me = job[p].me
    <3>1. ASSUME NEW paths, NEW keep, Goto(p, "read"), UNCHANGED localVars,
                 job' = [job EXCEPT ![p].paths = paths, ![p].keep = keep, ![p].next = "clean"]
          PROVE  pc'[p] = "read" /\ out' = out /\ job'[p].me = job[p].me
      <4>1. job'[p] = [job[p] EXCEPT !.paths = paths, !.keep = keep, !.next = "clean"]
        BY <1>0, <3>1 DEF Domains
      <4>2. job'[p].me = job[p].me
        BY <1>0, <4>1 DEF Job
      <4> QED BY <1>0, <3>1, <4>2 DEF Goto, Domains, localVars
    <3> QED BY <1>12, <3>1 DEF CleanupSelect
  <2> QED BY <1>0, <1>f, <1>w, <2>1, IdentifiedStays DEF Label
<1>13. CASE CleanupRows(p)
  <2>1. \/ Finish(p)
        \/ /\ pc'[p] = "scan" /\ pc[p] = "clean" /\ out' = out
           /\ job'[p].me = deviceId[At[p]]
    BY <1>0, <1>13 DEF CleanupRows, Goto, Domains, localVars, Job
  <2>2. CASE ~Finish(p)
    <3>1. pc[p] \in Working /\ pc'[p] \in Working
      BY <1>w, <2>1, <2>2 DEF Label
    <3> QED BY <1>0, <2>1, <2>2, <3>1, IdentifiedPushes DEF Identified
  <2> QED BY <1>f, <2>2
<1>14. CASE CleanupScan(p)
  <2>1. PICK order :
           out' = [out EXCEPT ![p] = [i \in DOMAIN order |-> OwnerDelete(order[i], job[p].me)]]
    BY <1>14 DEF CleanupScan
  <2>2. /\ pc[p] = "scan" /\ pc'[p] \in {"delete", "lock"} /\ job' = job
    BY <1>0, <1>14 DEF CleanupScan, Goto, Domains
  <2>3. \A i \in DOMAIN out'[p] : out'[p][i].op = "OwnerDelete" /\ out'[p][i].owner = job[p].me
    BY <1>0, <2>1 DEF OwnerDelete, Domains
  <2>4. pc[p] \in Working /\ pc'[p] \in Working
    BY <1>w, <2>2 DEF Label
  <2> QED BY <1>0, <2>2, <2>3, <2>4, IdentifiedPushes
<1>15. CASE CleanupDelete(p)
  <2>1. Finish(p) \/ (pc' = pc /\ out' = out /\ job' = job)
    BY <1>15 DEF CleanupDelete
  <2> QED BY <1>0, <1>f, <2>1, IdentifiedStays
<1>16. CASE Unreachable(p)
  BY <1>16, ThrowIdentified DEF Unreachable
<1>17. CASE Configure(p) \/ Report(p) \/ AddStage(p) \/ Abort(p)
  BY <1>f, <1>17, ThrowIdentified DEF Configure, Report, AddStage, Abort
<1>18. CASE PushOpen(p)
  <2>1. Finish(p) \/ (pc'[p] = "collect" /\ pc[p] = "prepare" /\ out' = out /\ job' = job)
    BY <1>0, <1>18 DEF PushOpen, Goto, Domains, localVars
  <2> QED BY <1>0, <1>f, <1>w, <2>1, IdentifiedStays DEF Label
<1> QED BY <1>1, <1>2, <1>3, <1>4, <1>5, <1>6, <1>7, <1>8, <1>9, <1>10, <1>11, <1>12, <1>13,
           <1>14, <1>15, <1>16, <1>17, <1>18 DEF Step

\* Only the end of connect configures an id, the one it registered.
LEMMA ConfiguredKept ==
    ASSUME TypeInv, DeviceInv, Grows, NEW p \in Proc, Start(p) \/ Step(p) \/ Abort(p)
    PROVE  \A n \in Node : Connected(n)' => Names(devices'[Main], deviceId'[n], n)
<1>0. Domains /\ At[p] \in Node
  BY TypedDomains, SyncAssumption
<1>1. CASE deviceId' = deviceId \/ deviceId' = [deviceId EXCEPT ![At[p]] = 0]
  BY <1>0, <1>1 DEF DeviceInv, Connected, Grows, Names, Domains
<1>2. CASE Configure(p)
  <2>1. pc[p] \in Working /\ deviceId' = [deviceId EXCEPT ![At[p]] = job[p].me]
    BY <1>2 DEF Configure, Working, Label
  <2>2. job[p].me = 0 \/ Names(devices[Main], job[p].me, At[p])
    BY <2>1 DEF DeviceInv, Identified
  <2> QED BY <1>0, <2>1, <2>2 DEF DeviceInv, Connected, Grows, Names, Domains
<1>3. ASSUME NEW c, NEW paths, NEW next, StartSync(p, c, paths, next)
      PROVE  deviceId' = deviceId
  BY <1>3 DEF StartSync, nodeVars
<1>4. CASE Start(p)
  BY <1>1, <1>3, <1>4
     DEF Start, StartConnect, StartUpdate, StartPush, StartPull, StartCleanup, StartRemove,
         Disconnect, AddObject, Unstage
<1>5. CASE \/ Register(p) \/ RegisterLog(p) \/ SyncRead(p) \/ SyncRequest(p) \/ SyncApply(p)
           \/ Report(p) \/ AddStage(p) \/ PushOpen(p) \/ PushCollect(p) \/ PushLock(p)
           \/ PushAppend(p) \/ PushSettle(p) \/ PullOpen(p) \/ PullFetch(p) \/ CleanupSelect(p)
           \/ CleanupRows(p) \/ CleanupScan(p) \/ CleanupDelete(p) \/ Unreachable(p)
           \/ Abort(p)
  BY <1>1, <1>5
     DEF Register, RegisterLog, SyncRead, SyncRequest, SyncApply, Report, AddStage, PushOpen,
         PushCollect, PushLock, PushAppend, PushSettle, PullOpen, PullFetch, CleanupSelect, CleanupRows,
         CleanupScan, CleanupDelete, Unreachable, Abort, nodeVars
<1> QED BY <1>2, <1>4, <1>5 DEF Step

\* The nodes that have joined begin with the ids their entries give them.
LEMMA InitDevice == Init => DeviceInv
<1> SUFFICES ASSUME Init PROVE DeviceInv
  OBVIOUS
<1> DEFINE ids == 1 .. Len(Joined)
           members == {Joined[i] : i \in ids}
<1>0. /\ Main \in Node
      /\ \A i, j \in ids : Joined[i] = Joined[j] => i = j
      /\ Joined \in Seq(Node)
  BY SyncAssumption
<1>3. \A p \in Proc : Identified(p)
  BY DEF Identified, Init, Working
<1>1. CASE Main \in members
  <2>1. /\ devices[Main] = [i \in ids |-> Joined[i]]
        /\ wal[Main] = [i \in ids |-> DeviceUpdate(i, Joined[i])]
    BY <1>0, <1>1 DEF Init
  <2>2. IdTable
    BY <1>0, <2>1 DEF IdTable, Names, DeviceUpdate
  <2>3. ASSUME NEW n \in Node, Connected(n)
        PROVE  Names(devices[Main], deviceId[n], n)
    <3>1. n \in members /\ deviceId[n] = CHOOSE i \in ids : Joined[i] = n
      BY <2>3 DEF Init, Connected
    <3>2. deviceId[n] \in ids /\ Joined[deviceId[n]] = n
      BY <3>1
    <3> QED BY <2>1, <3>2 DEF Names
  <2> QED BY <1>3, <2>2, <2>3 DEF DeviceInv
<1>2. CASE Main \notin members
  <2>1. Joined = <<>>
    BY <1>2, SyncAssumption
  <2>2. members = {}
    BY <2>1
  <2>3. IdTable
    BY <1>0, <1>2 DEF Init, IdTable, Empty
  <2>4. \A n \in Node : ~Connected(n)
    BY <2>2 DEF Init, Connected
  <2> QED BY <1>3, <2>3, <2>4 DEF DeviceInv
<1> QED BY <1>1, <1>2

\* DeviceInv is inductive, relative to the invariants behind it.
LEMMA NextDevice == SyncInv /\ JustifiedInv /\ TypeInv /\ DeviceInv /\ [Next]_vars => DeviceInv'
<1> SUFFICES ASSUME SyncInv, JustifiedInv, TypeInv, DeviceInv, [Next]_vars PROVE DeviceInv'
  OBVIOUS
<1>1. ASSUME NEW p \in Proc, Start(p) \/ Step(p) \/ Abort(p)
      PROVE  DeviceInv'
  <2>1. IdTable' /\ Grows
    BY <1>1, IdTableKept
  <2>2. \A n \in Node : Connected(n)' => Names(devices'[Main], deviceId'[n], n)
    BY <1>1, <2>1, ConfiguredKept
  <2>3. Identified(p)'
    BY <1>1, <2>1, StartIdentified, StepIdentified
  <2>4. ASSUME NEW q \in Proc \ {p}
        PROVE  Identified(q)'
    <3>1. SameLocals(q)
      BY <1>1, TypedDomains, StepIsLocal DEF Local
    <3> QED BY <2>1, <3>1, IdentifiedStays DEF SameLocals, DeviceInv
  <2> QED BY <2>1, <2>2, <2>3, <2>4 DEF DeviceInv
<1>3. ASSUME NEW p \in Proc, Deinit(p)
      PROVE  DeviceInv'
  <2>1. /\ Main \in Node \ {At[p]}
        /\ \A q \in Proc : SameLocals(q)
        /\ wal'[Main] = wal[Main] /\ devices'[Main] = devices[Main]
        /\ \A n \in Node : deviceId'[n] = deviceId[n] \/ deviceId'[n] = 0
    <3>1. Main \in Node \ {At[p]}
      BY <1>3, SyncAssumption DEF Deinit
    <3> QED BY <1>3, <3>1, TypedDomains, DeinitIsLocal DEF SameTables, SameStore
  <2>2. IdTable'
    BY <2>1 DEF DeviceInv, IdTable
  <2>3. \A q \in Proc : Identified(q)'
    BY <2>1 DEF DeviceInv, Identified, SameLocals
  <2>4. \A n \in Node : Connected(n)' => Names(devices'[Main], deviceId'[n], n)
    BY <2>1 DEF DeviceInv, Connected
  <2> QED BY <2>2, <2>3, <2>4 DEF DeviceInv
<1>2. CASE UNCHANGED vars
  <2> USE <1>2 DEF vars, dbVars, nodeVars, localVars
  <2>1. IdTable'
    BY DEF DeviceInv, IdTable
  <2>2. \A q \in Proc : Identified(q)'
    BY DEF DeviceInv, Identified
  <2> QED BY <2>1, <2>2 DEF DeviceInv, Connected
<1> QED BY <1>1, <1>2, <1>3 DEF Next

\* The table of devices is one to one and fits the log, the configured ids and the
\* commands that run, always.
THEOREM DeviceInvariance == Spec => []DeviceInv
BY InitDevice, NextDevice, SyncInvariance, JustifiedInvariance, TypeInvariance, PTL DEF Spec

\* A node that is connected has one id on Main, the one it is configured with,
\* however often it disconnects and whoever registers meanwhile.
THEOREM DeviceIdsTheorem == Spec => []DeviceIdsStable
<1>1. DeviceInv => DeviceIdsStable
  BY DEF DeviceInv, IdTable, Names, DeviceIdsStable
<1> QED BY <1>1, DeviceInvariance, PTL

-----------------------------------------------------------------------------
(* The course of a command                                                 *)

\* Where a command stands, or where the sync it is in returns to.
Goal(l, j) == IF l \in Syncing THEN j.next ELSE l

OnCourse(c, k) ==
    \/ c = "none" /\ k = "idle"
    \/ c = "connect" /\ k \in {"register", "registerLog", "configure"}
    \/ c = "update" /\ k = "report"
    \/ c = "push" /\ k \in {"prepare", "collect", "lock", "append", "settle", "report"}
    \/ c = "pull" /\ k \in {"open", "fetch", "lock", "append"}
    \/ c = "add" /\ k = "stage"
    \/ c = "cleanup" /\ k \in {"select", "clean", "scan", "lock", "append", "delete"}
    \/ c = "remove" /\ k \in {"clean", "scan", "lock", "append", "delete"}

Cleans(c) == c \in {"cleanup", "remove"}

\* What a command of each kind pushes.
Pushes(c, e) ==
    \/ c = "push" /\ e.op = "FileUpdate"
    \/ c = "pull" /\ e.op = "OwnerUpdate"
    \/ Cleans(c) /\ e.op = "OwnerDelete"

\* A command stays on its course, a cleanup keeps one version at least, a call
\* of PushWAL starts with nothing acknowledged, and only a cleanup that has
\* scanned has garbage.
Follows(cs, l, j, o, a, g) ==
    /\ OnCourse(j.cmd, Goal(l, j))
    /\ j.cmd = "remove" => "remove" \in cs
    /\ j.cmd = "cleanup" /\ Goal(l, j) = "clean" => j.keep \in Nat \ {0}
    /\ l = "lock" => a = <<>>
    /\ g # {} => Cleans(j.cmd) /\ Goal(l, j) \in {"lock", "append", "delete"}
    /\ \A i \in DOMAIN o : Pushes(j.cmd, o[i])
Routed(p) == Follows(Commands[p], pc[p], job[p], out[p], acks[p], garbage[p])
RouteInv == \A p \in Proc : Routed(p)

\* A command that has ended is on its course.
LEMMA FinishRouted ==
    ASSUME Domains, NEW p \in Proc, Finish(p)
    PROVE  Routed(p)'
<1>1. /\ pc'[p] = "idle" /\ job'[p] = NoJob /\ out'[p] = <<>> /\ acks'[p] = <<>>
      /\ garbage'[p] = {}
  BY DEF Finish, Goto, Domains
<1> QED BY <1>1 DEF Routed, Follows, OnCourse, Goal, NoJob, Syncing, Cleans

\* A pull that goes on after an exception is on its course.
LEMMA ThrowRouted ==
    ASSUME TypeInv, NEW p \in Proc, Routed(p), Throw(p)
    PROVE  Routed(p)'
<1>0. Domains
  BY TypedDomains
<1>1. CASE GoOn(p) /\ Caught(p)
  <2>1. /\ pc'[p] = "fetch" /\ job' = job /\ out'[p] = <<>> /\ garbage' = garbage
        /\ job[p].cmd = "pull"
    BY <1>0, <1>1 DEF GoOn, Caught, Goto, Domains
  <2> QED BY <2>1 DEF Routed, Follows, OnCourse, Goal, Syncing, Cleans
<1> QED BY <1>0, <1>1, FinishRouted DEF Throw

\* A step that changes nothing of what its course depends on.
LEMMA SameRoute ==
    ASSUME NEW p \in Proc, Routed(p), pc'[p] = pc[p], job'[p] = job[p], out'[p] = out[p],
           acks'[p] = acks[p], garbage'[p] = garbage[p]
    PROVE  Routed(p)'
BY DEF Routed

\* A step from one label to another of the same course.
LEMMA RouteGoesOn ==
    ASSUME NEW p \in Proc, Routed(p), job'[p].cmd = job[p].cmd,
           OnCourse(job[p].cmd, Goal(pc'[p], job'[p])),
           (job[p].cmd = "cleanup" /\ Goal(pc'[p], job'[p]) = "clean")
               => job'[p].keep \in Nat \ {0},
           pc'[p] = "lock" => acks'[p] = <<>>,
           garbage'[p] # {} => /\ Cleans(job[p].cmd)
                               /\ Goal(pc'[p], job'[p]) \in {"lock", "append", "delete"},
           \A i \in DOMAIN out'[p] : Pushes(job[p].cmd, out'[p][i])
    PROVE  Routed(p)'
BY DEF Routed, Follows

\* Every command starts at the beginning of its course.
LEMMA StartRouted ==
    ASSUME TypeInv, DeviceInv, RouteInv, NEW p \in Proc, Start(p)
    PROVE  Routed(p)'
<1>0. Domains /\ At[p] \in Node /\ Routed(p)
  BY TypedDomains, SyncAssumption DEF RouteInv
<1>1. pc[p] = "idle" => out[p] = <<>> /\ acks[p] = <<>> /\ garbage[p] = {}
  BY <1>0 DEF DeviceInv, Identified, Working, TypeInv, Control, Fits, Fresh, Routed, Follows,
              Goal, Syncing
<1>2. ASSUME NEW c, NEW paths, NEW next, StartSync(p, c, paths, next),
             OnCourse(c, next), c = "remove" => "remove" \in Commands[p],
             ~(c = "cleanup" /\ next = "clean")
      PROVE  Routed(p)'
  <2>1. /\ pc[p] = "idle" /\ out'[p] = out[p] /\ acks'[p] = acks[p] /\ garbage'[p] = garbage[p]
        /\ pc'[p] = "read"
    BY <1>0, <1>2 DEF StartSync, CanStart, Goto, localVars, Domains
  <2>2. job'[p].cmd = c /\ job'[p].next = next
    BY <1>0, <1>2 DEF StartSync, Domains, NoJob
  <2> QED BY <1>1, <1>2, <2>1, <2>2 DEF Routed, Follows, Goal, Syncing
<1>3. CASE StartConnect(p)
  <2>1. /\ pc[p] = "idle" /\ out'[p] = out[p] /\ acks'[p] = acks[p] /\ garbage'[p] = garbage[p]
        /\ pc'[p] = "register"
    BY <1>0, <1>3 DEF StartConnect, CanStart, Goto, localVars, Domains
  <2>2. job'[p].cmd = "connect"
    BY <1>0, <1>3 DEF StartConnect, Domains, NoJob
  <2> QED BY <1>1, <2>1, <2>2 DEF Routed, Follows, OnCourse, Goal, Syncing
<1>4. CASE StartUpdate(p) \/ StartPush(p) \/ StartPull(p) \/ StartCleanup(p)
  BY <1>4, <1>2 DEF StartUpdate, StartPush, StartPull, StartCleanup, OnCourse
<1>5. CASE StartRemove(p)
  <2>1. PICK paths : StartSync(p, "remove", paths, "clean")
    BY <1>5 DEF StartRemove
  <2>2. "remove" \in Commands[p]
    BY <2>1 DEF StartSync, CanStart
  <2> QED BY <1>2, <2>1, <2>2 DEF OnCourse
<1>6. CASE Disconnect(p)
  BY <1>0, <1>6, SameRoute DEF Disconnect, localVars
<1>7. ASSUME NEW path \in Path, NEW hash \in Hash, AddObject(p, path, hash)
      PROVE  Routed(p)'
  <2>1. /\ pc[p] = "idle" /\ out'[p] = out[p] /\ acks'[p] = acks[p] /\ garbage'[p] = garbage[p]
    BY <1>7 DEF AddObject, localVars
  <2>2. \/ pc'[p] = pc[p] /\ job'[p] = job[p]
        \/ pc'[p] = "stage" /\ job'[p].cmd = "add"
    <3>1. CASE UNCHANGED <<objects, pc, job>>
      BY <3>1
    <3>2. CASE /\ Goto(p, "stage")
               /\ job' = [job EXCEPT ![p] =
                            [NoJob EXCEPT !.cmd = "add", !.paths = {path}, !.hash = hash]]
      <4>1. job'[p] = [NoJob EXCEPT !.cmd = "add", !.paths = {path}, !.hash = hash]
        BY <1>0, <3>2 DEF Domains
      <4>2. job'[p].cmd = "add"
        BY <4>1 DEF NoJob
      <4> QED BY <1>0, <3>2, <4>2 DEF Goto, Domains
    <3> QED BY <1>7, <3>1, <3>2 DEF AddObject
  <2>3. CASE pc'[p] = "stage" /\ job'[p].cmd = "add"
    BY <1>1, <2>1, <2>3 DEF Routed, Follows, OnCourse, Goal, Syncing
  <2> QED BY <1>0, <2>1, <2>2, <2>3, SameRoute
<1>8. CASE Unstage(p)
  BY <1>0, <1>8, SameRoute DEF Unstage, localVars
<1> QED BY <1>3, <1>4, <1>5, <1>6, <1>7, <1>8 DEF Start

\* No step leaves the course.
LEMMA StepRouted ==
    ASSUME TypeInv, DeviceInv, RouteInv, NEW p \in Proc, Step(p) \/ Abort(p)
    PROVE  Routed(p)'
<1>0. /\ Domains /\ At[p] \in Node /\ Routed(p) /\ job[p] \in Job
      /\ Follows(Commands[p], pc[p], job[p], out[p], acks[p], garbage[p])
  BY TypedDomains, SyncAssumption DEF RouteInv, Routed, TypeInv, Control, ControlTypes
<1>f. ASSUME Finish(p)
      PROVE  Routed(p)'
  BY <1>0, <1>f, FinishRouted
<1>1. CASE Register(p)
  <2>1. /\ pc[p] = "register" /\ pc'[p] \in {"registerLog", "configure", "request"}
        /\ out'[p] = out[p] /\ acks'[p] = acks[p] /\ garbage'[p] = garbage[p]
    BY <1>0, <1>1 DEF Register, Registration, Goto, localVars, Domains
  <2>2. job'[p].cmd = job[p].cmd /\ job'[p].next = job[p].next
    BY <1>0, <1>1 DEF Register, Domains, Job
  <2>3. job[p].next = "configure"
    BY <2>1 DEF TypeInv, Control, Fits
  <2> QED BY <1>0, <2>1, <2>2, <2>3, RouteGoesOn DEF Follows, OnCourse, Goal, Syncing
<1>2. CASE RegisterLog(p)
  <2>1. /\ pc[p] = "registerLog" /\ pc'[p] \in {"configure", "request"} /\ job'[p] = job[p]
        /\ out'[p] = out[p] /\ acks'[p] = acks[p] /\ garbage'[p] = garbage[p]
    BY <1>0, <1>2 DEF RegisterLog, Registration, Goto, localVars, Domains
  <2>2. job[p].next = "configure"
    BY <2>1 DEF TypeInv, Control, Fits
  <2> QED BY <1>0, <2>1, <2>2, RouteGoesOn DEF Follows, OnCourse, Goal, Syncing
<1>t. ASSUME Throw(p)
      PROVE  Routed(p)'
  BY <1>0, <1>t, ThrowRouted
<1>3. CASE SyncRead(p) \/ SyncRequest(p)
  <2>1. \/ Throw(p)
        \/ /\ pc[p] \in Syncing /\ pc'[p] \in Syncing /\ job'[p] = job[p]
           /\ out'[p] = out[p] /\ acks'[p] = acks[p] /\ garbage'[p] = garbage[p]
    BY <1>0, <1>3 DEF SyncRead, SyncRequest, Goto, localVars, Domains, Syncing
  <2>2. CASE ~Throw(p)
    <3>1. Goal(pc'[p], job'[p]) = Goal(pc[p], job[p]) /\ pc'[p] # "lock"
      BY <2>1, <2>2 DEF Goal, Syncing
    <3> QED BY <1>0, <2>1, <2>2, <3>1, RouteGoesOn DEF Follows
  <2> QED BY <1>t, <2>2
<1>4. CASE SyncApply(p)
  <2>1. /\ pc[p] = "apply" /\ pc'[p] = job[p].next /\ job'[p] = job[p]
        /\ out'[p] = out[p] /\ acks'[p] = acks[p] /\ garbage'[p] = garbage[p]
    BY <1>0, <1>4 DEF SyncApply, Goto, Domains
  <2>2. job[p].next \in Returns
    BY <2>1 DEF TypeInv, Control, Fits, Syncing
  <2>3. Goal(pc'[p], job'[p]) = Goal(pc[p], job[p]) /\ pc'[p] # "lock"
    BY <2>1, <2>2 DEF Goal, Syncing, Returns
  <2> QED BY <1>0, <2>1, <2>3, RouteGoesOn DEF Follows
<1>5. CASE PushCollect(p)
  <2> DEFINE ready == {q \in DOMAIN staging[At[p]] : staging[At[p]][q] \in objects[At[p]]}
  <2>1. CASE ready # {}
    <3>1. PICK order :
             out' = [out EXCEPT ![p] = [i \in DOMAIN order |->
                       FileUpdate(order[i], staging[At[p]][order[i]], 0, deviceId[At[p]])]]
      BY <1>5, <2>1 DEF PushCollect
    <3>2. /\ pc[p] = "collect" /\ pc'[p] = "lock" /\ job'[p].cmd = job[p].cmd
          /\ acks'[p] = acks[p] /\ garbage'[p] = garbage[p]
      BY <1>0, <1>5, <2>1 DEF PushCollect, Goto, Domains, Job
    <3>3. \A i \in DOMAIN out'[p] : out'[p][i].op = "FileUpdate"
      BY <1>0, <3>1 DEF FileUpdate, Domains
    <3>4. job[p].cmd = "push" /\ garbage[p] = {}
      BY <1>0, <3>2 DEF Follows, OnCourse, Goal, Syncing
    <3>5. acks[p] = <<>>
      BY <3>2 DEF TypeInv, Control, Fits, Fresh
    <3> QED BY <1>0, <3>2, <3>3, <3>4, <3>5, RouteGoesOn DEF OnCourse, Goal, Syncing, Pushes
  <2> QED BY <1>5, <1>f, <2>1 DEF PushCollect
<1>6. CASE PushLock(p)
  <2>1. /\ pc[p] = "lock" /\ pc'[p] = "append" /\ job'[p] = job[p]
        /\ out'[p] = out[p] /\ acks'[p] = acks[p] /\ garbage'[p] = garbage[p]
    BY <1>0, <1>6 DEF PushLock, Goto, localVars, Domains
  <2> QED BY <1>0, <2>1, RouteGoesOn DEF Follows, OnCourse, Goal, Syncing
<1>7. CASE PushAppend(p)
  <2>1. pc[p] = "append" /\ out'[p] = out[p] /\ garbage'[p] = garbage[p]
    BY <1>0, <1>7 DEF PushAppend
  <2>2. \/ pc'[p] = "append" /\ job'[p] = job[p]
        \/ /\ pc'[p] = IF job[p].cmd = "push" THEN "settle" ELSE "read"
           /\ job'[p].cmd = job[p].cmd
           /\ job'[p].next = IF job[p].cmd = "push" THEN "report"
                             ELSE IF job[p].cmd = "pull" THEN "fetch" ELSE "delete"
    BY <1>0, <1>7, <2>1 DEF PushAppend, Goto, Domains, Job
  <2> QED BY <1>0, <2>1, <2>2, RouteGoesOn DEF Follows, OnCourse, Goal, Syncing, Cleans
<1>8. CASE PushSettle(p)
  <2>1. /\ pc[p] = "settle" /\ pc'[p] \in {"settle", "read"}
        /\ job'[p].cmd = job[p].cmd /\ job'[p].next = job[p].next
        /\ out'[p] = out[p] /\ acks'[p] = acks[p] /\ garbage'[p] = garbage[p]
    BY <1>0, <1>8 DEF PushSettle, Goto, Domains, localVars, Job
  <2>2. job[p].next = "report"
    BY <2>1 DEF TypeInv, Control, Fits
  <2> QED BY <1>0, <2>1, <2>2, RouteGoesOn DEF Follows, OnCourse, Goal, Syncing, Cleans
<1>9. CASE PullOpen(p)
  <2>1. /\ pc[p] = "open" /\ pc'[p] = "fetch" /\ job'[p].cmd = job[p].cmd
        /\ out'[p] = out[p] /\ acks'[p] = acks[p] /\ garbage'[p] = garbage[p]
    BY <1>0, <1>9 DEF PullOpen, Goto, localVars, Domains, Job
  <2> QED BY <1>0, <2>1, RouteGoesOn DEF Follows, OnCourse, Goal, Syncing
<1>10. CASE PullFetch(p)
  <2> DEFINE hash(q) == CurrentHash(files[At[p]], q)
  <2>0. pc[p] = "fetch" /\ job[p].cmd = "pull" /\ garbage[p] = {}
    BY <1>0, <1>10 DEF PullFetch, Follows, OnCourse, Goal, Syncing
  <2>1. ASSUME NEW q, job' = [job EXCEPT ![p].paths = @ \ {q}], pc'[p] = pc[p],
               out'[p] = out[p], garbage'[p] = garbage[p]
        PROVE  Routed(p)'
    <3>1. job'[p].cmd = job[p].cmd /\ job'[p].next = job[p].next
      BY <1>0, <2>1 DEF Domains, Job
    <3> QED BY <1>0, <2>0, <2>1, <3>1, RouteGoesOn DEF Follows, OnCourse, Goal, Syncing
  <2>2. ASSUME NEW q, job' = [job EXCEPT ![p].paths = @ \ {q}], Goto(p, "lock"),
               out' = [out EXCEPT ![p] = <<OwnerUpdate(hash(q), job[p].me)>>],
               acks' = [acks EXCEPT ![p] = <<>>], garbage'[p] = garbage[p]
        PROVE  Routed(p)'
    <3>1. job'[p].cmd = job[p].cmd /\ pc'[p] = "lock" /\ acks'[p] = <<>>
      BY <1>0, <2>2 DEF Domains, Job, Goto
    <3>2. out'[p] = <<OwnerUpdate(hash(q), job[p].me)>>
      BY <1>0, <2>2 DEF Domains
    <3>3. \A i \in DOMAIN out'[p] : out'[p][i].op = "OwnerUpdate"
      BY <3>2 DEF OwnerUpdate
    <3> QED BY <1>0, <2>0, <2>2, <3>1, <3>3, RouteGoesOn DEF OnCourse, Goal, Syncing, Pushes
  <2> HIDE DEF hash
  <2>3. \/ Finish(p)
        \/ \E q : /\ job' = [job EXCEPT ![p].paths = @ \ {q}]
                  /\ pc' = pc /\ out' = out /\ garbage' = garbage
        \/ \E q : /\ job' = [job EXCEPT ![p].paths = @ \ {q}]
                  /\ out' = [out EXCEPT ![p] = <<OwnerUpdate(hash(q), job[p].me)>>]
                  /\ acks' = [acks EXCEPT ![p] = <<>>] /\ garbage' = garbage
                  /\ Goto(p, "lock")
    BY <1>10 DEF PullFetch, localVars, hash
  <2> QED BY <1>f, <2>1, <2>2, <2>3
<1>11. CASE CleanupSelect(p)
  <2>0. pc[p] = "select" /\ job[p].cmd = "cleanup" /\ garbage[p] = {}
    BY <1>0, <1>11 DEF CleanupSelect, Follows, OnCourse, Goal, Syncing
  <2>1. ASSUME NEW paths, NEW keep \in Keep, Goto(p, "read"), UNCHANGED localVars,
               job' = [job EXCEPT ![p].paths = paths, ![p].keep = keep, ![p].next = "clean"]
        PROVE  Routed(p)'
    <3>1. job'[p] = [job[p] EXCEPT !.paths = paths, !.keep = keep, !.next = "clean"]
      BY <1>0, <2>1 DEF Domains
    <3>2. job'[p].cmd = job[p].cmd /\ job'[p].keep = keep /\ job'[p].next = "clean"
      BY <1>0, <3>1 DEF Job
    <3>3. keep \in Nat \ {0}
      BY SyncAssumption
    <3>4. /\ pc'[p] = "read" /\ out'[p] = out[p] /\ acks'[p] = acks[p]
          /\ garbage'[p] = garbage[p]
      BY <1>0, <2>1 DEF Goto, localVars, Domains
    <3> QED BY <1>0, <2>0, <3>2, <3>3, <3>4, RouteGoesOn DEF Follows, OnCourse, Goal, Syncing
  <2> QED BY <1>11, <1>f, <2>1 DEF CleanupSelect
<1>12. CASE CleanupRows(p)
  <2>1. \/ Finish(p)
        \/ /\ pc'[p] = "scan" /\ pc[p] = "clean" /\ out'[p] = out[p]
           /\ job'[p].cmd = job[p].cmd
           /\ acks'[p] = acks[p] /\ garbage'[p] = garbage[p]
    BY <1>0, <1>12 DEF CleanupRows, Goto, Domains, localVars, Job
  <2>2. CASE ~Finish(p)
    BY <1>0, <2>1, <2>2, RouteGoesOn DEF Follows, OnCourse, Goal, Syncing
  <2> QED BY <1>f, <2>2
<1>13. CASE CleanupScan(p)
  <2>1. PICK order :
           out' = [out EXCEPT ![p] = [i \in DOMAIN order |-> OwnerDelete(order[i], job[p].me)]]
    BY <1>13 DEF CleanupScan
  <2>2. /\ pc[p] = "scan" /\ pc'[p] \in {"delete", "lock"} /\ job'[p] = job[p]
        /\ acks'[p] = acks[p]
    BY <1>0, <1>13 DEF CleanupScan, Goto, Domains
  <2>3. \A i \in DOMAIN out'[p] : out'[p][i].op = "OwnerDelete"
    BY <1>0, <2>1 DEF OwnerDelete, Domains
  <2>4. acks[p] = <<>>
    BY <2>2 DEF TypeInv, Control, Fits, Fresh
  <2>5. Cleans(job[p].cmd)
    BY <1>0, <2>2 DEF Follows, OnCourse, Goal, Syncing, Cleans
  <2> QED BY <1>0, <2>2, <2>3, <2>4, <2>5, RouteGoesOn DEF OnCourse, Goal, Syncing, Pushes, Cleans
<1>14. CASE CleanupDelete(p)
  <2>0. pc[p] = "delete"
    BY <1>14 DEF CleanupDelete
  <2>1. \/ Finish(p)
        \/ /\ pc'[p] = pc[p] /\ out'[p] = out[p] /\ job'[p] = job[p] /\ acks'[p] = acks[p]
           /\ garbage[p] # {}
    BY <1>14 DEF CleanupDelete
  <2>2. CASE ~Finish(p)
    BY <1>0, <2>0, <2>1, <2>2, RouteGoesOn DEF Follows
  <2> QED BY <1>f, <2>2
<1>15. CASE PushOpen(p)
  <2>1. \/ Finish(p)
        \/ /\ pc'[p] = "collect" /\ pc[p] = "prepare" /\ out'[p] = out[p] /\ job'[p] = job[p]
           /\ acks'[p] = acks[p] /\ garbage'[p] = garbage[p]
    BY <1>0, <1>15 DEF PushOpen, Goto, Domains, localVars
  <2>2. CASE ~Finish(p)
    BY <1>0, <2>1, <2>2, RouteGoesOn DEF Follows, OnCourse, Goal, Syncing, Cleans
  <2> QED BY <1>f, <2>2
<1>16. CASE Configure(p) \/ Report(p) \/ AddStage(p) \/ Unreachable(p) \/ Abort(p)
  BY <1>f, <1>t, <1>16 DEF Configure, Report, AddStage, Unreachable, Abort
<1> QED BY <1>1, <1>2, <1>3, <1>4, <1>5, <1>6, <1>7, <1>8, <1>9, <1>10, <1>11, <1>12, <1>13,
           <1>14, <1>15, <1>16 DEF Step

\* Every step keeps every command on its course.
LEMMA NextRoute == TypeInv /\ DeviceInv /\ RouteInv /\ [Next]_vars => RouteInv'
<1> SUFFICES ASSUME TypeInv, DeviceInv, RouteInv, [Next]_vars, NEW q \in Proc PROVE Routed(q)'
  BY DEF RouteInv
<1>0. Routed(q)
  BY DEF RouteInv
<1>1. ASSUME NEW p \in Proc, Start(p) \/ Step(p) \/ Abort(p)
      PROVE  Routed(q)'
  <2>1. CASE q = p
    BY <1>1, <2>1, StartRouted, StepRouted
  <2>2. CASE q # p
    <3>1. SameLocals(q)
      BY <1>1, <2>2, TypedDomains, StepIsLocal DEF Local
    <3> QED BY <1>0, <3>1, SameRoute DEF SameLocals
  <2> QED BY <2>1, <2>2
<1>2. CASE UNCHANGED vars
  BY <1>0, <1>2, SameRoute DEF vars, localVars
<1>3. ASSUME NEW p \in Proc, Deinit(p)
      PROVE  Routed(q)'
  BY <1>0, <1>3, SameRoute DEF Deinit, localVars
<1> QED BY <1>1, <1>2, <1>3 DEF Next

\* Commands stay on their courses, always.
THEOREM RouteInvariance == Spec => []RouteInv
<1>1. Init => RouteInv
  BY DEF Init, RouteInv, Routed, Follows, OnCourse, Goal, NoJob, Syncing, Cleans
<1> QED
  BY <1>1, NextRoute, SyncInvariance, JustifiedInvariance, TypeInvariance, DeviceInvariance, PTL
     DEF Spec

-----------------------------------------------------------------------------
(* The versions of a path                                                  *)

\* `add` of a deleted file cleans up with keep_versions = 0, on its own node.
NeverRemoves(n) == \A p \in Proc : At[p] = n => "remove" \notin Commands[p]

\* No entry of the log is newer than what the file table shows.
Covers(f, e) == \E v \in Versions(f, e.path) : v >= e.version
Newest(n) == \A s \in DOMAIN wal[n] : IsFileEntry(wal[n][s]) => Covers(files[n], wal[n][s])

VersionInv ==
    /\ \A n \in Node : NeverRemoves(n) => Newest(n)
    /\ NeverRemoves(Main) => VersionsIncrease

\* The rows of a node: their versions are numbers, and bounded.
LEMMA VersionNumbers ==
    ASSUME SyncInv, JustifiedInv, TypeInv, NEW n \in Node
    PROVE  \E b \in Nat : \A q : Versions(files[n], q) \subseteq 0 .. b
<1>1. PICK b \in Nat : Bound(b)
  BY DEF TypeInv, Bounded
<1>2. \A k \in DOMAIN files[n] : k[2] <= b
  BY <1>1, RowsBounded
<1>3. IsTable(files[n], Path \X (Nat \ {0}), Row)
  BY DEF TypeInv, DbTypes
<1>4. \A q : Versions(files[n], q) \subseteq 0 .. b
  BY <1>1, <1>2, <1>3 DEF Versions, IsTable
<1> QED BY <1>1, <1>4

\* Rows that are written come on top of those that are there.
LEMMA ApplyCovers ==
    ASSUME NEW f, NEW b
    PROVE  /\ \A e : Covers(f, e) => Covers(ApplyToFiles(f, b), e)
           /\ \A s \in DOMAIN b : (IsFileEntry(b[s]) /\ b[s].version \in Nat)
                                     => Covers(ApplyToFiles(f, b), b[s])
<1>1. DOMAIN ApplyToFiles(f, b) =
        {<<b[s].path, b[s].version>> : s \in {r \in DOMAIN b : IsFileEntry(b[r])}} \cup DOMAIN f
  BY DEF ApplyToFiles, InsertOrReplace, InsertOrIgnore, WrittenRows
<1>2. \A q : Versions(f, q) \subseteq Versions(ApplyToFiles(f, b), q)
  BY <1>1 DEF Versions
<1>3. ASSUME NEW s \in DOMAIN b, IsFileEntry(b[s]), b[s].version \in Nat
      PROVE  Covers(ApplyToFiles(f, b), b[s])
  <2>1. <<b[s].path, b[s].version>> \in DOMAIN ApplyToFiles(f, b)
    BY <1>1, <1>3
  <2>2. b[s].version \in Versions(ApplyToFiles(f, b), b[s].path)
    BY <2>1 DEF Versions
  <2> QED BY <1>3, <2>2 DEF Covers
<1>4. \A e : Covers(f, e) => Covers(ApplyToFiles(f, b), e)
  BY <1>2 DEF Covers
<1> QED BY <1>3, <1>4

\* A cleanup that keeps a version keeps the newest one.
LEMMA CleanCovers ==
    ASSUME NEW f, NEW b \in Nat, \A q : Versions(f, q) \subseteq 0 .. b,
           NEW paths, NEW keep \in Nat \ {0}, NEW e, e.version \in Nat, Covers(f, e)
    PROVE  Covers(CleanOldVersions(f, paths, keep), e)
<1> DEFINE V == Versions(f, e.path)
           m == Max(V)
           g == CleanOldVersions(f, paths, keep)
<1>1. V \subseteq 0 .. b /\ V # {}
  BY DEF Covers
<1>2. m \in V /\ \A y \in V : m >= y
  BY <1>1, MaxOfBounded
<1>3. <<e.path, m>> \in DOMAIN f
  BY <1>2 DEF Versions
<1>4. {v \in Versions(f, e.path) : v > m} = {}
  <2>1. \A v \in V : ~(v > m)
    BY <1>1, <1>2
  <2> QED BY <2>1
<1>5. Cardinality({v \in Versions(f, e.path) : v > m}) = 0
  BY <1>4, FS_EmptySet
<1>6. <<e.path, m>> \in DOMAIN g
  <2> HIDE DEF m
  <2>1. <<e.path, m>>[1] = e.path /\ <<e.path, m>>[2] = m
    OBVIOUS
  <2>2. Cardinality({v \in Versions(f, <<e.path, m>>[1]) : v > <<e.path, m>>[2]}) < keep
    BY <1>5, <2>1
  <2> QED BY <1>3, <2>2 DEF CleanOldVersions, Restrict
<1>7. m \in Versions(g, e.path)
  <2> HIDE DEF m, g
  <2> QED BY <1>6 DEF Versions
<1>8. m >= e.version
  <2>1. PICK v \in V : v >= e.version
    BY DEF Covers
  <2> QED BY <1>1, <1>2, <2>1
<1> HIDE DEF m, g
<1> QED BY <1>7, <1>8 DEF g, Covers

\* The steps that touch a log or a file table.
LEMMA FileKinds ==
    ASSUME TypeInv, NEW p \in Proc, Start(p) \/ Step(p) \/ Abort(p)
    PROVE  \/ wal' = wal /\ files' = files
           \/ CleanupRows(p) \/ (\E e \in Entry : AddWalEntry(e)) \/ SyncApply(p)
<1>1. ASSUME NEW c, NEW paths, NEW next, StartSync(p, c, paths, next)
      PROVE  wal' = wal /\ files' = files
  BY <1>1 DEF StartSync
<1>2. CASE Start(p)
  BY <1>1, <1>2 DEF Start, StartConnect, StartUpdate, StartPush, StartPull, StartCleanup,
                    StartRemove, Disconnect, AddObject, Unstage
<1>3. CASE \/ Register(p) \/ Configure(p) \/ SyncRequest(p) \/ Report(p) \/ AddStage(p)
           \/ PushCollect(p) \/ PushLock(p) \/ PushSettle(p) \/ PullFetch(p) \/ CleanupScan(p)
           \/ CleanupDelete(p) \/ Unreachable(p) \/ Abort(p)
  BY <1>3 DEF Register, Configure, SyncRequest, Report, AddStage, PushCollect, PushLock, PushSettle,
              PullFetch, CleanupScan, CleanupDelete, Unreachable, Abort, dbVars
<1>4. CASE SyncRead(p) \/ PushOpen(p) \/ PullOpen(p) \/ CleanupSelect(p)
  BY <1>4 DEF SyncRead, PushOpen, PullOpen, CleanupSelect
<1>5. CASE RegisterLog(p)
  <2>1. pc[p] = "registerLog" /\ pc[p] \in Working /\ At[p] \in Node
    BY <1>5, SyncAssumption DEF RegisterLog, Working, Label
  <2>2. DeviceUpdate(job[p].me, At[p]) \in Entry
    BY <2>1, WorkingJob DEF TypeInv, Fits, DeviceUpdate, Entry
  <2> QED BY <1>5, <2>2 DEF RegisterLog
<1>6. CASE PushAppend(p)
  BY <1>6, OutIsTyped DEF PushAppend
<1> QED BY <1>2, <1>3, <1>4, <1>5, <1>6 DEF Step

\* addWalEntry gives a file entry a version above all of its path.
LEMMA AddIncreases ==
    ASSUME SyncInv, JustifiedInv, TypeInv, NEW e \in Entry, AddWalEntry(e), Newest(Main),
           VersionsIncrease
    PROVE  Newest(Main)' /\ VersionsIncrease'
<1> DEFINE k == Length(Main)
           v == Versioned(files[Main], e)
           new == Single(k + 1, v)
<1>0. Main \in Node /\ DOMAIN files = Node /\ k \in Nat
  BY SyncAssumption DEF TypeInv, DbTypes, SyncInv, LogInv
<1>1. /\ DOMAIN wal[Main] = 1 .. k /\ DOMAIN wal'[Main] = 1 .. (k + 1)
      /\ \A s \in DOMAIN wal[Main] : wal'[Main][s] = wal[Main][s]
      /\ wal'[Main][k + 1] = v
      /\ v \in StoredEntry
  BY AddEffect
<1>2. files'[Main] = ApplyToFiles(files[Main], new)
  BY <1>0 DEF AddWalEntry, Length
<1>3. new[k + 1] = v /\ k + 1 \in DOMAIN new
  BY DEF Single
<1>4. IsFileEntry(v) => v.version \in Nat
  BY <1>1 DEF StoredEntry, Entry, IsFileEntry
<1> HIDE DEF k, v, new
<1>5. Newest(Main)'
  <2> SUFFICES ASSUME NEW s \in DOMAIN wal'[Main], IsFileEntry(wal'[Main][s])
               PROVE  Covers(files'[Main], wal'[Main][s])
    BY DEF Newest
  <2>1. CASE s = k + 1
    BY <1>1, <1>2, <1>3, <1>4, <2>1, ApplyCovers
  <2>2. CASE s # k + 1
    <3>1. s \in DOMAIN wal[Main] /\ wal'[Main][s] = wal[Main][s]
      BY <1>0, <1>1, <2>2
    <3>2. Covers(files[Main], wal[Main][s])
      BY <3>1 DEF Newest
    <3> QED BY <1>2, <3>1, <3>2, ApplyCovers
  <2> QED BY <2>1, <2>2
<1>6. ASSUME NEW s \in DOMAIN wal[Main], IsFileEntry(wal[Main][s]), IsFileEntry(v),
             wal[Main][s].path = v.path
      PROVE  wal[Main][s].version < v.version
  <2> DEFINE V == Versions(files[Main], v.path)
  <2>1. IsFileEntry(e) /\ v.path = e.path /\ v.version = NextVersion(files[Main], v.path)
    BY <1>6 DEF v, Versioned, IsFileEntry, Entry
  <2>2. PICK u \in V : u >= wal[Main][s].version
    BY <1>6 DEF Newest, Covers
  <2>3. PICK b \in Nat : V \subseteq 0 .. b
    BY <1>0, VersionNumbers
  <2>4. Max(V) \in V /\ Max(V) >= u
    BY <2>2, <2>3, MaxOfBounded
  <2>5. v.version = Max(V) + 1
    BY <2>1, <2>2 DEF NextVersion
  <2>6. wal[Main][s].version \in Nat
    BY <1>0, <1>6 DEF TypeInv, DbTypes, IsLog, IsTable, StoredEntry, Entry, IsFileEntry
  <2>7. u \in Nat /\ Max(V) \in Nat
    BY <2>2, <2>3, <2>4
  <2> HIDE DEF V
  <2>8. wal[Main][s].version <= u /\ u <= Max(V) /\ v.version = Max(V) + 1
    BY <2>2, <2>4, <2>5, <2>6, <2>7
  <2> QED BY <2>6, <2>7, <2>8
<1>7. VersionsIncrease'
  <2> SUFFICES ASSUME NEW s \in DOMAIN wal'[Main], NEW t \in DOMAIN wal'[Main], s < t,
                      IsFileEntry(wal'[Main][s]), IsFileEntry(wal'[Main][t]),
                      wal'[Main][s].path = wal'[Main][t].path
               PROVE  wal'[Main][s].version < wal'[Main][t].version
    BY DEF VersionsIncrease
  <2>1. s \in DOMAIN wal[Main] /\ wal'[Main][s] = wal[Main][s]
    BY <1>0, <1>1
  <2>2. CASE t = k + 1
    BY <1>1, <1>6, <2>1, <2>2
  <2>3. CASE t # k + 1
    <3>1. t \in DOMAIN wal[Main] /\ wal'[Main][t] = wal[Main][t]
      BY <1>0, <1>1, <2>3
    <3> QED BY <2>1, <3>1 DEF VersionsIncrease
  <2> QED BY <2>2, <2>3
<1> QED BY <1>5, <1>7

\* A sync brings the rows of the entries it brings.
LEMMA SyncKeepsNewest ==
    ASSUME SyncInv, TypeInv, NEW p \in Proc, SyncApply(p), Newest(At[p])
    PROVE  Newest(At[p])'
<1> DEFINE n == At[p]
           b == batch[p]
<1>0. n \in Node /\ DOMAIN files = Node /\ IsLog(b)
  BY SyncAssumption DEF TypeInv, DbTypes, DataTypes
<1>1. wal'[n] = InsertOrIgnore(wal[n], b) /\ files'[n] = ApplyToFiles(files[n], b)
  BY <1>0, ApplyEffect DEF SyncApply, ApplyWalEntries
<1> HIDE DEF n, b
<1>2. ASSUME NEW s \in DOMAIN wal'[n], IsFileEntry(wal'[n][s])
      PROVE  Covers(files'[n], wal'[n][s])
  <2>1. CASE s \in DOMAIN wal[n]
    <3>1. wal'[n][s] = wal[n][s]
      BY <1>1, <2>1 DEF InsertOrIgnore
    <3>2. Covers(files[n], wal[n][s])
      BY <1>2, <2>1, <3>1 DEF Newest, n
    <3> QED BY <1>1, <3>1, <3>2, ApplyCovers
  <2>2. CASE s \notin DOMAIN wal[n]
    <3>1. s \in DOMAIN b /\ wal'[n][s] = b[s]
      BY <1>1, <1>2, <2>2 DEF InsertOrIgnore
    <3>2. b[s].version \in Nat
      BY <1>0, <1>2, <3>1 DEF IsLog, IsTable, StoredEntry, Entry, IsFileEntry
    <3> QED BY <1>1, <1>2, <3>1, <3>2, ApplyCovers
  <2> QED BY <2>1, <2>2
<1> QED BY <1>2 DEF Newest, n

\* A cleanup on a node where no file is removed keeps the newest version.
LEMMA CleanKeepsNewest ==
    ASSUME SyncInv, JustifiedInv, TypeInv, RouteInv, NEW p \in Proc, CleanupRows(p),
           NeverRemoves(At[p]), Newest(At[p])
    PROVE  Newest(At[p])'
<1> DEFINE n == At[p]
<1>0. n \in Node /\ DOMAIN files = Node /\ wal' = wal
  BY SyncAssumption DEF TypeInv, DbTypes, CleanupRows
<1>1. job[p].keep \in Nat \ {0}
  <2>1. pc[p] = "clean" /\ "remove" \notin Commands[p]
    BY DEF CleanupRows, NeverRemoves
  <2> QED BY <2>1 DEF RouteInv, Routed, Follows, OnCourse, Goal, Syncing
<1>2. \/ files'[n] = files[n]
      \/ files'[n] = CleanOldVersions(files[n], job[p].paths, job[p].keep)
  BY <1>0 DEF CleanupRows
<1>3. PICK b \in Nat : \A q : Versions(files[n], q) \subseteq 0 .. b
  BY <1>0, VersionNumbers
<1>4. ASSUME NEW s \in DOMAIN wal[n], IsFileEntry(wal[n][s])
      PROVE  Covers(files'[n], wal[n][s])
  <2>1. wal[n][s].version \in Nat
    BY <1>0, <1>4 DEF TypeInv, DbTypes, IsLog, IsTable, StoredEntry, Entry, IsFileEntry
  <2>2. Covers(files[n], wal[n][s])
    BY <1>4 DEF Newest
  <2> QED BY <1>1, <1>2, <1>3, <2>1, <2>2, CleanCovers
<1> QED BY <1>0, <1>4 DEF Newest

\* VersionInv is inductive, relative to the invariants behind it.
LEMMA NextVersions ==
    SyncInv /\ JustifiedInv /\ TypeInv /\ RouteInv /\ VersionInv /\ [Next]_vars => VersionInv'
<1> SUFFICES ASSUME SyncInv, JustifiedInv, TypeInv, RouteInv, VersionInv, [Next]_vars
             PROVE  VersionInv'
  OBVIOUS
<1>0. Main \in Node /\ Domains
  BY SyncAssumption, TypedDomains
<1>1. CASE wal' = wal /\ files' = files
  BY <1>1 DEF VersionInv, Newest, VersionsIncrease
<1>2. ASSUME NEW p \in Proc, Start(p) \/ Step(p) \/ Abort(p)
      PROVE  VersionInv'
  <2>0. At[p] \in Node
    BY SyncAssumption
  <2>1. CASE CleanupRows(p)
    <3>1. wal' = wal /\ \A n \in Node \ {At[p]} : files'[n] = files[n]
      BY <1>0, <2>1 DEF CleanupRows, Domains
    <3>2. \A n \in Node \ {At[p]} : Newest(n) => Newest(n)'
      BY <3>1 DEF Newest
    <3>3. VersionsIncrease => VersionsIncrease'
      BY <3>1 DEF VersionsIncrease
    <3>4. NeverRemoves(At[p]) /\ Newest(At[p]) => Newest(At[p])'
      BY <2>1, CleanKeepsNewest
    <3> QED BY <3>2, <3>3, <3>4 DEF VersionInv
  <2>2. ASSUME NEW e \in Entry, AddWalEntry(e)
        PROVE  VersionInv'
    <3>1. \A n \in Node \ {Main} : wal'[n] = wal[n] /\ files'[n] = files[n]
      BY <1>0, <2>2 DEF AddWalEntry, Domains
    <3>2. \A n \in Node \ {Main} : Newest(n) => Newest(n)'
      BY <3>1 DEF Newest
    <3>3. Newest(Main) /\ VersionsIncrease => Newest(Main)' /\ VersionsIncrease'
      BY <2>2, AddIncreases
    <3> QED BY <1>0, <3>2, <3>3 DEF VersionInv
  <2>3. CASE SyncApply(p)
    <3>1. wal'[Main] = wal[Main]
      BY <2>3, ApplyEffect
    <3>2. \A n \in Node \ {At[p]} : wal'[n] = wal[n] /\ files'[n] = files[n]
      BY <1>0, <2>3 DEF SyncApply, ApplyWalEntries, Domains
    <3>3. \A n \in Node \ {At[p]} : Newest(n) => Newest(n)'
      BY <3>2 DEF Newest
    <3>4. VersionsIncrease => VersionsIncrease'
      BY <3>1 DEF VersionsIncrease
    <3>5. Newest(At[p]) => Newest(At[p])'
      BY <2>3, SyncKeepsNewest
    <3> QED BY <3>3, <3>4, <3>5 DEF VersionInv
  <2> QED BY <1>1, <1>2, <2>1, <2>2, <2>3, FileKinds
<1>3. CASE UNCHANGED vars
  BY <1>1, <1>3 DEF vars, dbVars
<1>4. ASSUME NEW p \in Proc, Deinit(p)
      PROVE  VersionInv'
  <2>1. SameTables(Main)
    BY <1>0, <1>4, DeinitSparesMain
  <2>2. \A n \in Node : wal'[n] = Empty \/ (wal'[n] = wal[n] /\ files'[n] = files[n])
    BY <1>0, <1>4, DeinitIsLocal DEF SameTables
  <2>3. \A n \in Node : Newest(n) => Newest(n)'
    BY <2>2 DEF Newest, Empty
  <2>4. VersionsIncrease => VersionsIncrease'
    BY <2>1 DEF SameTables, VersionsIncrease
  <2> QED BY <2>3, <2>4 DEF VersionInv
<1> QED BY <1>2, <1>3, <1>4 DEF Next

\* Initially no log has a file entry.
LEMMA InitVersions == Init => VersionInv
<1> SUFFICES ASSUME Init, NEW n \in Node, NEW s \in DOMAIN wal[n] PROVE ~IsFileEntry(wal[n][s])
  BY SyncAssumption DEF VersionInv, Newest, VersionsIncrease
<1> QED BY DEF Init, DeviceUpdate, Empty, IsFileEntry

\* Where no process removes a file, the file table shows the newest version of
\* each path, always, and on Main the next version is above all earlier ones.
THEOREM VersionInvariance == Spec => []VersionInv
BY InitVersions, NextVersions, SyncInvariance, JustifiedInvariance, TypeInvariance,
   RouteInvariance, PTL DEF Spec

\* Without `add` of a deleted file on Main the versions of a path increase in
\* its log, whatever is cleaned up and whatever the other nodes remove.
THEOREM VersionsTheorem ==
    ASSUME NeverRemoves(Main)
    PROVE  Spec => []VersionsIncrease
<1>1. VersionInv => VersionsIncrease
  BY DEF VersionInv
<1> QED BY <1>1, VersionInvariance, PTL

-----------------------------------------------------------------------------
(* What a push has published                                               *)

\* A handler that is to write an entry holds db_mutex_; only Main's own
\* registration writes without it.
Locked(p) == (pc[p] = "append" \/ (pc[p] = "registerLog" /\ At[p] # Main)) => mutex = p

\* The stored form of a proposed entry.
StoredAs(e, v) == v = IF IsFileEntry(e) THEN [e EXCEPT !.version = v.version] ELSE e

\* Every sequence id a handler has assigned is that of its entry ...
Published(p) ==
    \A i \in DOMAIN acks[p] : /\ i \in DOMAIN out[p]
                              /\ acks[p][i] \in DOMAIN wal[Main]
                              /\ StoredAs(out[p][i], wal[Main][acks[p][i]])

\* ... it has assigned all of them when the command goes on ...
Done == {"settle", "report", "delete"}
Complete(p) == Goal(pc[p], job[p]) \in Done => Len(acks[p]) = Len(out[p])

\* ... and the sync that follows brings them to the node.
Brought(p) ==
    /\ pc[p] = "apply" =>
          \A i \in DOMAIN acks[p] : acks[p][i] <= last[p] \/ acks[p][i] \in DOMAIN batch[p]
    /\ pc[p] = "report" => \A i \in DOMAIN acks[p] : acks[p][i] \in DOMAIN wal[At[p]]

Pushed(p) == Published(p) /\ Complete(p) /\ Brought(p)
PushInv == \A p \in Proc : Locked(p) /\ Pushed(p)

\* What a step does to db_mutex_: it leaves it and gets nowhere where it would
\* need it, gives it back, or takes it.
Leaves(p) ==
    /\ mutex' = mutex
    /\ \/ pc'[p] = pc[p]
       \/ pc'[p] \notin {"append", "registerLog"}
       \/ pc'[p] = "registerLog" /\ At[p] = Main
Releases(p) == mutex = p /\ mutex' = None /\ pc'[p] \notin {"append", "registerLog"}
Takes(p) == mutex = None /\ mutex' = p

\* A command that ends does not keep db_mutex_.
LEMMA FinishReleases ==
    ASSUME Domains, NEW p \in Proc, Finish(p)
    PROVE  Leaves(p) \/ Releases(p)
BY DEF Domains, Finish, Goto, Leaves, Releases

\* Nor does one that goes on after an exception.
LEMMA ThrowReleases ==
    ASSUME Domains, NEW p \in Proc, Throw(p)
    PROVE  Leaves(p) \/ Releases(p)
BY FinishReleases DEF Domains, Throw, GoOn, Goto, Leaves, Releases

\* Every step leaves db_mutex_ alone, gives it back or takes it when it is free.
LEMMA MutexKinds ==
    ASSUME TypeInv, NEW p \in Proc, Locked(p), Start(p) \/ Step(p) \/ Abort(p)
    PROVE  Leaves(p) \/ Releases(p) \/ Takes(p)
<1>0. Domains
  BY TypedDomains
<1>1. ASSUME NEW c, NEW paths, NEW next, StartSync(p, c, paths, next)
      PROVE  Leaves(p)
  BY <1>0, <1>1 DEF StartSync, Goto, Domains, Leaves
<1>2. ASSUME NEW path \in Path, NEW hash \in Hash, AddObject(p, path, hash)
      PROVE  Leaves(p)
  BY <1>0, <1>2 DEF AddObject, Goto, Domains, Leaves
<1>3. CASE Start(p)
  <2>1. CASE StartConnect(p) \/ Disconnect(p) \/ Unstage(p)
    BY <1>0, <2>1 DEF StartConnect, Disconnect, Unstage, Goto, Domains, Leaves
  <2> QED BY <1>1, <1>2, <1>3, <2>1
          DEF Start, StartUpdate, StartPush, StartPull, StartCleanup, StartRemove
<1>4. CASE Register(p)
  BY <1>0, <1>4 DEF Register, Registration, Goto, Domains, Leaves, Takes
<1>5. CASE RegisterLog(p)
  BY <1>0, <1>5 DEF RegisterLog, Registration, Goto, Domains, Leaves, Releases
<1>6. CASE SyncApply(p)
  <2>1. pc[p] = "apply" /\ pc'[p] = job[p].next /\ mutex' = mutex
    BY <1>0, <1>6 DEF SyncApply, Goto, Domains
  <2>2. job[p].next \in Returns
    BY <2>1 DEF TypeInv, Control, Fits, Syncing
  <2> QED BY <2>1, <2>2 DEF Leaves, Returns
<1>7. CASE PushLock(p)
  BY <1>7 DEF PushLock, Takes
<1>8. CASE PushAppend(p)
  <2>1. pc[p] = "append" /\ mutex = p
    BY <1>8 DEF PushAppend, Locked
  <2>2. \/ mutex' = mutex /\ pc' = pc
        \/ mutex' = None /\ pc'[p] \in {"settle", "read"}
    BY <1>0, <1>8 DEF PushAppend, Goto, Domains
  <2> QED BY <2>1, <2>2 DEF Leaves, Releases
<1>9. CASE PullFetch(p)
  <2>1. \/ Finish(p)
        \/ UNCHANGED <<mutex, pc>>
        \/ UNCHANGED mutex /\ Goto(p, "lock")
    BY <1>9 DEF PullFetch
  <2> QED BY <1>0, <2>1, FinishReleases DEF Goto, Domains, Leaves
<1>10. CASE SyncRead(p) \/ SyncRequest(p) \/ PushSettle(p) \/ PullOpen(p) \/ CleanupScan(p)
  BY <1>0, <1>10, ThrowReleases
     DEF SyncRead, SyncRequest, PushSettle, PullOpen, CleanupScan, Goto, localVars, Domains, Leaves
<1>11. CASE PushCollect(p)
  <2>1. Finish(p) \/ (Goto(p, "lock") /\ UNCHANGED mutex)
    BY <1>11 DEF PushCollect
  <2> QED BY <1>0, <2>1, FinishReleases DEF Goto, Domains, Leaves
<1>12. CASE CleanupSelect(p)
  <2>1. Finish(p) \/ (Goto(p, "read") /\ UNCHANGED mutex)
    BY <1>12 DEF CleanupSelect
  <2> QED BY <1>0, <2>1, FinishReleases DEF Goto, Domains, Leaves
<1>13. CASE CleanupRows(p)
  <2>1. Finish(p) \/ (Goto(p, "scan") /\ UNCHANGED mutex)
    BY <1>13 DEF CleanupRows
  <2> QED BY <1>0, <2>1, FinishReleases DEF Goto, Domains, Leaves
<1>14. CASE CleanupDelete(p)
  <2>1. Finish(p) \/ UNCHANGED <<mutex, pc>>
    BY <1>14 DEF CleanupDelete
  <2> QED BY <1>0, <2>1, FinishReleases DEF Leaves
<1>15. CASE PushOpen(p)
  <2>1. Finish(p) \/ (Goto(p, "collect") /\ UNCHANGED mutex)
    BY <1>15 DEF PushOpen
  <2> QED BY <1>0, <2>1, FinishReleases DEF Goto, Domains, Leaves
<1>16. CASE Configure(p) \/ Report(p) \/ AddStage(p) \/ Unreachable(p) \/ Abort(p)
  BY <1>0, <1>16, FinishReleases, ThrowReleases DEF Configure, Report, AddStage, Unreachable, Abort
<1> QED BY <1>3, <1>4, <1>5, <1>6, <1>7, <1>8, <1>9, <1>10, <1>11, <1>12, <1>13, <1>14,
           <1>15, <1>16 DEF Step

\* A handler that runs keeps the mutex until it returns.
LEMMA LockedKept ==
    ASSUME TypeInv, \A q \in Proc : Locked(q), NEW p \in Proc, Start(p) \/ Step(p) \/ Abort(p)
    PROVE  \A q \in Proc : Locked(q)'
<1> SUFFICES ASSUME NEW q \in Proc PROVE Locked(q)'
  OBVIOUS
<1>0. Leaves(p) \/ Releases(p) \/ Takes(p)
  BY MutexKinds
<1>1. None \notin Proc
  BY SyncAssumption
<1>2. CASE q = p
  BY <1>0, <1>2 DEF Leaves, Releases, Takes, Locked
<1>3. CASE q # p
  <2>1. pc'[q] = pc[q]
    BY <1>3, TypedDomains, StepIsLocal DEF Local, SameLocals
  <2> QED BY <1>0, <1>1, <1>3, <2>1 DEF Leaves, Releases, Takes, Locked
<1> QED BY <1>2, <1>3

\* Logs only grow, Main's by registrations and pushes.
LEMMA LogsGrow ==
    ASSUME SyncInv, JustifiedInv, TypeInv, NEW p \in Proc, Start(p) \/ Step(p) \/ Abort(p)
    PROVE  /\ \A n \in Node : /\ DOMAIN wal[n] \subseteq DOMAIN wal'[n]
                              /\ \A s \in DOMAIN wal[n] : wal'[n][s] = wal[n][s]
           /\ wal'[Main] = wal[Main] \/ RegisterLog(p) \/ PushAppend(p)
<1>0. Domains /\ Main \in Node /\ At[p] \in Node
  BY TypedDomains, SyncAssumption
<1>1. ASSUME NEW e \in Entry, AddWalEntry(e)
      PROVE  \A n \in Node : /\ DOMAIN wal[n] \subseteq DOMAIN wal'[n]
                             /\ \A s \in DOMAIN wal[n] : wal'[n][s] = wal[n][s]
  <2>1. \A n \in Node \ {Main} : wal'[n] = wal[n]
    BY <1>0, <1>1, AddIsLocal DEF SameTables
  <2>2. /\ Length(Main) \in Nat
        /\ DOMAIN wal[Main] = 1 .. Length(Main)
        /\ DOMAIN wal'[Main] = 1 .. (Length(Main) + 1)
        /\ \A s \in DOMAIN wal[Main] : wal'[Main][s] = wal[Main][s]
    BY <1>1, AddEffect
  <2>3. DOMAIN wal[Main] \subseteq DOMAIN wal'[Main]
    BY <2>2
  <2> QED BY <2>1, <2>2, <2>3
<1>2. CASE SyncApply(p)
  <2>1. /\ wal'[At[p]] = InsertOrIgnore(wal[At[p]], batch[p])
        /\ wal'[Main] = wal[Main] /\ \A m \in Node \ {At[p]} : wal'[m] = wal[m]
    BY <1>2, ApplyEffect
  <2>2. /\ DOMAIN wal[At[p]] \subseteq DOMAIN wal'[At[p]]
        /\ \A s \in DOMAIN wal[At[p]] : wal'[At[p]][s] = wal[At[p]][s]
    BY <2>1 DEF InsertOrIgnore
  <2> QED BY <2>1, <2>2
<1>3. CASE wal' = wal
  BY <1>3
<1>4. CASE CleanupRows(p) \/ Register(p)
  BY <1>3, <1>4 DEF CleanupRows, Register
<1>5. wal'[Main] = wal[Main] \/ RegisterLog(p) \/ PushAppend(p)
  <2>1. wal' = wal \/ Register(p) \/ RegisterLog(p) \/ PushAppend(p) \/ SyncApply(p)
    BY IdKinds
  <2> QED BY <1>2, <2>1, ApplyEffect DEF Register
<1> QED BY <1>1, <1>2, <1>3, <1>4, <1>5, FileKinds

\* Main's log has what was published, whatever is added to it.
LEMMA PublishedStays ==
    ASSUME NEW p \in Proc, Published(p), acks'[p] = acks[p], out'[p] = out[p],
           DOMAIN wal[Main] \subseteq DOMAIN wal'[Main],
           \A s \in DOMAIN wal[Main] : wal'[Main][s] = wal[Main][s]
    PROVE  Published(p)'
BY DEF Published

\* A step that leaves entries and their ids alone and does not end a sync ...
LEMMA PushGoesOn ==
    ASSUME NEW p \in Proc, Pushed(p), Published(p)', acks'[p] = acks[p], out'[p] = out[p],
           Goal(pc'[p], job'[p]) \in Done => Goal(pc[p], job[p]) \in Done,
           pc'[p] # "apply", pc'[p] # "report"
    PROVE  Pushed(p)'
BY DEF Pushed, Complete, Brought

\* ... and a step that has nothing assigned.
LEMMA PushBegins ==
    ASSUME NEW p \in Proc, acks'[p] = <<>>, Goal(pc'[p], job'[p]) \in Done => out'[p] = <<>>
    PROVE  Pushed(p)'
BY DEF Pushed, Published, Complete, Brought

\* A command that has ended has nothing published.
LEMMA FinishPushes ==
    ASSUME Domains, NEW p \in Proc, Finish(p)
    PROVE  Pushed(p)'
<1>1. acks'[p] = <<>> /\ out'[p] = <<>>
  BY DEF Domains, Finish
<1> QED BY <1>1, PushBegins

\* Nor has one that goes on after an exception.
LEMMA ThrowPushes ==
    ASSUME Domains, NEW p \in Proc, Throw(p)
    PROVE  Pushed(p)'
<1>1. acks'[p] = <<>> /\ out'[p] = <<>>
  BY DEF Domains, Throw, GoOn, Finish
<1> QED BY <1>1, PushBegins

\* A command starts with nothing to push.
LEMMA StartPushes ==
    ASSUME TypeInv, DeviceInv, NEW p \in Proc, Start(p)
    PROVE  Pushed(p)'
<1>1. pc[p] = "idle" /\ UNCHANGED localVars
  BY DEF Start, StartConnect, StartUpdate, StartPush, StartPull, StartCleanup, StartRemove, StartSync,
         CanStart, Disconnect, AddObject, Unstage
<1>2. acks[p] = <<>> /\ out[p] = <<>>
  BY <1>1 DEF TypeInv, Control, Fits, Fresh, DeviceInv, Identified, Working
<1> QED BY <1>1, <1>2, PushBegins DEF localVars

\* addWalEntry gives the next entry of a push the id after the last one.
LEMMA AppendPushes ==
    ASSUME SyncInv, JustifiedInv, TypeInv, NEW p \in Proc, Pushed(p), PushAppend(p)
    PROVE  Pushed(p)'
<1> DEFINE k == Length(Main)
           i == Len(acks[p]) + 1
           e == out[p][i]
           v == Versioned(files[Main], e)
<1>0. Domains /\ out[p] \in Seq(Entry) /\ acks[p] \in Seq(Nat) /\ job[p] \in Job
  BY TypedDomains DEF TypeInv, Control, ControlTypes
<1>1. pc[p] = "append" /\ AddWalEntry(e) /\ out' = out /\ i \in DOMAIN out[p] /\ e \in Entry
  BY OutIsTyped DEF PushAppend
<1>2. /\ k \in Nat /\ DOMAIN wal[Main] = 1 .. k /\ DOMAIN wal'[Main] = 1 .. (k + 1)
      /\ \A s \in DOMAIN wal[Main] : wal'[Main][s] = wal[Main][s]
      /\ wal'[Main][k + 1] = v
  BY <1>1, AddEffect
<1>3. acks'[p] = Append(acks[p], k + 1)
  BY <1>0 DEF PushAppend, Domains, Length
<1>4. StoredAs(e, v)
  BY <1>1 DEF StoredAs, Versioned, Entry, IsFileEntry
<1>5. Published(p)'
  <2> SUFFICES ASSUME NEW j \in DOMAIN acks'[p]
               PROVE  /\ j \in DOMAIN out[p] /\ acks'[p][j] \in DOMAIN wal'[Main]
                      /\ StoredAs(out[p][j], wal'[Main][acks'[p][j]])
    BY <1>1 DEF Published
  <2>1. CASE j = i
    <3>1. acks'[p][j] = k + 1
      BY <1>0, <1>3, <2>1
    <3> QED BY <1>1, <1>2, <1>4, <2>1, <3>1
  <2>2. CASE j # i
    <3>1. j \in DOMAIN acks[p] /\ acks'[p][j] = acks[p][j]
      BY <1>0, <1>2, <1>3, <2>2
    <3>2. acks[p][j] \in DOMAIN wal[Main]
      BY <3>1 DEF Pushed, Published
    <3>3. acks[p][j] \in DOMAIN wal'[Main]
      BY <1>2, <3>2
    <3> QED BY <1>2, <3>1, <3>2, <3>3 DEF Pushed, Published
  <2> QED BY <2>1, <2>2
<1>6. Complete(p)'
  <2>1. \/ pc'[p] = "append"
        \/ i = Len(out[p])
    BY <1>0, <1>1 DEF PushAppend, Domains
  <2>2. i = Len(out[p]) => Len(acks'[p]) = Len(out'[p])
    BY <1>0, <1>1, <1>2, <1>3
  <2> QED BY <2>1, <2>2 DEF Complete, Goal, Syncing, Done
<1>7. pc'[p] \in {"append", "settle", "read"}
  BY <1>0, <1>1 DEF PushAppend, Goto, Domains
<1> QED BY <1>5, <1>6, <1>7 DEF Pushed, Brought

\* Main's answer reaches as far as its log did when the ids were assigned.
LEMMA RequestBrings ==
    ASSUME SyncInv, TypeInv, NEW p \in Proc, Pushed(p), SyncRequest(p)
    PROVE  Pushed(p)'
<1>0. Domains
  BY TypedDomains
<1>1. /\ pc[p] = "request" /\ pc'[p] = "apply" /\ job'[p] = job[p] /\ acks'[p] = acks[p]
      /\ out'[p] = out[p] /\ last'[p] = last[p] /\ wal' = wal
      /\ batch'[p] = EntriesSince(wal[Main], last[p])
  BY <1>0 DEF SyncRequest, Goto, dbVars, Domains
<1>2. \A i \in DOMAIN acks[p] : acks[p][i] \in DOMAIN wal[Main]
  BY DEF Pushed, Published
<1>3. DOMAIN wal[Main] \subseteq Nat /\ last[p] \in Nat
  <2>1. Length(Main) \in Nat /\ DOMAIN wal[Main] = 1 .. Length(Main) /\ last[p] \in Nat
    BY SyncAssumption DEF SyncInv, LogInv, ReadInv
  <2> QED BY <2>1
<1>4. DOMAIN batch'[p] = {s \in DOMAIN wal[Main] : s > last[p]}
  BY <1>1 DEF EntriesSince, Restrict
<1>5. \A i \in DOMAIN acks[p] : acks[p][i] <= last[p] \/ acks[p][i] \in DOMAIN batch'[p]
  BY <1>2, <1>3, <1>4
<1>6. Brought(p)'
  BY <1>1, <1>5 DEF Brought
<1>7. Published(p)' /\ Complete(p)'
  BY <1>1 DEF Pushed, Published, Complete, Goal, Syncing
<1> QED BY <1>6, <1>7 DEF Pushed

\* Applying it brings the node's log there.
LEMMA ApplyBrings ==
    ASSUME SyncInv, TypeInv, NEW p \in Proc, Pushed(p), Published(p)', SyncApply(p)
    PROVE  Pushed(p)'
<1>0. Domains /\ At[p] \in Node
  BY TypedDomains, SyncAssumption
<1>1. /\ pc[p] = "apply" /\ pc'[p] = job[p].next /\ job'[p] = job[p] /\ acks'[p] = acks[p]
      /\ out'[p] = out[p] /\ wal'[At[p]] = InsertOrIgnore(wal[At[p]], batch[p])
  BY <1>0, ApplyEffect DEF SyncApply, Goto, Domains
<1>2. job[p].next \in Returns
  BY <1>1 DEF TypeInv, Control, Fits, Syncing
<1>3. Goal(pc'[p], job'[p]) = Goal(pc[p], job[p]) /\ pc'[p] # "apply"
  BY <1>1, <1>2 DEF Goal, Syncing, Returns
<1>4. \A i \in DOMAIN acks[p] : acks[p][i] \in DOMAIN wal'[At[p]]
  <2> SUFFICES ASSUME NEW i \in DOMAIN acks[p] PROVE acks[p][i] \in DOMAIN wal'[At[p]]
    OBVIOUS
  <2>1. acks[p][i] <= last[p] \/ acks[p][i] \in DOMAIN batch[p]
    BY <1>1 DEF Pushed, Brought
  <2>2. DOMAIN wal'[At[p]] = DOMAIN wal[At[p]] \cup DOMAIN batch[p]
    BY <1>1 DEF InsertOrIgnore
  <2>3. acks[p][i] \in DOMAIN wal[Main]
    BY DEF Pushed, Published
  <2>4. /\ DOMAIN wal[At[p]] = 1 .. Length(At[p]) /\ last[p] <= Length(At[p])
        /\ Length(At[p]) \in Nat /\ last[p] \in Nat
        /\ DOMAIN wal[Main] = 1 .. Length(Main) /\ Length(Main) \in Nat
    BY <1>0, SyncAssumption DEF SyncInv, LogInv, ReadInv
  <2>5. acks[p][i] <= last[p] => acks[p][i] \in DOMAIN wal[At[p]]
    BY <2>3, <2>4
  <2> QED BY <2>1, <2>2, <2>5
<1>5. Brought(p)'
  BY <1>1, <1>3, <1>4 DEF Brought
<1> QED BY <1>1, <1>3, <1>5 DEF Pushed, Complete

\* No step loses sight of what was pushed.
LEMMA StepPushes ==
    ASSUME SyncInv, JustifiedInv, TypeInv, DeviceInv, RouteInv, NEW p \in Proc, Pushed(p),
           Step(p) \/ Abort(p)
    PROVE  Pushed(p)'
<1>0. /\ Domains /\ job[p] \in Job /\ At[p] \in Node
      /\ Follows(Commands[p], pc[p], job[p], out[p], acks[p], garbage[p])
      /\ Fits(pc[p], job[p], out[p], acks[p])
  BY TypedDomains, SyncAssumption DEF RouteInv, Routed, TypeInv, Control, ControlTypes
<1>f. ASSUME Finish(p)
      PROVE  Pushed(p)'
  BY <1>0, <1>f, FinishPushes
<1>g. ASSUME acks'[p] = acks[p], out'[p] = out[p]
      PROVE  Published(p)'
  <2>1. /\ DOMAIN wal[Main] \subseteq DOMAIN wal'[Main]
        /\ \A s \in DOMAIN wal[Main] : wal'[Main][s] = wal[Main][s]
    BY LogsGrow, SyncAssumption
  <2> QED BY <1>g, <2>1, PublishedStays DEF Pushed
<1>h. ASSUME acks'[p] = acks[p], out'[p] = out[p], pc'[p] # "apply", pc'[p] # "report",
             Goal(pc'[p], job'[p]) \in Done => Goal(pc[p], job[p]) \in Done
      PROVE  Pushed(p)'
  BY <1>g, <1>h, PushGoesOn
<1>1. CASE Register(p)
  <2>1. /\ pc[p] = "register" /\ pc'[p] \in {"registerLog", "configure", "request"}
        /\ out'[p] = out[p] /\ acks'[p] = acks[p]
    BY <1>0, <1>1 DEF Register, Registration, Goto, localVars, Domains
  <2>2. job'[p].next = "configure"
    BY <1>0, <1>1, <2>1 DEF Register, Domains, Job, Fits
  <2> QED BY <1>h, <2>1, <2>2 DEF Goal, Syncing, Done
<1>2. CASE RegisterLog(p)
  <2>1. /\ pc[p] = "registerLog" /\ pc'[p] \in {"configure", "request"} /\ job'[p] = job[p]
        /\ out'[p] = out[p] /\ acks'[p] = acks[p]
    BY <1>0, <1>2 DEF RegisterLog, Registration, Goto, localVars, Domains
  <2> QED BY <1>0, <1>h, <2>1 DEF Fits, Goal, Syncing, Done
<1>3. CASE SyncRead(p)
  <2>1. \/ Throw(p)
        \/ /\ pc[p] = "read" /\ pc'[p] = "request" /\ job'[p] = job[p]
           /\ out'[p] = out[p] /\ acks'[p] = acks[p]
    BY <1>0, <1>3 DEF SyncRead, Goto, Domains
  <2> QED BY <1>0, <1>h, <2>1, ThrowPushes DEF Goal, Syncing
<1>4. CASE SyncRequest(p)
  BY <1>4, RequestBrings
<1>5. CASE SyncApply(p)
  BY <1>0, <1>5, <1>g, ApplyBrings DEF SyncApply
<1>6. CASE PushCollect(p)
  <2>1. \/ Finish(p)
        \/ pc[p] = "collect" /\ pc'[p] = "lock" /\ acks'[p] = acks[p]
    BY <1>0, <1>6 DEF PushCollect, Goto, Domains
  <2>2. CASE ~Finish(p)
    <3>1. acks'[p] = <<>>
      BY <1>0, <2>1, <2>2 DEF Fits, Fresh
    <3> QED BY <2>1, <2>2, <3>1, PushBegins DEF Goal, Syncing, Done
  <2> QED BY <1>f, <2>2
<1>7. CASE PushLock(p)
  BY <1>0, <1>7, <1>h DEF PushLock, Goto, localVars, Domains, Goal, Syncing, Done
<1>8. CASE PushAppend(p)
  BY <1>8, AppendPushes
<1>9. CASE PushSettle(p)
  <2>1. /\ pc[p] = "settle" /\ pc'[p] \in {"settle", "read"}
        /\ out'[p] = out[p] /\ acks'[p] = acks[p]
    BY <1>0, <1>9 DEF PushSettle, Goto, Domains, localVars
  <2> QED BY <1>h, <2>1 DEF Goal, Syncing, Done
<1>10. CASE PullOpen(p)
  BY <1>0, <1>10, <1>h DEF PullOpen, Goto, localVars, Domains, Goal, Syncing, Done
<1>11. CASE PullFetch(p)
  <2>1. \/ Finish(p)
        \/ pc[p] = "fetch" /\ pc'[p] = pc[p] /\ acks'[p] = acks[p] /\ out'[p] = out[p]
        \/ pc[p] = "fetch" /\ pc'[p] \in {"fetch", "lock"} /\ acks' = [acks EXCEPT ![p] = <<>>]
    <3>1. \/ Finish(p)
          \/ UNCHANGED <<mutex, pc, localVars>>
          \/ acks' = [acks EXCEPT ![p] = <<>>] /\ (UNCHANGED pc \/ Goto(p, "lock"))
      BY <1>11 DEF PullFetch
    <3> QED BY <1>0, <1>11, <3>1 DEF PullFetch, Goto, localVars, Domains
  <2>2. CASE pc[p] = "fetch" /\ pc'[p] \in {"fetch", "lock"} /\ acks' = [acks EXCEPT ![p] = <<>>]
    BY <1>0, <2>2, PushBegins DEF Goal, Syncing, Done, Domains
  <2>3. CASE pc[p] = "fetch" /\ pc'[p] = pc[p] /\ acks'[p] = acks[p] /\ out'[p] = out[p]
    BY <1>h, <2>3 DEF Goal, Syncing, Done
  <2> QED BY <1>f, <2>1, <2>2, <2>3
<1>12. CASE CleanupSelect(p)
  <2>1. \/ Finish(p)
        \/ /\ pc[p] = "select" /\ UNCHANGED localVars
    BY <1>12 DEF CleanupSelect
  <2>2. CASE ~Finish(p)
    <3>1. acks'[p] = <<>> /\ out'[p] = out[p]
      BY <1>0, <2>1, <2>2 DEF localVars, Fits, Fresh
    <3>2. pc'[p] = "read"
      BY <1>0, <1>12, <2>2 DEF CleanupSelect, Goto, Domains
    <3>3. PICK paths, keep :
             job' = [job EXCEPT ![p].paths = paths, ![p].keep = keep, ![p].next = "clean"]
      BY <1>12, <2>2 DEF CleanupSelect
    <3>4. job'[p].next = "clean"
      <4>1. job'[p] = [job[p] EXCEPT !.paths = paths, !.keep = keep, !.next = "clean"]
        BY <1>0, <3>3 DEF Domains
      <4> QED BY <1>0, <4>1 DEF Job
    <3> QED BY <3>1, <3>2, <3>4, PushBegins DEF Goal, Syncing, Done
  <2> QED BY <1>f, <2>2
<1>13. CASE CleanupRows(p)
  <2>1. \/ Finish(p)
        \/ /\ pc[p] = "clean" /\ pc'[p] = "scan" /\ out'[p] = out[p] /\ acks'[p] = acks[p]
    BY <1>0, <1>13 DEF CleanupRows, Goto, Domains, localVars
  <2> QED BY <1>f, <1>h, <2>1 DEF Goal, Syncing, Done
<1>14. CASE CleanupScan(p)
  <2> DEFINE unused == objects[At[p]] \ Referenced(files[At[p]], staging[At[p]])
             owned == {h \in unused : HasObjectOwner(owners[At[p]], h, job[p].me)}
  <2>1. acks'[p] = <<>> /\ pc'[p] = IF owned = {} THEN "delete" ELSE "lock"
    BY <1>0, <1>14 DEF CleanupScan, Goto, Domains, Fits, Fresh
  <2>2. PICK order \in Orders(owned) :
           out' = [out EXCEPT ![p] = [i \in DOMAIN order |-> OwnerDelete(order[i], job[p].me)]]
    BY <1>14 DEF CleanupScan
  <2>3. ASSUME owned = {}
        PROVE  out'[p] = <<>>
    <3>1. DOMAIN order = 1 .. 0
      BY <2>2, <2>3, FS_EmptySet DEF Orders, Injection
    <3>2. out'[p] = [i \in DOMAIN order |-> OwnerDelete(order[i], job[p].me)]
      BY <1>0, <2>2 DEF Domains
    <3>3. DOMAIN order = {}
      BY <3>1
    <3>4. out'[p] = [i \in {} |-> OwnerDelete(order[i], job[p].me)]
      BY <3>2, <3>3
    <3> QED BY <3>4
  <2> HIDE DEF owned
  <2> QED BY <2>1, <2>3, PushBegins DEF Goal, Syncing, Done
<1>15. CASE CleanupDelete(p)
  <2>1. \/ Finish(p)
        \/ pc[p] = "delete" /\ pc'[p] = pc[p] /\ out'[p] = out[p] /\ acks'[p] = acks[p]
    BY <1>15 DEF CleanupDelete
  <2> QED BY <1>f, <1>h, <2>1 DEF Goal, Syncing, Done
<1>16. CASE PushOpen(p)
  <2>1. \/ Finish(p)
        \/ /\ pc[p] = "prepare" /\ pc'[p] = "collect" /\ out'[p] = out[p] /\ acks'[p] = acks[p]
    BY <1>0, <1>16 DEF PushOpen, Goto, Domains, localVars
  <2> QED BY <1>f, <1>h, <2>1 DEF Goal, Syncing, Done
<1>17. CASE Configure(p) \/ Report(p) \/ AddStage(p) \/ Unreachable(p) \/ Abort(p)
  BY <1>0, <1>f, <1>17, ThrowPushes DEF Configure, Report, AddStage, Unreachable, Abort
<1> QED BY <1>1, <1>2, <1>3, <1>4, <1>5, <1>6, <1>7, <1>8, <1>9, <1>10, <1>11, <1>12, <1>13,
           <1>14, <1>15, <1>16, <1>17 DEF Step

\* PushInv is inductive, relative to the invariants behind it.
LEMMA NextPush ==
    SyncInv /\ JustifiedInv /\ TypeInv /\ DeviceInv /\ RouteInv /\ PushInv /\ [Next]_vars => PushInv'
<1> SUFFICES ASSUME SyncInv, JustifiedInv, TypeInv, DeviceInv, RouteInv, PushInv, [Next]_vars
             PROVE  PushInv'
  OBVIOUS
<1>1. ASSUME NEW p \in Proc, Start(p) \/ Step(p) \/ Abort(p)
      PROVE  PushInv'
  <2>1. \A q \in Proc : Locked(q)'
    BY <1>1, LockedKept DEF PushInv
  <2>2. Pushed(p)'
    BY <1>1, StartPushes, StepPushes DEF PushInv
  <2>3. ASSUME NEW q \in Proc \ {p}
        PROVE  Pushed(q)'
    <3>1. SameLocals(q) /\ At[q] \in Node /\ Main \in Node
      BY <1>1, TypedDomains, StepIsLocal, SyncAssumption DEF Local
    <3>2. \A n \in {Main, At[q]} : /\ DOMAIN wal[n] \subseteq DOMAIN wal'[n]
                                   /\ \A s \in DOMAIN wal[n] : wal'[n][s] = wal[n][s]
      BY <1>1, <3>1, LogsGrow
    <3>3. Published(q)'
      BY <3>1, <3>2, PublishedStays DEF SameLocals, PushInv, Pushed
    <3>4. Complete(q)' /\ Brought(q)'
      BY <3>1, <3>2 DEF SameLocals, PushInv, Pushed, Complete, Brought
    <3> QED BY <3>3, <3>4 DEF Pushed
  <2> QED BY <2>1, <2>2, <2>3 DEF PushInv
<1>2. CASE UNCHANGED vars
  BY <1>2 DEF vars, dbVars, nodeVars, localVars, PushInv, Locked, Pushed, Published, Complete,
              Brought
<1>3. ASSUME NEW p \in Proc, Deinit(p)
      PROVE  PushInv'
  <2>1. /\ SameTables(Main) /\ mutex' = mutex /\ \A q \in Proc : SameLocals(q)
        /\ \A q \in Proc : pc[q] = "idle" \/ wal'[At[q]] = wal[At[q]]
    BY <1>3, TypedDomains, SyncAssumption, DeinitSparesMain, DeinitIsLocal DEF SameTables
  <2>2. \A q \in Proc : Locked(q)' /\ Published(q)' /\ Complete(q)'
    BY <2>1 DEF SameLocals, SameTables, PushInv, Pushed, Locked, Published, Complete
  <2>3. \A q \in Proc : Brought(q)'
    BY <2>1 DEF SameLocals, PushInv, Pushed, Brought
  <2> QED BY <2>2, <2>3 DEF PushInv, Pushed
<1> QED BY <1>1, <1>2, <1>3 DEF Next

\* What a handler has acknowledged is what it was asked to write, and the sync that
\* follows brings it to the node, always.
THEOREM PushInvariance == Spec => []PushInv
<1>1. Init => PushInv
  BY DEF Init, PushInv, Locked, Pushed, Published, Complete, Brought, Goal, Syncing, Done
<1> QED
  BY <1>1, NextPush, SyncInvariance, JustifiedInvariance, TypeInvariance, DeviceInvariance,
     RouteInvariance, PTL DEF Spec

-----------------------------------------------------------------------------
(* Nothing comes between the entries of a push                             *)

\* Once Main is registered nothing writes to its log without db_mutex_.
Alone ==
    /\ Registered(devices[Main], Main)
    /\ \A p \in Proc : pc[p] = "registerLog" => At[p] # Main

\* The ids of a push follow each other, and while it runs the last is the log's.
Serial(p) ==
    /\ \A i \in DOMAIN acks[p] : acks[p][i] = acks[p][1] + i - 1
    /\ pc[p] = "append" /\ acks[p] # <<>> => acks[p][Len(acks[p])] = Length(Main)

SerialInv == Alone /\ \A p \in Proc : Serial(p)

\* Only PushAppend adds to the ids, and it begins with none.
LEMMA AckKinds ==
    ASSUME TypeInv, RouteInv, NEW p \in Proc, Start(p) \/ Step(p) \/ Abort(p)
    PROVE  \/ PushAppend(p)
           \/ /\ acks'[p] \in {acks[p], <<>>}
              /\ pc'[p] = "append" => acks'[p] = <<>>
<1>0. /\ Domains /\ Fits(pc[p], job[p], out[p], acks[p])
      /\ Follows(Commands[p], pc[p], job[p], out[p], acks[p], garbage[p])
  BY TypedDomains DEF TypeInv, Control, RouteInv, Routed
<1>f. ASSUME Finish(p)
      PROVE  acks'[p] = <<>>
  BY <1>0, <1>f DEF Finish, Domains
<1>1. CASE Start(p)
  <2>1. pc[p] = "idle" /\ UNCHANGED localVars
    BY <1>1 DEF Start, StartConnect, StartUpdate, StartPush, StartPull, StartCleanup, StartRemove,
                StartSync, CanStart, Disconnect, AddObject, Unstage
  <2> QED BY <1>0, <2>1 DEF localVars, Fits, Fresh
<1>2. CASE SyncApply(p)
  <2>1. pc[p] = "apply" /\ pc'[p] = job[p].next /\ acks'[p] = acks[p]
    BY <1>0, <1>2 DEF SyncApply, Goto, Domains
  <2> QED BY <1>0, <2>1 DEF Fits, Syncing, Returns
<1>3. CASE PushLock(p)
  BY <1>0, <1>3 DEF PushLock, localVars, Follows
<1>4. CASE PullFetch(p)
  <2>1. \/ Finish(p)
        \/ UNCHANGED <<mutex, pc, localVars>>
        \/ acks' = [acks EXCEPT ![p] = <<>>]
    BY <1>4 DEF PullFetch
  <2>2. pc[p] = "fetch"
    BY <1>4 DEF PullFetch
  <2> QED BY <1>0, <1>f, <2>1, <2>2 DEF localVars, Domains
<1>5. CASE \/ Register(p) \/ RegisterLog(p) \/ SyncRequest(p) \/ PushSettle(p) \/ PullOpen(p)
           \/ CleanupScan(p)
  BY <1>0, <1>5 DEF Register, RegisterLog, Registration, SyncRequest, PushSettle, PullOpen,
                    CleanupScan, Goto, localVars, Domains
<1>t. ASSUME Throw(p)
      PROVE  acks'[p] = <<>>
  BY <1>0, <1>t DEF Throw, GoOn, Finish, Domains
<1>6. CASE SyncRead(p) \/ PushCollect(p)
  <2>1. Throw(p) \/ Finish(p) \/ (acks' = acks /\ pc'[p] \in {"request", "lock"})
    BY <1>0, <1>6 DEF SyncRead, PushCollect, Goto, Domains
  <2> QED BY <1>f, <1>t, <2>1
<1>7. CASE CleanupSelect(p) \/ CleanupRows(p) \/ PushOpen(p)
  <2>1. Finish(p) \/ (UNCHANGED localVars /\ pc'[p] \in {"read", "scan", "collect"})
    BY <1>0, <1>7 DEF CleanupSelect, CleanupRows, PushOpen, Goto, Domains
  <2> QED BY <1>f, <2>1 DEF localVars
<1>8. CASE CleanupDelete(p)
  <2>1. pc[p] = "delete" /\ (Finish(p) \/ (acks' = acks /\ pc' = pc))
    BY <1>8 DEF CleanupDelete
  <2> QED BY <1>f, <2>1
<1>9. CASE Configure(p) \/ Report(p) \/ AddStage(p) \/ Unreachable(p) \/ Abort(p)
  BY <1>f, <1>t, <1>9 DEF Configure, Report, AddStage, Unreachable, Abort
<1> QED BY <1>1, <1>2, <1>3, <1>4, <1>5, <1>6, <1>7, <1>8, <1>9 DEF Step

\* Main stays registered and has nothing to register any more.
LEMMA AloneKept ==
    ASSUME TypeInv, Grows, Alone, NEW p \in Proc, Start(p) \/ Step(p) \/ Abort(p)
    PROVE  Alone'
<1>0. Domains
  BY TypedDomains
<1>1. Registered(devices'[Main], Main)
  BY DEF Alone, Registered, Grows, Names
<1>2. ASSUME pc'[p] = "registerLog"
      PROVE  At[p] # Main
  <2> SUFFICES ASSUME At[p] = Main PROVE FALSE
    OBVIOUS
  <2>0. pc[p] # "registerLog"
    BY DEF Alone
  <2>1. ASSUME NEW c, NEW paths, NEW next, StartSync(p, c, paths, next) PROVE FALSE
    BY <1>0, <1>2, <2>1 DEF StartSync, Goto, Domains
  <2>2. CASE Start(p)
    BY <1>0, <1>2, <2>0, <2>1, <2>2
       DEF Start, StartConnect, StartUpdate, StartPush, StartPull, StartCleanup, StartRemove,
           Disconnect, AddObject, Unstage, Goto, Domains
  <2>3. CASE Register(p)
    BY <1>0, <1>2, <2>3 DEF Register, Registration, Goto, Domains, Alone
  <2>4. CASE SyncApply(p)
    <3>1. pc[p] = "apply" /\ pc'[p] = job[p].next
      BY <1>0, <2>4 DEF SyncApply, Goto, Domains
    <3> QED BY <1>2, <3>1 DEF TypeInv, Control, Fits, Syncing, Returns
  <2>5. CASE PullFetch(p)
    <3>1. Finish(p) \/ UNCHANGED pc \/ Goto(p, "lock")
      BY <2>5 DEF PullFetch, localVars
    <3> QED BY <1>0, <1>2, <2>0, <3>1 DEF Finish, Goto, Domains
  <2> QED BY <1>0, <1>2, <2>0, <2>2, <2>3, <2>4, <2>5
          DEF Step, RegisterLog, Configure, SyncRead, SyncRequest, Report, AddStage, PushOpen,
              PushCollect, PushLock, PushAppend, PushSettle, PullOpen, CleanupSelect, CleanupRows,
              CleanupScan, CleanupDelete, Unreachable, Abort, Throw, GoOn, Finish, Goto, Domains
<1>3. ASSUME NEW q \in Proc \ {p}
      PROVE  pc'[q] = pc[q]
  BY <1>0, StepIsLocal DEF Local, SameLocals
<1> QED BY <1>1, <1>2, <1>3 DEF Alone

\* While a push runs no other process adds to Main's log.
LEMMA OthersWait ==
    ASSUME SyncInv, JustifiedInv, TypeInv, Alone, NEW p \in Proc, NEW q \in Proc \ {p},
           Locked(p), Locked(q), pc[q] = "append", Start(p) \/ Step(p) \/ Abort(p)
    PROVE  wal'[Main] = wal[Main]
<1>1. mutex = q
  BY DEF Locked
<1>2. ~RegisterLog(p)
  BY <1>1 DEF RegisterLog, Alone, Locked
<1>3. ~PushAppend(p)
  BY <1>1 DEF PushAppend, Locked
<1> QED BY <1>2, <1>3, LogsGrow

\* A command's own steps give it ids that follow each other.
LEMMA SerialKept ==
    ASSUME SyncInv, JustifiedInv, TypeInv, RouteInv, NEW p \in Proc, Serial(p), Pushed(p),
           Start(p) \/ Step(p) \/ Abort(p)
    PROVE  Serial(p)'
<1>1. CASE PushAppend(p)
  <2> DEFINE k == Length(Main)
             a == acks[p]
  <2>0. a \in Seq(Nat) /\ pc[p] = "append" /\ DOMAIN acks = Proc
    BY <1>1 DEF TypeInv, Control, ControlTypes, PushAppend
  <2>1. acks'[p] = Append(a, k + 1)
    BY <1>1, <2>0 DEF PushAppend, Length
  <2>2. out[p][Len(a) + 1] \in Entry /\ AddWalEntry(out[p][Len(a) + 1])
    BY <1>1, <2>0, OutIsTyped DEF PushAppend
  <2>3. k \in Nat /\ Length(Main)' = k + 1
    BY <2>2, AddEffect
  <2>4. \A i \in DOMAIN a : a[i] = a[1] + i - 1
    BY DEF Serial
  <2>5. a # <<>> => a[Len(a)] = k
    BY <2>0 DEF Serial
  <2> HIDE DEF a, k
  <2>6. ASSUME NEW i \in DOMAIN acks'[p]
        PROVE  acks'[p][i] = acks'[p][1] + i - 1
    <3>1. CASE a = <<>>
      BY <2>0, <2>1, <2>3, <3>1
    <3>2. CASE a # <<>>
      <4>1. Len(a) \in Nat \ {0} /\ DOMAIN a = 1 .. Len(a) /\ a[1] \in Nat
        BY <2>0, <3>2
      <4>2. acks'[p][1] = a[1]
        BY <2>0, <2>1, <2>3, <4>1
      <4>3. CASE i = Len(a) + 1
        <5>1. acks'[p][i] = k + 1
          BY <2>0, <2>1, <2>3, <4>3
        <5>2. k = a[1] + Len(a) - 1
          BY <2>4, <2>5, <3>2, <4>1
        <5> QED BY <2>3, <4>1, <4>2, <4>3, <5>1, <5>2
      <4>4. CASE i # Len(a) + 1
        <5>1. i \in DOMAIN a /\ acks'[p][i] = a[i]
          BY <2>0, <2>1, <2>3, <2>6, <4>1, <4>4
        <5> QED BY <2>4, <4>2, <5>1
      <4> QED BY <4>3, <4>4
    <3> QED BY <3>1, <3>2
  <2>7. acks'[p][Len(acks'[p])] = k + 1
    BY <2>0, <2>1, <2>3
  <2> QED BY <2>3, <2>6, <2>7 DEF Serial
<1>2. CASE acks'[p] \in {acks[p], <<>>} /\ (pc'[p] = "append" => acks'[p] = <<>>)
  BY <1>2 DEF Serial
<1> QED BY <1>1, <1>2, AckKinds

\* SerialInv is inductive, relative to the invariants behind it.
LEMMA NextSerial ==
    SyncInv /\ JustifiedInv /\ TypeInv /\ DeviceInv /\ RouteInv /\ PushInv /\ SerialInv /\ [Next]_vars
        => SerialInv'
<1> SUFFICES ASSUME SyncInv, JustifiedInv, TypeInv, DeviceInv, RouteInv, PushInv, SerialInv,
                    [Next]_vars
             PROVE  SerialInv'
  OBVIOUS
<1>1. ASSUME NEW p \in Proc, Start(p) \/ Step(p) \/ Abort(p)
      PROVE  SerialInv'
  <2>1. Alone'
    <3>1. Grows
      BY <1>1, IdTableKept
    <3> QED BY <1>1, <3>1, AloneKept DEF SerialInv
  <2>2. Serial(p)'
    BY <1>1, SerialKept DEF SerialInv, PushInv
  <2>3. ASSUME NEW q \in Proc \ {p}
        PROVE  Serial(q)'
    <3>1. SameLocals(q)
      BY <1>1, TypedDomains, StepIsLocal DEF Local
    <3>2. pc[q] = "append" => Length(Main)' = Length(Main)
      BY <1>1, OthersWait DEF SerialInv, PushInv, Length
    <3> QED BY <3>1, <3>2 DEF SerialInv, Serial, SameLocals
  <2> QED BY <2>1, <2>2, <2>3 DEF SerialInv
<1>2. CASE UNCHANGED vars
  BY <1>2 DEF vars, dbVars, localVars, SerialInv, Alone, Serial, Length
<1>3. ASSUME NEW p \in Proc, Deinit(p)
      PROVE  SerialInv'
  <2>1. SameTables(Main) /\ \A q \in Proc : SameLocals(q)
    BY <1>3, TypedDomains, DeinitSparesMain
  <2> QED BY <2>1 DEF SameTables, SameLocals, SerialInv, Alone, Serial, Length
<1> QED BY <1>1, <1>2, <1>3 DEF Next

\* Serial holds at the start, when Main is registered by then.
LEMMA InitSerial ==
    ASSUME Joined # <<>>, Init
    PROVE  SerialInv
<1>1. PICK i \in 1 .. Len(Joined) : Joined[i] = Main
  BY SyncAssumption
<1>2. devices[Main] = [j \in 1 .. Len(Joined) |-> Joined[j]]
  BY <1>1, SyncAssumption DEF Init
<1>3. Alone
  BY <1>1, <1>2 DEF Init, Alone, Registered
<1> QED BY <1>3 DEF Init, SerialInv, Serial

\* Once Main is registered, a push that reports success has published exactly
\* what it sent, in order and without foreign entries between, and its own node
\* has applied it, whatever the other processes do and however they end.
THEOREM PushTheorem ==
    ASSUME Joined # <<>>
    PROVE  Spec => []PushReported
<1>1. SyncInv /\ RouteInv /\ PushInv /\ SerialInv => PushReported
  <2> SUFFICES ASSUME SyncInv, RouteInv, PushInv, SerialInv, NEW p \in Proc, pc[p] = "report",
                      job[p].cmd = "push"
               PROVE  /\ Len(acks[p]) = Len(out[p])
                      /\ \A i \in DOMAIN acks[p] :
                           /\ acks[p][i] = acks[p][1] + i - 1
                           /\ acks[p][i] \in DOMAIN wal[At[p]]
                           /\ wal[At[p]][acks[p][i]]
                                = [out[p][i] EXCEPT !.version = wal[At[p]][acks[p][i]].version]
    BY DEF PushReported
  <2>1. Len(acks[p]) = Len(out[p])
    BY DEF PushInv, Pushed, Complete, Goal, Syncing, Done
  <2>2. \A i \in DOMAIN acks[p] : acks[p][i] = acks[p][1] + i - 1
    BY DEF SerialInv, Serial
  <2>3. ASSUME NEW i \in DOMAIN acks[p]
        PROVE  /\ acks[p][i] \in DOMAIN wal[At[p]]
               /\ wal[At[p]][acks[p][i]]
                    = [out[p][i] EXCEPT !.version = wal[At[p]][acks[p][i]].version]
    <3> DEFINE s == acks[p][i]
               n == At[p]
    <3>1. s \in DOMAIN wal[n]
      BY DEF PushInv, Pushed, Brought
    <3>2. wal[n][s] = wal[Main][s]
      <4>1. n \in Node
        BY SyncAssumption
      <4>2. DOMAIN wal[n] = 1 .. Length(n) /\ \A t \in 1 .. Length(n) : wal[n][t] = wal[Main][t]
        BY <4>1 DEF SyncInv, LogInv
      <4> HIDE DEF n, s
      <4> QED BY <3>1, <4>2
    <3>3. StoredAs(out[p][i], wal[Main][s]) /\ i \in DOMAIN out[p]
      BY DEF PushInv, Pushed, Published
    <3>4. out[p][i].op = "FileUpdate"
      BY <3>3 DEF RouteInv, Routed, Follows, Pushes, Goal, Syncing, Cleans
    <3> QED BY <3>1, <3>2, <3>3, <3>4 DEF StoredAs, IsFileEntry
  <2> QED BY <2>1, <2>2, <2>3
<1>2. Spec => []SerialInv
  BY InitSerial, NextSerial, SyncInvariance, JustifiedInvariance, TypeInvariance, DeviceInvariance,
     RouteInvariance, PushInvariance, PTL DEF Spec
<1> QED BY <1>1, <1>2, SyncInvariance, RouteInvariance, PushInvariance, PTL
===============================================================================
