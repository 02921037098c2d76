----------------------------- MODULE PearSyncTypes -----------------------------
(***************************************************************************)
(* Type correctness of PearSync, for any values of its constants.          *)
(***************************************************************************)
EXTENDS PearSyncProofs, FiniteSetTheorems

-----------------------------------------------------------------------------
(* The operators of PearDatabase on tables of the right type               *)

\* Deleting rows keeps a table's type (DELETE, SELECT ... WHERE).
LEMMA RestrictTyped ==
    ASSUME NEW K, NEW V, NEW t, IsTable(t, K, V), NEW S, S \subseteq DOMAIN t
    PROVE  IsTable(Restrict(t, S), K, V)
BY DEF IsTable, Restrict

\* So does inserting rows of the right type.
LEMMA InsertTyped ==
    ASSUME NEW K, NEW V, NEW t, IsTable(t, K, V), NEW u, IsTable(u, K, V)
    PROVE  IsTable(InsertOrIgnore(t, u), K, V)
<1> DEFINE new == InsertOrIgnore(t, u)
<1>1. /\ DOMAIN new = DOMAIN t \cup DOMAIN u
      /\ new = [k \in DOMAIN new |-> new[k]]
      /\ \A k \in DOMAIN new : new[k] = IF k \in DOMAIN t THEN t[k] ELSE u[k]
  BY DEF InsertOrIgnore
<1>2. \A k \in DOMAIN new : new[k] \in V
  BY <1>1 DEF IsTable
<1>3. DOMAIN new \subseteq K
  BY <1>1 DEF IsTable
<1> QED BY <1>1, <1>2, <1>3 DEF IsTable

\* One row of the right type.
LEMMA SingleTyped ==
    ASSUME NEW K, NEW V, NEW k \in K, NEW v \in V
    PROVE  IsTable(Single(k, v), K, V)
BY DEF IsTable, Single

\* Rows that a batch of stored entries writes.
LEMMA WrittenTyped ==
    ASSUME NEW b, IsLog(b), NEW m \in Nat, DOMAIN b \subseteq 0 .. m
    PROVE  IsTable(WrittenRows(b), Path \X (Nat \ {0}), Row)
<1> DEFINE W == WrittenRows(b)
<1>1. \A s \in DOMAIN b : b[s] \in StoredEntry
  BY DEF IsLog, IsTable
<1>2. \A e \in StoredEntry : IsFileEntry(e) =>
         e.path \in Path /\ e.version \in Nat \ {0} /\ RowOf(e) \in Row
  BY DEF StoredEntry, Entry, IsFileEntry, RowOf, Row
<1>3. DOMAIN W \subseteq Path \X (Nat \ {0}) /\ W = [k \in DOMAIN W |-> W[k]]
  BY <1>1, <1>2 DEF WrittenRows
<1>4. ASSUME NEW k \in DOMAIN W
      PROVE  W[k] \in Row
  <2>1. PICK r \in DOMAIN b : IsFileEntry(b[r]) /\ k = <<b[r].path, b[r].version>>
    BY <1>4 DEF WrittenRows
  <2> DEFINE S == FileWrites(b, k[1], k[2])
  <2>2. r \in S
    BY <2>1 DEF FileWrites
  <2>3. S \subseteq 0 .. m /\ S # {}
    BY <2>2 DEF FileWrites
  <2>4. Max(S) \in S
    BY <2>3, MaxOfBounded
  <2>5. W[k] = RowOf(b[Max(S)])
    BY <1>4 DEF WrittenRows
  <2>6. Max(S) \in DOMAIN b /\ IsFileEntry(b[Max(S)])
    BY <2>4 DEF FileWrites
  <2> QED BY <1>1, <1>2, <2>5, <2>6
<1> QED BY <1>3, <1>4 DEF IsTable

\* The owners a batch of stored entries leaves.
LEMMA OwnersTyped ==
    ASSUME NEW b, IsLog(b), NEW o, o \subseteq Hash \X Nat
    PROVE  ApplyToOwners(o, b) \subseteq Hash \X Nat
<1>1. \A s \in DOMAIN b : b[s] \in Entry
  BY DEF IsLog, IsTable, StoredEntry
<1>2. \A e \in Entry : e.op \in {"FileUpdate", "OwnerUpdate"} => e.hash \in Hash /\ e.owner \in Nat
  BY DEF Entry
<1>3. AddedOwners(b) \subseteq Hash \X Nat
  BY <1>1, <1>2 DEF AddedOwners
<1> QED BY <1>3 DEF ApplyToOwners

\* The devices after a batch: those before and those its entries name.
LEMMA DevicesTyped ==
    ASSUME NEW b, IsLog(b), NEW m \in Nat, DOMAIN b \subseteq 0 .. m,
           NEW t, IsTable(t, DeviceId, Node)
    PROVE  /\ IsTable(ApplyToDevices(t, b), DeviceId, Node)
           /\ \A d \in DOMAIN ApplyToDevices(t, b) :
                 \/ d \in DOMAIN t
                 \/ \E s \in DOMAIN b : b[s].op = "DeviceUpdate" /\ b[s].device = d
<1> DEFINE ids == {b[s].device : s \in {r \in DOMAIN b : b[r].op = "DeviceUpdate"}}
           U == [d \in ids |-> b[Max(DeviceWrites(b, d))].address]
<1>1. \A s \in DOMAIN b : b[s] \in Entry
  BY DEF IsLog, IsTable, StoredEntry
<1>2. \A e \in Entry : e.op = "DeviceUpdate" => e.device \in DeviceId /\ e.address \in Node
  BY DEF Entry
<1>3. ids \subseteq DeviceId
  BY <1>1, <1>2
<1>4. ASSUME NEW d \in ids
      PROVE  U[d] \in Node
  <2> DEFINE S == DeviceWrites(b, d)
  <2>1. S \subseteq 0 .. m /\ S # {}
    BY <1>4 DEF DeviceWrites
  <2>2. Max(S) \in S
    BY <2>1, MaxOfBounded
  <2>3. Max(S) \in DOMAIN b /\ b[Max(S)].op = "DeviceUpdate"
    BY <2>2 DEF DeviceWrites
  <2> QED BY <1>1, <1>2, <2>3
<1>5. IsTable(U, DeviceId, Node)
  BY <1>3, <1>4 DEF IsTable
<1>6. ApplyToDevices(t, b) = InsertOrIgnore(U, t)
  BY DEF ApplyToDevices, InsertOrReplace
<1>7. DOMAIN ApplyToDevices(t, b) = ids \cup DOMAIN t
  BY <1>6 DEF InsertOrIgnore
<1> QED BY <1>5, <1>6, <1>7, InsertTyped

\* The file rows after a batch.
LEMMA FilesTyped ==
    ASSUME NEW b, IsLog(b), NEW m \in Nat, DOMAIN b \subseteq 0 .. m,
           NEW f, IsTable(f, Path \X (Nat \ {0}), Row)
    PROVE  IsTable(ApplyToFiles(f, b), Path \X (Nat \ {0}), Row)
BY WrittenTyped, InsertTyped DEF ApplyToFiles, InsertOrReplace

\* The owners that ensure_schema derives from file rows.
LEMMA BackfillTyped ==
    ASSUME NEW f, IsTable(f, Path \X (Nat \ {0}), Row), NEW o, o \subseteq Hash \X Nat
    PROVE  Backfill(f, o) \subseteq Hash \X Nat
BY DEF Backfill, IsTable, Row

\* The version an entry is given exists, because versions are bounded.
LEMMA VersionedTyped ==
    ASSUME NEW f, IsTable(f, Path \X (Nat \ {0}), Row),
           NEW m \in Nat, \A k \in DOMAIN f : k[2] <= m, NEW e \in Entry
    PROVE  Versioned(f, e) \in StoredEntry
<1>1. ASSUME NEW p
      PROVE  NextVersion(f, p) \in Nat \ {0}
  <2>1. Versions(f, p) \subseteq 0 .. m
    BY DEF Versions, IsTable
  <2>2. CASE Versions(f, p) = {}
    BY <2>2 DEF NextVersion
  <2>3. CASE Versions(f, p) # {}
    <3>1. Max(Versions(f, p)) \in Nat
      BY <2>1, <2>3, MaxOfBounded
    <3> QED BY <2>3, <3>1 DEF NextVersion
  <2> QED BY <2>2, <2>3
<1>2. CASE IsFileEntry(e)
  <2> DEFINE v == NextVersion(f, e.path)
  <2>1. v \in Nat \ {0}
    BY <1>1
  <2>2. [e EXCEPT !.version = v] \in Entry
    BY <1>2, <2>1 DEF Entry, IsFileEntry
  <2>3. [e EXCEPT !.version = v].version = v
    BY <1>2 DEF Entry, IsFileEntry
  <2> QED BY <1>2, <2>1, <2>2, <2>3 DEF Versioned, StoredEntry
<1>3. CASE ~IsFileEntry(e)
  BY <1>3 DEF Versioned, StoredEntry
<1> QED BY <1>2, <1>3

\* What a query of a path finds.
LEMMA CurrentHashTyped ==
    ASSUME NEW f, IsTable(f, Path \X (Nat \ {0}), Row),
           NEW m \in Nat, \A k \in DOMAIN f : k[2] <= m, NEW p
    PROVE  CurrentHash(f, p) \in Hash \cup {None}
<1>1. CASE Versions(f, p) = {}
  BY <1>1 DEF CurrentHash
<1>2. CASE Versions(f, p) # {}
  <2>1. Versions(f, p) \subseteq 0 .. m
    BY DEF Versions, IsTable
  <2>2. Max(Versions(f, p)) \in Versions(f, p)
    BY <1>2, <2>1, MaxOfBounded
  <2>3. <<p, Max(Versions(f, p))>> \in DOMAIN f
    BY <2>2 DEF Versions
  <2> QED BY <1>2, <2>3 DEF CurrentHash, IsTable, Row
<1> QED BY <1>1, <1>2

\* An order of a finite set is a sequence of its elements.
LEMMA OrdersTyped ==
    ASSUME NEW S, IsFiniteSet(S), NEW order \in Orders(S)
    PROVE  /\ Cardinality(S) \in Nat
           /\ order \in [1 .. Cardinality(S) -> S]
           /\ S # {} => Cardinality(S) > 0
BY FS_CardinalityType, FS_EmptySet DEF Orders, Injection

-----------------------------------------------------------------------------
(* The invariant                                                           *)

DbTypes ==
    /\ DOMAIN wal = Node /\ \A n \in Node : IsLog(wal[n])
    /\ DOMAIN files = Node /\ \A n \in Node : IsTable(files[n], Path \X (Nat \ {0}), Row)
    /\ owners \in [Node -> SUBSET (Hash \X Nat)]
    /\ DOMAIN devices = Node /\ \A n \in Node : IsTable(devices[n], DeviceId, Node)
NodeTypes ==
    /\ DOMAIN staging = Node /\ \A n \in Node : IsTable(staging[n], Path, Hash)
    /\ objects \in [Node -> SUBSET Hash]
    /\ deviceId \in [Node -> Nat]
    /\ serving \subseteq Node
    /\ lost \subseteq Hash \X DeviceId
ControlTypes ==
    /\ pc \in [Proc -> Label]
    /\ job \in [Proc -> Job]
    /\ out \in [Proc -> Seq(Entry)]
    /\ acks \in [Proc -> Seq(Nat)]
DataTypes ==
    /\ mutex \in Proc \cup {None}
    /\ last \in [Proc -> Nat]
    /\ DOMAIN batch = Proc /\ \A p \in Proc : IsLog(batch[p])
    /\ garbage \in [Proc -> SUBSET Hash]

\* Where a command is limits what its locals can be: a device is logged under its
\* id, an order is pushed only while entries are left, and a sync returns to where
\* the next step finds what it needs.
Working == Label \ {"idle", "register", "stage"}
Syncing == {"read", "request", "apply"}
Fresh == {"idle", "prepare", "collect", "select", "clean", "scan"}
Returns == {"configure", "report", "prepare", "open", "select", "clean", "fetch", "delete"}
Fits(l, j, o, a) ==
    /\ l = "registerLog" => j.me \in DeviceId
    /\ l = "stage" => j.hash \in Hash
    /\ l \in {"register", "registerLog"} => j.next = "configure"
    /\ l \in Syncing => j.next \in Returns
    /\ l = "settle" => j.next = "report"
    /\ l \in {"lock", "append"} => Len(a) < Len(o)
    /\ l \in Fresh \/ (l \in Syncing /\ j.next \in Fresh) => a = <<>>
Control == ControlTypes /\ \A p \in Proc : Fits(pc[p], job[p], out[p], acks[p])

\* Versions and device ids are bounded, so that the next one exists.
Bound(b) ==
    /\ \A s \in DOMAIN wal[Main] :
         /\ IsFileEntry(wal[Main][s]) => wal[Main][s].version <= b
         /\ wal[Main][s].op = "DeviceUpdate" => wal[Main][s].device <= b
    /\ \A d \in DOMAIN devices[Main] : d <= b
Bounded == \E b \in Nat : Bound(b)

TypeInv == DbTypes /\ NodeTypes /\ Control /\ DataTypes /\ Bounded

\* The invariant contains the type invariant that TLC checks.
LEMMA TypeInvImpliesTypeOK == TypeInv => TypeOK
BY DEF TypeInv, TypeOK, DbTypes, NodeTypes, Control, ControlTypes, DataTypes

\* The rows of every node have the versions of entries of Main's log.
LEMMA RowsBounded ==
    ASSUME SyncInv, JustifiedInv, NEW b \in Nat, Bound(b), NEW n \in Node
    PROVE  \A k \in DOMAIN files[n] : k[2] <= b
<1> SUFFICES ASSUME NEW k \in DOMAIN files[n] PROVE k[2] <= b
  OBVIOUS
<1>1. PICK s \in DOMAIN wal[n] : IsFileEntry(wal[n][s]) /\ k = <<wal[n][s].path, wal[n][s].version>>
  BY DEF JustifiedInv, Justified, RowFrom
<1>2. Main \in Node
  BY SyncAssumption
<1>3. /\ Length(n) \in Nat /\ DOMAIN wal[n] = 1 .. Length(n)
      /\ Length(Main) \in Nat /\ DOMAIN wal[Main] = 1 .. Length(Main)
      /\ Length(n) <= Length(Main)
      /\ \A r \in 1 .. Length(n) : wal[n][r] = wal[Main][r]
  BY <1>2 DEF SyncInv, LogInv
<1>4. s \in DOMAIN wal[Main] /\ wal[n][s] = wal[Main][s]
  BY <1>3
<1> QED BY <1>1, <1>4 DEF Bound

\* A bound can always be raised.
LEMMA BoundGrows ==
    ASSUME DbTypes, NEW b \in Nat, Bound(b), NEW c \in Nat
    PROVE  Bound(b + c)
<1>0. Main \in Node
  BY SyncAssumption
<1>1. ASSUME NEW s \in DOMAIN wal[Main]
      PROVE  /\ IsFileEntry(wal[Main][s]) => wal[Main][s].version <= b + c
             /\ wal[Main][s].op = "DeviceUpdate" => wal[Main][s].device <= b + c
  <2> DEFINE x == wal[Main][s]
  <2>1. x \in StoredEntry
    BY <1>0 DEF DbTypes, IsLog, IsTable
  <2>2. /\ IsFileEntry(x) => x.version <= b /\ x.version \in Nat
        /\ x.op = "DeviceUpdate" => x.device <= b /\ x.device \in Nat
    BY <2>1 DEF Bound, StoredEntry, Entry, IsFileEntry, DeviceId
  <2> HIDE DEF x
  <2>3. /\ IsFileEntry(x) => x.version <= b + c
        /\ x.op = "DeviceUpdate" => x.device <= b + c
    BY <2>2
  <2> QED BY <2>3 DEF x
<1>2. ASSUME NEW d \in DOMAIN devices[Main]
      PROVE  d <= b + c
  <2>1. d \in Nat /\ d <= b
    BY <1>0 DEF Bound, DbTypes, IsTable, DeviceId
  <2> QED BY <2>1
<1> QED BY <1>1, <1>2 DEF Bound

-----------------------------------------------------------------------------
(* Initially                                                               *)

\* It holds initially.
LEMMA InitTypes == Init => TypeInv
<1> SUFFICES ASSUME Init PROVE TypeInv
  OBVIOUS
<1> DEFINE k == Len(Joined)
           members == {Joined[i] : i \in 1 .. k}
<1>0. /\ k \in Nat /\ Main \in Node /\ At \in [Proc -> Node]
      /\ \A i \in 1 .. k : Joined[i] \in Node
  BY SyncAssumption
<1>1. IsTable(Empty, Nat \ {0}, StoredEntry) /\ IsTable(Empty, Path \X (Nat \ {0}), Row)
      /\ IsTable(Empty, DeviceId, Node) /\ IsTable(Empty, Path, Hash)
  BY DEF IsTable, Empty
<1>2. IsTable([i \in 1 .. k |-> DeviceUpdate(i, Joined[i])], Nat \ {0}, StoredEntry)
  <2>1. \A i \in 1 .. k : DeviceUpdate(i, Joined[i]) \in StoredEntry
    BY <1>0 DEF DeviceUpdate, StoredEntry, Entry, IsFileEntry, DeviceId
  <2> QED BY <1>0, <2>1 DEF IsTable
<1>3. IsTable([i \in 1 .. k |-> Joined[i]], DeviceId, Node)
  BY <1>0 DEF IsTable, DeviceId
<1>4. DbTypes
  BY <1>1, <1>2, <1>3 DEF Init, DbTypes, IsLog
<1>5. NodeTypes
  <2>1. \A n \in members : (CHOOSE i \in 1 .. k : Joined[i] = n) \in Nat
    BY <1>0
  <2>2. deviceId \in [Node -> Nat]
    BY <2>1 DEF Init
  <2>3. serving \subseteq Node
    BY <1>0 DEF Init
  <2>4. objects \in [Node -> SUBSET Hash]
    BY DEF Init
  <2>5. DOMAIN staging = Node /\ \A n \in Node : IsTable(staging[n], Path, Hash)
    BY <1>1 DEF Init
  <2>6. lost \subseteq Hash \X DeviceId
    BY DEF Init
  <2> QED BY <2>2, <2>3, <2>4, <2>5, <2>6 DEF NodeTypes
<1>6. Control
  <2>1. NoJob \in Job
    BY DEF NoJob, Job, Label
  <2>2. ControlTypes
    BY <2>1 DEF Init, ControlTypes, Label
  <2>3. \A p \in Proc : Fits(pc[p], job[p], out[p], acks[p])
    BY DEF Init, Fits, Working, Syncing, Fresh
  <2> QED BY <2>2, <2>3 DEF Control
<1>7. DataTypes
  BY <1>1 DEF Init, DataTypes, IsLog
<1>8. Bounded
  <2>1. \A s \in DOMAIN wal[Main] : wal[Main][s].op = "DeviceUpdate" /\ wal[Main][s].device <= k
    BY <1>0 DEF Init, DeviceUpdate, Empty
  <2>2. \A d \in DOMAIN devices[Main] : d <= k
    BY <1>0 DEF Init, Empty
  <2> QED BY <1>0, <2>1, <2>2 DEF Bounded, Bound, IsFileEntry
<1> QED BY <1>4, <1>5, <1>6, <1>7, <1>8 DEF TypeInv

-----------------------------------------------------------------------------
(* The control of a command                                                *)

Moves(p, l, j, o, a) ==
    /\ pc' = [pc EXCEPT ![p] = l]
    /\ job' = [job EXCEPT ![p] = j]
    /\ out' = [out EXCEPT ![p] = o]
    /\ acks' = [acks EXCEPT ![p] = a]

\* A step that gives p a label and locals that fit keeps the control sound.
LEMMA MoveKeepsControl ==
    ASSUME Control, NEW p \in Proc, NEW l \in Label, NEW j \in Job,
           NEW o \in Seq(Entry), NEW a \in Seq(Nat),
           Moves(p, l, j, o, a), Fits(l, j, o, a)
    PROVE  Control'
<1>1. ControlTypes'
  BY DEF Control, ControlTypes, Moves
<1>2. ASSUME NEW q \in Proc
      PROVE  Fits(pc'[q], job'[q], out'[q], acks'[q])
  <2>1. CASE q = p
    BY <2>1 DEF Control, ControlTypes, Moves
  <2>2. CASE q # p
    <3>1. pc'[q] = pc[q] /\ job'[q] = job[q] /\ out'[q] = out[q] /\ acks'[q] = acks[q]
      BY <2>2 DEF Control, ControlTypes, Moves
    <3> QED BY <3>1 DEF Control
  <2> QED BY <2>1, <2>2
<1> QED BY <1>1, <1>2 DEF Control

\* A command that ends becomes idle, with empty locals.
LEMMA FinishKeepsControl ==
    ASSUME Control, NEW p \in Proc, Finish(p)
    PROVE  Control'
<1>1. Moves(p, "idle", NoJob, <<>>, <<>>)
  BY DEF Moves, Finish, Goto
<1>2. NoJob \in Job /\ "idle" \in Label
  BY DEF NoJob, Job, Label
<1>3. Fits("idle", NoJob, <<>>, <<>>)
  BY DEF Fits, Working, Syncing, Fresh
<1>4. <<>> \in Seq(Entry) /\ <<>> \in Seq(Nat)
  OBVIOUS
<1> QED BY <1>1, <1>2, <1>3, <1>4, MoveKeepsControl

\* A pull that goes on has dropped what it was about to push.
LEMMA GoOnKeepsControl ==
    ASSUME Control, NEW p \in Proc, GoOn(p)
    PROVE  Control'
<1>1. Moves(p, "fetch", job[p], <<>>, <<>>)
  BY DEF Moves, GoOn, Goto, Control, ControlTypes
<1>2. job[p] \in Job /\ "fetch" \in Label
  BY DEF Control, ControlTypes, Label
<1>3. Fits("fetch", job[p], <<>>, <<>>)
  BY DEF Fits, Syncing, Fresh
<1>4. <<>> \in Seq(Entry) /\ <<>> \in Seq(Nat)
  OBVIOUS
<1> QED BY <1>1, <1>2, <1>3, <1>4, MoveKeepsControl

\* A step that only moves p on within its command.
LEMMA GotoKeepsControl ==
    ASSUME Control, NEW p \in Proc, NEW l \in Label, Goto(p, l),
           UNCHANGED <<job, out, acks>>, Fits(l, job[p], out[p], acks[p])
    PROVE  Control'
<1>1. Moves(p, l, job[p], out[p], acks[p])
  BY DEF Moves, Goto, Control, ControlTypes
<1>2. job[p] \in Job /\ out[p] \in Seq(Entry) /\ acks[p] \in Seq(Nat)
  BY DEF Control, ControlTypes
<1> QED BY <1>1, <1>2, MoveKeepsControl

\* A step that moves nobody keeps the control sound.
LEMMA StillControl ==
    ASSUME Control, UNCHANGED <<pc, job, out, acks>>
    PROVE  Control'
BY DEF Control, ControlTypes, Fits

\* Finishing a command leaves its data empty.
LEMMA FinishKeepsData ==
    ASSUME DataTypes, NEW p \in Proc, Finish(p)
    PROVE  DataTypes'
<1>1. IsLog(Empty)
  BY DEF IsLog, IsTable, Empty
<1>2. batch' = [batch EXCEPT ![p] = Empty]
  BY DEF Finish
<1>3. DOMAIN batch' = Proc /\ \A q \in Proc : IsLog(batch'[q])
  BY <1>1, <1>2 DEF DataTypes
<1>4. /\ mutex' \in Proc \cup {None}
      /\ last' \in [Proc -> Nat]
      /\ garbage' \in [Proc -> SUBSET Hash]
  BY DEF Finish, DataTypes
<1> QED BY <1>3, <1>4 DEF DataTypes

\* So does a pull that goes on, as far as the sync is concerned.
LEMMA GoOnKeepsData ==
    ASSUME DataTypes, NEW p \in Proc, GoOn(p)
    PROVE  DataTypes'
<1>1. IsLog(Empty)
  BY DEF IsLog, IsTable, Empty
<1>2. batch' = [batch EXCEPT ![p] = Empty]
  BY DEF GoOn
<1>3. DOMAIN batch' = Proc /\ \A q \in Proc : IsLog(batch'[q])
  BY <1>1, <1>2 DEF DataTypes
<1>4. /\ mutex' \in Proc \cup {None}
      /\ last' \in [Proc -> Nat]
      /\ garbage' \in [Proc -> SUBSET Hash]
  BY DEF GoOn, DataTypes
<1> QED BY <1>3, <1>4 DEF DataTypes

-----------------------------------------------------------------------------
(* The databases                                                           *)

\* A step that leaves the databases alone keeps their types and bounds.
LEMMA StillDb ==
    ASSUME DbTypes, Bounded, UNCHANGED dbVars
    PROVE  DbTypes' /\ Bounded'
BY DEF DbTypes, Bounded, Bound, dbVars

\* So does opening a database ...
LEMMA OpenDb ==
    ASSUME DbTypes, Bounded, NEW n \in Node, OpenDatabase(n), UNCHANGED <<wal, files, devices>>
    PROVE  DbTypes' /\ Bounded'
<1>1. owners' = [owners EXCEPT ![n] = Backfill(files[n], owners[n])]
  BY DEF OpenDatabase
<1>2. IsTable(files[n], Path \X (Nat \ {0}), Row) /\ owners[n] \subseteq Hash \X Nat
  BY DEF DbTypes
<1>3. Backfill(files[n], owners[n]) \subseteq Hash \X Nat
  BY <1>2, BackfillTyped
<1>4. owners' \in [Node -> SUBSET (Hash \X Nat)]
  BY <1>1, <1>3 DEF DbTypes
<1>5. Bounded'
  BY DEF Bounded, Bound
<1> QED BY <1>4, <1>5 DEF DbTypes

\* ... and cleanOldVersions.
LEMMA CleanDb ==
    ASSUME DbTypes, Bounded, NEW p \in Proc, CleanupRows(p)
    PROVE  DbTypes' /\ Bounded'
<1> DEFINE n == At[p]
<1>0. n \in Node /\ OpenDatabase(n) /\ wal' = wal /\ devices' = devices
  BY SyncAssumption DEF CleanupRows
<1>1. CASE UNCHANGED files
  BY <1>0, <1>1, OpenDb
<1>2. CASE files' = [files EXCEPT ![n] = CleanOldVersions(@, job[p].paths, job[p].keep)]
  <2>1. owners' \in [Node -> SUBSET (Hash \X Nat)]
    <3>1. Backfill(files[n], owners[n]) \subseteq Hash \X Nat
      BY <1>0, BackfillTyped DEF DbTypes
    <3> QED BY <1>0, <3>1 DEF DbTypes, OpenDatabase
  <2>2. IsTable(CleanOldVersions(files[n], job[p].paths, job[p].keep),
                Path \X (Nat \ {0}), Row)
    BY <1>0, RestrictTyped DEF DbTypes, CleanOldVersions
  <2>3. DOMAIN files' = Node /\ \A m \in Node : IsTable(files'[m], Path \X (Nat \ {0}), Row)
    BY <1>2, <2>2 DEF DbTypes
  <2>4. Bounded'
    BY <1>0 DEF Bounded, Bound
  <2> QED BY <1>0, <2>1, <2>3, <2>4 DEF DbTypes
<1> QED BY <1>1, <1>2 DEF CleanupRows

\* What a batch of stored entries does to the tables of a node.
LEMMA ApplyTypes ==
    ASSUME DbTypes, NEW n \in Node, NEW b, IsLog(b), NEW m \in Nat, DOMAIN b \subseteq 0 .. m,
           wal' = [wal EXCEPT ![n] = InsertOrIgnore(wal[n], b)],
           files' = [files EXCEPT ![n] = ApplyToFiles(files[n], b)],
           owners' = [owners EXCEPT ![n] = ApplyToOwners(owners[n], b)],
           devices' = [devices EXCEPT ![n] = ApplyToDevices(devices[n], b)]
    PROVE  DbTypes'
<1>1. /\ IsLog(wal[n]) /\ IsTable(files[n], Path \X (Nat \ {0}), Row)
      /\ owners[n] \subseteq Hash \X Nat /\ IsTable(devices[n], DeviceId, Node)
  BY DEF DbTypes
<1>2. IsLog(InsertOrIgnore(wal[n], b))
  BY <1>1, InsertTyped DEF IsLog
<1>3. IsTable(ApplyToFiles(files[n], b), Path \X (Nat \ {0}), Row)
  BY <1>1, FilesTyped
<1>4. ApplyToOwners(owners[n], b) \subseteq Hash \X Nat
  BY <1>1, OwnersTyped
<1>5. IsTable(ApplyToDevices(devices[n], b), DeviceId, Node)
  BY <1>1, DevicesTyped
<1>6. DOMAIN wal' = Node /\ \A k \in Node : IsLog(wal'[k])
  BY <1>2 DEF DbTypes
<1>7. DOMAIN files' = Node /\ \A k \in Node : IsTable(files'[k], Path \X (Nat \ {0}), Row)
  BY <1>3 DEF DbTypes
<1>8. owners' \in [Node -> SUBSET (Hash \X Nat)]
  BY <1>4 DEF DbTypes
<1>9. DOMAIN devices' = Node /\ \A k \in Node : IsTable(devices'[k], DeviceId, Node)
  BY <1>5 DEF DbTypes
<1> QED BY <1>6, <1>7, <1>8, <1>9 DEF DbTypes

\* addWalEntry on Main keeps the types, and one more version or device bounded.
LEMMA AddDb ==
    ASSUME SyncInv, JustifiedInv, DbTypes, Bounded, NEW e \in Entry, AddWalEntry(e)
    PROVE  DbTypes' /\ Bounded'
<1> DEFINE k == Length(Main)
           v == Versioned(files[Main], e)
           new == Single(k + 1, v)
<1>0. /\ Main \in Node /\ k \in Nat /\ DOMAIN wal[Main] = 1 .. k
      /\ IsTable(files[Main], Path \X (Nat \ {0}), Row)
      /\ IsTable(devices[Main], DeviceId, Node)
  BY SyncAssumption DEF SyncInv, LogInv, DbTypes
<1>1. PICK b \in Nat : Bound(b)
  BY DEF Bounded
<1>2. \A x \in DOMAIN files[Main] : x[2] <= b
  BY <1>0, <1>1, RowsBounded
<1>3. v \in StoredEntry
  BY <1>0, <1>1, <1>2, VersionedTyped
<1>4. /\ wal' = [wal EXCEPT ![Main] = InsertOrIgnore(wal[Main], new)]
      /\ files' = [files EXCEPT ![Main] = ApplyToFiles(files[Main], new)]
      /\ owners' = [owners EXCEPT ![Main] = ApplyToOwners(owners[Main], new)]
      /\ devices' = [devices EXCEPT ![Main] = ApplyToDevices(devices[Main], new)]
  BY DEF AddWalEntry, Length
<1>5. IsLog(new)
  BY <1>0, <1>3, SingleTyped DEF IsLog
<1>6. DOMAIN new = {k + 1} /\ new[k + 1] = v /\ k + 1 \in Nat
  BY <1>0 DEF Single
<1>7. DOMAIN new \subseteq 0 .. (k + 1)
  BY <1>0, <1>6
<1>8. /\ wal'[Main] = InsertOrIgnore(wal[Main], new)
      /\ devices'[Main] = ApplyToDevices(devices[Main], new)
  BY <1>0, <1>4 DEF DbTypes
<1>9. /\ DOMAIN wal'[Main] = 1 .. (k + 1)
      /\ \A s \in 1 .. k : wal'[Main][s] = wal[Main][s]
      /\ wal'[Main][k + 1] = v
  BY <1>0, <1>8, InsertAtEnd
<1>10. \A d \in DOMAIN devices'[Main] :
          d \in DOMAIN devices[Main] \/ (v.op = "DeviceUpdate" /\ v.device = d)
  <2> HIDE DEF new
  <2> QED BY <1>0, <1>5, <1>6, <1>7, <1>8, DevicesTyped
<1>11. DbTypes'
  <2> HIDE DEF new, k
  <2> QED BY <1>0, <1>4, <1>5, <1>6, <1>7, ApplyTypes
<1>12. Bounded'
  <2> DEFINE c == IF IsFileEntry(v) THEN v.version
                  ELSE IF v.op = "DeviceUpdate" THEN v.device ELSE 0
  <2>1. c \in Nat
    BY <1>3 DEF StoredEntry, Entry, IsFileEntry, DeviceId
  <2>0. Bound(b + c)
    <3> HIDE DEF c
    <3> QED BY <1>1, <2>1, BoundGrows
  <2>2. IsFileEntry(v) => v.version <= b + c
    BY <1>1, <2>1
  <2>3. v.op = "DeviceUpdate" => v.device <= b + c
    BY <1>1, <2>1 DEF IsFileEntry
  <2>4. ASSUME NEW s \in DOMAIN wal'[Main]
        PROVE  /\ IsFileEntry(wal'[Main][s]) => wal'[Main][s].version <= b + c
               /\ wal'[Main][s].op = "DeviceUpdate" => wal'[Main][s].device <= b + c
    <3>1. CASE s = k + 1
      BY <1>9, <2>2, <2>3, <3>1
    <3>2. CASE s # k + 1
      <4>1. s \in DOMAIN wal[Main] /\ wal'[Main][s] = wal[Main][s]
        BY <1>0, <1>9, <2>4, <3>2
      <4> HIDE DEF c
      <4> QED BY <2>0, <4>1 DEF Bound
    <3> QED BY <3>1, <3>2
  <2>5. ASSUME NEW d \in DOMAIN devices'[Main]
        PROVE  d <= b + c
    <3>1. CASE d \in DOMAIN devices[Main]
      <4> HIDE DEF c
      <4> QED BY <2>0, <3>1 DEF Bound
    <3> QED BY <1>10, <2>3, <2>5, <3>1
  <2>6. b + c \in Nat
    BY <1>1, <2>1
  <2> HIDE DEF c
  <2> QED BY <2>4, <2>5, <2>6 DEF Bounded, Bound
<1> QED BY <1>11, <1>12

\* applyWalEntries keeps the types; its devices are those of Main's log.
LEMMA SyncDb ==
    ASSUME SyncInv, DbTypes, DataTypes, Bounded, NEW p \in Proc, SyncApply(p)
    PROVE  DbTypes' /\ Bounded'
<1> DEFINE n == At[p]
           b == batch[p]
<1>0. n \in Node /\ Main \in Node /\ IsLog(b)
  BY SyncAssumption DEF DataTypes
<1>1. PICK to \in 0 .. Length(Main) : Stretch(b, last[p], to)
  BY DEF SyncInv, BatchInv, SyncApply
<1>2. Length(Main) \in Nat /\ DOMAIN wal[Main] = 1 .. Length(Main)
  BY <1>0 DEF SyncInv, LogInv
<1>3. DOMAIN b \subseteq 0 .. Length(Main)
  BY <1>1, <1>2 DEF Stretch
<1>4. \A s \in DOMAIN b : s \in DOMAIN wal[Main] /\ b[s] = wal[Main][s]
  BY <1>1, <1>2 DEF Stretch
<1>5. /\ wal' = [wal EXCEPT ![n] = InsertOrIgnore(wal[n], b)]
      /\ files' = [files EXCEPT ![n] = ApplyToFiles(files[n], b)]
      /\ owners' = [owners EXCEPT ![n] = ApplyToOwners(owners[n], b)]
      /\ devices' = [devices EXCEPT ![n] = ApplyToDevices(devices[n], b)]
  BY DEF SyncApply, ApplyWalEntries
<1>6. DbTypes'
  <2> HIDE DEF n, b
  <2> QED BY <1>0, <1>2, <1>3, <1>5, ApplyTypes
<1>7. wal'[Main] = wal[Main]
  BY ApplyEffect
<1>8. PICK c \in Nat : Bound(c)
  BY DEF Bounded
<1>9. \A d \in DOMAIN devices'[Main] : d <= c
  <2>1. CASE n # Main
    BY <1>0, <1>5, <1>8, <2>1 DEF DbTypes, Bound
  <2>2. CASE n = Main
    <3>1. devices'[Main] = ApplyToDevices(devices[Main], b)
      BY <1>0, <1>5, <2>2 DEF DbTypes
    <3>2. IsTable(devices[Main], DeviceId, Node)
      BY <1>0 DEF DbTypes
    <3>3. \A d \in DOMAIN devices'[Main] :
             \/ d \in DOMAIN devices[Main]
             \/ \E s \in DOMAIN b : b[s].op = "DeviceUpdate" /\ b[s].device = d
      <4> HIDE DEF b
      <4> QED BY <1>0, <1>2, <1>3, <3>1, <3>2, DevicesTyped
    <3> QED BY <1>4, <1>8, <3>3 DEF Bound
  <2> QED BY <2>1, <2>2
<1>10. Bound(c)'
  BY <1>7, <1>8, <1>9 DEF Bound
<1> QED BY <1>6, <1>8, <1>10 DEF Bounded

\* The id of a device, found or new.
LEMMA RegisterDb ==
    ASSUME DbTypes, Bounded, NEW p \in Proc, Register(p)
    PROVE  /\ DbTypes' /\ Bounded'
           /\ \E id \in DeviceId : job' = [job EXCEPT ![p].me = id]
<1> DEFINE n == At[p]
           t == devices[Main]
           id == IF Registered(t, n) THEN DeviceOf(t, n) ELSE NewDeviceId(t)
           u == IF Registered(t, n) THEN t ELSE InsertOrIgnore(t, Single(id, n))
<1>0. n \in Node /\ Main \in Node /\ IsTable(t, DeviceId, Node)
  BY SyncAssumption DEF DbTypes
<1>1. PICK b \in Nat : Bound(b)
  BY DEF Bounded
<1>2. id \in DeviceId
  <2>1. CASE Registered(t, n)
    <3>1. DeviceOf(t, n) \in DOMAIN t
      BY <2>1 DEF Registered, DeviceOf
    <3> QED BY <1>0, <2>1, <3>1 DEF IsTable
  <2>2. CASE ~Registered(t, n)
    <3>1. DOMAIN t \subseteq 0 .. b
      BY <1>0, <1>1 DEF Bound, IsTable, DeviceId
    <3>2. CASE DOMAIN t = {}
      BY <2>2, <3>2 DEF NewDeviceId, DeviceId
    <3>3. CASE DOMAIN t # {}
      <4>1. Max(DOMAIN t) \in Nat
        BY <1>1, <3>1, <3>3, MaxOfBounded
      <4> QED BY <2>2, <3>3, <4>1 DEF NewDeviceId, DeviceId
    <3> QED BY <3>2, <3>3
  <2> QED BY <2>1, <2>2
<1>3. /\ devices' = [devices EXCEPT ![Main] = u]
      /\ wal' = wal /\ files' = files /\ owners' = owners
      /\ job' = [job EXCEPT ![p].me = id]
  BY DEF Register
<1>4. IsTable(u, DeviceId, Node)
  <2>1. IsTable(Single(id, n), DeviceId, Node)
    <3> HIDE DEF id, n
    <3> QED BY <1>0, <1>2, SingleTyped
  <2> QED BY <1>0, <2>1, InsertTyped
<1>5. DbTypes'
  <2> HIDE DEF u
  <2>1. DOMAIN devices' = Node /\ \A m \in Node : IsTable(devices'[m], DeviceId, Node)
    BY <1>3, <1>4 DEF DbTypes
  <2> QED BY <1>3, <2>1 DEF DbTypes
<1>6. Bounded'
  <2>1. DOMAIN u \subseteq DOMAIN t \cup {id}
    BY DEF InsertOrIgnore, Single
  <2>2. devices'[Main] = u
    BY <1>0, <1>3 DEF DbTypes
  <2>3. id \in Nat
    BY <1>2 DEF DeviceId
  <2> HIDE DEF u, id
  <2>5. Bound(b + id)
    BY <1>1, <2>3, BoundGrows
  <2>4. \A d \in DOMAIN devices'[Main] : d <= b + id
    <3> SUFFICES ASSUME NEW d \in DOMAIN devices'[Main] PROVE d <= b + id
      OBVIOUS
    <3>1. CASE d = id
      BY <1>1, <2>3, <3>1
    <3>2. CASE d \in DOMAIN t
      BY <2>5, <3>2 DEF Bound
    <3> QED BY <2>1, <2>2, <3>1, <3>2
  <2>6. b + id \in Nat
    BY <1>1, <2>3
  <2> QED BY <1>3, <2>4, <2>5, <2>6 DEF Bounded, Bound
<1> QED BY <1>2, <1>3, <1>5, <1>6

-----------------------------------------------------------------------------
(* The actions that start a command                                        *)

\* A command that begins with a sync.
LEMMA StartSyncTypes ==
    ASSUME TypeInv, NEW p \in Proc,
           NEW c \in {"update", "push", "pull", "cleanup", "remove"},
           NEW paths \in SUBSET Path,
           NEW next \in {"report", "prepare", "open", "select", "clean"},
           StartSync(p, c, paths, next)
    PROVE  TypeInv'
<1> DEFINE j == [NoJob EXCEPT !.cmd = c, !.paths = paths, !.me = deviceId[At[p]], !.next = next]
<1>0. At[p] \in Node
  BY SyncAssumption
<1>1. DbTypes' /\ Bounded'
  BY <1>0, OpenDb DEF StartSync, TypeInv
<1>2. NodeTypes' /\ DataTypes'
  BY DEF StartSync, TypeInv, NodeTypes, DataTypes, nodeVars, localVars
<1>3. j \in Job /\ j.next = next
  <2>1. deviceId[At[p]] \in Nat
    BY <1>0 DEF TypeInv, NodeTypes
  <2> QED BY <2>1 DEF NoJob, Job, Label
<1>4. Moves(p, "read", j, out[p], acks[p])
  BY DEF StartSync, Goto, Moves, localVars, TypeInv, Control, ControlTypes
<1>5. Fits("read", j, out[p], acks[p])
  <2>1. pc[p] = "idle"
    BY DEF StartSync, CanStart
  <2>2. acks[p] = <<>>
    BY <2>1 DEF TypeInv, Control, Fits, Fresh
  <2> HIDE DEF j
  <2> QED BY <1>3, <2>2 DEF Fits, Working, Syncing, Fresh, Returns
<1>6. Control'
  <2>1. out[p] \in Seq(Entry) /\ acks[p] \in Seq(Nat) /\ "read" \in Label
    BY DEF TypeInv, Control, ControlTypes, Label
  <2> HIDE DEF j
  <2> QED BY <1>3, <1>4, <1>5, <2>1, MoveKeepsControl DEF TypeInv
<1> QED BY <1>1, <1>2, <1>6 DEF TypeInv

\* Whatever a user starts keeps the types.
LEMMA StartTypes ==
    ASSUME TypeInv, NEW p \in Proc, Start(p)
    PROVE  TypeInv'
<1>0. At[p] \in Node
  BY SyncAssumption
<1>1. CASE StartConnect(p)
  <2> DEFINE j == [NoJob EXCEPT !.cmd = "connect", !.next = "configure"]
  <2>1. DbTypes' /\ Bounded'
    BY <1>0, <1>1, OpenDb DEF StartConnect, TypeInv
  <2>2. NodeTypes' /\ DataTypes'
    BY <1>0, <1>1 DEF StartConnect, TypeInv, NodeTypes, DataTypes, localVars
  <2>3. j \in Job /\ j.next = "configure"
    BY DEF NoJob, Job, Label
  <2>4. Moves(p, "register", j, out[p], acks[p])
    BY <1>1 DEF StartConnect, Goto, Moves, localVars, TypeInv, Control, ControlTypes
  <2>5. Fits("register", j, out[p], acks[p])
    <3>1. acks[p] = <<>>
      BY <1>1 DEF StartConnect, CanStart, TypeInv, Control, Fits, Fresh
    <3> HIDE DEF j
    <3> QED BY <2>3, <3>1 DEF Fits, Working, Syncing, Fresh
  <2>6. Control'
    <3>1. out[p] \in Seq(Entry) /\ acks[p] \in Seq(Nat) /\ "register" \in Label
      BY DEF TypeInv, Control, ControlTypes, Label
    <3> HIDE DEF j
    <3> QED BY <2>3, <2>4, <2>5, <3>1, MoveKeepsControl DEF TypeInv
  <2> QED BY <2>1, <2>2, <2>6 DEF TypeInv
<1>2. CASE StartUpdate(p) \/ StartPush(p) \/ StartPull(p) \/ StartCleanup(p) \/ StartRemove(p)
  <2>1. CASE StartUpdate(p)
    BY <2>1, StartSyncTypes DEF StartUpdate
  <2>2. CASE StartPush(p)
    BY <2>2, StartSyncTypes DEF StartPush
  <2>3. CASE StartPull(p)
    BY <2>3, StartSyncTypes DEF StartPull
  <2>4. CASE StartCleanup(p)
    BY <2>4, StartSyncTypes DEF StartCleanup
  <2>5. CASE StartRemove(p)
    <3>1. PICK paths \in SUBSET {q \in Path : CurrentHash(files[At[p]], q) # None} :
             StartSync(p, "remove", paths, "clean")
      BY <2>5 DEF StartRemove
    <3>2. paths \in SUBSET Path
      BY <3>1
    <3> QED BY <3>1, <3>2, StartSyncTypes
  <2> QED BY <1>2, <2>1, <2>2, <2>3, <2>4, <2>5
<1>3. CASE Disconnect(p)
  <2>1. DbTypes' /\ Bounded'
    BY <1>0, <1>3, OpenDb DEF Disconnect, TypeInv
  <2>2. NodeTypes' /\ DataTypes'
    BY <1>0, <1>3 DEF Disconnect, TypeInv, NodeTypes, DataTypes, localVars
  <2>3. Control'
    BY <1>3, StillControl DEF Disconnect, TypeInv, localVars
  <2> QED BY <2>1, <2>2, <2>3 DEF TypeInv
<1>4. ASSUME NEW path \in Path, NEW hash \in Hash, AddObject(p, path, hash)
      PROVE  TypeInv'
  <2> DEFINE n == At[p]
             j == [NoJob EXCEPT !.cmd = "add", !.paths = {path}, !.hash = hash]
  <2>1. DbTypes' /\ Bounded'
    BY <1>0, <1>4, OpenDb DEF AddObject, TypeInv
  <2>2. DataTypes'
    BY <1>4 DEF AddObject, TypeInv, DataTypes, localVars
  <2>3. NodeTypes'
    <3>1. staging' = [staging EXCEPT ![n] = UnstageFile(staging[n], path)] \/ staging' = staging
      BY <1>4 DEF AddObject
    <3>2. IsTable(UnstageFile(staging[n], path), Path, Hash)
      BY <1>0, RestrictTyped DEF UnstageFile, TypeInv, NodeTypes
    <3>3. DOMAIN staging' = Node /\ \A m \in Node : IsTable(staging'[m], Path, Hash)
      BY <3>1, <3>2 DEF TypeInv, NodeTypes
    <3>4. objects' \in [Node -> SUBSET Hash] /\ lost' \subseteq lost
      BY <1>4 DEF AddObject, Regained, TypeInv, NodeTypes
    <3> QED BY <1>4, <3>3, <3>4 DEF AddObject, TypeInv, NodeTypes
  <2>4. Control'
    <3>1. CASE UNCHANGED <<pc, job>>
      BY <1>4, <3>1, StillControl DEF AddObject, TypeInv, localVars
    <3>2. CASE job' = [job EXCEPT ![p] = j] /\ Goto(p, "stage")
      <4>1. Moves(p, "stage", j, out[p], acks[p])
        BY <1>4, <3>2 DEF AddObject, Goto, Moves, localVars, TypeInv, Control, ControlTypes
      <4>2. j \in Job /\ j.hash \in Hash
        BY DEF NoJob, Job, Label
      <4>3. acks[p] = <<>>
        BY <1>4 DEF AddObject, TypeInv, Control, Fits, Fresh
      <4>4. out[p] \in Seq(Entry) /\ acks[p] \in Seq(Nat) /\ "stage" \in Label
        BY DEF TypeInv, Control, ControlTypes, Label
      <4> HIDE DEF j
      <4>5. Fits("stage", j, out[p], acks[p])
        BY <4>2, <4>3 DEF Fits, Working, Syncing, Fresh
      <4> QED BY <4>1, <4>2, <4>4, <4>5, MoveKeepsControl DEF TypeInv
    <3> QED BY <1>4, <3>1, <3>2 DEF AddObject
  <2> QED BY <2>1, <2>2, <2>3, <2>4 DEF TypeInv
<1>5. CASE Unstage(p)
  <2> DEFINE n == At[p]
  <2>1. DbTypes' /\ Bounded'
    BY <1>0, <1>5, OpenDb DEF Unstage, TypeInv
  <2>2. DataTypes'
    BY <1>5 DEF Unstage, TypeInv, DataTypes, localVars
  <2>3. NodeTypes'
    <3>1. \A path : IsTable(UnstageFile(staging[n], path), Path, Hash)
      BY <1>0, RestrictTyped DEF UnstageFile, TypeInv, NodeTypes
    <3>2. IsTable(ClearStaging, Path, Hash)
      BY DEF ClearStaging, IsTable
    <3>3. DOMAIN staging' = Node /\ \A m \in Node : IsTable(staging'[m], Path, Hash)
      BY <1>5, <3>1, <3>2 DEF Unstage, TypeInv, NodeTypes
    <3> QED BY <1>5, <3>3 DEF Unstage, TypeInv, NodeTypes
  <2>4. Control'
    BY <1>5, StillControl DEF Unstage, TypeInv, localVars
  <2> QED BY <2>1, <2>2, <2>3, <2>4 DEF TypeInv
<1> QED BY <1>1, <1>2, <1>3, <1>4, <1>5 DEF Start

\* deinit and the init after it leave tables of the right type: empty ones.
LEMMA DeinitTypes ==
    ASSUME TypeInv, NEW p \in Proc, Deinit(p)
    PROVE  TypeInv'
<1> DEFINE n == At[p]
           ids == {d \in DOMAIN devices[Main] : devices[Main][d] = n}
<1>0. n \in Node /\ n # Main /\ Main \in Node
  BY SyncAssumption DEF Deinit
<1>1. IsTable(Empty, Nat \ {0}, StoredEntry) /\ IsTable(Empty, Path \X (Nat \ {0}), Row)
      /\ IsTable(Empty, DeviceId, Node) /\ IsTable(Empty, Path, Hash)
  BY DEF IsTable, Empty
<1>2. Control' /\ DataTypes'
  BY StillControl DEF Deinit, TypeInv, DataTypes, localVars
<1>3. serving' \subseteq Node
  BY DEF Deinit, TypeInv, NodeTypes
<1>4. CASE UNCHANGED <<dbVars, staging, objects, deviceId, lost>>
  BY <1>2, <1>3, <1>4, StillDb DEF TypeInv, NodeTypes
<1>5. CASE /\ wal' = [wal EXCEPT ![n] = Empty]
           /\ files' = [files EXCEPT ![n] = Empty]
           /\ owners' = [owners EXCEPT ![n] = {}]
           /\ devices' = [devices EXCEPT ![n] = Empty]
           /\ staging' = [staging EXCEPT ![n] = Empty]
           /\ objects' = [objects EXCEPT ![n] = {}]
           /\ deviceId' = [deviceId EXCEPT ![n] = 0]
           /\ lost' = lost \cup (objects[n] \X ids)
  <2>1. DOMAIN wal' = Node /\ \A m \in Node : IsLog(wal'[m])
    BY <1>1, <1>5 DEF TypeInv, DbTypes, IsLog
  <2>2. DOMAIN files' = Node /\ \A m \in Node : IsTable(files'[m], Path \X (Nat \ {0}), Row)
    BY <1>1, <1>5 DEF TypeInv, DbTypes
  <2>3. owners' \in [Node -> SUBSET (Hash \X Nat)]
    BY <1>5 DEF TypeInv, DbTypes
  <2>4. DOMAIN devices' = Node /\ \A m \in Node : IsTable(devices'[m], DeviceId, Node)
    BY <1>1, <1>5 DEF TypeInv, DbTypes
  <2>5. DOMAIN staging' = Node /\ \A m \in Node : IsTable(staging'[m], Path, Hash)
    BY <1>1, <1>5 DEF TypeInv, NodeTypes
  <2>6. objects' \in [Node -> SUBSET Hash] /\ deviceId' \in [Node -> Nat]
    BY <1>5 DEF TypeInv, NodeTypes
  <2>7. lost' \subseteq Hash \X DeviceId
    <3>1. ids \subseteq DeviceId /\ objects[n] \subseteq Hash
      BY <1>0 DEF TypeInv, DbTypes, NodeTypes, IsTable
    <3> HIDE DEF ids
    <3> QED BY <1>5, <3>1 DEF TypeInv, NodeTypes
  <2>8. wal'[Main] = wal[Main] /\ devices'[Main] = devices[Main]
    BY <1>0, <1>5 DEF TypeInv, DbTypes
  <2>9. Bounded'
    BY <2>8 DEF TypeInv, Bounded, Bound
  <2>10. DbTypes'
    BY <2>1, <2>2, <2>3, <2>4 DEF DbTypes
  <2>11. NodeTypes'
    BY <1>3, <2>5, <2>6, <2>7 DEF NodeTypes
  <2> QED BY <1>2, <2>9, <2>10, <2>11 DEF TypeInv
<1> QED BY <1>4, <1>5 DEF Deinit

-----------------------------------------------------------------------------
(* The steps of a command                                                  *)

\* A command that ends leaves the types to the tables alone.
LEMMA FinishTypes ==
    ASSUME TypeInv, NEW p \in Proc, Finish(p), DbTypes', Bounded', NodeTypes'
    PROVE  TypeInv'
BY FinishKeepsControl, FinishKeepsData DEF TypeInv

\* One that catches an exception does so too.
LEMMA ThrowTypes ==
    ASSUME TypeInv, NEW p \in Proc, Throw(p), DbTypes', Bounded', NodeTypes'
    PROVE  TypeInv'
BY FinishTypes, GoOnKeepsControl, GoOnKeepsData DEF Throw, TypeInv

\* Where its job may be read.
LEMMA WorkingJob ==
    ASSUME Control, NEW p \in Proc, pc[p] \in Working
    PROVE  /\ job[p] \in Job /\ job[p].me \in Nat
           /\ out[p] \in Seq(Entry) /\ acks[p] \in Seq(Nat)
           /\ Fits(pc[p], job[p], out[p], acks[p])
BY DEF Control, ControlTypes, Job

\* So do the steps of connect ...
LEMMA ConnectTypes ==
    ASSUME SyncInv, JustifiedInv, TypeInv, NEW p \in Proc,
           Register(p) \/ RegisterLog(p) \/ Configure(p)
    PROVE  TypeInv'
<1>0. At[p] \in Node
  BY SyncAssumption
<1>1. CASE Register(p)
  <2>1. PICK id \in DeviceId : job' = [job EXCEPT ![p].me = id]
    BY <1>1, RegisterDb DEF TypeInv
  <2>2. DbTypes' /\ Bounded'
    BY <1>1, RegisterDb DEF TypeInv
  <2>3. NodeTypes'
    BY <1>1 DEF Register, nodeVars, TypeInv, NodeTypes
  <2>4. DataTypes'
    BY <1>1 DEF Register, localVars, TypeInv, DataTypes
  <2> DEFINE j == [job[p] EXCEPT !.me = id]
  <2>5. PICK l \in {"configure", "request", "registerLog"} : Goto(p, l)
    BY <1>1 DEF Register, Registration
  <2>6. Moves(p, l, j, out[p], acks[p])
    BY <1>1, <2>1, <2>5 DEF Register, Goto, Moves, localVars, TypeInv, Control, ControlTypes
  <2>7. job[p] \in Job /\ job[p].next = "configure"
    BY <1>1 DEF Register, TypeInv, Control, ControlTypes, Fits
  <2>8. j \in Job /\ j.me \in DeviceId /\ j.next = "configure"
    BY <2>7 DEF Job, DeviceId
  <2>9. out[p] \in Seq(Entry) /\ acks[p] \in Seq(Nat) /\ l \in Label
    BY DEF TypeInv, Control, ControlTypes, Label
  <2>10. Fits(l, j, out[p], acks[p])
    <3> HIDE DEF j
    <3> QED BY <2>8 DEF Fits, Working, Syncing, Fresh, Returns
  <2>11. Control'
    <3> HIDE DEF j
    <3> QED BY <2>6, <2>8, <2>9, <2>10, MoveKeepsControl DEF TypeInv
  <2> QED BY <2>2, <2>3, <2>4, <2>11 DEF TypeInv
<1>2. CASE RegisterLog(p)
  <2>1. pc[p] \in Working /\ pc[p] = "registerLog"
    BY <1>2 DEF RegisterLog, Working, Label
  <2>2. job[p].me \in DeviceId /\ job[p].next = "configure"
    BY <2>1, WorkingJob DEF TypeInv, Fits
  <2>3. DeviceUpdate(job[p].me, At[p]) \in Entry
    BY <1>0, <2>2 DEF DeviceUpdate, Entry
  <2>4. DbTypes' /\ Bounded'
    BY <1>2, <2>3, AddDb DEF RegisterLog, TypeInv
  <2>5. NodeTypes'
    BY <1>2 DEF RegisterLog, nodeVars, TypeInv, NodeTypes
  <2>6. DataTypes'
    BY <1>2 DEF RegisterLog, localVars, TypeInv, DataTypes
  <2>7. PICK l \in {"configure", "request"} : Goto(p, l)
    BY <1>2 DEF RegisterLog, Registration
  <2>8. l \in Label /\ Fits(l, job[p], out[p], acks[p])
    BY <2>2 DEF Fits, Working, Syncing, Fresh, Returns, Label
  <2>9. Control'
    BY <1>2, <2>7, <2>8, GotoKeepsControl DEF RegisterLog, localVars, TypeInv
  <2> QED BY <2>4, <2>5, <2>6, <2>9 DEF TypeInv
<1>3. CASE Configure(p)
  <2>1. job[p].me \in Nat
    BY DEF TypeInv, Control, ControlTypes, Job
  <2>2. DbTypes' /\ Bounded'
    BY <1>3, StillDb DEF Configure, TypeInv
  <2>3. NodeTypes'
    BY <1>3, <2>1 DEF Configure, TypeInv, NodeTypes
  <2> QED BY <1>3, <2>2, <2>3, FinishTypes DEF Configure
<1> QED BY <1>1, <1>2, <1>3

\* ... of sync_with_master ...
LEMMA SyncTypes ==
    ASSUME SyncInv, JustifiedInv, TypeInv, NEW p \in Proc,
           SyncRead(p) \/ SyncRequest(p) \/ SyncApply(p) \/ Report(p)
    PROVE  TypeInv'
<1>0. At[p] \in Node /\ Main \in Node
  BY SyncAssumption
<1>1. CASE SyncRead(p)
  <2>1. DbTypes' /\ Bounded'
    BY <1>0, <1>1, OpenDb DEF SyncRead, TypeInv
  <2>2. NodeTypes'
    BY <1>1 DEF SyncRead, nodeVars, TypeInv, NodeTypes
  <2>3. CASE Connected(At[p])
    <3>1. LastSeqId(wal[At[p]]) \in Nat
      BY <1>0 DEF SyncInv, LogInv, Length
    <3>2. DataTypes'
      BY <1>1, <2>3, <3>1 DEF SyncRead, TypeInv, DataTypes
    <3>3. Fits("request", job[p], out[p], acks[p]) /\ "request" \in Label
      BY <1>1 DEF SyncRead, TypeInv, Control, Fits, Working, Syncing, Fresh, Label
    <3>4. Control'
      BY <1>1, <2>3, <3>3, GotoKeepsControl DEF SyncRead, TypeInv
    <3> QED BY <2>1, <2>2, <3>2, <3>4 DEF TypeInv
  <2>4. CASE ~Connected(At[p])
    BY <1>1, <2>1, <2>2, <2>4, ThrowTypes DEF SyncRead
  <2> QED BY <2>3, <2>4
<1>2. CASE SyncRequest(p)
  <2>1. DbTypes' /\ Bounded' /\ NodeTypes'
    BY <1>2, StillDb DEF SyncRequest, nodeVars, TypeInv, NodeTypes
  <2>2. IsLog(EntriesSince(wal[Main], last[p]))
    BY <1>0, RestrictTyped DEF EntriesSince, TypeInv, DbTypes, IsLog
  <2>3. DataTypes'
    BY <1>2, <2>2 DEF SyncRequest, TypeInv, DataTypes
  <2>4. Fits("apply", job[p], out[p], acks[p]) /\ "apply" \in Label
    BY <1>2 DEF SyncRequest, TypeInv, Control, Fits, Working, Syncing, Fresh, Label
  <2>5. Control'
    BY <1>2, <2>4, GotoKeepsControl DEF SyncRequest, TypeInv
  <2> QED BY <2>1, <2>3, <2>5 DEF TypeInv
<1>3. CASE SyncApply(p)
  <2>1. DbTypes' /\ Bounded'
    BY <1>3, SyncDb DEF TypeInv
  <2>2. NodeTypes'
    BY <1>3 DEF SyncApply, nodeVars, TypeInv, NodeTypes
  <2>3. DataTypes'
    <3>1. IsLog(Empty)
      BY DEF IsLog, IsTable, Empty
    <3> QED BY <1>3, <3>1 DEF SyncApply, TypeInv, DataTypes
  <2>4. pc[p] = "apply" /\ pc[p] \in Working
    BY <1>3 DEF SyncApply, Working, Label
  <2>5. /\ job[p].me \in Nat /\ job[p].next \in Returns
        /\ job[p].next \in Fresh => acks[p] = <<>>
    BY <2>4, WorkingJob DEF TypeInv, Fits, Syncing
  <2>6. Fits(job[p].next, job[p], out[p], acks[p]) /\ job[p].next \in Label
    BY <2>5 DEF Fits, Working, Syncing, Fresh, Label, Returns
  <2>7. Control'
    BY <1>3, <2>6, GotoKeepsControl DEF SyncApply, TypeInv
  <2> QED BY <2>1, <2>2, <2>3, <2>7 DEF TypeInv
<1>4. CASE Report(p)
  <2>1. DbTypes' /\ Bounded' /\ NodeTypes'
    BY <1>4, StillDb DEF Report, nodeVars, TypeInv, NodeTypes
  <2> QED BY <1>4, <2>1, FinishTypes DEF Report
<1> QED BY <1>1, <1>2, <1>3, <1>4

\* The entries that an order of a set gives rise to.
LEMMA EntriesTyped ==
    ASSUME NEW S, IsFiniteSet(S), S # {}, NEW order \in Orders(S),
           NEW s, s = [i \in DOMAIN order |-> s[i]], \A i \in DOMAIN order : s[i] \in Entry
    PROVE  s \in Seq(Entry) /\ Len(s) > 0
<1> DEFINE k == Cardinality(S)
<1>1. k \in Nat /\ DOMAIN order = 1 .. k /\ k > 0
  BY OrdersTyped
<1> HIDE DEF k
<1>2. s \in [1 .. k -> Entry]
  BY <1>1
<1> QED BY <1>1, <1>2

\* ... of add and push: an entry is appended only while one is left ...
LEMMA PushTypes ==
    ASSUME SyncInv, JustifiedInv, TypeInv, NEW p \in Proc,
           \/ AddStage(p) \/ PushOpen(p) \/ PushCollect(p) \/ PushLock(p)
           \/ PushAppend(p) \/ PushSettle(p)
    PROVE  TypeInv'
<1> DEFINE n == At[p]
<1>0. n \in Node /\ Main \in Node
  BY SyncAssumption
<1>1. CASE AddStage(p)
  <2>1. DbTypes' /\ Bounded'
    BY <1>1, StillDb DEF AddStage, TypeInv
  <2>2. pc[p] = "stage" /\ job[p].hash \in Hash /\ job[p].paths \subseteq Path
    BY <1>1 DEF AddStage, TypeInv, Control, ControlTypes, Fits, Job
  <2>3. IsTable(staging[n], Path, Hash)
    BY <1>0 DEF TypeInv, NodeTypes
  <2>4. IsTable([q \in job[p].paths |-> job[p].hash], Path, Hash)
    BY <2>2 DEF IsTable
  <2>5. IsTable(StageFiles(staging[n], job[p].paths, job[p].hash), Path, Hash)
    BY <2>3, <2>4, InsertTyped DEF StageFiles, InsertOrReplace
  <2>6. NodeTypes'
    BY <1>1, <2>5 DEF AddStage, TypeInv, NodeTypes
  <2> QED BY <1>1, <2>1, <2>6, FinishTypes DEF AddStage
<1>2. CASE PushCollect(p)
  <2> DEFINE ready == {q \in DOMAIN staging[n] : staging[n][q] \in objects[n]}
  <2>1. DbTypes' /\ Bounded'
    BY <1>2, StillDb DEF PushCollect, TypeInv
  <2>2. NodeTypes'
    BY <1>2 DEF PushCollect, nodeVars, TypeInv, NodeTypes
  <2>3. CASE ready = {}
    BY <1>2, <2>1, <2>2, <2>3, FinishTypes DEF PushCollect
  <2>4. CASE ready # {}
    <3> DEFINE F(q) == FileUpdate(q, staging[n][q], 0, deviceId[n])
               j == [job[p] EXCEPT !.paths = ready, !.me = deviceId[n]]
    <3>1. PICK order \in Orders(ready) : out' = [out EXCEPT ![p] = [i \in DOMAIN order |-> F(order[i])]]
      BY <1>2, <2>4 DEF PushCollect
    <3> DEFINE o == [i \in DOMAIN order |-> F(order[i])]
    <3>2. pc[p] = "collect" /\ pc[p] \in Working
      BY <1>2 DEF PushCollect, Working, Label
    <3>3. job[p] \in Job /\ job[p].me \in Nat /\ acks[p] = <<>>
      BY <3>2, WorkingJob DEF TypeInv, Fits, Fresh
    <3>4. ready \subseteq Path /\ IsFiniteSet(ready)
      <4>1. ready \subseteq Path
        BY <1>0 DEF TypeInv, NodeTypes, IsTable
      <4> QED BY <4>1, DataAssumption, FS_Subset
    <3>5. \A q \in ready : F(q) \in Entry
      BY <1>0, <3>3, <3>4 DEF TypeInv, NodeTypes, IsTable, FileUpdate, Entry
    <3>6. o \in Seq(Entry) /\ Len(o) > 0
      <4>1. DOMAIN order = 1 .. Cardinality(ready) /\ \A i \in DOMAIN order : order[i] \in ready
        BY <3>4, OrdersTyped
      <4>2. o = [i \in DOMAIN order |-> o[i]] /\ \A i \in DOMAIN order : o[i] \in Entry
        BY <3>5, <4>1
      <4> HIDE DEF ready, F, o
      <4> QED BY <2>4, <3>4, <4>2, EntriesTyped
    <3>7. j \in Job
      BY <1>0, <3>3, <3>4 DEF Job, TypeInv, NodeTypes
    <3>8. Moves(p, "lock", j, o, acks[p])
      BY <1>2, <2>4, <3>1 DEF PushCollect, Goto, Moves, TypeInv, Control, ControlTypes
    <3> HIDE DEF o, j, ready
    <3>9. Fits("lock", j, o, acks[p])
      BY <3>3, <3>6, <3>7 DEF Fits, Working, Syncing, Fresh
    <3>10. acks[p] \in Seq(Nat) /\ "lock" \in Label
      BY DEF TypeInv, Control, ControlTypes, Label
    <3>11. Control'
      BY <3>6, <3>7, <3>8, <3>9, <3>10, MoveKeepsControl DEF TypeInv
    <3>12. DataTypes'
      BY <1>2, <2>4 DEF PushCollect, TypeInv, DataTypes, ready
    <3> QED BY <2>1, <2>2, <3>11, <3>12 DEF TypeInv
  <2> QED BY <2>3, <2>4
<1>6. CASE PushOpen(p)
  <2>1. DbTypes' /\ Bounded'
    BY <1>0, <1>6, OpenDb DEF PushOpen, TypeInv
  <2>2. NodeTypes'
    BY <1>6 DEF PushOpen, nodeVars, TypeInv, NodeTypes
  <2>3. CASE Connected(n)
    <3>1. DataTypes'
      BY <1>6, <2>3 DEF PushOpen, localVars, TypeInv, DataTypes
    <3>2. Fits("collect", job[p], out[p], acks[p]) /\ "collect" \in Label
      BY <1>6 DEF PushOpen, TypeInv, Control, Fits, Syncing, Fresh, Label
    <3>3. Control'
      BY <1>6, <2>3, <3>2, GotoKeepsControl DEF PushOpen, localVars, TypeInv
    <3> QED BY <2>1, <2>2, <3>1, <3>3 DEF TypeInv
  <2>4. CASE ~Connected(n)
    BY <1>6, <2>1, <2>2, <2>4, FinishTypes DEF PushOpen
  <2> QED BY <2>3, <2>4
<1>3. CASE PushLock(p)
  <2>1. DbTypes' /\ Bounded' /\ NodeTypes'
    BY <1>3, StillDb DEF PushLock, nodeVars, TypeInv, NodeTypes
  <2>2. DataTypes'
    BY <1>3 DEF PushLock, localVars, TypeInv, DataTypes
  <2>3. Fits("append", job[p], out[p], acks[p]) /\ "append" \in Label
    BY <1>3 DEF PushLock, TypeInv, Control, Fits, Working, Syncing, Fresh, Label
  <2>4. Control'
    BY <1>3, <2>3, GotoKeepsControl DEF PushLock, localVars, TypeInv
  <2> QED BY <2>1, <2>2, <2>4 DEF TypeInv
<1>4. CASE PushAppend(p)
  <2> DEFINE i == Len(acks[p]) + 1
             a == Append(acks[p], LastSeqId(wal[Main]) + 1)
  <2>1. /\ pc[p] = "append" /\ pc[p] \in Working
        /\ AddWalEntry(out[p][i]) /\ acks' = [acks EXCEPT ![p] = a]
    BY <1>4 DEF PushAppend, Working, Label
  <2>2. /\ job[p] \in Job /\ job[p].me \in Nat
        /\ out[p] \in Seq(Entry) /\ acks[p] \in Seq(Nat)
        /\ Len(acks[p]) < Len(out[p])
    BY <2>1, WorkingJob DEF TypeInv, Fits
  <2>3. i \in 1 .. Len(out[p]) /\ out[p][i] \in Entry
    BY <2>2
  <2>4. DbTypes' /\ Bounded'
    BY <2>1, <2>3, AddDb DEF TypeInv
  <2>5. NodeTypes'
    BY <1>4 DEF PushAppend, nodeVars, TypeInv, NodeTypes
  <2>6. DataTypes'
    BY <1>4 DEF PushAppend, TypeInv, DataTypes
  <2>7. a \in Seq(Nat) /\ Len(a) = i
    <3>1. LastSeqId(wal[Main]) \in Nat
      BY <1>0 DEF SyncInv, LogInv, Length
    <3> QED BY <2>2, <3>1
  <2>8. Control'
    <3>1. CASE i = Len(out[p])
      <4> DEFINE l == IF job[p].cmd = "push" THEN "settle" ELSE "read"
                 next == IF job[p].cmd = "push" THEN "report"
                         ELSE IF job[p].cmd = "pull" THEN "fetch" ELSE "delete"
                 j == [job[p] EXCEPT !.next = next]
      <4>1. Goto(p, l) /\ job' = [job EXCEPT ![p].next = next] /\ out' = out
        BY <1>4, <3>1 DEF PushAppend
      <4>2. Moves(p, l, j, out[p], a)
        BY <2>1, <4>1 DEF Goto, Moves, TypeInv, Control, ControlTypes
      <4>3. j \in Job /\ l \in Label /\ j.me \in Nat /\ j.next = next
        BY <2>2 DEF Job, Label
      <4>4. next \in Returns \ Fresh /\ (l = "settle" => next = "report") /\ l \in {"settle", "read"}
        BY DEF Returns, Fresh
      <4> HIDE DEF j, l, next, a
      <4>5. Fits(l, j, out[p], a)
        BY <4>3, <4>4 DEF Fits, Working, Syncing, Fresh
      <4> QED BY <2>2, <2>7, <4>2, <4>3, <4>5, MoveKeepsControl DEF TypeInv
    <3>2. CASE i # Len(out[p])
      <4>1. Moves(p, "append", job[p], out[p], a)
        BY <1>4, <2>1, <3>2 DEF PushAppend, Moves, TypeInv, Control, ControlTypes
      <4>2. Len(a) < Len(out[p])
        BY <2>3, <2>7, <3>2
      <4> HIDE DEF a
      <4>3. Fits("append", job[p], out[p], a) /\ "append" \in Label
        BY <2>2, <4>2 DEF Fits, Working, Syncing, Fresh, Label
      <4> QED BY <2>2, <2>7, <4>1, <4>3, MoveKeepsControl DEF TypeInv
    <3> QED BY <3>1, <3>2
  <2> QED BY <2>4, <2>5, <2>6, <2>8 DEF TypeInv
<1>5. CASE PushSettle(p)
  <2>1. DbTypes' /\ Bounded'
    BY <1>5, StillDb DEF PushSettle, TypeInv
  <2>2. PICK q \in job[p].paths :
           /\ staging' = [staging EXCEPT ![n] = UnstageFile(staging[n], q)]
           /\ job' = [job EXCEPT ![p].paths = @ \ {q}]
           /\ Goto(p, IF job[p].paths = {q} THEN "read" ELSE "settle")
    BY <1>5 DEF PushSettle
  <2>3. IsTable(UnstageFile(staging[n], q), Path, Hash)
    BY <1>0, RestrictTyped DEF UnstageFile, TypeInv, NodeTypes
  <2>4. NodeTypes'
    BY <1>5, <2>2, <2>3 DEF PushSettle, TypeInv, NodeTypes
  <2>5. DataTypes'
    BY <1>5 DEF PushSettle, localVars, TypeInv, DataTypes
  <2> DEFINE l == IF job[p].paths = {q} THEN "read" ELSE "settle"
             j == [job[p] EXCEPT !.paths = @ \ {q}]
  <2>6. pc[p] = "settle" /\ pc[p] \in Working
    BY <1>5 DEF PushSettle, Working, Label
  <2>7. /\ job[p] \in Job /\ job[p].me \in Nat /\ job[p].next = "report"
        /\ out[p] \in Seq(Entry) /\ acks[p] \in Seq(Nat)
    BY <2>6, WorkingJob DEF TypeInv, Fits
  <2>8. j \in Job /\ j.me \in Nat /\ j.next = "report" /\ l \in {"read", "settle"}
    BY <2>7 DEF Job
  <2>9. Moves(p, l, j, out[p], acks[p])
    BY <1>5, <2>2 DEF PushSettle, Goto, Moves, localVars, TypeInv, Control, ControlTypes
  <2> HIDE DEF l, j
  <2>10. Fits(l, j, out[p], acks[p]) /\ l \in Label
    BY <2>8 DEF Fits, Working, Syncing, Fresh, Returns, Label
  <2>11. Control'
    BY <2>7, <2>8, <2>9, <2>10, MoveKeepsControl DEF TypeInv
  <2> QED BY <2>1, <2>4, <2>5, <2>11 DEF TypeInv
<1> QED BY <1>1, <1>2, <1>3, <1>4, <1>5, <1>6

\* ... of pull: a file that is not tracked is never fetched ...
LEMMA PullTypes ==
    ASSUME SyncInv, JustifiedInv, TypeInv, NEW p \in Proc, PullOpen(p) \/ PullFetch(p)
    PROVE  TypeInv'
<1> DEFINE n == At[p]
<1>0. n \in Node /\ Main \in Node
  BY SyncAssumption
<1>1. CASE PullOpen(p)
  <2>1. DbTypes' /\ Bounded'
    BY <1>0, <1>1, OpenDb DEF PullOpen, TypeInv
  <2>2. NodeTypes' /\ DataTypes'
    BY <1>1 DEF PullOpen, nodeVars, localVars, TypeInv, NodeTypes, DataTypes
  <2> DEFINE j == [job[p] EXCEPT !.me = deviceId[n]]
  <2>3. j \in Job /\ out[p] \in Seq(Entry) /\ acks[p] \in Seq(Nat)
    BY <1>0 DEF TypeInv, Control, ControlTypes, NodeTypes, Job
  <2>4. Moves(p, "fetch", j, out[p], acks[p])
    BY <1>1 DEF PullOpen, Goto, Moves, localVars, TypeInv, Control, ControlTypes
  <2> HIDE DEF j
  <2>5. Fits("fetch", j, out[p], acks[p]) /\ "fetch" \in Label
    BY DEF Fits, Syncing, Fresh, Label
  <2>6. Control'
    BY <2>3, <2>4, <2>5, MoveKeepsControl DEF TypeInv
  <2> QED BY <2>1, <2>2, <2>6 DEF TypeInv
<1>2. CASE PullFetch(p)
  <2> DEFINE hash(q) == CurrentHash(files[n], q)
  <2>1. DbTypes' /\ Bounded'
    BY <1>2, StillDb DEF PullFetch, TypeInv
  <2>2. \A q : hash(q) \in Hash \cup {None}
    <3>1. PICK b \in Nat : Bound(b)
      BY DEF TypeInv, Bounded
    <3>2. \A k \in DOMAIN files[n] : k[2] <= b
      BY <1>0, <3>1, RowsBounded
    <3> QED BY <1>0, <3>1, <3>2, CurrentHashTyped DEF TypeInv, DbTypes
  <2>3. pc[p] = "fetch" /\ pc[p] \in Working
    BY <1>2 DEF PullFetch, Working, Label
  <2>4. /\ job[p] \in Job /\ job[p].me \in Nat
        /\ out[p] \in Seq(Entry) /\ acks[p] \in Seq(Nat)
    BY <2>3, WorkingJob DEF TypeInv
  <2>5. \/ objects' = objects
        \/ \E q : hash(q) # None /\ objects' = [objects EXCEPT ![n] = @ \cup {hash(q)}]
    BY <1>2 DEF PullFetch
  <2>6. NodeTypes'
    <3>1. objects' \in [Node -> SUBSET Hash]
      <4> HIDE DEF hash
      <4> QED BY <2>2, <2>5 DEF TypeInv, NodeTypes
    <3>2. lost' \subseteq lost
      BY <1>2 DEF PullFetch, Regained
    <3> QED BY <1>2, <3>1, <3>2 DEF PullFetch, TypeInv, NodeTypes
  <2>7. CASE Finish(p)
    BY <2>1, <2>6, <2>7, FinishTypes
  <2>8. ASSUME NEW q, job' = [job EXCEPT ![p].paths = @ \ {q}],
               UNCHANGED <<mutex, pc, localVars>>
        PROVE  TypeInv'
    <3> DEFINE j == [job[p] EXCEPT !.paths = @ \ {q}]
    <3>1. DataTypes'
      BY <2>8 DEF localVars, TypeInv, DataTypes
    <3>2. j \in Job /\ j.me \in Nat
      BY <2>4 DEF Job
    <3>3. Moves(p, "fetch", j, out[p], acks[p])
      BY <2>3, <2>8 DEF Moves, localVars, TypeInv, Control, ControlTypes
    <3> HIDE DEF j
    <3>4. Fits("fetch", j, out[p], acks[p]) /\ "fetch" \in Label
      BY <3>2 DEF Fits, Working, Syncing, Fresh, Label
    <3>5. Control'
      BY <2>4, <3>2, <3>3, <3>4, MoveKeepsControl DEF TypeInv
    <3> QED BY <2>1, <2>6, <3>1, <3>5 DEF TypeInv
  <2>9. ASSUME NEW q, hash(q) # None, job' = [job EXCEPT ![p].paths = @ \ {q}],
               IF HasObjectOwner(owners[n], hash(q), job[p].me) \/ ~Connected(n)
               THEN UNCHANGED <<pc, out>>
               ELSE /\ out' = [out EXCEPT ![p] = <<OwnerUpdate(hash(q), job[p].me)>>]
                    /\ Goto(p, "lock"),
               acks' = [acks EXCEPT ![p] = <<>>],
               UNCHANGED <<mutex, last, batch, garbage>>
        PROVE  TypeInv'
    <3> DEFINE j == [job[p] EXCEPT !.paths = @ \ {q}]
               o == <<OwnerUpdate(hash(q), job[p].me)>>
    <3>1. DataTypes'
      BY <2>9 DEF TypeInv, DataTypes
    <3>2. j \in Job /\ j.me \in Nat
      BY <2>4 DEF Job
    <3>3. o \in Seq(Entry) /\ Len(o) = 1
      <4>1. hash(q) \in Hash
        BY <2>2, <2>9
      <4>2. OwnerUpdate(hash(q), job[p].me) \in Entry
        BY <2>4, <4>1 DEF OwnerUpdate, Entry
      <4> QED BY <4>2
    <3>4. Moves(p, "fetch", j, out[p], <<>>) \/ Moves(p, "lock", j, o, <<>>)
      BY <2>3, <2>9 DEF Moves, Goto, TypeInv, Control, ControlTypes
    <3> HIDE DEF j, o
    <3>5. /\ Fits("fetch", j, out[p], <<>>) /\ "fetch" \in Label
          /\ Fits("lock", j, o, <<>>) /\ "lock" \in Label
      BY <3>2, <3>3 DEF Fits, Working, Syncing, Fresh, Label
    <3>6. <<>> \in Seq(Nat)
      OBVIOUS
    <3>7. Control'
      BY <2>4, <3>2, <3>3, <3>4, <3>5, <3>6, MoveKeepsControl DEF TypeInv
    <3> QED BY <2>1, <2>6, <3>1, <3>7 DEF TypeInv
  <2> QED BY <1>2, <2>7, <2>8, <2>9 DEF PullFetch
<1> QED BY <1>1, <1>2

\* ... of cleanup ...
LEMMA CleanupTypes ==
    ASSUME SyncInv, JustifiedInv, TypeInv, NEW p \in Proc,
           CleanupSelect(p) \/ CleanupRows(p) \/ CleanupScan(p) \/ CleanupDelete(p)
    PROVE  TypeInv'
<1> DEFINE n == At[p]
<1>0. n \in Node /\ Main \in Node
  BY SyncAssumption
<1>1. CASE CleanupSelect(p)
  <2>1. DbTypes' /\ Bounded'
    BY <1>0, <1>1, OpenDb DEF CleanupSelect, TypeInv
  <2>2. NodeTypes'
    BY <1>1 DEF CleanupSelect, nodeVars, TypeInv, NodeTypes
  <2>3. CASE Finish(p)
    BY <2>1, <2>2, <2>3, FinishTypes
  <2>4. ASSUME NEW paths \in SUBSET KnownPaths(files[n]), NEW keep \in Keep,
               job' = [job EXCEPT ![p].paths = paths, ![p].keep = keep, ![p].next = "clean"],
               Goto(p, "read"), UNCHANGED <<mutex, localVars>>
        PROVE  TypeInv'
    <3> DEFINE j == [job[p] EXCEPT !.paths = paths, !.keep = keep, !.next = "clean"]
    <3>1. DataTypes'
      BY <2>4 DEF localVars, TypeInv, DataTypes
    <3>2. pc[p] = "select" /\ pc[p] \in Working
      BY <1>1 DEF CleanupSelect, Working, Label
    <3>3. /\ job[p] \in Job /\ job[p].me \in Nat /\ acks[p] = <<>>
          /\ out[p] \in Seq(Entry) /\ acks[p] \in Seq(Nat)
      BY <3>2, WorkingJob DEF TypeInv, Fits, Fresh
    <3>4. KnownPaths(files[n]) \subseteq Path /\ keep \in Nat
      BY <1>0, SyncAssumption DEF KnownPaths, TypeInv, DbTypes, IsTable
    <3>5. j \in Job /\ j.me \in Nat /\ j.next = "clean"
      BY <3>3, <3>4 DEF Job, Label
    <3>6. Moves(p, "read", j, out[p], acks[p])
      BY <2>4 DEF Moves, Goto, localVars, TypeInv, Control, ControlTypes
    <3> HIDE DEF j
    <3>7. Fits("read", j, out[p], acks[p]) /\ "read" \in Label
      BY <3>3, <3>5 DEF Fits, Working, Syncing, Fresh, Returns, Label
    <3>8. Control'
      BY <3>3, <3>5, <3>6, <3>7, MoveKeepsControl DEF TypeInv
    <3> QED BY <2>1, <2>2, <3>1, <3>8 DEF TypeInv
  <2> QED BY <1>1, <2>3, <2>4 DEF CleanupSelect
<1>2. CASE CleanupRows(p)
  <2>1. DbTypes' /\ Bounded'
    BY <1>2, CleanDb DEF TypeInv
  <2>2. NodeTypes'
    BY <1>2 DEF CleanupRows, nodeVars, TypeInv, NodeTypes
  <2>3. CASE Finish(p)
    BY <2>1, <2>2, <2>3, FinishTypes
  <2>4. CASE /\ job' = [job EXCEPT ![p].me = deviceId[n]]
             /\ Goto(p, "scan") /\ UNCHANGED <<mutex, localVars>>
    <3> DEFINE j == [job[p] EXCEPT !.me = deviceId[n]]
    <3>1. DataTypes'
      BY <2>4 DEF localVars, TypeInv, DataTypes
    <3>2. j \in Job /\ out[p] \in Seq(Entry) /\ acks[p] \in Seq(Nat)
      BY <1>0 DEF TypeInv, Control, ControlTypes, NodeTypes, Job
    <3>3. Moves(p, "scan", j, out[p], acks[p])
      BY <2>4 DEF Goto, Moves, localVars, TypeInv, Control, ControlTypes
    <3>4. acks[p] = <<>>
      BY <1>2 DEF CleanupRows, TypeInv, Control, Fits, Fresh
    <3> HIDE DEF j
    <3>5. Fits("scan", j, out[p], acks[p]) /\ "scan" \in Label
      BY <3>4 DEF Fits, Syncing, Fresh, Label
    <3>6. Control'
      BY <3>2, <3>3, <3>5, MoveKeepsControl DEF TypeInv
    <3> QED BY <2>1, <2>2, <3>1, <3>6 DEF TypeInv
  <2> QED BY <1>2, <2>3, <2>4 DEF CleanupRows
<1>3. CASE CleanupScan(p)
  <2> DEFINE unused == objects[n] \ Referenced(files[n], staging[n])
             owned == {h \in unused : HasObjectOwner(owners[n], h, job[p].me)}
             l == IF owned = {} THEN "delete" ELSE "lock"
  <2>1. DbTypes' /\ Bounded' /\ NodeTypes'
    BY <1>3, StillDb DEF CleanupScan, nodeVars, TypeInv, NodeTypes
  <2>2. unused \subseteq Hash /\ owned \subseteq Hash
    BY <1>0 DEF TypeInv, NodeTypes
  <2>3. DataTypes'
    BY <1>3, <2>2 DEF CleanupScan, TypeInv, DataTypes
  <2>4. IsFiniteSet(owned)
    BY <2>2, DataAssumption, FS_Subset
  <2>5. PICK order \in Orders(owned) :
           out' = [out EXCEPT ![p] = [i \in DOMAIN order |-> OwnerDelete(order[i], job[p].me)]]
    BY <1>3 DEF CleanupScan
  <2> DEFINE o == [i \in DOMAIN order |-> OwnerDelete(order[i], job[p].me)]
  <2>6. pc[p] = "scan" /\ pc[p] \in Working
    BY <1>3 DEF CleanupScan, Working, Label
  <2>7. /\ job[p] \in Job /\ job[p].me \in Nat /\ acks[p] = <<>>
        /\ acks[p] \in Seq(Nat)
    BY <2>6, WorkingJob DEF TypeInv, Fits, Fresh
  <2>8. o \in Seq(Entry) /\ (owned # {} => Len(o) > 0)
    <3>1. /\ DOMAIN order = 1 .. Cardinality(owned)
          /\ \A i \in DOMAIN order : order[i] \in owned
      BY <2>4, OrdersTyped
    <3>2. o = [i \in DOMAIN order |-> o[i]] /\ \A i \in DOMAIN order : o[i] \in Entry
      BY <2>2, <2>7, <3>1 DEF OwnerDelete, Entry
    <3>3. CASE owned # {}
      <4> HIDE DEF owned, o
      <4> QED BY <2>4, <3>2, <3>3, EntriesTyped
    <3>4. CASE owned = {}
      <4>1. Cardinality(owned) = 0
        BY <3>4, FS_EmptySet
      <4>2. DOMAIN order = 1 .. 0
        BY <3>1, <4>1
      <4>3. o \in [1 .. 0 -> Entry]
        BY <4>2
      <4> HIDE DEF o
      <4> QED BY <3>4, <4>3
    <3> QED BY <3>3, <3>4
  <2>9. Moves(p, l, job[p], o, acks[p])
    BY <1>3, <2>5 DEF CleanupScan, Goto, Moves, TypeInv, Control, ControlTypes
  <2>10. Fits(l, job[p], o, acks[p]) /\ l \in Label
    <3>1. l \in {"delete", "lock"} /\ (l = "lock" => Len(o) > 0)
      BY <2>8
    <3> HIDE DEF l, o
    <3> QED BY <2>7, <2>8, <3>1 DEF Fits, Working, Syncing, Fresh, Label
  <2>11. Control'
    <3> HIDE DEF l, o
    <3> QED BY <2>7, <2>8, <2>9, <2>10, MoveKeepsControl DEF TypeInv
  <2> QED BY <2>1, <2>3, <2>11 DEF TypeInv
<1>4. CASE CleanupDelete(p)
  <2>1. DbTypes' /\ Bounded'
    BY <1>4, StillDb DEF CleanupDelete, TypeInv
  <2>2. objects' \in [Node -> SUBSET Hash]
    BY <1>4 DEF CleanupDelete, TypeInv, NodeTypes
  <2>3. NodeTypes'
    BY <1>4, <2>2 DEF CleanupDelete, TypeInv, NodeTypes
  <2>4. CASE Finish(p)
    BY <2>1, <2>3, <2>4, FinishTypes
  <2>5. CASE /\ \E h : garbage' = [garbage EXCEPT ![p] = @ \ {h}]
             /\ UNCHANGED <<mutex, pc, job, last, batch, out, acks>>
    <3>1. DataTypes'
      BY <2>5 DEF TypeInv, DataTypes
    <3>2. Control'
      BY <2>5, StillControl DEF TypeInv
    <3> QED BY <2>1, <2>3, <3>1, <3>2 DEF TypeInv
  <2> QED BY <1>4, <2>4, <2>5 DEF CleanupDelete
<1> QED BY <1>1, <1>2, <1>3, <1>4

\* ... and every failure.
LEMMA FailureTypes ==
    ASSUME TypeInv, NEW p \in Proc, Unreachable(p) \/ Abort(p)
    PROVE  TypeInv'
<1>1. UNCHANGED <<dbVars, staging, objects, deviceId, lost>> /\ serving' \subseteq serving
  BY DEF Unreachable, Abort
<1>2. DbTypes' /\ Bounded'
  BY <1>1, StillDb DEF TypeInv
<1>3. NodeTypes'
  BY <1>1 DEF TypeInv, NodeTypes
<1> QED BY <1>2, <1>3, FinishTypes, ThrowTypes DEF Unreachable, Abort

-----------------------------------------------------------------------------
(* TypeInv is inductive                                                    *)

\* TypeInv is inductive, relative to SyncInv and JustifiedInv.
LEMMA NextTypes == SyncInv /\ JustifiedInv /\ TypeInv /\ [Next]_vars => TypeInv'
<1> SUFFICES ASSUME SyncInv, JustifiedInv, TypeInv, [Next]_vars PROVE TypeInv'
  OBVIOUS
<1>1. ASSUME NEW p \in Proc, Start(p) \/ Step(p) \/ Abort(p)
      PROVE  TypeInv'
  BY <1>1, StartTypes, ConnectTypes, SyncTypes, PushTypes, PullTypes, CleanupTypes,
     FailureTypes DEF Step
<1>2. CASE UNCHANGED vars
  BY <1>2, StillDb, StillControl
     DEF vars, nodeVars, localVars, TypeInv, NodeTypes, DataTypes
<1> QED BY <1>1, <1>2, DeinitTypes DEF Next

\* TypeInv holds always.
THEOREM TypeInvariance == Spec => []TypeInv
BY InitTypes, NextTypes, SyncInvariance, JustifiedInvariance, PTL DEF Spec

\* Every table of every database and every local of every command keeps its
\* type: no handler inserts a row its schema does not have, the version and the
\* device id that come next always exist, no device is logged without an id, and
\* no command reads past the entries it pushes.
THEOREM TypeTheorem == Spec => []TypeOK
BY TypeInvImpliesTypeOK, TypeInvariance, PTL
===============================================================================
