------------------------------- MODULE PearSync -------------------------------
(***************************************************************************)
(* The command-line processes of a set of nodes and the master service of  *)
(* the Main node, over the databases and object directories they share.    *)
(*                                                                         *)
(* Every node has one SQLite file and one object directory.  A `pear`      *)
(* command is a process of the machine it runs on: it opens the database   *)
(* directly and reaches Main only by the RPCs RegisterDevice, UpdateDB and *)
(* PushWAL, whose handlers run one at a time under db_mutex_.  SQLite      *)
(* makes each transaction atomic; everything between two transactions or   *)
(* RPCs of a command interleaves with every other process.                 *)
(*                                                                         *)
(* Covered: commands that fail or are killed at any point, lost replies,   *)
(* nodes that leave with disconnect or deinit and come back.  Left out:    *)
(* deinit of Main, which ends the repository, and deinit while another     *)
(* command of the node runs; a daemon that dies by itself (PearDaemon).    *)
(***************************************************************************)
EXTENDS PearDatabase, Sequences

CONSTANTS Main,      \* the node whose log orders all changes
          Proc,      \* command-line processes: terminals users type into
          At,        \* the node of each process
          Commands,  \* the commands each process may run
          Keep,      \* values of `pear cleanup <keep_versions>` to try
          Joined,    \* nodes already connected and up to date at the start
          MaxSeq     \* bound: no writing command starts with a longer log

ASSUME SyncAssumption ==
    /\ Main \in Node /\ None \notin Proc
    /\ At \in [Proc -> Node]
    /\ Keep \subseteq Nat \ {0}
    /\ Joined \in Seq(Node)
    /\ \A i, j \in 1 .. Len(Joined) : Joined[i] = Joined[j] => i = j
    /\ Joined # <<>> => Main \in {Joined[i] : i \in 1 .. Len(Joined)}
    /\ MaxSeq \in Nat

VARIABLES
    wal, files, owners, devices, staging,  \* the database of each node
    objects,     \* the hashes present in .peer/obj of each node
    deviceId,    \* local_config: device id, 0 while not connected
    serving,     \* the nodes whose daemon runs
    mutex,       \* db_mutex_ of Main's service: its holder or None
    pc,          \* what each process does next
    job,         \* the command it runs, with its arguments
    last,        \* the sequence id it asks Main to continue from
    batch,       \* the entries UpdateDB returned to it
    out,         \* the entries it pushes
    acks,        \* the sequence ids assigned to them so far
    garbage,     \* the objects its cleanup found unreferenced
    lost         \* history, for the properties: <<object, device>> for the
                 \* objects that went with a deinit of the device's node, and
                 \* that it has not got again since

dbVars == <<wal, files, owners, devices>>
nodeVars == <<staging, objects, deviceId, serving>>
localVars == <<last, batch, out, acks, garbage>>
vars == <<dbVars, nodeVars, mutex, pc, job, localVars, lost>>

Empty == [x \in {} |-> x]
NoJob == [cmd |-> "none", paths |-> {}, hash |-> None, keep |-> 0, me |-> 0,
          next |-> "idle"]

Init ==
    LET members == {Joined[i] : i \in 1 .. Len(Joined)}
        ids == 1 .. Len(Joined)
    IN  /\ wal = [n \in Node |-> IF n \in members
                    THEN [i \in ids |-> DeviceUpdate(i, Joined[i])] ELSE Empty]
        /\ files = [n \in Node |-> Empty]
        /\ owners = [n \in Node |-> {}]
        /\ devices = [n \in Node |-> IF n \in members
                        THEN [i \in ids |-> Joined[i]] ELSE Empty]
        /\ staging = [n \in Node |-> Empty]
        /\ objects = [n \in Node |-> {}]
        /\ deviceId = [n \in Node |-> IF n \in members
                         THEN CHOOSE i \in ids : Joined[i] = n ELSE 0]
        /\ serving = members
        /\ mutex = None
        /\ pc = [p \in Proc |-> "idle"]
        /\ job = [p \in Proc |-> NoJob]
        /\ last = [p \in Proc |-> 0]
        /\ batch = [p \in Proc |-> Empty]
        /\ out = [p \in Proc |-> <<>>]
        /\ acks = [p \in Proc |-> <<>>]
        /\ garbage = [p \in Proc |-> {}]
        /\ lost = {}

-----------------------------------------------------------------------------
(* Building blocks of the actions.                                         *)

Goto(p, label) == pc' = [pc EXCEPT ![p] = label]

\* Mutant of Finish: a handler that fails leaves db_mutex_ locked.
FinishLocked(p) ==
    /\ Goto(p, "idle")
    /\ job' = [job EXCEPT ![p] = NoJob]
    /\ last' = [last EXCEPT ![p] = 0]
    /\ batch' = [batch EXCEPT ![p] = Empty]
    /\ out' = [out EXCEPT ![p] = <<>>]
    /\ acks' = [acks EXCEPT ![p] = <<>>]
    /\ garbage' = [garbage EXCEPT ![p] = {}]
    /\ UNCHANGED mutex

\* The command returns or throws: its locals are gone, and if its PushWAL or
\* RegisterDevice handler was running, the handler has returned as well.
Finish(p) ==
    /\ Goto(p, "idle")
    /\ job' = [job EXCEPT ![p] = NoJob]
    /\ last' = [last EXCEPT ![p] = 0]
    /\ batch' = [batch EXCEPT ![p] = Empty]
    /\ out' = [out EXCEPT ![p] = <<>>]
    /\ acks' = [acks EXCEPT ![p] = <<>>]
    /\ garbage' = [garbage EXCEPT ![p] = {}]
    /\ mutex' = IF mutex = p THEN None ELSE mutex

\* A pull catches what goes wrong after its first sync: it warns, or it reports the
\* target, and goes on with the next one.
Caught(p) ==
    /\ job[p].cmd = "pull"
    /\ pc[p] \in {"lock", "append"}
         \/ (pc[p] \in {"read", "request", "apply"} /\ job[p].next = "fetch")

GoOn(p) ==
    /\ Goto(p, "fetch")
    /\ last' = [last EXCEPT ![p] = 0]
    /\ batch' = [batch EXCEPT ![p] = Empty]
    /\ out' = [out EXCEPT ![p] = <<>>]
    /\ acks' = [acks EXCEPT ![p] = <<>>]
    /\ mutex' = IF mutex = p THEN None ELSE mutex
    /\ UNCHANGED <<job, garbage>>

\* An exception.
Throw(p) == IF Caught(p) THEN GoOn(p) ELSE Finish(p)

\* Mutant of OpenDatabase: a node counts itself an owner of what it stores.
OpenAndClaim(n) ==
    owners' = [owners EXCEPT ![n] =
                 Backfill(files[n], @) \cup {<<h, deviceId[n]>> : h \in objects[n]}]

\* Constructing a SqliteDatabase runs ensure_schema on the node's file.
OpenDatabase(n) == owners' = [owners EXCEPT ![n] = Backfill(files[n], @)]

\* Mutant of AddWalEntry: the proposed entry is applied, not the stored one.
AddWalEntryUnversioned(e) ==
    LET id == LastSeqId(wal[Main]) + 1
    IN  /\ wal' = [wal EXCEPT ![Main] =
                     InsertOrIgnore(@, Single(id, Versioned(files[Main], e)))]
        /\ files' = [files EXCEPT ![Main] = ApplyToFiles(@, Single(id, e))]
        /\ owners' = [owners EXCEPT ![Main] = ApplyToOwners(@, Single(id, e))]
        /\ devices' = [devices EXCEPT ![Main] = ApplyToDevices(@, Single(id, e))]

\* addWalEntry on Main's database, one transaction.
AddWalEntry(e) ==
    LET new == Single(LastSeqId(wal[Main]) + 1, Versioned(files[Main], e))
    IN  /\ wal' = [wal EXCEPT ![Main] = InsertOrIgnore(@, new)]
        /\ files' = [files EXCEPT ![Main] = ApplyToFiles(@, new)]
        /\ owners' = [owners EXCEPT ![Main] = ApplyToOwners(@, new)]
        /\ devices' = [devices EXCEPT ![Main] = ApplyToDevices(@, new)]

\* Mutants of ApplyWalEntries: the log becomes the batch; entries of the
\* node's own device do not reach its owner table.
ReplaceWalEntries(n, b) ==
    /\ wal' = [wal EXCEPT ![n] = IF b = Empty THEN @ ELSE b]
    /\ files' = [files EXCEPT ![n] = ApplyToFiles(@, b)]
    /\ owners' = [owners EXCEPT ![n] = ApplyToOwners(@, b)]
    /\ devices' = [devices EXCEPT ![n] = ApplyToDevices(@, b)]
ApplyForeignEntries(n, b) ==
    LET own == {s \in DOMAIN b : b[s].op # "DeviceUpdate" /\ b[s].owner = deviceId[n]}
    IN  /\ wal' = [wal EXCEPT ![n] = InsertOrIgnore(@, b)]
        /\ files' = [files EXCEPT ![n] = ApplyToFiles(@, b)]
        /\ owners' = [owners EXCEPT ![n] = ApplyToOwners(@, Restrict(b, DOMAIN b \ own))]
        /\ devices' = [devices EXCEPT ![n] = ApplyToDevices(@, b)]

\* applyWalEntries on the database of n, one transaction.  Entries already in
\* the log are ignored there and yet applied to the other tables.
ApplyWalEntries(n, b) ==
    /\ wal' = [wal EXCEPT ![n] = InsertOrIgnore(@, b)]
    /\ files' = [files EXCEPT ![n] = ApplyToFiles(@, b)]
    /\ owners' = [owners EXCEPT ![n] = ApplyToOwners(@, b)]
    /\ devices' = [devices EXCEPT ![n] = ApplyToDevices(@, b)]

Connected(n) == deviceId[n] # 0

CanStart(p, cmd) ==
    /\ pc[p] = "idle"
    /\ cmd \in Commands[p]
    /\ cmd = "update" \/ LastSeqId(wal[Main]) < MaxSeq

\* A command that begins with sync_with_master and continues at `next`.  Whether the
\* node is connected is looked up again by whoever relies on it.
StartSync(p, cmd, paths, next) ==
    /\ CanStart(p, cmd)
    /\ Connected(At[p])
    /\ OpenDatabase(At[p])
    /\ Goto(p, "read")
    /\ job' = [job EXCEPT ![p] = [NoJob EXCEPT !.cmd = cmd, !.paths = paths,
                                  !.me = deviceId[At[p]], !.next = next]]
    /\ UNCHANGED <<wal, files, devices, nodeVars, mutex, localVars, lost>>

-----------------------------------------------------------------------------
(* connect, disconnect and deinit                                          *)

\* The daemon is spawned first; spawn throws when one is already alive.
StartConnect(p) ==
    /\ CanStart(p, "connect")
    /\ At[p] \notin serving
    /\ OpenDatabase(At[p])
    /\ serving' = serving \cup {At[p]}
    /\ Goto(p, "register")
    /\ job' = [job EXCEPT ![p] = [NoJob EXCEPT !.cmd = "connect", !.next = "configure"]]
    /\ UNCHANGED <<wal, files, devices, staging, objects, deviceId, mutex, localVars, lost>>

\* Main registers itself on its own database, a peer through RegisterDevice.
Registration(p) == IF At[p] = Main THEN "configure" ELSE "request"

\* The device row of a new address is inserted by itself; its log entry is
\* written by a second transaction.
Register(p) ==
    LET n == At[p]
        known == Registered(devices[Main], n)
        id == IF known THEN DeviceOf(devices[Main], n) ELSE NewDeviceId(devices[Main])
    IN  /\ pc[p] = "register"
        /\ n # Main => Main \in serving /\ mutex = None
        /\ job' = [job EXCEPT ![p].me = id]
        /\ devices' = [devices EXCEPT ![Main] =
                         IF known THEN @ ELSE InsertOrIgnore(@, Single(id, n))]
        /\ Goto(p, IF known THEN Registration(p) ELSE "registerLog")
        /\ mutex' = IF known \/ n = Main THEN mutex ELSE p
        /\ UNCHANGED <<wal, files, owners, nodeVars, localVars, lost>>

RegisterLog(p) ==
    /\ pc[p] = "registerLog"
    /\ AddWalEntry(DeviceUpdate(job[p].me, At[p]))
    /\ Goto(p, Registration(p))
    /\ mutex' = IF mutex = p THEN None ELSE mutex
    /\ UNCHANGED <<nodeVars, job, localVars, lost>>

Configure(p) ==
    /\ pc[p] = "configure"
    /\ deviceId' = [deviceId EXCEPT ![At[p]] = job[p].me]
    /\ Finish(p)
    /\ UNCHANGED <<dbVars, staging, objects, serving, lost>>

\* SIGTERM lets running handlers finish, so serving stops without a crash.  The two
\* rows of local_config are one here: what a reader finds between the two writes, an
\* address without an id or an id without an address, it also finds when the writes
\* come between its own reads.
Disconnect(p) ==
    /\ pc[p] = "idle"
    /\ "disconnect" \in Commands[p]
    /\ OpenDatabase(At[p])
    /\ serving' = serving \ {At[p]}
    /\ deviceId' = [deviceId EXCEPT ![At[p]] = 0]
    /\ UNCHANGED <<wal, files, devices, staging, objects, mutex, pc, job, localVars, lost>>

\* deinit, and the init that follows it some time: the daemon is stopped and .peer
\* goes with the database and the objects; Main is not told.  A deinit that cannot
\* see the daemon stop gives up, though the daemon may stop later.
Deinit(p) ==
    LET n == At[p]
        ids == {d \in DOMAIN devices[Main] : devices[Main][d] = n}
    IN  /\ "deinit" \in Commands[p]
        /\ n # Main
        /\ \A q \in Proc : At[q] = n => pc[q] = "idle"
        /\ serving' = serving \ {n}
        /\ \/ /\ wal' = [wal EXCEPT ![n] = Empty]
              /\ files' = [files EXCEPT ![n] = Empty]
              /\ owners' = [owners EXCEPT ![n] = {}]
              /\ devices' = [devices EXCEPT ![n] = Empty]
              /\ staging' = [staging EXCEPT ![n] = Empty]
              /\ objects' = [objects EXCEPT ![n] = {}]
              /\ deviceId' = [deviceId EXCEPT ![n] = 0]
              /\ lost' = lost \cup (objects[n] \X ids)
           \/ UNCHANGED <<dbVars, staging, objects, deviceId, lost>>
        /\ UNCHANGED <<mutex, pc, job, localVars>>

-----------------------------------------------------------------------------
(* sync_with_master: read the last id, ask Main, apply the answer          *)

SyncRead(p) ==
    LET n == At[p]
    IN  /\ pc[p] = "read"
        /\ OpenDatabase(n)
        /\ IF Connected(n)
           THEN /\ last' = [last EXCEPT ![p] = LastSeqId(wal[n])]
                /\ Goto(p, "request")
                /\ UNCHANGED <<mutex, job, batch, out, acks, garbage>>
           ELSE Throw(p)
        /\ UNCHANGED <<wal, files, devices, nodeVars, lost>>

SyncRequest(p) ==
    /\ pc[p] = "request"
    /\ Main \in serving
    /\ mutex = None
    /\ batch' = [batch EXCEPT ![p] = EntriesSince(wal[Main], last[p])]
    /\ Goto(p, "apply")
    /\ UNCHANGED <<dbVars, nodeVars, mutex, job, last, out, acks, garbage, lost>>

SyncApply(p) ==
    /\ pc[p] = "apply"
    /\ ApplyWalEntries(At[p], batch[p])
    /\ Goto(p, job[p].next)
    /\ last' = [last EXCEPT ![p] = 0]
    /\ batch' = [batch EXCEPT ![p] = Empty]
    /\ UNCHANGED <<nodeVars, mutex, job, out, acks, garbage, lost>>

StartUpdate(p) == StartSync(p, "update", {}, "report")

\* update and push end by printing what was synchronised.
Report(p) ==
    /\ pc[p] = "report"
    /\ Finish(p)
    /\ UNCHANGED <<dbVars, nodeVars, lost>>

-----------------------------------------------------------------------------
(* add and unstage                                                         *)

\* The node has an object again that went with its deinit.
Regained(n, h) == lost \ ({h} \X {d \in DOMAIN devices[Main] : devices[Main][d] = n})

\* The file's object is created before it is staged.
AddObject(p, path, hash) ==
    LET n == At[p]
    IN  /\ pc[p] = "idle"
        /\ "add" \in Commands[p]
        /\ OpenDatabase(n)
        /\ IF CurrentHash(files[n], path) = hash
           THEN /\ staging' = [staging EXCEPT ![n] = UnstageFile(@, path)]
                /\ UNCHANGED <<objects, pc, job, lost>>
           ELSE /\ objects' = [objects EXCEPT ![n] = @ \cup {hash}]
                /\ lost' = Regained(n, hash)
                /\ job' = [job EXCEPT ![p] =
                             [NoJob EXCEPT !.cmd = "add", !.paths = {path}, !.hash = hash]]
                /\ Goto(p, "stage")
                /\ UNCHANGED staging
        /\ UNCHANGED <<wal, files, devices, deviceId, serving, mutex, localVars>>

AddStage(p) ==
    /\ pc[p] = "stage"
    /\ staging' = [staging EXCEPT ![At[p]] =
                     StageFiles(@, job[p].paths, job[p].hash)]
    /\ Finish(p)
    /\ UNCHANGED <<dbVars, objects, deviceId, serving, lost>>

\* One path, or everything with --all.
Unstage(p) ==
    LET n == At[p]
    IN  /\ pc[p] = "idle"
        /\ "unstage" \in Commands[p]
        /\ OpenDatabase(n)
        /\ \/ \E path \in DOMAIN staging[n] :
                 staging' = [staging EXCEPT ![n] = UnstageFile(@, path)]
           \/ staging' = [staging EXCEPT ![n] = ClearStaging]
        /\ UNCHANGED <<wal, files, devices, objects, deviceId, serving, mutex, pc, job,
                       localVars, lost>>

-----------------------------------------------------------------------------
(* PushWAL, used by push, pull and cleanup                                 *)

\* The entries of a set in any order: file names and directories are walked
\* in an order the model does not distinguish.
Orders(S) == Injection(1 .. Cardinality(S), S)

PushLock(p) ==
    /\ pc[p] = "lock"
    /\ Main \in serving
    /\ mutex = None
    /\ mutex' = p
    /\ Goto(p, "append")
    /\ UNCHANGED <<dbVars, nodeVars, job, localVars, lost>>

\* Mutant of PushAppend: the mutex protects each entry, not the request.
PushAppendEach(p) ==
    LET i == Len(acks[p]) + 1
        push == job[p].cmd = "push"
    IN  /\ pc[p] = "append"
        /\ AddWalEntry(out[p][i])
        /\ acks' = [acks EXCEPT ![p] = Append(@, LastSeqId(wal[Main]) + 1)]
        /\ mutex' = None
        /\ IF i = Len(out[p])
           THEN /\ Goto(p, IF push THEN "settle" ELSE "read")
                /\ job' = [job EXCEPT ![p].next =
                             IF push THEN "report"
                             ELSE IF job[p].cmd = "pull" THEN "fetch" ELSE "delete"]
           ELSE /\ Goto(p, "lock")
                /\ UNCHANGED job
        /\ UNCHANGED <<nodeVars, last, batch, out, garbage, lost>>

\* One addWalEntry of the handler's loop, and the reply after the last one.
PushAppend(p) ==
    LET i == Len(acks[p]) + 1
        push == job[p].cmd = "push"
    IN  /\ pc[p] = "append"
        /\ AddWalEntry(out[p][i])
        /\ acks' = [acks EXCEPT ![p] = Append(@, LastSeqId(wal[Main]) + 1)]
        /\ IF i = Len(out[p])
           THEN /\ mutex' = None
                /\ Goto(p, IF push THEN "settle" ELSE "read")
                /\ job' = [job EXCEPT ![p].next =
                             IF push THEN "report"
                             ELSE IF job[p].cmd = "pull" THEN "fetch" ELSE "delete"]
           ELSE UNCHANGED <<mutex, pc, job>>
        /\ UNCHANGED <<nodeVars, last, batch, out, garbage, lost>>

StartPush(p) == StartSync(p, "push", {}, "prepare")

\* The address of Main is read again; without one nothing can be pushed.
PushOpen(p) ==
    /\ pc[p] = "prepare"
    /\ OpenDatabase(At[p])
    /\ IF Connected(At[p])
         THEN Goto(p, "collect") /\ UNCHANGED <<mutex, job, localVars>>
         ELSE Finish(p)
    /\ UNCHANGED <<wal, files, devices, nodeVars, lost>>

\* Staged files whose object is missing are reported and left out.  The device id is
\* read again and used as it is: 0 when the node has been disconnected by now.
PushCollect(p) ==
    LET n == At[p]
        ready == {q \in DOMAIN staging[n] : staging[n][q] \in objects[n]}
    IN  /\ pc[p] = "collect"
        /\ IF ready = {}
           THEN Finish(p)
           ELSE /\ \E order \in Orders(ready) :
                     out' = [out EXCEPT ![p] = [i \in DOMAIN order |->
                               FileUpdate(order[i], staging[n][order[i]], 0, deviceId[n])]]
                /\ job' = [job EXCEPT ![p].paths = ready, ![p].me = deviceId[n]]
                /\ Goto(p, "lock")
                /\ UNCHANGED <<mutex, last, batch, acks, garbage>>
        /\ UNCHANGED <<dbVars, nodeVars, lost>>

\* The pushed paths are unstaged one at a time, whatever is staged by now.
PushSettle(p) ==
    /\ pc[p] = "settle"
    /\ \E q \in job[p].paths :
         /\ staging' = [staging EXCEPT ![At[p]] = UnstageFile(@, q)]
         /\ job' = [job EXCEPT ![p].paths = @ \ {q}]
         /\ Goto(p, IF job[p].paths = {q} THEN "read" ELSE "settle")
    /\ UNCHANGED <<dbVars, objects, deviceId, serving, mutex, localVars, lost>>

-----------------------------------------------------------------------------
(* pull                                                                    *)

StartPull(p) == \E paths \in (SUBSET Path) \ {{}} : StartSync(p, "pull", paths, "open")

\* The device id is read again, and not checked again.
PullOpen(p) ==
    /\ pc[p] = "open"
    /\ OpenDatabase(At[p])
    /\ job' = [job EXCEPT ![p].me = deviceId[At[p]]]
    /\ Goto(p, "fetch")
    /\ UNCHANGED <<wal, files, devices, nodeVars, mutex, localVars, lost>>

\* The nodes the newest row of a path leads to: the device that pushed it and
\* the registered owners of its object, as far as their addresses are known.
Sources(n, row) ==
    OwnerAddresses(owners[n], devices[n], row.hash)
    \cup {devices[n][d] : d \in {row.owner} \cap DOMAIN devices[n]}

\* One file of a pull.  A file that is not tracked, that no reachable owner
\* holds or whose download fails is reported and skipped; the object is kept
\* and registered unless --no-share is given (a read-only file keeps it then
\* too, unregistered).  The address of Main is read again for that.
PullFetch(p) ==
    LET n == At[p]
        hash(q) == CurrentHash(files[n], q)
        row(q) == files[n][<<q, Max(Versions(files[n], q))>>]
        available(q) ==
            \/ hash(q) \in objects[n]
            \/ \E m \in Sources(n, row(q)) \cap serving : hash(q) \in objects[m]
        done(q) == job' = [job EXCEPT ![p].paths = @ \ {q}]
    IN  /\ pc[p] = "fetch"
        /\ \/ /\ job[p].paths = {}
              /\ Finish(p)
              /\ UNCHANGED <<objects, lost>>
           \/ \E q \in job[p].paths :
                \* error, or --no-share
                /\ \/ UNCHANGED <<objects, lost>>
                   \/ /\ hash(q) # None
                      /\ available(q)
                      /\ objects' = [objects EXCEPT ![n] = @ \cup {hash(q)}]
                      /\ lost' = Regained(n, hash(q))
                /\ done(q)
                /\ UNCHANGED <<mutex, pc, localVars>>
           \/ \E q \in job[p].paths :
                /\ hash(q) # None
                /\ available(q)
                /\ objects' = [objects EXCEPT ![n] = @ \cup {hash(q)}]
                /\ lost' = Regained(n, hash(q))
                /\ done(q)
                /\ IF HasObjectOwner(owners[n], hash(q), job[p].me) \/ ~Connected(n)
                   THEN UNCHANGED <<pc, out>>
                   ELSE /\ out' = [out EXCEPT ![p] = <<OwnerUpdate(hash(q), job[p].me)>>]
                        /\ Goto(p, "lock")
                /\ acks' = [acks EXCEPT ![p] = <<>>]
                /\ UNCHANGED <<mutex, last, batch, garbage>>
        /\ UNCHANGED <<dbVars, staging, deviceId, serving>>

-----------------------------------------------------------------------------
(* cleanup, and the removal of a tracked file by add                       *)

StartCleanup(p) == At[p] \in serving /\ StartSync(p, "cleanup", {}, "select")

\* `add` of tracked paths whose files the user deleted cleans them up with
\* keep_versions = 0.
StartRemove(p) ==
    LET tracked == {q \in Path : CurrentHash(files[At[p]], q) # None}
    IN  /\ At[p] \in serving
        /\ \E paths \in (SUBSET tracked) \ {{}} : StartSync(p, "remove", paths, "clean")

CleanupSelect(p) ==
    LET n == At[p]
    IN  /\ pc[p] = "select"
        /\ OpenDatabase(n)
        /\ IF /\ n \in serving
              /\ deviceId[n] \in DOMAIN devices[n]
              /\ KnownPaths(files[n]) # {}
           THEN /\ \E paths \in (SUBSET KnownPaths(files[n])) \ {{}}, keep \in Keep :
                     job' = [job EXCEPT ![p].paths = paths, ![p].keep = keep,
                                        ![p].next = "clean"]
                /\ Goto(p, "read")
                /\ UNCHANGED <<mutex, localVars>>
           ELSE Finish(p)
        /\ UNCHANGED <<wal, files, devices, nodeVars, lost>>

\* The device id is read again, and must be that of a known device.
CleanupRows(p) ==
    LET n == At[p]
    IN  /\ pc[p] = "clean"
        /\ OpenDatabase(n)
        /\ IF deviceId[n] \in DOMAIN devices[n]
           THEN /\ files' = [files EXCEPT ![n] =
                               CleanOldVersions(@, job[p].paths, job[p].keep)]
                /\ job' = [job EXCEPT ![p].me = deviceId[n]]
                /\ Goto(p, "scan")
                /\ UNCHANGED <<mutex, localVars>>
           ELSE /\ Finish(p)
                /\ UNCHANGED files
        /\ UNCHANGED <<wal, devices, nodeVars, lost>>

\* Mutant of CleanupScan: no OwnerDelete entries are pushed.
CleanupScanSilently(p) ==
    LET n == At[p]
    IN  /\ pc[p] = "scan"
        /\ garbage' = [garbage EXCEPT ![p] = objects[n] \ Referenced(files[n], staging[n])]
        /\ Goto(p, "delete")
        /\ UNCHANGED <<dbVars, nodeVars, mutex, job, last, batch, out, acks, lost>>

CleanupScan(p) ==
    LET n == At[p]
        unused == objects[n] \ Referenced(files[n], staging[n])
        owned == {h \in unused : HasObjectOwner(owners[n], h, job[p].me)}
    IN  /\ pc[p] = "scan"
        /\ garbage' = [garbage EXCEPT ![p] = unused]
        /\ \E order \in Orders(owned) :
             out' = [out EXCEPT ![p] =
                       [i \in DOMAIN order |-> OwnerDelete(order[i], job[p].me)]]
        /\ Goto(p, IF owned = {} THEN "delete" ELSE "lock")
        /\ UNCHANGED <<dbVars, nodeVars, mutex, job, last, batch, acks, lost>>

\* DeleteObject on the node's own daemon; an object that is being served is
\* busy and stays, and a failed call is only a warning.  Nothing checks again
\* that the object is unreferenced.
CleanupDelete(p) ==
    LET n == At[p]
    IN  /\ pc[p] = "delete"
        /\ IF garbage[p] = {}
           THEN /\ Finish(p)
                /\ UNCHANGED objects
           ELSE /\ \E h \in garbage[p] :
                     /\ garbage' = [garbage EXCEPT ![p] = @ \ {h}]
                     /\ \/ n \in serving /\ objects' = [objects EXCEPT ![n] = @ \ {h}]
                        \/ UNCHANGED objects
                /\ UNCHANGED <<mutex, pc, job, last, batch, out, acks>>
        /\ UNCHANGED <<dbVars, staging, deviceId, serving, lost>>

-----------------------------------------------------------------------------
(* Failures                                                                *)

\* An RPC to a Main that does not serve fails.  A connect that fails kills the
\* daemon it spawned.
Unreachable(p) ==
    /\ Main \notin serving
    /\ pc[p] \in {"request", "lock"} \/ (pc[p] = "register" /\ At[p] # Main)
    /\ Throw(p)
    /\ serving' = IF job[p].cmd = "connect" THEN serving \ {At[p]} ELSE serving
    /\ UNCHANGED <<dbVars, staging, objects, deviceId, lost>>

\* Anything may go wrong at any point: an exception (a transaction that finds the
\* database locked, a full disk), a handler that fails between two entries, a
\* reply that is lost; or the process is killed.
Abort(p) ==
    /\ pc[p] # "idle"
    /\ Throw(p) \/ Finish(p)
    /\ serving' \in {serving} \cup
                    (IF job[p].cmd = "connect" THEN {serving \ {At[p]}} ELSE {})
    /\ UNCHANGED <<dbVars, staging, objects, deviceId, lost>>

-----------------------------------------------------------------------------

\* What users decide.
Start(p) ==
    \/ StartConnect(p) \/ StartUpdate(p) \/ StartPush(p) \/ StartPull(p)
    \/ StartCleanup(p) \/ StartRemove(p)
    \/ Disconnect(p)
    \/ \E path \in Path, hash \in Hash : AddObject(p, path, hash)
    \/ Unstage(p)

\* What a running command does next.
Step(p) ==
    \/ Register(p) \/ RegisterLog(p) \/ Configure(p)
    \/ SyncRead(p) \/ SyncRequest(p) \/ SyncApply(p) \/ Report(p)
    \/ AddStage(p)
    \/ PushOpen(p) \/ PushCollect(p) \/ PushLock(p) \/ PushAppend(p) \/ PushSettle(p)
    \/ PullOpen(p) \/ PullFetch(p)
    \/ CleanupSelect(p) \/ CleanupRows(p) \/ CleanupScan(p) \/ CleanupDelete(p)
    \/ Unreachable(p)

Next == \E p \in Proc : Start(p) \/ Step(p) \/ Abort(p) \/ Deinit(p)

Spec == Init /\ [][Next]_vars

\* The handlers that wait for db_mutex_.
TakesMutex(p) == Register(p) \/ SyncRequest(p) \/ PushLock(p)

\* A running command is scheduled again and its calls return, and a handler is
\* not passed over at the mutex forever; users need not do anything, and
\* nothing has to fail.
FairSpec == Spec /\ \A p \in Proc : WF_vars(Step(p)) /\ SF_vars(TakesMutex(p))

-----------------------------------------------------------------------------
(* Type invariant                                                          *)

IsTable(t, keys, values) ==
    /\ t = [k \in DOMAIN t |-> t[k]]
    /\ DOMAIN t \subseteq keys
    /\ \A k \in DOMAIN t : t[k] \in values

IsLog(w) == IsTable(w, Nat \ {0}, StoredEntry)

Label == {"idle", "register", "registerLog", "configure", "read", "request", "apply",
          "report", "stage", "prepare", "collect", "lock", "append", "settle", "open", "fetch",
          "select", "clean", "scan", "delete"}
Job == [cmd : {"none", "connect", "update", "push", "pull", "add", "cleanup", "remove"},
        paths : SUBSET Path, hash : Hash \cup {None}, keep : Nat, me : Nat,
        next : Label]

\* Every table holds rows of its schema, in every node's database, and every
\* local variable of a command a value of its type.
TypeOK ==
    /\ DOMAIN wal = Node /\ \A n \in Node : IsLog(wal[n])
    /\ DOMAIN files = Node /\ \A n \in Node : IsTable(files[n], Path \X (Nat \ {0}), Row)
    /\ owners \in [Node -> SUBSET (Hash \X Nat)]
    /\ DOMAIN devices = Node /\ \A n \in Node : IsTable(devices[n], DeviceId, Node)
    /\ DOMAIN staging = Node /\ \A n \in Node : IsTable(staging[n], Path, Hash)
    /\ objects \in [Node -> SUBSET Hash]
    /\ deviceId \in [Node -> Nat]
    /\ serving \subseteq Node
    /\ mutex \in Proc \cup {None}
    /\ pc \in [Proc -> Label]
    /\ job \in [Proc -> Job]
    /\ last \in [Proc -> Nat]
    /\ DOMAIN batch = Proc /\ \A p \in Proc : IsLog(batch[p])
    /\ out \in [Proc -> Seq(Entry)]
    /\ acks \in [Proc -> Seq(Nat)]
    /\ garbage \in [Proc -> SUBSET Hash]
    /\ lost \subseteq Hash \X DeviceId

-----------------------------------------------------------------------------
(* Safety of the replicated metadata                                       *)

\* The log of every node is a gap-free prefix of Main's log: syncs that read
\* their position, ask and apply at different times, several on one node, and
\* commands that die in between, never skip or reorder an entry.
LogPrefix ==
    \A n \in Node : /\ DOMAIN wal[n] = 1 .. LastSeqId(wal[n])
                    /\ IsRestriction(wal[n], wal[Main])

\* A node believes only what its log says: a file row is what some file entry
\* of its log writes at that path and version, however often batches are
\* applied again and rows cleaned up ...
RowsJustified ==
    \A n \in Node : \A k \in DOMAIN files[n] :
        \E s \in DOMAIN wal[n] :
            /\ IsFileEntry(wal[n][s])
            /\ k = <<wal[n][s].path, wal[n][s].version>>
            /\ files[n][k] = RowOf(wal[n][s])

\* ... and an object owner is a device that once claimed the object there.
OwnersJustified ==
    \A n \in Node : \A x \in owners[n] :
        \E s \in DOMAIN wal[n] : Adds(wal[n][s], x[1], x[2])

\* A peer whose commands run one at a time never forgets an owner its log
\* still names; the backfill on every open can only add stale owners to it.
\* (Main's own commands apply old answers again and can make it forget one.)
PeerSeesOwners ==
    \A n \in Node \ {Main} : LogOwners(wal[n]) \subseteq owners[n]

\* In Main's log the versions of a path increase (db_types.hpp), so no entry
\* replaces the row of an earlier one on any node.
VersionsIncrease ==
    LET w == wal[Main]
    IN  \A s, t \in DOMAIN w :
            (s < t /\ IsFileEntry(w[s]) /\ IsFileEntry(w[t]) /\ w[s].path = w[t].path)
                => w[s].version < w[t].version

\* The id a node is configured with is the one id of its address on Main: a
\* node that connects again keeps it, and no two nodes ever share one.
DeviceIdsStable ==
    \A n \in Node : Connected(n) => {d \in DOMAIN devices[Main] : devices[Main][d] = n}
                                      = {deviceId[n]}

\* The databases implement the replicated log of MetadataLog.
Replicated == INSTANCE MetadataLog WITH log <- wal
ImplementsMetadataLog == Replicated!Spec

-----------------------------------------------------------------------------
(* Safety of the objects behind the metadata                               *)

Holds(d, h) ==
    \E n \in Node : Registered(devices[Main], n) /\ DeviceOf(devices[Main], n) = d
                    /\ h \in objects[n]

\* A device the log names as an owner of an object has it, unless a deinit of its node
\* has taken it along and the node has not got it again: push publishes what add
\* created, pull registers what it stored, cleanup unregisters first.
OwnerHasObject == \A x \in LogOwners(wal[Main]) : Holds(x[2], x[1]) \/ x \in lost

\* The newest version of every file on Main can be downloaded from somebody, unless it
\* went with a deinit.
LatestAvailable ==
    \A q \in Path : LET h == CurrentHash(files[Main], q)
                    IN  h # None => \E x \in LogOwners(wal[Main]) :
                                        x[1] = h /\ (Holds(x[2], h) \/ x \in lost)

\* When cleanup deletes an object, the log no longer names this device as its
\* owner, so nobody who is up to date will ask it for the object.
ReleasedBeforeDelete ==
    \A p \in Proc : pc[p] = "delete" =>
        \A h \in garbage[p] : <<h, job[p].me>> \notin LogOwners(wal[Main])

-----------------------------------------------------------------------------
(* Safety of push                                                          *)

\* A push that reports success has published exactly what it sent, in order
\* and without foreign entries between, and its own node has already applied it.
PushReported ==
    \A p \in Proc : (pc[p] = "report" /\ job[p].cmd = "push") =>
        /\ Len(acks[p]) = Len(out[p])
        /\ \A i \in DOMAIN acks[p] :
             LET s == acks[p][i]
                 w == wal[At[p]]
             IN  /\ s = acks[p][1] + i - 1
                 /\ s \in DOMAIN w
                 /\ w[s] = [out[p][i] EXCEPT !.version = w[s].version]

\* A PushWAL call that fails has committed nothing.
PushIsAtomic ==
    [][\A p \in Proc : (pc[p] = "append" /\ pc'[p] = "idle") => acks[p] = <<>>]_vars

-----------------------------------------------------------------------------
(* Claims of the documentation that the code does not keep                 *)

\* Two nodes with the same log have the same object owners (library-usage.md:214).
SameLogSameOwners ==
    \A m, n \in Node : wal[m] = wal[n] => owners[m] = owners[n]

-----------------------------------------------------------------------------
(* Liveness                                                                *)

\* Every command ends, whatever the others do: nobody waits for a mutex that
\* is never released, and no loop over paths, entries or objects runs forever.
CommandsEnd == \A p \in Proc : pc[p] # "idle" ~> pc[p] = "idle"
===============================================================================
