----------------------------- MODULE PearWorkspace -----------------------------
(***************************************************************************)
(* The workspace of one node: the user's files, the .empty placeholders,   *)
(* the object files they may be hard links of, and the rows and the        *)
(* staging of the database, under the commands of one terminal.            *)
(*                                                                         *)
(* A file name leads to an inode, and so does an object name: a read-only  *)
(* file and its object are one inode.  A content is named by its hash.     *)
(* What Main and the other nodes do is the entries a sync brings; the      *)
(* transfer of an object (see ObjectTransfer) succeeds or fails at once.   *)
(*                                                                         *)
(* A command may be broken off at any of its steps and in the middle of    *)
(* one: it is killed, or throws, and the loops over files go on after what *)
(* a file threw.                                                           *)
(***************************************************************************)
EXTENDS Naturals, FiniteSets

CONSTANTS Path,         \* file names
          Hash,         \* contents
          None,
          TempOf,       \* the name a temporary sibling of a file gets, or None
          Worlds        \* what a behaviour may assume of the user; and bounds: `versions`
                        \* on the entries that come into the log, `acts` on what the
                        \* user does to files, disconnects, deinits and commands that
                        \* are broken off

Row == [hash : Hash, readOnly : BOOLEAN]

ASSUME WorkspaceAssumption ==
    /\ None \notin Path \cup Hash \cup Nat \cup Row
    /\ (Path \cup {None}) \cap (Hash \X Nat) = {}
    /\ IsFiniteSet(Path) /\ IsFiniteSet(Hash)
    /\ TempOf \in [Path -> Path \cup {None}]
    /\ Worlds \subseteq [edits : BOOLEAN, off : BOOLEAN, careful : BOOLEAN, breaks : BOOLEAN,
                      versions : Nat, acts : Nat]

VARIABLES
    world,     \* whether files are edited while a command runs, whether readonly
               \* --off is used, whether the user runs update after a connect and after
               \* a sync that was broken off, and whether commands are broken off
    joined,    \* "no", "half" after a connect that was broken off, "fresh" after a
               \* connect or a sync that was broken off, "yes" after a whole sync
    row,       \* the newest row of each path
    old,       \* the hashes of its older rows
    sent,      \* the entries this node has pushed and not read back
    staged,    \* staging
    file,      \* the inode of each file
    object,    \* the inode of each object file
    disk,      \* the content and the write permission of each inode in use
    torn,      \* history: the hashes whose object a command broke off storing, or left
               \* writable under a temporary name
    empty,     \* the paths with a placeholder
    pc,        \* what the command does next
    cmd,       \* the command and its flags
    todo,      \* the paths it still has to take
    path,      \* the path it is at,
    hash,      \* its hash,
    ro,        \* and whether to make it read-only
    plan,      \* the rows run_pull has read at the start
    removed,   \* removed_tracked_paths
    failed,    \* had_errors
    then,      \* where the command goes on after a sync
    wanted,    \* desired_empty_paths
    garbage,   \* the objects cleanup found unreferenced
    versions,  \* entries so far
    edits,     \* what the user has done so far
    gone       \* history: the paths whose file or placeholder the user deleted

dbVars == <<joined, row, old, sent, staged>>
diskVars == <<file, object, disk, torn>>
localVars == <<pc, cmd, todo, path, hash, ro, plan, removed, failed, then, wanted, garbage>>
bounds == <<world, versions, edits>>
vars == <<dbVars, diskVars, empty, localVars, bounds, gone>>

Flags == [name : {"none", "update", "add", "readonly", "push", "pull", "cleanup"},
          whole : BOOLEAN, share : BOOLEAN]
NoCmd == [name |-> "none", whole |-> FALSE, share |-> FALSE]
Label == {"idle", "sync", "collect", "place", "add", "copy", "stage", "mode", "publish",
          "open", "fetch", "put", "keep", "select", "clean", "delete"}
NoRow == [q \in Path |-> None]

Init ==
    /\ world \in Worlds
    /\ joined = "no"
    /\ row = NoRow /\ old = [q \in Path |-> {}]
    /\ sent = NoRow /\ staged = NoRow
    /\ file = NoRow /\ object = [h \in Hash |-> None]
    /\ disk = [i \in {} |-> None] /\ torn = {}
    /\ empty = {}
    /\ pc = "idle" /\ cmd = NoCmd
    /\ todo = {} /\ path = None /\ hash = None /\ ro = FALSE /\ plan = NoRow
    /\ removed = {} /\ failed = FALSE
    /\ then = "idle" /\ wanted = {} /\ garbage = {}
    /\ versions = 0 /\ edits = 0 /\ gone = {}

-----------------------------------------------------------------------------
(* Files                                                                   *)

\* A file that is written gets an inode of its own, an object the first of its inodes
\* that no file still has from before the object was deleted.
Copies == 0 .. Cardinality(Path)
Inodes == Path \cup (Hash \X Copies)
InUse(f, o) == ({f[q] : q \in Path} \cup {o[h] : h \in Hash}) \ {None}
ObjectInode(h) == CHOOSE i \in {h} \X Copies : i \notin InUse(file, object)
Content(q) == disk[file[q]].content
Exists(q) == file[q] # None
Has(h) == object[h] # None
Inode(c, w) == [content |-> c, writable |-> w]

\* The names lead to these inodes now, and inode i is this; the objects `half` are not
\* what they should be.
Leave(f, o, i, what, half) ==
    /\ file' = f
    /\ object' = o
    /\ disk' = [j \in InUse(f, o) |-> IF j = i THEN what ELSE disk[j]]
    /\ torn' = {h \in torn \cup half : o[h] # None}

Write(f, o, i, what) == Leave(f, o, i, what, {})

\* copy_objectfile_to_workspace, or a download to the path
PutFile(q, c) == Write([file EXCEPT ![q] = q], object, q, Inode(c, TRUE))

\* create_objectfile: the permissions are copied too.
CreateObject(h, q) ==
    Write(file, [object EXCEPT ![h] = ObjectInode(h)], ObjectInode(h), disk[file[q]])

\* A download into .peer/obj.
PutObject(h) ==
    Write(file, [object EXCEPT ![h] = ObjectInode(h)], ObjectInode(h), Inode(h, TRUE))

\* permissions
MakeWritable(q) == Write(file, object, file[q], Inode(Content(q), TRUE))

Hashes(t) == {t[q].hash : q \in {x \in Path : t[x] # None}}
Staged == {q \in Path : staged[q] # None}
Tracked == {q \in Path : row[q] # None}

\* Mutant of Link: the link stays writable.
LinkWritable(q, h) == Write([file EXCEPT ![q] = object[h]], object, object[h], disk[object[h]])

\* link_objectfile_to_workspace: rename leaves two links of one inode as they are, so
\* linking a file once more leaves the temporary name behind, which is new.
Link(q, h) ==
    LET temp == TempOf[q]
        stray == file[q] = object[h] /\ temp # None /\ temp \notin Tracked \cup Staged
                   /\ file[temp] = None
    IN  Write([file EXCEPT ![IF stray THEN temp ELSE q] = object[h]],
              object, object[h], Inode(disk[object[h]].content, FALSE))

\* is_missing_tracked_file
MissingTracked == {q \in Tracked : ~Exists(q) /\ q \notin empty}

-----------------------------------------------------------------------------
(* Commands begin, go on and end                                           *)

Goto(label) == pc' = label

\* The command returns or throws.
Done ==
    /\ Goto("idle") /\ cmd' = NoCmd
    /\ todo' = {} /\ path' = None /\ hash' = None /\ ro' = FALSE /\ plan' = NoRow
    /\ removed' = {} /\ failed' = FALSE
    /\ then' = "idle" /\ wanted' = {} /\ garbage' = {}

Connected == joined \in {"fresh", "yes"}

Begin(name, whole) ==
    /\ pc = "idle"
    /\ world.careful /\ joined \in {"half", "fresh"} => name = "update"
    /\ cmd' = [name |-> name, whole |-> whole, share |-> FALSE]
    /\ UNCHANGED <<dbVars, diskVars, empty, path, hash, plan, removed, failed, wanted, garbage,
                   bounds, gone>>

\* A command that syncs first and goes on at `label`.
BeginSync(name, label) ==
    /\ Connected /\ Begin(name, FALSE)
    /\ Goto("sync") /\ then' = label
    /\ UNCHANGED <<todo, ro>>

\* After a sync that ends the command, or continues it.
GoOn == \/ then = "idle" /\ Done
        \/ /\ then # "idle" /\ Goto(then) /\ then' = "idle" /\ wanted' = {}
           /\ UNCHANGED <<cmd, todo, path, hash, ro, plan, removed, failed, garbage>>

\* On to the next path of add, readonly or pull, after an error or not.
NextPath(label, error) ==
    /\ Goto(label)
    /\ path' = None /\ hash' = None
    /\ failed' = (failed \/ error)
    /\ then' = "idle"
    /\ UNCHANGED <<cmd, ro, plan, removed, wanted, garbage>>

-----------------------------------------------------------------------------
(* connect, disconnect, and sync_with_master                               *)

\* Entries come in: first what this node has pushed, then whatever others push.
Apply(news) ==
    LET own == [q \in Path |-> IF sent[q] # None THEN sent[q] ELSE row[q]]
    IN  /\ row' = [q \in Path |-> IF news[q] # None THEN news[q] ELSE own[q]]
        /\ old' = [q \in Path |-> old[q] \cup
                     {r.hash : r \in (({row[q]} \ {own[q]}) \cup ({own[q]} \ {row'[q]})) \ {None}}]
        /\ sent' = NoRow
        /\ versions' = versions + Cardinality({q \in Path : news[q] # None})
        /\ versions' <= world.versions

\* Bound: one entry of others at a time.
News == {NoRow} \cup {[NoRow EXCEPT ![q] = r] : q \in Path, r \in Row}

\* run_connect applies the log and writes no placeholders; broken off, it may have
\* applied the log only.
Connect ==
    /\ pc = "idle" /\ ~Connected
    /\ joined' \in {"fresh"} \cup IF world.breaks THEN {"half"} ELSE {}
    /\ \E news \in [Path -> Row \cup {None}] : Apply(news)
    /\ UNCHANGED <<staged, diskVars, empty, localVars, world, edits, gone>>

Disconnect ==
    /\ pc = "idle" /\ Connected
    /\ world.careful => joined = "yes"
    /\ edits < world.acts /\ edits' = edits + 1
    /\ joined' = "no"
    /\ UNCHANGED <<row, old, sent, staged, diskVars, empty, localVars, world, versions, gone>>

\* deinit removes .peer and the placeholders at the top of the workspace; then init.
Deinit ==
    /\ pc = "idle"
    /\ edits < world.acts /\ edits' = edits + 1
    /\ joined' = "no" /\ row' = NoRow /\ old' = [q \in Path |-> {}]
    /\ sent' = NoRow /\ staged' = NoRow
    /\ Write(file, [h \in Hash |-> None], None, None)
    /\ empty' \in SUBSET empty
    /\ versions' = 0 /\ gone' = {}
    /\ UNCHANGED <<localVars, world>>

StartUpdate == BeginSync("update", "idle")

\* UpdateDB fails: the command ends, but a pull goes on with its next target.
SyncFails ==
    \/ then # "fetch" /\ Done
    \/ /\ then = "fetch"
       /\ todo' = IF cmd.whole THEN {} ELSE todo
       /\ NextPath("fetch", TRUE)

\* Mutant of SyncApply: nothing is done when the log brings nothing.
SyncApplyUpToDate ==
    /\ pc = "sync"
    /\ \/ SyncFails /\ UNCHANGED <<joined, row, old, sent, versions>>
       \/ /\ GoOn /\ joined' = "yes" /\ sent = NoRow
          /\ UNCHANGED <<row, old, sent, versions>>
       \/ /\ \E news \in News : (news # NoRow \/ sent # NoRow) /\ Apply(news)
          /\ Goto("collect")
          /\ UNCHANGED <<joined, cmd, todo, path, hash, ro, plan, removed, failed, then, wanted,
                         garbage>>
    /\ UNCHANGED <<staged, diskVars, empty, world, edits, gone>>

SyncApply ==
    /\ pc = "sync"
    /\ \/ SyncFails /\ UNCHANGED <<row, old, sent, versions>>
       \/ /\ \E news \in News : Apply(news)
          /\ Goto("collect")
          /\ UNCHANGED <<cmd, todo, path, hash, ro, plan, removed, failed, then, wanted, garbage>>
    /\ UNCHANGED <<joined, staged, diskVars, empty, world, edits, gone>>

\* desired_empty_paths; other placeholders are removed.
SyncCollect ==
    /\ pc = "collect"
    /\ wanted' = {q \in Tracked : ~Exists(q)}
    /\ empty' = empty \cap wanted'
    /\ Goto("place")
    /\ UNCHANGED <<dbVars, diskVars, cmd, todo, path, hash, ro, plan, removed, failed, then,
                   garbage, bounds, gone>>

\* create_all_empty_files
SyncPlace ==
    /\ pc = "place"
    /\ empty' = empty \cup wanted
    /\ joined' = "yes"
    /\ GoOn
    /\ UNCHANGED <<row, old, sent, staged, diskVars, bounds, gone>>

-----------------------------------------------------------------------------
(* add, unstage and readonly                                               *)

StartAdd ==
    /\ \E paths \in (SUBSET Path) \ {{}} :
         \/ Begin("add", FALSE) /\ todo' = paths
         \/ Begin("add", TRUE) /\ todo' = {q \in Path : Exists(q)}
    /\ ro' \in BOOLEAN
    /\ Goto("add") /\ UNCHANGED then

\* stage_path of a path that does not exist
AddMissing(q) ==
    /\ ~Exists(q)
    /\ removed' = IF ~cmd.whole /\ q \in MissingTracked THEN removed \cup {q} ELSE removed
    /\ failed' = (failed \/ cmd.whole \/ q \notin Tracked)
    /\ todo' = todo \ {q}
    /\ UNCHANGED <<staged, pc, cmd, path, hash, ro, plan, then, wanted, garbage>>

\* Mutant of AddHash: what is staged at a path that is up to date stays.
AddHashKeeping(q) ==
    /\ Exists(q)
    /\ todo' = todo \ {q}
    /\ IF q \in Tracked /\ Content(q) = row[q].hash
       THEN UNCHANGED <<staged, pc, path, hash>>
       ELSE Goto("copy") /\ path' = q /\ hash' = Content(q) /\ UNCHANGED staged
    /\ UNCHANGED <<cmd, ro, plan, removed, failed, then, wanted, garbage>>

\* stage_file up to has_objectfile
AddHash(q) ==
    /\ Exists(q)
    /\ todo' = todo \ {q}
    /\ IF q \in Tracked /\ Content(q) = row[q].hash
       THEN staged' = [staged EXCEPT ![q] = None] /\ UNCHANGED <<pc, path, hash>>
       ELSE Goto("copy") /\ path' = q /\ hash' = Content(q) /\ UNCHANGED staged
    /\ UNCHANGED <<cmd, ro, plan, removed, failed, then, wanted, garbage>>

AddFile ==
    /\ pc = "add"
    /\ \E q \in todo : AddMissing(q) \/ AddHash(q)
    /\ UNCHANGED <<joined, row, old, sent, diskVars, empty, bounds, gone>>

\* The object is copied from what the file contains by now.
AddCopy ==
    /\ pc = "copy"
    /\ \/ Has(hash) /\ Goto("stage") /\ UNCHANGED <<diskVars, cmd, todo, path, hash, ro, plan,
                                            removed, failed, then, wanted, garbage>>
       \/ /\ ~Has(hash) /\ Exists(path) /\ CreateObject(hash, path) /\ Goto("stage")
          /\ UNCHANGED <<cmd, todo, path, hash, ro, plan, removed, failed, then, wanted, garbage>>
       \/ /\ ~Has(hash) /\ ~Exists(path)
          /\ NextPath(IF cmd.name = "add" THEN "add" ELSE "mode", TRUE)
          /\ UNCHANGED <<diskVars, todo>>
    /\ UNCHANGED <<dbVars, empty, bounds, gone>>

\* link_objectfile_to_workspace and stageFile
AddStage ==
    /\ pc = "stage"
    /\ IF ro THEN Link(path, hash) ELSE UNCHANGED diskVars
    /\ staged' = [staged EXCEPT ![path] = [hash |-> hash, readOnly |-> ro]]
    /\ NextPath(IF cmd.name = "add" THEN "add" ELSE "mode", FALSE)
    /\ UNCHANGED <<joined, row, old, sent, todo, empty, bounds, gone>>

\* With removals a cleanup follows, which needs the daemon.
AddEnd ==
    /\ pc = "add" /\ todo = {}
    /\ LET gathered == IF cmd.whole THEN removed \cup MissingTracked ELSE removed
       IN  IF failed \/ gathered = {} \/ ~Connected
           THEN Done
           ELSE /\ removed' = gathered
                /\ Goto("sync") /\ then' = "clean"
                /\ UNCHANGED <<cmd, todo, path, hash, ro, plan, failed, wanted, garbage>>
    /\ UNCHANGED <<dbVars, diskVars, empty, bounds, gone>>

Unstage ==
    /\ pc = "idle"
    /\ \E paths \in (SUBSET Staged) \ {{}} :
         staged' = [q \in Path |-> IF q \in paths THEN None ELSE staged[q]]
    /\ UNCHANGED <<joined, row, old, sent, diskVars, empty, localVars, bounds, gone>>

\* readonly, and readonly --off with whole
StartReadonly ==
    /\ \E paths \in (SUBSET Path) \ {{}}, off \in BOOLEAN :
         /\ off => world.off
         /\ Begin("readonly", off) /\ todo' = paths /\ ro' = ~off
    /\ Goto("mode") /\ UNCHANGED then

\* The file must be what the row says; then its object is linked as by add.
ReadonlyOn(q) ==
    /\ ro /\ q \in Tracked /\ ~row[q].readOnly
    /\ Exists(q) /\ Content(q) = row[q].hash
    /\ Goto("copy") /\ path' = q /\ hash' = row[q].hash
    /\ UNCHANGED <<staged, diskVars, failed>>

\* A copy of the object replaces the file; without the object the file becomes
\* writable as it is.
CanRestore(q) == ~ro /\ q \in Tracked /\ row[q].readOnly /\ (Has(row[q].hash) \/ Exists(q))
Restore(q) == IF Has(row[q].hash) THEN PutFile(q, disk[object[row[q].hash]].content)
                                  ELSE MakeWritable(q)
ReadonlyOff(q) ==
    /\ CanRestore(q)
    /\ Restore(q)
    /\ staged' = [staged EXCEPT ![q] = [hash |-> row[q].hash, readOnly |-> FALSE]]
    /\ UNCHANGED <<pc, path, hash, failed>>

ReadonlyRefuses(q) ==
    /\ q \in Tracked =>
         \/ ro /\ ~row[q].readOnly /\ (Exists(q) => Content(q) # row[q].hash)
         \/ ~ro /\ row[q].readOnly /\ ~Has(row[q].hash) /\ ~Exists(q)
    /\ failed' = TRUE
    /\ UNCHANGED <<staged, diskVars, pc, path, hash>>

ReadonlyAlready(q) ==
    /\ q \in Tracked /\ row[q].readOnly = ro
    /\ UNCHANGED <<staged, diskVars, pc, path, hash, failed>>

ReadonlyFile ==
    /\ pc = "mode"
    /\ \E q \in todo :
         /\ ReadonlyOn(q) \/ ReadonlyOff(q) \/ ReadonlyRefuses(q) \/ ReadonlyAlready(q)
         /\ todo' = todo \ {q}
    /\ UNCHANGED <<joined, row, old, sent, empty, cmd, ro, plan, removed, then, wanted, garbage,
                   bounds, gone>>

ReadonlyEnd ==
    /\ pc = "mode" /\ todo = {}
    /\ Done
    /\ UNCHANGED <<dbVars, diskVars, empty, bounds, gone>>

-----------------------------------------------------------------------------
(* push and pull                                                           *)

StartPush == versions < world.versions /\ BeginSync("push", "publish")

\* What has an object is sent, unless PushWAL fails, and is no longer staged.
Publish ==
    LET entries == {q \in Staged : Has(staged[q].hash)}
    IN  /\ pc = "publish"
        /\ \/ Done /\ UNCHANGED <<sent, staged, versions>>
           \/ /\ entries # {} /\ versions + Cardinality(entries) <= world.versions
              /\ sent' = [q \in Path |-> IF q \in entries THEN staged[q] ELSE None]
              /\ staged' = [q \in Path |-> IF q \in entries THEN None ELSE staged[q]]
              /\ versions' = versions + Cardinality(entries)
              /\ Goto("sync") /\ then' = "idle"
              /\ UNCHANGED <<cmd, todo, path, hash, ro, plan, removed, failed, wanted, garbage>>
        /\ UNCHANGED <<joined, row, old, diskVars, empty, world, edits, gone>>

StartPull == BeginSync("pull", "open")

\* The targets are files, or a directory, whose rows are those read now.
PullOpen ==
    /\ pc = "open"
    /\ \E paths \in (SUBSET Path) \ {{}}, whole, share \in BOOLEAN :
         /\ cmd' = [name |-> "pull", whole |-> whole, share |-> share]
         /\ todo' = IF whole THEN Tracked ELSE paths
         /\ plan' = IF whole THEN row ELSE NoRow
    /\ Goto("fetch")
    /\ UNCHANGED <<dbVars, diskVars, empty, path, hash, ro, removed, failed, then, wanted,
                   garbage, bounds, gone>>

Target(q) == IF cmd.whole THEN plan[q] ELSE row[q]

\* An object that is not there is downloaded, to where it is needed.
PullFetch(q) ==
    /\ Target(q) # None
    /\ LET h == Target(q).hash
           linked == Target(q).readOnly
       IN  /\ \/ Has(h) /\ Goto("put") /\ UNCHANGED diskVars
              \/ ~Has(h) /\ linked /\ PutObject(h) /\ Goto("put")
              \/ ~Has(h) /\ ~linked /\ PutFile(q, h) /\ Goto("keep")
           /\ path' = q /\ hash' = h /\ ro' = linked
    /\ todo' = todo \ {q}
    /\ UNCHANGED <<cmd, plan, removed, failed, then, wanted, garbage>>

\* Not tracked, or nobody can be reached: the rest of a directory is given up.
PullFails(q) ==
    /\ Target(q) # None => ~Has(Target(q).hash)
    /\ todo' = IF cmd.whole THEN {} ELSE todo \ {q}
    /\ NextPath("fetch", TRUE)
    /\ UNCHANGED diskVars

PullFile ==
    /\ pc = "fetch"
    /\ \E q \in todo : PullFetch(q) \/ PullFails(q)
    /\ UNCHANGED <<dbVars, empty, bounds, gone>>

\* Mutant of PullPut: a file that is there is left alone.
PullPutMissing ==
    /\ pc = "put"
    /\ IF ro /\ ~Exists(path) THEN Link(path, hash)
       ELSE IF ~Exists(path) THEN PutFile(path, disk[object[hash]].content) ELSE UNCHANGED diskVars
    /\ Goto("keep")
    /\ UNCHANGED <<dbVars, empty, cmd, todo, path, hash, ro, plan, removed, failed, then, wanted,
                   garbage, bounds, gone>>

PullPut ==
    /\ pc = "put"
    /\ IF ro THEN Link(path, hash) ELSE PutFile(path, disk[object[hash]].content)
    /\ Goto("keep")
    /\ UNCHANGED <<dbVars, empty, cmd, todo, path, hash, ro, plan, removed, failed, then, wanted,
                   garbage, bounds, gone>>

\* The object is kept for others, the placeholder goes; a node that was no owner yet
\* registers, and syncs.
PullKeep ==
    /\ pc = "keep"
    /\ \/ /\ cmd.share /\ ~Has(hash) /\ ~Exists(path)
          /\ todo' = IF cmd.whole THEN {} ELSE todo
          /\ NextPath("fetch", TRUE)
          /\ UNCHANGED <<diskVars, empty>>
       \/ /\ cmd.share /\ ~Has(hash) => Exists(path)
          /\ IF cmd.share /\ ~Has(hash) THEN CreateObject(hash, path) ELSE UNCHANGED diskVars
          /\ empty' = empty \ {path}
          /\ \/ Goto("fetch") /\ UNCHANGED then
             \/ cmd.share /\ Goto("sync") /\ then' = "fetch"
          /\ path' = None /\ hash' = None
          /\ UNCHANGED <<cmd, todo, ro, plan, removed, failed, wanted, garbage>>
    /\ UNCHANGED <<dbVars, bounds, gone>>

PullEnd ==
    /\ pc = "fetch" /\ todo = {}
    /\ Done
    /\ UNCHANGED <<dbVars, diskVars, empty, bounds, gone>>

-----------------------------------------------------------------------------
(* cleanup, also after add found removed files                             *)

StartCleanup == BeginSync("cleanup", "select")

CleanupSelect ==
    /\ pc = "select"
    /\ IF Tracked = {}
       THEN Done
       ELSE /\ \E paths \in (SUBSET Tracked) \ {{}} : todo' = paths
            /\ Goto("sync") /\ then' = "clean"
            /\ UNCHANGED <<cmd, path, hash, ro, plan, removed, failed, wanted, garbage>>
    /\ UNCHANGED <<dbVars, diskVars, empty, bounds, gone>>

\* Mutant of Referenced: what is staged may go.
ReferencedByRows(rows, olds) == Hashes(rows) \cup (UNION {olds[q] : q \in Path})

\* isObjectReferenced
Referenced(rows, olds) == Hashes(rows) \cup (UNION {olds[q] : q \in Path}) \cup Hashes(staged)

\* Mutant of Clean: a removed path keeps a row, without a hash.
CleanTombstones ==
    /\ pc = "clean"
    /\ row' = [q \in Path |-> IF q \in removed THEN [hash |-> None, readOnly |-> FALSE]
                              ELSE row[q]]
    /\ old' = [q \in Path |-> IF q \in removed THEN {} ELSE old[q]]
    /\ garbage' = {h \in Hash : Has(h)} \ Referenced(row', old')
    /\ gone' = gone \ removed /\ removed' = {}
    /\ Goto("delete")
    /\ UNCHANGED <<joined, sent, staged, diskVars, empty, cmd, todo, path, hash, ro, plan, failed,
                   then, wanted, bounds>>

\* cleanupOldFileVersions: add keeps no version of a removed path, cleanup some of the
\* older ones; then the unreferenced objects, which are unregistered first.
Clean ==
    /\ pc = "clean"
    /\ row' = [q \in Path |-> IF q \in removed THEN None ELSE row[q]]
    /\ \E keep \in SUBSET Hash :
         old' = [q \in Path |-> IF q \in removed THEN {}
                                ELSE IF q \in todo THEN old[q] \cap keep ELSE old[q]]
    /\ garbage' = {h \in Hash : Has(h)} \ Referenced(row', old')
    /\ gone' = gone \ removed /\ removed' = {}
    /\ \/ Goto("delete") /\ UNCHANGED then
       \/ garbage' # {} /\ Goto("sync") /\ then' = "delete"
    /\ UNCHANGED <<joined, sent, staged, diskVars, empty, cmd, todo, path, hash, ro, plan, failed,
                   wanted, bounds>>

\* DeleteObject: an object that is busy stays.
CleanDelete ==
    /\ pc = "delete"
    /\ \E deleted \in SUBSET garbage :
         Write(file, [h \in Hash |-> IF h \in deleted THEN None ELSE object[h]], None, None)
    /\ Done
    /\ UNCHANGED <<dbVars, empty, bounds, gone>>

-----------------------------------------------------------------------------
(* Commands that are broken off                                            *)

\* The loop over files.
Loop == IF pc \in {"fetch", "put", "keep"} THEN "fetch"
        ELSE IF cmd.name = "add" THEN "add" ELSE "mode"

\* Killed, or with an error the loop goes on after, except for the rest of a directory.
BrokenOff(q) ==
    \/ Done
    \/ /\ todo' = IF Loop = "fetch" /\ cmd.whole THEN {} ELSE todo \ {q}
       /\ NextPath(Loop, TRUE)

\* create_objectfile copies to the name of the object.
HalfObject(h, q) ==
    /\ ~Has(h) /\ Exists(q)
    /\ \E c \in Hash, w \in {TRUE, disk[file[q]].writable} :
         Leave(file, [object EXCEPT ![h] = ObjectInode(h)], ObjectInode(h), Inode(c, w), {h})

\* A temporary name is left.
TempIsFree(q) == TempOf[q] # None /\ TempOf[q] \notin Tracked \cup Staged /\ ~Exists(TempOf[q])

\* Mutant of HalfLink: the file is removed before its link is made.
HalfLinkAfterRemoval(q, h) == Write([file EXCEPT ![q] = None], object, None, None)

\* It is a link to the object, which may still be writable.
HalfLink(q, h) ==
    /\ TempIsFree(q)
    /\ \E w \in {FALSE, disk[object[h]].writable} :
         Leave([file EXCEPT ![TempOf[q]] = object[h]], object, object[h],
               Inode(disk[object[h]].content, w), IF w THEN {h} ELSE {})

\* It is part of a copy or of a download.
HalfFile(q) == TempIsFree(q) /\ \E c \in Hash : PutFile(TempOf[q], c)

\* What a command that works on q may have done.
Half(q) ==
    \/ UNCHANGED diskVars
    \/ pc = "copy" /\ HalfObject(hash, q)
    \/ pc = "keep" /\ cmd.share /\ HalfObject(hash, q)
    \/ pc \in {"stage", "put"} /\ ro /\ (HalfLink(q, hash) \/ Link(q, hash))
    \/ pc = "put" /\ ~ro /\ (HalfFile(q) \/ PutFile(q, disk[object[hash]].content))
    \/ /\ pc = "mode" /\ CanRestore(q)
       /\ Restore(q) \/ (Has(row[q].hash) /\ HalfFile(q))
    \/ /\ pc = "fetch" /\ Target(q) # None /\ ~Target(q).readOnly
       /\ ~Has(Target(q).hash) /\ HalfFile(q)

\* At the next file, or at the file it is working on.
BreakFile ==
    /\ \/ pc \in {"add", "mode", "fetch"} /\ \E q \in todo : Half(q) /\ BrokenOff(q)
       \/ pc \in {"copy", "stage", "put", "keep"} /\ Half(path) /\ BrokenOff(path)
    /\ UNCHANGED <<dbVars, empty, versions, gone>>

\* Some of the placeholders are gone, or there; of a pull only the target ends.
BreakSync ==
    /\ \/ /\ pc = "collect"
          /\ \E stale \in SUBSET {q \in empty : q \notin Tracked \/ Exists(q)} :
               empty' = empty \ stale
       \/ pc = "place" /\ \E some \in SUBSET wanted : empty' = empty \cup some
    /\ joined' = "fresh"
    /\ \/ Done
       \/ /\ then = "fetch"
          /\ todo' = IF cmd.whole THEN {} ELSE todo
          /\ NextPath("fetch", TRUE)
    /\ UNCHANGED <<row, old, sent, staged, diskVars, versions, gone>>

\* Main has some of the entries, or all and some are no longer staged.
BreakPush ==
    /\ pc = "publish"
    /\ \E entries, unstaged \in SUBSET {q \in Staged : Has(staged[q].hash)} :
         /\ unstaged # {} => entries = {q \in Staged : Has(staged[q].hash)}
         /\ versions + Cardinality(entries) <= world.versions
         /\ sent' = [q \in Path |-> IF q \in entries THEN staged[q] ELSE None]
         /\ staged' = [q \in Path |-> IF q \in unstaged THEN None ELSE staged[q]]
         /\ versions' = versions + Cardinality(entries)
    /\ Done
    /\ UNCHANGED <<joined, row, old, diskVars, empty, gone>>

\* Between two steps.
Kill ==
    /\ pc \notin {"idle", "collect", "place"}
    /\ Done
    /\ UNCHANGED <<dbVars, diskVars, empty, versions, gone>>

Break ==
    /\ world.breaks
    /\ edits < world.acts /\ edits' = edits + 1
    /\ BreakFile \/ BreakSync \/ BreakPush \/ Kill
    /\ UNCHANGED world

-----------------------------------------------------------------------------
(* The user                                                                *)

UserActs ==
    /\ pc = "idle" \/ world.edits
    /\ edits < world.acts /\ edits' = edits + 1
    /\ UNCHANGED <<dbVars, localVars, world, versions>>

\* Writes into a file, if it may be written.
Edit ==
    /\ UserActs
    /\ \E q \in Path, c \in Hash :
         /\ Exists(q) /\ disk[file[q]].writable
         /\ Write(file, object, file[q], Inode(c, TRUE))
    /\ UNCHANGED <<empty, gone>>

\* Creates a file, or saves one under the name of another.
Save ==
    /\ UserActs
    /\ \E q \in Path, c \in Hash : PutFile(q, c)
    /\ UNCHANGED <<empty, gone>>

Delete ==
    /\ UserActs
    /\ \E q \in Path :
         /\ gone' = gone \cup {q}
         /\ \/ /\ Exists(q) /\ Write([file EXCEPT ![q] = None], object, None, None)
               /\ UNCHANGED empty
            \/ q \in empty /\ empty' = empty \ {q} /\ UNCHANGED diskVars

-----------------------------------------------------------------------------
Start ==
    \/ Connect \/ Disconnect \/ Deinit \/ StartUpdate \/ StartAdd \/ Unstage \/ StartReadonly
    \/ StartPush \/ StartPull \/ StartCleanup

Step ==
    \/ SyncApply \/ SyncCollect \/ SyncPlace
    \/ AddFile \/ AddCopy \/ AddStage \/ AddEnd \/ ReadonlyFile \/ ReadonlyEnd
    \/ Publish \/ PullOpen \/ PullFile \/ PullPut \/ PullKeep \/ PullEnd
    \/ CleanupSelect \/ Clean \/ CleanDelete

Next == Start \/ Step \/ Break \/ Edit \/ Save \/ Delete

Spec == Init /\ [][Next]_vars

-----------------------------------------------------------------------------
(* status                                                                  *)

\* modified_paths and deleted_paths
Modified == {q \in Tracked \ Staged : Exists(q) /\ Content(q) # row[q].hash}
Deleted == {q \in Tracked \ Staged : ~Exists(q) /\ q \notin empty}

\* modified_after_staging_paths; a staged file that does not exist is in missing_paths
ModifiedAfterStaging == {q \in Staged : Exists(q) /\ Content(q) # staged[q].hash}

Untracked == {q \in Path \ (Tracked \cup Staged) : Exists(q)}

\* Not a list of status: the read-only files among these.
Linked == {q \in Path : \E h \in Hash : Exists(q) /\ file[q] = object[h]}

-----------------------------------------------------------------------------
(* Properties                                                              *)

TypeOK ==
    /\ world \in Worlds
    /\ joined \in {"no", "half", "fresh", "yes"}
    /\ row \in [Path -> Row \cup {None}]
    /\ old \in [Path -> SUBSET Hash]
    /\ sent \in [Path -> Row \cup {None}]
    /\ staged \in [Path -> Row \cup {None}]
    /\ file \in [Path -> Inodes \cup {None}]
    /\ object \in [Hash -> Inodes \cup {None}]
    /\ disk \in [InUse(file, object) -> [content : Hash, writable : BOOLEAN]]
    /\ torn \subseteq Hash
    /\ empty \subseteq Path
    /\ pc \in Label
    /\ cmd \in Flags
    /\ todo \subseteq Path
    /\ path \in Path \cup {None}
    /\ hash \in Hash \cup {None}
    /\ ro \in BOOLEAN
    /\ plan \in [Path -> Row \cup {None}]
    /\ removed \subseteq Path
    /\ failed \in BOOLEAN
    /\ then \in Label
    /\ wanted \subseteq Path
    /\ garbage \subseteq Hash
    /\ versions \in 0 .. world.versions
    /\ edits \in 0 .. world.acts
    /\ gone \subseteq Path

\* The user edits no file while a command runs and does not use readonly --off.
Undisturbed == ~world.edits /\ ~world.off

\* Then every object stays what its name says, whatever is linked, copied, replaced,
\* edited and cleaned up, and wherever commands are broken off: no file the user can
\* write shares its inode. Only the object that a command was storing or linking just
\* then is excepted, until it is deleted (workspace.cpp:132, 152).
UndisturbedObjects ==
    Undisturbed => \A h \in Hash \ torn : Has(h) => disk[object[h]].content = h

\* What is staged can be pushed: its object is created first, and no cleanup takes it
\* (commands.cpp:313-322, sqlite_database.cpp:680).
StagedHasObject == ~world.off => \A q \in Staged : Has(staged[q].hash)

\* add marks a tracked file as removed only if the user deleted it or its placeholder:
\* a file that is merely not pulled is never taken for a removed one, for a user who
\* runs update after a connect and after a command that stopped in a sync
\* (commands.cpp:282, 333, 392, sync.cpp:41-83).
RemovalIsDeliberate == world.careful => removed \subseteq gone

\* Once add --all has gone through the files without an error, status has no changes of
\* existing files left to report but staged ones: none modified, and none untracked but
\* links like those that Link leaves behind; a file that was replaced by a torn object
\* shows. Once it has cleaned up after removed files, status reports none as deleted. A
\* staged file that is deleted stays staged and reported as missing: nothing is said of
\* it (commands.cpp:297-331, 392-427, status.cpp:133-165).
AddAllSettlesStatus ==
    (Undisturbed /\ cmd.name = "add" /\ cmd.whole) =>
        /\ (pc = "add" /\ todo = {} /\ ~failed) =>
             /\ Modified \cup (Untracked \ Linked) = {}
             /\ \A q \in ModifiedAfterStaging : staged[q].hash \in torn
        /\ pc = "delete" => Deleted = {}

\* add and readonly leave every file with the content it has, also where they replace
\* it by a link and where they are broken off, unless an earlier command broke off
\* storing that object (commands.cpp:317, 563-575).
AddKeepsContent ==
    [][(Undisturbed /\ pc \in {"copy", "stage"} /\ hash \notin torn) =>
         \A q \in Path : Exists(q) => Exists(q)' /\ Content(q)' = Content(q)]_vars

\* What pull leaves at a path is a version of that path the node knows of, also when a
\* directory is pulled by rows that its own syncs have overtaken, unless an earlier
\* command broke off storing that object (commands.cpp:876, 896, 950).
PullGivesAVersion ==
    [][\A q \in Path :
         (Undisturbed /\ pc = "keep" /\ path = q /\ hash \notin torn)
           => Exists(q) /\ Content(q) \in {row[q].hash} \cup old[q]]_vars
===============================================================================
