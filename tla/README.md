# A verification project for PearToPear

PearToPear (`pear`) shares a directory between machines. Every machine keeps
a *workspace* with a `.peer` directory: a SQLite database with the metadata, a
directory with *objects* (file contents named by their hash), and a daemon that
serves both over gRPC. One node, *Main*, orders all changes of the metadata in
a write-ahead log (WAL); the other nodes, the *peers*, copy the log and fetch
objects from whoever has them.

This directory holds TLA+ models of that program, the TLC configurations that
check them on small instances, and TLAPS proofs about them. Paths below are
relative to the root of the repository.

    tlc -workers 2 -config MCPearSync_clean.cfg MCPearSync.tla
    tlapm PearSyncProofs.tla

## The system

| Part | Code | State it keeps | Operations | What makes it correct |
|---|---|---|---|---|
| Metadata database | `src/pear/db` | tables `wal`, `files`, `object_owners`, `devices`, `staging_files`, `local_config` | add or apply log entries, next version, cleanup, stage, register a device | tables follow from the log; versions of a path increase; a batch means the same as its entries |
| Master service | `src/pear/net/master_service.cpp` | Main's database, `db_mutex_` | RegisterDevice, UpdateDB, PushWAL | one log without gaps, ids in commit order, requests not interleaved |
| Commands | `src/pear/cli/commands.cpp`, `sync.cpp` | none of their own between runs; locals while they run | init, deinit, connect, disconnect, add, unstage, readonly, push, pull, cleanup, update | a push that reports success is published; what was staged meanwhile stays staged; objects are unregistered before they go; a command that is broken off damages nothing but what it worked on |
| Object download | `src/pear/cli/object_download.cpp` | chunk files, a shared chunk counter | sizes, ranges and whole objects from several owners, hash check | a complete object or none |
| Storage service | `src/pear/net/storage_service.cpp` | one shared lock per object | serve an object, a range, its size; delete it | no object disappears while it is served |
| Workspace | `src/pear/fs/workspace.cpp` | `.peer/obj`, user files, links between them, `.empty` placeholders | create, link, copy and delete object files, write and remove placeholders | an object file has the content its name says, and no writable file shares it; a file that is not pulled is told from one that was removed |
| Status | `src/pear/cli/status.cpp` | none | which files are modified, deleted, modified after staging, missing, untracked | agrees with what add and push will do |
| Daemon | `src/pear/demon` | PID file, status pipe, stop flag | spawn, is_alive, kill, the main loop, signal handlers | one daemon per workspace, named by its PID file; its report is true; `.peer` is not removed under it |
| Node server | `src/pear/net/node.cpp` | the gRPC server and its thread | start, stop | a stop ends the thread |
| Remote client, transport | `src/pear/net/remote_client.cpp`, `grpc_direct_transport.cpp`, `transport_registry.cpp` | channels | one call per RPC | the reply, or an error |
| Printing, parsing, hashing, SQLite wrapper, examples | `output.cpp`, `json_output.cpp`, `logger.cpp`, `command_utils.cpp`, `main.cpp`, `hash.cpp`, `sqlite.cpp`, `src/examples` | none | ls, log, options, SHA-256, statements | not modelled |

How they interact: a command is a process of its own. It opens the node's
database directly, beside the daemon and beside other commands of the same
node, and reaches Main only by RPC. On Main, the daemon's handlers and Main's
own commands share one database file. SQLite makes each transaction atomic
and `db_mutex_` serialises the handlers; everything between two transactions or
two RPCs interleaves.

What is hard: a sync is three steps (read the position, ask Main, apply the
answer) and several can overlap on a node; a push commits its entries one by
one and its reply can be lost; a cleanup decides, talks to Main and then deletes;
device registration is two transactions; opening a database changes it; each
command can die between any two steps, and a node that leaves with deinit takes its database and its objects
along while the log goes on naming it. In the workspace a read-only file and its
object are one inode, so that what is written to one is written to the other, and
whether a missing file was removed or never pulled is told by a placeholder that
several commands write and remove; a command that dies in the middle leaves half an object, a temporary
name, or rows without placeholders for the next one to find. Commands find the daemon through a file with a
process id, which daemons create, commands remove, and the system may have given to
another process; the daemon learns that it has to stop through a flag that a
signal handler sets. `PROJECT.json` lists these hazards at the
lines where they bite, with the properties that cover them.

## Modules

| Module | What it is |
|---|---|
| `PearDatabase` | The tables of one database and the effect of each query and statement on them, as operators on values. |
| `MCPearDatabase` | A database that applies entries one SQL statement at a time, to check those operators against. |
| `PearSync` | The nodes: every command, step by step, and the handlers of the master service, over the databases and object directories. |
| `MetadataLog` | The abstract specification of replication: one log that grows at Main, prefixes of it elsewhere. |
| `MCPearSync` | Instances of `PearSync` for TLC. |
| `ObjectTransfer` | The pull of one object: its size, the download threads, the storage services that serve them and the object lock, the check, and the object files. |
| `MCObjectTransfer` | Instances of `ObjectTransfer` for TLC. |
| `ObjectTransferProofs` | Theorems about locks, chunks, owners and contents in `ObjectTransfer`. |
| `PearDatabaseProofs` | Theorems about `PearDatabase`: its closed forms against the statements. |
| `PearSyncProofs` | Theorems about the logs and tables of `PearSync`. |
| `PearSyncTypes` | Type correctness of `PearSync`. |
| `PearSyncLog` | Theorems about device ids, versions and pushes in `PearSync`. |
| `PearSyncObjects` | Theorems about objects and their owners in `PearSync`. |
| `PearWorkspace` | The files, placeholders and objects of one workspace, and the commands over them. |
| `MCPearWorkspace` | Instances of `PearWorkspace` for TLC. |
| `PearWorkspaceProofs` | Theorems about `PearWorkspace`. |
| `PearDaemon` | The background process: its PID file, its pipe and signals, its server thread, and the commands that start, find and stop it. |
| `MCPearDaemon` | Instances of `PearDaemon` for TLC. |
| `PearDaemonProofs` | Theorems about `PearDaemon`. |

The modules cut the program along its shared state. `PearSync` has the databases
and takes a file operation for one step, `PearWorkspace` has the files of one node and
takes what Main and other nodes do for entries that a sync brings,
`ObjectTransfer` opens the step that fetches one object, and `PearDaemon` the
condition that a node serves. A command occurs in each module whose state it changes.

### PearDatabase

A table is a function from its primary key (`files` from path and version, `wal`
from sequence id) or a set (`object_owners`). A batch of entries is a function
from sequence ids to entries, and its effect on each table is given in closed
form: the last entry that touches a key decides. `addWalEntry` is the same with a
batch of one entry that has been given its version. Timestamps, local
paths and the read-only flag are left out; an address is the node that
listens on it.

### PearSync

The variables are the tables of each node, the hashes in its object directory,
its device id in `local_config`, whether its daemon runs, and for each
terminal (`Proc`) what its command does next (`pc`) with the locals it holds: the
arguments (`job`), the position it asks from (`last`), the answer (`batch`), the
entries it pushes (`out`) and their ids so far (`acks`), and the objects cleanup
found unused (`garbage`). Each action is one transaction, one RPC, or one file
operation together with the computation up to the next one:

    connect     StartConnect, Register, RegisterLog, [sync from 0], Configure
    sync        SyncRead, SyncRequest, SyncApply
    add         AddObject, AddStage
    push        StartPush, sync, PushOpen, PushCollect, PushLock, PushAppend*, PushSettle*, sync, Report
    pull        StartPull, sync, PullOpen, (PullFetch, PushLock, PushAppend, sync)*
    cleanup     StartCleanup, sync, CleanupSelect, sync, CleanupRows, CleanupScan,
                [PushLock, PushAppend*, sync], CleanupDelete*
    add of a    StartRemove, sync, CleanupRows and on as in cleanup, keeping no version
    removed file
    unstage, disconnect, deinit   one step each

`PushLock` and `PushAppend` are the PushWAL handler, `SyncRequest` is UpdateDB,
`Register` and `RegisterLog` are RegisterDevice; they take `mutex` as the
handlers take `db_mutex_`. Main's own commands write without it, as in the
code. `Unreachable` is an RPC to a Main that does not serve. `Abort` breaks a
command off anywhere: an exception, a failed transaction, a lost reply, a kill.
What the commands throw ends them, but a pull catches it per target and goes on with the next
one (`Caught`, `GoOn`). The address of Main and the device id are read again after a sync, as
the code does, unchecked: `PushOpen` reads the address, `PushCollect` the id, `PullOpen`, `CleanupSelect` and
`CleanupRows` what they use; with another terminal that disconnects in between the id is 0.
`Deinit` takes the database and the objects of a peer along and tells nobody; `lost` is a
history variable: what went that way and has not come back.
Every action that constructs a `SqliteDatabase` includes the backfill of
`ensure_schema` (`OpenDatabase`), which changes the owners table.

Simplifications, each of which removes detail and no control:

* the order in which a directory or table is walked is arbitrary (`Orders`);
* the download of an object succeeds when some owner that serves holds it, and
  may fail in any case (`ObjectTransfer` says how);
* device id and master address are set by one step;
* a handler whose client dies ends with it, so that `Abort` in the middle of
  `PushAppend` stands for the handler's own failure and for the client's;
* all paths of one pull come from the newest rows when they are fetched
  (`PearWorkspace` has the rows of a directory read once), and the
  scan of the object directory in cleanup is one step;
* `kFileDelete` entries exist in the database but no command produces one, so
  `PearSync` never sees one (`MCPearDatabase` does);
* moving a node to another Main, with a log of its own, is not modelled, nor is deinit of Main,
  which ends the repository, or deinit while another command of the same node runs.

### ObjectTransfer

`PearSync` takes the transfer of an object for one step; this module opens that
step. A content is a sequence of units, a chunk has `ChunkSize` of them (4 MiB
in the code), and a service sends a range one unit at a time (64 KiB in the
code). The variables are the object file of each node, complete or not (`obj`),
the daemons that run, the readers that hold the object lock of each node in
shared mode, the locals of `pull_file` and of `download_chunks`, and the
download threads with what they have received.

    pull_file     Begin, AskSize*, (threads), Join, Verify, Materialize,
                  CreateObject, CopyUnit*, End
    a thread      (Test, Take, (Serve, SendUnit*, EndRange | RangeFails)*)*
    around it     GoDown, GoUp, DeleteObject, Fill, ObjectArrives, Edit, Abort

`Serve`, `SendUnit` and `EndRange` are the DownloadFileRange handler and its
client in one: what the handler writes the client receives. `readOnly` and `share` choose the path
through `pull_file`: a read-only file is downloaded into the object directory and
linked, another one is downloaded into the workspace and then copied into the object
directory unless `--no-share` is given. `Fill` is `create_objectfile` in an `add`
on another node, which writes the object under its final name. `world`
never changes; it holds what a behaviour may assume: which nodes keep serving their object,
on which it may be filled in place, and whether pulls keep objects.

Simplifications: a handler releases its lock when its client is gone (the
code notices at its next write); the size query is one step, although it holds
the lock in between; a node reads one version of a file at a path, since no
other content is ever renamed there; calls have no deadline in the code, and
here they return or fail.

### PearWorkspace

A file name leads to an inode (`file`), and so does an object name (`object`);
`disk` is the content and the write permission of each inode. A read-only file
and its object lead to one inode. The
other variables are the newest row and the older hashes of each path (`row`, `old`), what
this node has pushed and not read back (`sent`), the staging, the placeholders (`empty`), whether the
node is connected, and the locals of the command. `gone` and `torn` are history variables: the
paths whose file or placeholder the user has deleted, and the hashes whose object a command broke off
storing, or left writable under a temporary name, until that object is deleted.

    sync        SyncApply, SyncCollect, SyncPlace (placeholders are computed, then written)
    add         StartAdd, (AddFile, [AddCopy, AddStage])*, AddEnd, [sync, Clean, CleanDelete]
    readonly    StartReadonly, (ReadonlyFile, [AddCopy, AddStage])*, ReadonlyEnd
    push        StartPush, sync, Publish, sync
    pull        StartPull, sync, PullOpen, (PullFile, [PullPut], PullKeep, [sync])*, PullEnd
    cleanup     StartCleanup, sync, CleanupSelect, sync, Clean, [sync], CleanDelete
    update      StartUpdate, sync
    connect, disconnect, deinit with init, unstage   one step each
    the user    Edit (in place), Save (a new inode under the name), Delete
    broken off  BreakFile, BreakSync, BreakPush, Kill (at any step, or in the middle of one)

`Link` is `link_objectfile_to_workspace` with what rename does when both names are links
of one inode already: nothing, so that the temporary name stays. `Write` is
the file system: an inode lives as long as a name leads to it. `Modified`, `Deleted`,
`ModifiedAfterStaging` and `Untracked` are the lists that status computes; staged files that do not exist are its missing ones.

A command that is broken off leaves what it has done of the step it is in (`Half`): half an
object under its final name, since `create_objectfile` copies in place; a temporary link, copy or download
beside the file; the file already replaced and not yet staged. A sync may stop anywhere between the
log it has applied and the last placeholder (`BreakSync`), a push with some of its entries on Main or some
paths still staged (`BreakPush`). Then the command is gone, or its loop goes on with the next file
(`BrokenOff`), as the try blocks of add, readonly and pull have it; a connect may stop between
the log and the configuration (`joined` = "half").

Simplifications: there is one terminal (`PearSync` has several); versions of a path are its
newest row and the set of the hashes before; a log entry is a row; `Apply` brings
at most one entry of others at a time, except at connect; cleanup keeps any
subset of the old hashes, which includes the one that the ranks give; a path is
a file, since a directory on the command line is the set of files below it; of the
placeholders, deinit removes any subset, since it only looks at the top directory. Deinit itself is not
broken off. A temporary name is one per path (`TempOf`), and what is left under it of a copy or of a download is a
writable file; the second rename that `rename_temp_to_target` tries after a failed one is
left out. Commands that are broken off are counted with what the user does (`acts` of the world).

### PearDaemon

A process is its id. For each terminal `pc` says what the command does next, `why` the
place that called `is_alive` or `kill`, `saw` the id it read, `child` the process it spawned. For
each process `at` says what its main thread does next, `mine` is `pid_file_written`,
`status` what it wrote to its pipe, `stop` its `stop_requested`, and `server`
where its server thread is.

    is_alive    Exists, ReadPidFile, Probe, RemovePidFile
    kill        is_alive, Target, Kill
    spawn       Spawn, ReadStatus
    connect     is_alive, spawn, Register, [is_alive, kill when registering fails]
    disconnect  is_alive, kill
    deinit      is_alive, kill, is_alive up to MaxPolls times, is_alive once more, Erase
    cleanup     is_alive (as every other command that needs the daemon)
    the daemon  Detach, CreatePidFile, WritePidFile, StartNode, Report,
                (TestFlag, Pause)*, StopNode, Join, Unlink, Exit;
                after an exception ReportFailure, Unlink, Exit
    its thread  BuildServer, EndServer

`Terminate` is SIGTERM: the handler sets the flag, and `pause()` returns if it has begun.
That the flag is tested and `pause()` entered in two steps, and that `Node::stop` looks at
`server_` while the thread may not have assigned it, is in the model as it is in the
code. `Crash` is a daemon killed from outside, `ForeignStart` another program that gets
the id in a file left behind. `Abort` interrupts a command. `world` says which
terminals are in use, what they run, and whether commands are interrupted and
daemons killed.

Simplifications: the child of `spawn` and the daemon it forks are one process;
setting up descriptors and opening the database belong to `Detach`, which may
fail; a failed removal of the file is not modelled; `running_` only guards
against a second `start`, which nobody calls.

## Properties and runs

`MCPearSync` fixes two nodes, Main and one peer, and two terminals: one on each
node (`OneEach`), or both on the peer (`TwoOnPeer`). `Commands` says what each
terminal may run. `MaxSeq` bounds the log: no writing command starts once Main's
log has that many entries (a command that has started finishes, so the
log gets longer than the bound). Two nodes are enough to tell Main from a copy, and two
commands at a time are what the hazards need; a third adds only more of the same
interleavings. Hashes are symmetric. Deadlock is checked in every run but
`database`.

| Run | Instance | Properties |
|---|---|---|
| `clean` | a terminal on each node; one path, two hashes; the peer adds, pushes, pulls, leaves with deinit and connects again, Main pulls, both clean up keeping 1; `MaxSeq` 5 | `RowsJustified`, `OwnersJustified`: tables say only what the log says. `PeerSeesOwners`: a peer forgets no owner, also one that started over. `OwnerHasObject`: an owner has the object, but for what went with a deinit and is not back. `LatestAvailable`: the newest version can be fetched, with the same exception. `ReleasedBeforeDelete`: unregister, then delete. `VersionsIncrease`. |
| `join` | nobody connected; both connect and disconnect, the peer also leaves with deinit, Main adds and pushes, the peer pulls; `MaxSeq` 3; with fairness | `TypeOK`. `DeviceIdsStable`: one id per address, kept for good. `LogPrefix`: also for a node that starts over. `CommandsEnd`: every command ends. |
| `race` | both terminals on the peer; two paths, one hash; add, push, unstage, remove, update, cleanup, and a disconnect in the middle of them; `MaxSeq` 4 | `LogPrefix`: each log is a gap-free prefix of Main's. `ImplementsMetadataLog`: refinement of `MetadataLog`. `PushReported`: a successful push published exactly what it sent, contiguously, and its node has applied it. |
| `database` | every log of up to three entries, two paths, two hashes, two devices, versions up to 3 | `BatchIsItsEntries`: the closed forms agree with the statements. `ReapplyIsHarmless`: applying the newest entries again changes nothing. `NewEntryIsCurrent`, `CleanupIsByRank`, `CleanupIsInvisible`: versions and cleanup. |
| `transfer` | an object of 3 units, chunks of 2, two owners and the node that pulls, two threads; one owner reliable and pulls keep objects, or one reliable while the other is adding the object, or none reliable; with fairness | `TypeOK`. `WholeWhenVerified`: whole owners make a whole file. `ChunkHasOneWriter`. `ServedStays`: nothing is deleted while it is read. `ReliableOwnerSuffices`: one good owner is enough. `DownloadIsWhole`: half objects elsewhere never reach the workspace. `PullEnds`. |
| `daemon` | two process ids; one terminal with every command while daemons crash (`OneByOne`), or one that only connects and is interrupted (`Interrupted`), or one that connects while another looks for the daemon (`TwoAtOnce`); `MaxPolls` 2; with fairness | `TypeOK`. `OneDaemon`: used one command at a time, a daemon in charge is the one its PID file names. `ErasedIsStopped`: deinit removes no `.peer` under a daemon. `ReportIsTrue`: what a daemon reports is so, in every world. `CommandsEnd`. `WokenDaemonEnds`: a SIGTERM that reaches `pause()` ends the daemon. |
| `workspace` | two paths, two hashes; a user who waits for commands to end and leaves read-only files alone, with two versions from others (`Patient`), or with commands that are broken off and one version and two acts (`Fragile`) or three acts (`Alone`), or one who also edits while commands run and uses `readonly --off`, with one of each (`Hasty`) | `TypeOK`. `UndisturbedObjects`: hard-linked objects keep their content, but for one that was just being stored. `StagedHasObject`: what is staged can be pushed. `RemovalIsDeliberate`: a file that is only not pulled is not taken for removed, wherever a sync stopped. `AddAllSettlesStatus`: after add --all status has no changes of existing files but staged ones, and after its cleanup no deleted ones. `AddKeepsContent`: add and readonly change no content. `PullGivesAVersion`: a pulled file is a version of its path. |

`MaxSeq` 5 leaves room, after the two device entries, for two versions of a file, the
owner entry of a pull or the unregistration of a cleanup, and a third version;
this is the shortest history in which a cleanup drops a version and the next
push must number past it. `join` needs no version: `MaxSeq` 3 lets a device entry, a file and its owner
meet. `MaxSeq` 4 with two paths lets both terminals push a
batch of two at the same time. Three entries in `database` are enough for an
entry that overwrites another one with a batch boundary before, between or after them.
That run stops at its bound, so it does not check for deadlock.

Two owners and two chunks, the last one half full, are the least with which a
thread retries at another owner, two threads work on different chunks, and the
length of a range matters; `MaxThreads` 2 lets both run.

Two process ids let a daemon have a successor, and a dead id be given away. `MaxPolls` is 100
in the code; with 2 deinit has a poll after which it looks again and one after which it gives
up. The number only bounds the waiting: the theorems hold for any.

Two hashes let a file be modified, and two versions let one be the older; two paths let one
content be at two places, and give a temporary file a name (`TempOf` is the other
path). A world where the user waits needs no third version: all the properties relate one
path to its newest row, its older ones, its staging and its object. `versions` of a world bounds the
entries that come into the log, `acts` what the user does besides running commands, which counts
disconnect, deinit and each command that is broken off; commands are not bounded. So a world has two or three
events, and any commands before, between and after them: a file of the user's and the command over it that
is broken off, over a file that was pulled (`Fragile`) or with another act after it (`Alone`). All of them at once
are more than the run can take; the theorems do not depend on the bounds. Paths and hashes are symmetric. All worlds have the user update after a
connect, as the workflow in the documentation does, and after a command that stopped in a sync.

Each property has a *mutant*: an operator, next to the one it replaces and marked
as such, that changes the model as a plausible bug would (COUNT for MAX in the
next version, a mutex held per entry instead of per request, a link that stays
writable, a PID file removed before the server has stopped). TLC finds the property violated with it, which shows that the
instance reaches the interesting case.

### What the code does not keep

These runs end in a counterexample on purpose. Each checks one statement of the
documentation against what the code does.

* `reuse`: `VersionsIncrease` (`src/include/pear/net/db_types.hpp:13`). `getNextVersion`
  numbers from the rows of `files`. When Main itself removes a tracked file, its
  rows go without a log entry; adding the path again starts at version 1, and on
  every peer the new entry replaces an old row.
* `half`: `PushIsAtomic` (`src/docs/transport.md:163`). PushWAL commits its entries
  one at a time and reports failure when a later one fails.
* `revive`: `SameLogSameOwners` (`src/docs/library-usage.md:214`). The backfill in
  `ensure_schema` brings an unregistered owner back on the node that opens its
  database, in the shortest trace Main, so equal logs do not mean equal owners.
* `gone`: `OwnerHasObject` (`src/docs/architecture.md:155`) with two terminals on
  one node: cleanup deletes an object that was added again, and published, after
  it had looked. With one command at a time the property holds (`clean`).
* `partial`: `FileIsWhole` (`src/docs/transport.md:272-273`). A pull that stops while
  `create_objectfile` copies leaves half an object under the object's name.
  `has_objectfile` only looks whether the file exists, so the retried
  pull copies the half object over the user's file. Downloads from other nodes are not exposed
  to this: they check the hash (`DownloadIsWhole`).

Other limits have no run of their own. They show in the premises of properties, or in what the
properties leave out; the models reach each of them.

* deinit takes the objects along and unregisters nothing (`commands.cpp:159-181`): the log goes on naming the
  node as an owner, perhaps as the only one of the newest version, where `architecture.md:155` has owners
  that can provide the object. One terminal per node is enough. Hence `lost` in `OwnerHasObject` and `LatestAvailable`;
  without it the run `clean` ends in a counterexample.
* With two terminals on a node, push unstages by path what it collected earlier, and drops what was staged there
  since without publishing it (`commands.cpp:825`, against `docs/cli.md:194`). No property is about the staging
  of several terminals.
* With two terminals, one may disconnect while the other pushes: the id is read again unchecked
  (`commands.cpp:774`), and the entry names the owner 0. The run `race` has such pushes; `OwnerHasObject` needs one
  terminal per node.
* A registration that stops between its two transactions leaves a device without a log entry
  (`sqlite_database.cpp:534-545`), and the next one finds the device and writes none, so that peers never learn its address.
  `LatestAvailable` looks at Main's table of devices.
* The half object of the run `partial` is also left by an add: `add --readonly` then links it over the user's file
  (`commands.cpp:313-317`), and the content is nowhere any more. Hence `torn` in `UndisturbedObjects`,
  `AddKeepsContent` and `PullGivesAVersion`, which excepts this one hash until the object is deleted.
* `add` hashes a file and copies it later (`commands.cpp:305-315`): with an edit in between the object has
  another content than its name. Hence `~world.edits` in `UndisturbedObjects`.
* A read-only file whose newer version has arrived but is not pulled is still the old object. `readonly --off` looks
  for the object of the newest row, does not find it, and makes the file writable as it is
  (`commands.cpp:583-584`); the next edit changes the old object in place. It also stages a hash that has no object.
  Hence `~world.off` in `UndisturbedObjects` and `StagedHasObject`.
* connect writes no placeholders. An add --all between connect and update takes every file of the repository for removed
  (`commands.cpp:392`), and so it does after a sync that stopped before its placeholders (`sync.cpp:41-83`).
  Hence `world.careful` in `RemovalIsDeliberate`.
* A staged new file that is deleted stays staged: `add --all` looks at it neither as a file nor as a tracked path,
  status reports it as missing, and push publishes it. `AddAllSettlesStatus` says nothing of the missing files.
* `rename` leaves two links of one inode alone, so linking a file that is already linked leaves
  `<name>.pear.tmp.<time>` in the workspace (`workspace.cpp:43-60`). status shows it as untracked and the next
  add --all stages it. Hence `Linked` in `AddAllSettlesStatus`.
* A SIGTERM between the test of `stop_requested` and `pause()` (`demon.cpp:236-238`) is not acted upon until another
  signal comes, and one that stops the node before the thread has assigned `server_` (`node.cpp:25`) makes `stop` join a
  thread that waits for ever. So disconnect, and a connect that fails, may leave the daemon running, and
  `WokenDaemonEnds` asks for a daemon in `pause()` with its server built. deinit is not exposed: it
  looks whether the daemon has gone, and keeps `.peer` if not.
* `OneDaemon` and `ErasedIsStopped` need one command at a time. `is_alive` removes a
  file without an id in it, also when the daemon that has just created it is about to write
  one (`demon.cpp:298`), and a daemon that ends removes whatever file is there. With two connects at once
  `ReportIsTrue` is what is left (`ReportAlways` proves it for any commands).
* `send_ok` comes before the server is built: when the address is taken, connect
  has reported success and the daemon dies on a null `server_` (`node.cpp:53-55`). `ReportIsTrue`
  promises no more than a daemon that has not failed so far.

### Fairness

`FairSpec` says that a running command continues (`WF` of `Step(p)`: the
operating system schedules processes, RPCs return or fail) and that a handler
is not passed over at `db_mutex_` forever (`SF` of `TakesMutex(p)`). The
second is an assumption about the mutex: the C++ standard promises no order
among waiters, and without it a user who starts and kills pushes on
Main endlessly can starve another command. Nothing is assumed about users
(`Start`) or failures (`Abort`). In `ObjectTransfer` the same goes for the
command (`PullStep`) and each of its threads (`ThreadStep`): they are scheduled
and their calls return. Owners need not come back, and `PullEnds` holds all the same.
In `PearDaemon` commands, the main thread and the server thread of each daemon are scheduled
(`WF`). Nothing is assumed of users, of crashes or of other programs with the id of a
daemon.

## What is proved

`PearSyncProofs` and `PearSyncTypes` prove, for any finite set of nodes, any terminals, commands,
paths and hashes, with no bound on the log (`MaxSeq` only guards the start of
commands), from the assumptions `DataAssumption` and `SyncAssumption`:

* `SyncInvariance`: `Spec => []SyncInv`. `LogPrefix` is not inductive: that an
  answer can be applied safely depends on what happened since the question was
  asked. `SyncInv` adds that the position of every sync is one its node had
  reached (logs never shrink, so it still has), and that the answer is the
  stretch of Main's log after that position; such a stretch begins inside or right
  after the node's log, whatever other syncs have appended meanwhile, so inserting it
  leaves no gap.
* `LogPrefixTheorem`: `Spec => []LogPrefix`.
* `Refinement`: `Spec => ImplementsMetadataLog`, from the same invariant.
* `RowsTheorem`, `OwnersTheorem`: `Spec => []RowsJustified`, `Spec =>
  []OwnersJustified`. Steps are of three kinds: tame ones (rows may go, owners
  may come from rows), one entry added on Main, one batch applied. The proof
  uses `SyncInv` to know that a batch agrees with the log it ends up in, and the lemmas
  `AppliedRows`, `AppliedOwners` and `BackfilledOwners` about the operators.

* `TypeTheorem` (module `PearSyncTypes`): `Spec => []TypeOK`. `TypeOK` is not
  inductive: whether an entry that a command pushes is well formed depends on
  what its locals can be at each `pc`, and whether the next version or device id
  is a number depends on there being a greatest one. `TypeInv` adds both: `Fits`
  relates label, job and entries of a command (one that registers has the id it was given,
  one that appends has entries left, a sync returns to a step that can
  use its answer), and `Bounded` says that versions and ids in Main's log and
  devices have a bound. The rows of every node are bounded with them because
  of `RowsTheorem`'s invariant, so the proof uses `SyncInv` and `JustifiedInv` as well.

The steps of `PearSync` are first classified (`StepKinds`, `TableKinds`): most
leave the log or the tables alone, and the invariants are proved per kind.
`SyncAssumption` says that Main is a node and that `None`, which marks a free mutex, is no terminal.

`PearSyncLog` goes on from there. `StepIsLocal` says once what a step of one command
leaves alone: the locals of the others, the staging and objects of other nodes, and every database
but that of its node and Main's.

* `DeviceIdsTheorem`: `Spec => []DeviceIdsStable`. `DeviceInv` adds that no two ids have one
  address, that every id and address in the log is in Main's table, and that a command which works
  has the id that Main's table gives to its node. The last part is what makes a reconnect
  safe: `Register` finds the id again by the address, also after a connect that stopped between
  `Register` and `Configure`.
* `RouteInvariance`: `RouteInv` is the control flow of the commands as an invariant: where a command is,
  or where the sync it is in returns to, belongs to that command, and what it pushes is of its kind.
* `VersionsTheorem`: `Spec => []VersionsIncrease`, under `NeverRemoves(Main)`. The next version is
  one above the newest *row*, so `VersionInv` adds that on every node without `remove` the newest entry of
  a path still has a row as new as it (`Newest`): cleanups keep at least one version, the
  newest, and a batch cannot bring an older one back over it. `NeverRemoves(Main)` is what the code
  needs: the run `reuse` is the counterexample without it. Other nodes may remove files.
* `PushTheorem`: `Spec => []PushReported`, under `Joined # <<>>` (Main is registered before anything
  else happens). `PushInv` says that a command at `append` holds the mutex, that each id in `acks` is the
  place of the entry in Main's log, and that the sync after the push brings all of them to the node.
  `SerialInv` says that the ids follow each other, which holds because only
  a holder of the mutex writes. The hypothesis is about the one exception: Main's own
  `connect` writes its device entry without the mutex, and could do so between two entries of a peer's push.
  No peer reaches Main before `pear connect` on Main has started its daemon, but a connect of
  Main that stopped halfway may be repeated later.

`PearSyncObjects` proves the properties of objects under `OneTerminal`: on no node do two commands
run at once. The run `gone` shows that the code needs it. `StandInvariance` comes first: the device id is read again
after every sync, and with nobody else on the node it is the one the command began with, and not 0. `ObjectInv`
follows an object through the commands:

* a sync that is under way reaches all that its node has pushed (`Current`), so after it the node has all of
  its own entries (`UpToDate`); both need that no other command of the node pushes meanwhile;
* so the owners a cleanup looks up are complete (`Sees`), and what it finds unused is not owned, or an
  entry that unregisters it is among those it is about to push (`Released`);
* a node has the objects of the entries it pushes (`Supplied`), and, the point of it all, who the log names as an
  owner has the object, or lost it to a deinit and has not got it again (`Kept`).

From it follow `PeerOwnersTheorem`, `OwnersHoldTheorem` and `ReleaseTheorem`. deinit spares
Main's log, and a node that starts over has nothing its cleanup could delete before it has the whole log again. `LatestTheorem` (`Spec => []LatestAvailable`) also assumes that nobody removes
tracked files (`NobodyRemoves`): `remove` keeps no version, so it may unregister the only owner of
the newest one, as it is meant to. `AvailableInv` adds that no entry after the newest version of a path
takes its object from the device that pushed it, and that no cleanup is about to push one;
a cleanup keeps the newest row of each path, and that its node's rows are as new as its log is `VersionInv`.

`PearDatabaseProofs` proves the properties of the run `database` for logs of any length and tables of any
size. The properties compare the closed form of a batch with the statements executed one after the
other, where the run takes one statement per step. `DatabaseInv` adds that the tables are also what the whole log
applied as one batch would leave (`Whole`), and that the log has no gaps. For each table a
lemma says that a batch with one entry more is the batch followed by that entry (`FilesFollow`,
`OwnersFollow`, `DevicesFollow`), and one that the end of a log applied again changes nothing.
`RankTheorem` compares a cleanup in the order of the versions with the one by rank: a set of numbers
can be listed from the greatest down (`ListExists`: the ranks are a bijection), and an element's place in such a list is its rank
(`ListByRank`).

`ObjectTransferProofs` proves, from `TransferAssumption`, for any content, any
list of owners, any chunk size and any number of threads, `Spec => []TransferInv` and from it the first four of these:

* `TransferTypes`: `Spec => []TypeOK`. That the length of a range is a
  natural number rests on the arithmetic of `ChunkCount`: the lemma `ChunksCover`
  shows that each chunk begins inside the object.
* `OneWriterTheorem`: `Spec => []ChunkHasOneWriter`. The invariant adds that the
  indices in use are below the shared counter.
* `ServedTheorem`: `Spec => []ServedStays`. The invariant adds that a lock is held
  exactly by the threads that read from the node (`Serving`), so that a node whose lock is
  free is not read from.
* `ReliableTheorem`: `Spec => []ReliableOwnerSuffices`. The invariant adds that
  each thread at work has a reliable owner among those it has not tried
  (`Untried`); it holds when a chunk is taken because the attempts run through every
  remainder (`EveryRemainder`), and it is kept because a reliable owner fails no request
  (`OnlyOthersFail`, which uses that the size, too, came from a whole object).
* `WholeTheorem`: `Spec => []WholeWhenVerified`, from a second invariant above the first.
  `ContentInv` says that what can be read is whole (`Sound`), that a thread has received a beginning
  of its chunk and has the rest of it left (`Received`), and that each chunk is complete, or at a thread, or
  not given out yet (`Collected`); when all threads have ended without an error only the
  first is left. That the chunks put together are the object (`Flattened`) is a fact about `FlattenSeq`,
  a recursive function: any two functions that satisfy its equation agree, since there would be a first place
  where they differ (`Unrolled`), and the beginnings of the object satisfy it.
* `DownloadTheorem`: `Spec => []DownloadIsWhole`. `Unkept` adds that the object of the node is whole
  as well, since it is written in place only when pulls keep objects.

`PearDaemonProofs` proves, from `DaemonAssumption`, for any terminals, any set of process
ids, any limit of polls and any worlds, `Spec => []TypeOK /\ []DaemonInv` and from it
`DaemonTypes`, `OneDaemonAlways`, `ErasedAlways` and `ReportAlways`. `DaemonInv` has two
parts. `Basics` holds in every world: a daemon that serves has written its PID file,
one that is not through with its start has reported nothing, and a report stands
until the process is gone; it gives `ReportIsTrue`. `Alone` holds when commands come
one at a time, and is needed because `OneDaemon` alone is not inductive: a command
could be about to remove the file of a daemon in charge, or a second daemon about to
write one. It adds that a daemon that starts has a command that waits for it
(`WaitedHasReader`: so there is one such daemon at a time, and no command looks at
its file meanwhile), that a command that probes an id probes the one in the file, and
that one that is about to remove the file, or `.peer`, has seen that nobody is in
charge.

`PearWorkspaceProofs` proves all properties of the run `workspace` from
`WorkspaceAssumption`, for any finite sets of files and contents, any choice of
temporary names and any bounds.

* `WorkspaceTypes`: `Spec => []TypeOK`. `TypeInv` adds where inodes are (`Placed`):
  a file has its own or that of an object, an object one of its own. A new object needs one
  that no file still uses; `FreshInode` finds it by counting, since there is one more
  than there are files.
* `ObjectsAlways` and `AddAlwaysKeeps`. The contents of objects alone are not
  inductive: a file with the same inode could be written. `ObjInv` adds that a link is not writable
  (`Sealed`), and that the file a command is at still has the content whose hash the command
  holds (`AtHand`); `CmdInv` that readonly without `--off` only makes links. What a command does when it is broken off
  (`Half`) is one of a few kinds of writes, each of which harms at most the hash it puts into `torn`.
* `StagedAlways`: cleanup is through with its selection before it deletes, so
  `GarbageInv` adds that what it has selected is not staged and that nothing is selected
  outside a cleanup.
* `RemovalAlways`: `AccountInv` says where every tracked path is accounted for: outside
  the steps of a sync it has its file or its placeholder or was deleted by the user; between
  `SyncCollect` and `SyncPlace` it may also be in `wanted`. After a connect, or a sync that was broken off, nothing
  is accounted for (`Unsettled`) until the next sync has run to its end: meanwhile there is an update, or a pull that
  goes on with its next file (`Pulling`), neither of which takes a file for removed. A pull takes a placeholder away
  only when the file is there, and a cleanup that forgets a deletion forgets the row as well.
* `AddAllAlwaysSettles`: `SettledInv` says of every file that `add --all` is through with
  that it is as staged, or else as its row, or else an untracked link, or its staged object is torn; it rests on `AtHand`
  and on `AddAlwaysKeeps`' lemmas, as a later link could otherwise change an earlier file. `PlacedInv` says that
  the sync which follows has a file or a placeholder for every tracked path before the deletion begins.
* `PullAlways`: `VersionInv` says that the rows a pull has read at its start, and the
  hash it works with, stay among the versions of the path, because a sync moves the rows it
  replaces to `old` (`ApplyKnown`) and no cleanup runs meanwhile.

The hypotheses of the theorems in `PearSyncLog` and `PearSyncObjects` are about the constants
(`Commands`, `At`, `Joined`). The run `clean` meets all of them; `race` has two terminals on the
peer and meets `Joined # <<>>` and `NeverRemoves(Main)`; `join` starts with nobody connected and
meets `OneTerminal`, `NeverRemoves` and `NobodyRemoves`.

Only model-checked: `PullEnds`, both `CommandsEnd` and `WokenDaemonEnds`, since liveness is out
of the prover's reach. `PushIsAtomic`, `SameLogSameOwners` and `FileIsWhole` do not hold; `VersionsIncrease` and
`OwnerHasObject` do under the hypotheses of their theorems, which `reuse` and `gone` do not meet.

## Not modelled

* The SQLite wrapper and the conversions of the remote client: a transaction is one
  atomic step that may fail, an RPC one that may fail or lose its reply.
* Hashing: a content is named by its hash, collisions are out of scope.
* Printing, JSON, logging and the parsing of options; `ls` and `log` only read and
  print, as does the grouping of untracked files by directory in `status`.
* Normalisation of paths, the search for `.peer` in parent directories, and errors of
  the file system other than those named in the modules.
* `src/examples`: an early prototype that the program does not use.

## Plan

1. (done) `PearDatabase`, `PearSync`, `MetadataLog`, with the proofs above.
2. (done) `ObjectTransfer`, with its proofs.
3. (done) `PearDaemon`, with its proofs.
4. (done) `PearWorkspace`, with its proofs.
5. (done) Proofs of the remaining safety properties: device ids, versions, pushes and objects in
   `PearSync`, the closed forms of `PearDatabase`, contents in `ObjectTransfer`.
6. Proofs: `PeerSeesOwners` for several terminals on a node; an abstract specification of a download (it
   ends with the whole object or with nothing) that `ObjectTransfer` implements; `FileIsWhole` for
   pulls that keep objects and are not interrupted.
