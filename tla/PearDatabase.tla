----------------------------- MODULE PearDatabase -----------------------------
(***************************************************************************)
(* The metadata database of one node (src/pear/db): the write-ahead log    *)
(* table `wal` and the tables derived from it, as operators on values.     *)
(*                                                                         *)
(*   wal            a function from the sequence ids present to entries    *)
(*   files          a function from <<path, version>> to its row           *)
(*   object_owners  a set of <<hash, device id>>                           *)
(*   devices        a function from device ids to addresses                *)
(*   staging_files  a function from staged paths to hashes                 *)
(*                                                                         *)
(* An address is the node that listens on it.  Timestamps, local paths and *)
(* the read-only flag of a file carry no control and are left out.         *)
(***************************************************************************)
EXTENDS Naturals, FiniteSets, FiniteSetsExt, Functions

CONSTANTS Path,   \* workspace-relative file names
          Hash,   \* contents, named by their hash
          Node,   \* machines, named by the address their daemon listens on
          None    \* SQL NULL: the hash of a deletion row

ASSUME DataAssumption ==
    /\ None \notin Hash
    /\ IsFiniteSet(Path) /\ IsFiniteSet(Hash) /\ IsFiniteSet(Node)

DeviceId == Nat \ {0}
\* No table and no handler checks that an owner is a device.
Row == [hash : Hash \cup {None}, owner : Nat]

-----------------------------------------------------------------------------
(* Log entries, one constructor per WalOpTypeInfo.                         *)

FileUpdate(p, h, v, d) ==
    [op |-> "FileUpdate", path |-> p, hash |-> h, version |-> v, owner |-> d]
FileDelete(p, v, d) ==
    [op |-> "FileDelete", path |-> p, version |-> v, owner |-> d]
DeviceUpdate(d, a) == [op |-> "DeviceUpdate", device |-> d, address |-> a]
OwnerUpdate(h, d) == [op |-> "OwnerUpdate", hash |-> h, owner |-> d]
OwnerDelete(h, d) == [op |-> "OwnerDelete", hash |-> h, owner |-> d]

\* A client proposes file entries with version 0.
Entry ==
    [op : {"FileUpdate"}, path : Path, hash : Hash, version : Nat, owner : Nat]
    \cup [op : {"FileDelete"}, path : Path, version : Nat, owner : Nat]
    \cup [op : {"DeviceUpdate"}, device : DeviceId, address : Node]
    \cup [op : {"OwnerUpdate", "OwnerDelete"}, hash : Hash, owner : Nat]

IsFileEntry(e) == e.op \in {"FileUpdate", "FileDelete"}

\* An entry of a log has been given its version.
StoredEntry == {e \in Entry : IsFileEntry(e) => e.version # 0}

-----------------------------------------------------------------------------
(* SQL idioms: a table is a function from its primary key.                 *)

InsertOrIgnore(t, rows) ==
    [k \in DOMAIN t \cup DOMAIN rows |-> IF k \in DOMAIN t THEN t[k] ELSE rows[k]]
InsertOrReplace(t, rows) == InsertOrIgnore(rows, t)
Single(k, v) == [x \in {k} |-> v]

-----------------------------------------------------------------------------
(* The log.                                                                *)

LastSeqId(w) == IF DOMAIN w = {} THEN 0 ELSE Max(DOMAIN w)
\* Mutant: the first entry after the position is left out.
EntriesAfterNext(w, k) == Restrict(w, {s \in DOMAIN w : s > k + 1})
EntriesSince(w, k) == Restrict(w, {s \in DOMAIN w : s > k})

-----------------------------------------------------------------------------
(* Applying a batch of entries, a function from sequence ids to entries,   *)
(* in the order of the ids.  Later entries win, so each table is given in  *)
(* closed form by the last entry that touches a key; the reference that    *)
(* applies the entries one by one is in MCPearDatabase.                    *)

RowOf(e) ==
    [hash |-> IF e.op = "FileUpdate" THEN e.hash ELSE None, owner |-> e.owner]

FileWrites(b, p, v) ==
    {s \in DOMAIN b : IsFileEntry(b[s]) /\ b[s].path = p /\ b[s].version = v}
\* Mutant: the first of two entries for a row wins, as with INSERT OR IGNORE.
FirstRows(b) ==
    LET keys == {<<b[s].path, b[s].version>> : s \in {r \in DOMAIN b : IsFileEntry(b[r])}}
    IN  [k \in keys |-> RowOf(b[Min(FileWrites(b, k[1], k[2]))])]
WrittenRows(b) ==
    LET keys == {<<b[s].path, b[s].version>> : s \in {r \in DOMAIN b : IsFileEntry(b[r])}}
    IN  [k \in keys |-> RowOf(b[Max(FileWrites(b, k[1], k[2]))])]
ApplyToFiles(f, b) == InsertOrReplace(f, WrittenRows(b))

Adds(e, h, d) ==
    e.op \in {"FileUpdate", "OwnerUpdate"} /\ e.hash = h /\ e.owner = d
Removes(e, h, d) == e.op = "OwnerDelete" /\ e.hash = h /\ e.owner = d
OwnerTouches(b, h, d) ==
    {s \in DOMAIN b : Adds(b[s], h, d) \/ Removes(b[s], h, d)}
AddedOwners(b) ==
    {<<b[s].hash, b[s].owner>> :
        s \in {r \in DOMAIN b : b[r].op \in {"FileUpdate", "OwnerUpdate"}}}
\* Mutant: the deletions of a batch are applied after all its insertions.
DeletesLast(o, b) ==
    {x \in o \cup AddedOwners(b) : ~ \E s \in DOMAIN b : Removes(b[s], x[1], x[2])}
ApplyToOwners(o, b) ==
    {x \in o \cup AddedOwners(b) :
        LET touches == OwnerTouches(b, x[1], x[2])
        IN  touches # {} => Adds(b[Max(touches)], x[1], x[2])}

DeviceWrites(b, d) ==
    {s \in DOMAIN b : b[s].op = "DeviceUpdate" /\ b[s].device = d}
ApplyToDevices(t, b) ==
    LET ids == {b[s].device : s \in {r \in DOMAIN b : b[r].op = "DeviceUpdate"}}
    IN  InsertOrReplace(t, [d \in ids |-> b[Max(DeviceWrites(b, d))].address])

\* What the log alone says of ownership.
LogOwners(w) == ApplyToOwners({}, w)

-----------------------------------------------------------------------------
(* Queries and the entry that addWalEntry stores for a proposed one.       *)

Versions(f, p) == {v \in {k[2] : k \in DOMAIN f} : <<p, v>> \in DOMAIN f}
\* Mutant: COUNT for MAX.
CountedVersion(f, p) == Cardinality(Versions(f, p)) + 1
NextVersion(f, p) == IF Versions(f, p) = {} THEN 1 ELSE Max(Versions(f, p)) + 1
Versioned(f, e) ==
    IF IsFileEntry(e) THEN [e EXCEPT !.version = NextVersion(f, e.path)] ELSE e

KnownPaths(f) == {k[1] : k \in DOMAIN f}
\* The hash of the newest row, None when there is none or it is a deletion.
CurrentHash(f, p) ==
    IF Versions(f, p) = {} THEN None ELSE f[<<p, Max(Versions(f, p))>>].hash

\* Mutants: the oldest versions are kept; one version too many is kept.
CleanNewVersions(f, paths, keep) ==
    Restrict(f, {k \in DOMAIN f :
        k[1] \in paths => Cardinality({v \in Versions(f, k[1]) : v < k[2]}) < keep})
CleanTooFew(f, paths, keep) ==
    Restrict(f, {k \in DOMAIN f :
        k[1] \in paths => Cardinality({v \in Versions(f, k[1]) : v > k[2]}) <= keep})
\* The versions of the given paths beyond the newest `keep` are dropped.
CleanOldVersions(f, paths, keep) ==
    Restrict(f, {k \in DOMAIN f :
        k[1] \in paths => Cardinality({v \in Versions(f, k[1]) : v > k[2]}) < keep})

Referenced(f, st) == {f[k].hash : k \in DOMAIN f} \cup {st[p] : p \in DOMAIN st}

\* Every time a database is opened, ensure_schema makes the owner of every
\* file row an owner of its object.
Backfill(f, o) ==
    o \cup {<<f[k].hash, f[k].owner>> : k \in {j \in DOMAIN f : f[j].hash # None}}

OwnerIds(o, h) == {x[2] : x \in {y \in o : y[1] = h}}
OwnerAddresses(o, t, h) == {t[d] : d \in OwnerIds(o, h) \cap DOMAIN t}
HasObjectOwner(o, h, d) == <<h, d>> \in o

StageFiles(st, paths, h) == InsertOrReplace(st, [p \in paths |-> h])
ClearStaging == [p \in {} |-> None]
UnstageFile(st, p) == Restrict(st, DOMAIN st \ {p})

DeviceOf(t, a) == CHOOSE d \in DOMAIN t : t[d] = a
\* Mutant: an address is registered again without looking it up.
NeverRegistered(t, a) == FALSE
Registered(t, a) == \E d \in DOMAIN t : t[d] = a
\* Mutant: ids begin at 0, which local_config reads as "not connected".
DeviceIdFromZero(t) == IF DOMAIN t = {} THEN 0 ELSE Max(DOMAIN t) + 1
NewDeviceId(t) == IF DOMAIN t = {} THEN 1 ELSE Max(DOMAIN t) + 1
===============================================================================
