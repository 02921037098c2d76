---------------------------- MODULE MCPearDatabase ----------------------------
(***************************************************************************)
(* The operators of PearDatabase against the code's own loops: a database  *)
(* that applies log entries one SQL statement at a time, beside the closed *)
(* form that applies a whole batch, and the cleanup that sorts versions.   *)
(***************************************************************************)
EXTENDS PearDatabase, SequencesExt, TLC

CONSTANTS Device,    \* the device ids that entries name
          MaxVersion, \* bound on the versions that entries name
          MaxLen     \* bound on the length of the log

ASSUME BoundAssumption ==
    Device \subseteq DeviceId /\ MaxVersion \in Nat /\ MaxLen \in Nat

VARIABLES log,                    \* every entry applied so far
          files, owners, devices, \* the tables it left behind
          from, base              \* where the current batch began, the tables then

vars == <<log, files, owners, devices, from, base>>
tables == [files |-> files, owners |-> owners, devices |-> devices]
Nothing == [x \in {} |-> x]

Init ==
    /\ log = Nothing /\ files = Nothing /\ owners = {} /\ devices = Nothing
    /\ from = 0
    /\ base = tables

-----------------------------------------------------------------------------
(* applyWalEntryToState, one action per type of entry                      *)

Logged(e) ==
    /\ LastSeqId(log) < MaxLen
    /\ log' = InsertOrIgnore(log, Single(LastSeqId(log) + 1, e))
    /\ UNCHANGED <<from, base>>

ApplyFileUpdate(p, h, v, d) ==
    /\ Logged(FileUpdate(p, h, v, d))
    /\ files' = [k \in DOMAIN files \cup {<<p, v>>} |->
                   IF k = <<p, v>> THEN [hash |-> h, owner |-> d] ELSE files[k]]
    /\ owners' = owners \cup {<<h, d>>}
    /\ UNCHANGED devices

ApplyFileDelete(p, v, d) ==
    /\ Logged(FileDelete(p, v, d))
    /\ files' = [k \in DOMAIN files \cup {<<p, v>>} |->
                   IF k = <<p, v>> THEN [hash |-> None, owner |-> d] ELSE files[k]]
    /\ UNCHANGED <<owners, devices>>

ApplyOwnerUpdate(h, d) ==
    /\ Logged(OwnerUpdate(h, d))
    /\ owners' = owners \cup {<<h, d>>}
    /\ UNCHANGED <<files, devices>>

ApplyOwnerDelete(h, d) ==
    /\ Logged(OwnerDelete(h, d))
    /\ owners' = owners \ {<<h, d>>}
    /\ UNCHANGED <<files, devices>>

\* The address column is unique.
ApplyDeviceUpdate(d, a) ==
    /\ \A other \in DOMAIN devices \ {d} : devices[other] # a
    /\ Logged(DeviceUpdate(d, a))
    /\ devices' = [x \in DOMAIN devices \cup {d} |-> IF x = d THEN a ELSE devices[x]]
    /\ UNCHANGED <<files, owners>>

\* The next entry is the first of another batch.
BeginBatch ==
    /\ from < LastSeqId(log)
    /\ from' = LastSeqId(log)
    /\ base' = tables
    /\ UNCHANGED <<log, files, owners, devices>>

Next ==
    \/ \E p \in Path, h \in Hash, v \in 1 .. MaxVersion, d \in Device :
          ApplyFileUpdate(p, h, v, d)
    \/ \E p \in Path, v \in 1 .. MaxVersion, d \in Device : ApplyFileDelete(p, v, d)
    \/ \E h \in Hash, d \in Device : ApplyOwnerUpdate(h, d) \/ ApplyOwnerDelete(h, d)
    \/ \E d \in Device, a \in Node : ApplyDeviceUpdate(d, a)
    \/ BeginBatch

Spec == Init /\ [][Next]_vars

-----------------------------------------------------------------------------
(* Properties                                                              *)

\* Applying a batch as a whole, as PearSync does, leaves the tables that
\* applyWalEntries leaves after its last statement, wherever the batch began.
BatchIsItsEntries ==
    LET b == EntriesSince(log, from)
    IN  /\ files = ApplyToFiles(base.files, b)
        /\ owners = ApplyToOwners(base.owners, b)
        /\ devices = ApplyToDevices(base.devices, b)

\* Applying the last entries of the log again, as a sync does whose answer
\* overlaps what another sync of the node applied, changes nothing: only a
\* batch that is not the newest can undo later entries.
ReapplyIsHarmless ==
    \A k \in 0 .. LastSeqId(log) :
        LET b == EntriesSince(log, k)
        IN  /\ ApplyToFiles(files, b) = files
            /\ ApplyToOwners(owners, b) = owners
            /\ ApplyToDevices(devices, b) = devices

\* An entry that addWalEntry versions replaces no row, whatever versions the
\* table has gaps at, and is what the next query of the path finds.
NewEntryIsCurrent ==
    \A p \in Path, h \in Hash, d \in Device :
        LET proposed == {FileUpdate(p, h, 0, d), FileDelete(p, 0, d)}
        IN  \A e \in proposed :
              LET f == ApplyToFiles(files, Single(1, Versioned(files, e)))
              IN  /\ IsRestriction(files, f)
                  /\ DOMAIN f # DOMAIN files
                  /\ CurrentHash(f, p) = RowOf(e).hash

\* cleanupOldFileVersionsForPath selects the versions of a path, newest first,
\* and deletes those after the first `keep`.
NewestFirst(s) == \A i, j \in DOMAIN s : i < j => s[i] > s[j]
CleanedInOrder(f, p, keep) ==
    LET versions == CHOOSE s \in SetToSeqs(Versions(f, p)) : NewestFirst(s)
        dropped == {<<p, versions[i]>> : i \in {j \in DOMAIN versions : j > keep}}
    IN  Restrict(f, DOMAIN f \ dropped)

CleanupIsByRank ==
    \A p \in Path, keep \in 0 .. MaxVersion :
        CleanOldVersions(files, {p}, keep) = CleanedInOrder(files, p, keep)

\* Cleaning up any paths with at least one version kept is invisible to the
\* queries that decide what to pull and which version comes next.
CleanupIsInvisible ==
    \A paths \in SUBSET Path, keep \in 1 .. MaxVersion, p \in Path :
        LET f == CleanOldVersions(files, paths, keep)
        IN  CurrentHash(f, p) = CurrentHash(files, p) /\ NextVersion(f, p) = NextVersion(files, p)

Symmetry == Permutations(Path) \cup Permutations(Hash)
===============================================================================
