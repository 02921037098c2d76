-------------------------- MODULE PearWorkspaceProofs --------------------------
(***************************************************************************)
(* Theorems about PearWorkspace, for any paths, contents, worlds and       *)
(* bounds.                                                                 *)
(***************************************************************************)
EXTENDS PearWorkspace, FiniteSetTheorems, TLAPS

-----------------------------------------------------------------------------
(* Inodes                                                                  *)

ObjectInodes(h) == {h} \X Copies
Kind == [content : Hash, writable : BOOLEAN]

\* A file is an inode of its own or an object, an object is one of its inodes.
Placed ==
    /\ \A q \in Path : file[q] \in {None, q} \cup (Hash \X Copies)
    /\ \A h \in Hash : object[h] \in {None} \cup ObjectInodes(h)

DiskOK ==
    /\ file \in [Path -> Inodes \cup {None}]
    /\ object \in [Hash -> Inodes \cup {None}]
    /\ disk \in [InUse(file, object) -> Kind]
    /\ torn \subseteq {h \in Hash : object[h] # None}

LEMMA PathsAreCounted == Cardinality(Path) \in Nat /\ Copies \subseteq Nat
  BY WorkspaceAssumption, FS_CardinalityType DEF Copies

\* A path, a copy of an object and None are different things.
LEMMA InodesDiffer ==
    /\ None \notin Inodes
    /\ \A q \in Path : q \notin Hash \X Copies
    /\ \A h \in Hash : ObjectInodes(h) \subseteq Hash \X Copies
  <1>1. Hash \X Copies \subseteq Hash \X Nat
    BY PathsAreCounted
  <1>2. None \notin Path /\ \A x \in Path \cup {None} : x \notin Hash \X Nat
    BY WorkspaceAssumption
  <1>3. \A h \in Hash : ObjectInodes(h) \subseteq Hash \X Copies
    BY DEF ObjectInodes
  <1> HIDE DEF Copies
  <1> QED
    BY <1>1, <1>2, <1>3 DEF Inodes

\* The files cannot be links of every copy of an object, there are too few of them.
LEMMA FreshInode ==
    ASSUME NEW h \in Hash, DiskOK, Placed, ~Has(h)
    PROVE  ObjectInode(h) \in ObjectInodes(h) /\ ObjectInode(h) \notin InUse(file, object)
  <1>1. \E i \in ObjectInodes(h) : i \notin InUse(file, object)
    <2> SUFFICES ASSUME \A i \in ObjectInodes(h) : i \in InUse(file, object) PROVE FALSE
      OBVIOUS
    <2>1. \A n \in Copies : \E q \in Path : file[q] = <<h, n>>
      <3> SUFFICES ASSUME NEW n \in Copies PROVE \E q \in Path : file[q] = <<h, n>>
        OBVIOUS
      <3>1. <<h, n>> \in InUse(file, object)
        BY DEF ObjectInodes
      <3>2. \A g \in Hash : object[g] # <<h, n>>
        BY InodesDiffer DEF Placed, Has, ObjectInodes, Inodes
      <3> QED
        BY <3>1, <3>2 DEF InUse
    <2> DEFINE f == [n \in Copies |-> CHOOSE q \in Path : file[q] = <<h, n>>]
    <2>2. f \in [Copies -> Path] /\ \A n \in Copies : file[f[n]] = <<h, n>>
      BY <2>1
    <2>3. IsFiniteSet(Copies) /\ Cardinality(Copies) = Cardinality(Path) + 1
      BY PathsAreCounted, FS_Interval DEF Copies
    <2>4. Cardinality(Path) < Cardinality(Copies)
      BY <2>3, PathsAreCounted
    <2> HIDE DEF f
    <2>5. \E m, n \in Copies : m # n /\ f[m] = f[n]
      BY <2>2, <2>3, <2>4, WorkspaceAssumption, FS_PigeonHole
    <2> QED
      BY <2>2, <2>5
  <1> QED
    BY <1>1 DEF ObjectInode, ObjectInodes

\* Names that lead to inodes in use, or to one that is written, leave a disk.
LEMMA WriteTypes ==
    ASSUME DiskOK, NEW f \in [Path -> Inodes \cup {None}], NEW o \in [Hash -> Inodes \cup {None}],
           NEW i, NEW what, NEW half \in SUBSET Hash, Leave(f, o, i, what, half),
           i \in InUse(f, o) => what \in Kind, \A j \in InUse(f, o) \ {i} : j \in InUse(file, object)
    PROVE  DiskOK'
  <1>1. disk' = [j \in InUse(f, o) |-> IF j = i THEN what ELSE disk[j]]
    BY DEF Leave
  <1>2. \A j \in InUse(f, o) : (IF j = i THEN what ELSE disk[j]) \in Kind
    BY DEF DiskOK
  <1>3. file' = f /\ object' = o /\ InUse(f, o) = InUse(file, object)'
    BY DEF Leave, InUse
  <1>4. torn' \subseteq {h \in Hash : o[h] # None}
    BY DEF Leave, DiskOK
  <1> HIDE DEF Leave
  <1>5. disk' \in [InUse(f, o) -> Kind]
    BY <1>1, <1>2
  <1> QED
    BY <1>3, <1>4, <1>5 DEF DiskOK

\* Where no object loses its name, what is torn stays so.
LEMMA TornStays ==
    ASSUME DiskOK, NEW f, NEW o, NEW i, NEW what, NEW half \in SUBSET Hash, Leave(f, o, i, what, half),
           \A h \in Hash : Has(h) \/ h \in half => o[h] # None
    PROVE  torn' = torn \cup half
  BY DEF Leave, DiskOK, Has

LEMMA NamesInUse ==
    /\ \A q \in Path : Exists(q) => file[q] \in InUse(file, object)
    /\ \A h \in Hash : Has(h) => object[h] \in InUse(file, object)
  BY DEF Exists, Has, InUse

\* What the operations on files do.
LEMMA PutFileEffect ==
    ASSUME DiskOK, Placed, NEW q \in Path, NEW c \in Hash, PutFile(q, c)
    PROVE  /\ DiskOK' /\ Placed'
           /\ file' = [file EXCEPT ![q] = q] /\ object' = object /\ torn' = torn
           /\ disk'[q] = Inode(c, TRUE)
           /\ \A j \in InUse(file, object) \ {q} : j \in InUse(file', object') => disk'[j] = disk[j]
  <1> DEFINE f == [file EXCEPT ![q] = q]
             what == Inode(c, TRUE)
  <1>1. Leave(f, object, q, what, {})
    BY DEF PutFile, Write
  <1>2. f \in [Path -> Inodes \cup {None}] /\ f[q] = q /\ \A p \in Path \ {q} : f[p] = file[p]
    BY DEF DiskOK, Inodes
  <1>3. InUse(f, object) \subseteq InUse(file, object) \cup {q} /\ q \in InUse(f, object)
    BY <1>2, InodesDiffer DEF InUse, Inodes
  <1>4. what \in Kind
    BY DEF Inode, Kind
  <1> HIDE DEF what
  <1>5. file' = f /\ object' = object
    BY <1>1 DEF Leave
  <1>6. \A j \in InUse(f, object) : disk'[j] = IF j = q THEN what ELSE disk[j]
    BY <1>1 DEF Leave
  <1> HIDE DEF f
  <1>7. DiskOK'
    BY <1>1, <1>2, <1>3, <1>4, WriteTypes DEF DiskOK
  <1>8. Placed'
    BY <1>2, <1>5 DEF Placed
  <1>9. torn' = torn
    BY <1>1, TornStays DEF Has
  <1> QED
    BY <1>3, <1>5, <1>6, <1>7, <1>8, <1>9 DEF f, what

LEMMA PutObjectEffect ==
    ASSUME DiskOK, Placed, NEW h \in Hash, ~Has(h), NEW what \in Kind, NEW half \in SUBSET {h},
           Leave(file, [object EXCEPT ![h] = ObjectInode(h)], ObjectInode(h), what, half)
    PROVE  /\ DiskOK' /\ Placed'
           /\ file' = file /\ object' = [object EXCEPT ![h] = ObjectInode(h)]
           /\ torn' = torn \cup half
           /\ Has(h)' /\ \A q \in Path : file[q] # object'[h]
           /\ disk'[object'[h]] = what
           /\ \A j \in InUse(file, object) : disk'[j] = disk[j]
  <1> DEFINE i == ObjectInode(h)
             o == [object EXCEPT ![h] = i]
  <1>1. i \in ObjectInodes(h) /\ i \notin InUse(file, object)
    BY FreshInode
  <1>2. i \in Inodes /\ i # None
    BY <1>1, InodesDiffer DEF Inodes
  <1>3. Leave(file, o, i, what, half)
    OBVIOUS
  <1> HIDE DEF i
  <1>4. o \in [Hash -> Inodes \cup {None}] /\ o[h] = i /\ \A g \in Hash \ {h} : o[g] = object[g]
    BY <1>2 DEF DiskOK
  <1> HIDE DEF o
  <1>5. InUse(file, o) = InUse(file, object) \cup {i}
    BY <1>2, <1>4 DEF InUse, Has
  <1>6. file' = file /\ object' = o
    BY <1>3 DEF Leave
  <1>7. \A j \in InUse(file, o) : disk'[j] = IF j = i THEN what ELSE disk[j]
    BY <1>3 DEF Leave
  <1>8. DiskOK'
    BY <1>3, <1>4, <1>5, WriteTypes DEF DiskOK
  <1>9. Placed'
    BY <1>1, <1>4, <1>6 DEF Placed
  <1>10. \A q \in Path : file[q] # i
    BY <1>1, <1>2 DEF InUse
  <1>11. torn' = torn \cup half
    BY <1>2, <1>3, <1>4, TornStays DEF Has
  <1>12. \A j \in InUse(file, object) : disk'[j] = disk[j]
    BY <1>1, <1>5, <1>7
  <1>13. disk'[i] = what
    BY <1>5, <1>7
  <1> QED
    BY <1>2, <1>4, <1>6, <1>8, <1>9, <1>10, <1>11, <1>12, <1>13 DEF i, o, Has

\* An inode that has a name is written in place.
LEMMA WriteInPlace ==
    ASSUME DiskOK, Placed, NEW i, NEW what \in Kind, Write(file, object, i, what)
    PROVE  /\ DiskOK' /\ Placed'
           /\ file' = file /\ object' = object /\ torn' = torn
           /\ \A j \in InUse(file, object) : disk'[j] = IF j = i THEN what ELSE disk[j]
  <1>1. Leave(file, object, i, what, {})
    BY DEF Write
  <1>2. DiskOK'
    BY <1>1, WriteTypes DEF DiskOK
  <1>3. file' = file /\ object' = object
    BY <1>1 DEF Leave
  <1>4. Placed'
    BY <1>3 DEF Placed
  <1>5. torn' = torn
    BY <1>1, TornStays DEF Has
  <1> QED
    BY <1>1, <1>2, <1>3, <1>4, <1>5 DEF Leave

\* Names are removed: what is left is as it was.
LEMMA RemoveNames ==
    ASSUME DiskOK, Placed, NEW f \in [Path -> Inodes \cup {None}],
           NEW o \in [Hash -> Inodes \cup {None}], Write(f, o, None, None),
           \A q \in Path : f[q] \in {file[q], None}, \A h \in Hash : o[h] \in {object[h], None}
    PROVE  /\ DiskOK' /\ Placed'
           /\ file' = f /\ object' = o /\ torn' = {h \in torn : o[h] # None}
           /\ \A j \in InUse(f, o) : j \in InUse(file, object) /\ disk'[j] = disk[j]
  <1>1. None \notin InUse(f, o) /\ InUse(f, o) \subseteq InUse(file, object)
    BY DEF InUse
  <1>2. Leave(f, o, None, None, {})
    BY DEF Write
  <1>3. DiskOK'
    BY <1>1, <1>2, WriteTypes
  <1>4. file' = f /\ object' = o /\ torn' = {h \in torn : o[h] # None}
    BY <1>2 DEF Leave
  <1>5. Placed'
    BY <1>4 DEF Placed
  <1>6. \A j \in InUse(f, o) : disk'[j] = disk[j]
    BY <1>1, <1>2 DEF Leave
  <1> QED
    BY <1>1, <1>3, <1>4, <1>5, <1>6

\* A name becomes a link of an object, whose permission changes.
LinkAs(r, h, w, half) ==
    Leave([file EXCEPT ![r] = object[h]], object, object[h], Inode(disk[object[h]].content, w), half)

LEMMA LinkAsEffect ==
    ASSUME DiskOK, Placed, NEW r \in Path, NEW h \in Hash, Has(h), NEW w \in BOOLEAN,
           NEW half \in SUBSET {h}, LinkAs(r, h, w, half)
    PROVE  /\ DiskOK' /\ Placed'
           /\ object' = object /\ file' = [file EXCEPT ![r] = object[h]]
           /\ torn' = torn \cup half
           /\ disk'[object[h]] = Inode(disk[object[h]].content, w)
           /\ \A j \in InUse(file, object) \ {object[h]} : j \in InUse(file', object') => disk'[j] = disk[j]
  <1> DEFINE f == [file EXCEPT ![r] = object[h]]
             what == Inode(disk[object[h]].content, w)
  <1>1. Leave(f, object, object[h], what, half)
    BY DEF LinkAs
  <1>2. object[h] \in Inodes /\ object[h] \in Hash \X Copies /\ object[h] # None
    BY InodesDiffer DEF Has, Placed, Inodes
  <1>3. what \in Kind
    BY NamesInUse DEF DiskOK, Kind, Inode
  <1> HIDE DEF what
  <1>4. f \in [Path -> Inodes \cup {None}] /\ f[r] = object[h] /\ \A p \in Path \ {r} : f[p] = file[p]
    BY <1>2 DEF DiskOK
  <1> HIDE DEF f
  <1>5. InUse(f, object) \subseteq InUse(file, object) /\ object[h] \in InUse(f, object)
    BY <1>2, <1>4 DEF InUse
  <1>6. file' = f /\ object' = object
    BY <1>1 DEF Leave
  <1>7. \A j \in InUse(f, object) : disk'[j] = IF j = object[h] THEN what ELSE disk[j]
    BY <1>1 DEF Leave
  <1>8. DiskOK'
    BY <1>1, <1>3, <1>4, <1>5, WriteTypes DEF DiskOK
  <1>9. Placed'
    BY <1>2, <1>4, <1>6 DEF Placed
  <1>10. torn' = torn \cup half
    BY <1>1, TornStays DEF Has
  <1> QED
    BY <1>5, <1>6, <1>7, <1>8, <1>9, <1>10 DEF what, f

\* link_objectfile_to_workspace links the file, or a new name.
LEMMA LinkIsLinkAs ==
    ASSUME NEW q \in Path, NEW h \in Hash, Link(q, h)
    PROVE  \E r \in Path :
             /\ LinkAs(r, h, FALSE, {})
             /\ r # q => file[q] = object[h] /\ ~Exists(r) /\ r \notin Tracked \cup Staged
  <1> DEFINE temp == TempOf[q]
             stray == file[q] = object[h] /\ temp # None /\ temp \notin Tracked \cup Staged
                        /\ file[temp] = None
             r == IF stray THEN temp ELSE q
  <1>1. r \in Path
    BY WorkspaceAssumption
  <1>2. LinkAs(r, h, FALSE, {})
    BY DEF Link, Write, LinkAs
  <1>3. r # q => file[q] = object[h] /\ ~Exists(r) /\ r \notin Tracked \cup Staged
    BY DEF Exists
  <1> QED
    BY <1>1, <1>2, <1>3

\* Left behind by a link that was broken off.
LEMMA HalfLinkIsLinkAs ==
    ASSUME DiskOK, NEW q \in Path, NEW h \in Hash, Has(h), HalfLink(q, h)
    PROVE  \E r \in Path, w \in BOOLEAN, half \in SUBSET {h} :
             /\ LinkAs(r, h, w, half) /\ (w => half = {h})
             /\ ~Exists(r) /\ r \notin Tracked \cup Staged
  <1>1. TempOf[q] \in Path /\ ~Exists(TempOf[q]) /\ TempOf[q] \notin Tracked \cup Staged
    BY WorkspaceAssumption DEF HalfLink, TempIsFree
  <1>2. disk[object[h]].writable \in BOOLEAN
    BY NamesInUse DEF DiskOK, Kind
  <1>3. PICK w \in BOOLEAN : LinkAs(TempOf[q], h, w, IF w THEN {h} ELSE {})
    BY <1>2 DEF HalfLink, LinkAs
  <1> QED
    BY <1>1, <1>3

\* A link is the object, and no longer writable; if the name was a link already,
\* another name may become one.
LEMMA LinkEffect ==
    ASSUME DiskOK, Placed, NEW q \in Path, NEW h \in Hash, Has(h), Link(q, h)
    PROVE  /\ DiskOK' /\ Placed'
           /\ object' = object /\ torn' = torn
           /\ file'[q] = object[h]
           /\ \A p \in Path \ {q} : \/ file'[p] = file[p]
                                    \/ ~Exists(p) /\ p \notin Tracked \cup Staged /\ file'[p] = object[h]
           /\ disk'[object[h]] = Inode(disk[object[h]].content, FALSE)
           /\ \A j \in InUse(file, object) \ {object[h]} : j \in InUse(file', object') => disk'[j] = disk[j]
  <1>1. PICK r \in Path :
             /\ LinkAs(r, h, FALSE, {})
             /\ r # q => file[q] = object[h] /\ ~Exists(r) /\ r \notin Tracked \cup Staged
    BY LinkIsLinkAs
  <1>2. /\ DiskOK' /\ Placed'
        /\ object' = object /\ file' = [file EXCEPT ![r] = object[h]] /\ torn' = torn
        /\ disk'[object[h]] = Inode(disk[object[h]].content, FALSE)
        /\ \A j \in InUse(file, object) \ {object[h]} : j \in InUse(file', object') => disk'[j] = disk[j]
    <2> DEFINE none == {}
    <2>1. none \in SUBSET {h} /\ FALSE \in BOOLEAN /\ LinkAs(r, h, FALSE, none)
      BY <1>1
    <2>2. torn \cup none = torn
      OBVIOUS
    <2> HIDE DEF none
    <2> QED
      BY <2>1, <2>2, LinkAsEffect
  <1>3. file'[r] = object[h] /\ \A p \in Path \ {r} : file'[p] = file[p]
    BY <1>2 DEF DiskOK
  <1> QED
    BY <1>1, <1>2, <1>3

-----------------------------------------------------------------------------
(* Types                                                                   *)

\* Where a command may go on after a sync.
Returns == {"idle", "publish", "open", "fetch", "select", "clean", "delete"}

DbOK ==
    /\ joined \in {"no", "half", "fresh", "yes"}
    /\ row \in [Path -> Row \cup {None}]
    /\ old \in [Path -> SUBSET Hash]
    /\ sent \in [Path -> Row \cup {None}]
    /\ staged \in [Path -> Row \cup {None}]
LocalOK ==
    /\ pc \in Label
    /\ cmd \in Flags
    /\ todo \subseteq Path
    /\ path \in Path \cup {None}
    /\ hash \in Hash \cup {None}
    /\ ro \in BOOLEAN
    /\ plan \in [Path -> Row \cup {None}]
    /\ removed \subseteq Path
    /\ failed \in BOOLEAN
    /\ then \in Returns
    /\ wanted \subseteq Path
    /\ garbage \subseteq Hash
RestOK ==
    /\ world \in Worlds
    /\ empty \subseteq Path
    /\ versions \in 0 .. world.versions
    /\ edits \in 0 .. world.acts
    /\ gone \subseteq Path

\* A command that works on a file knows which, and links only an object that is there.
AtWork ==
    /\ pc \in {"copy", "stage", "put", "keep"} => path \in Path /\ hash \in Hash
    /\ pc \in {"stage", "put"} => Has(hash)

TypeInv == DbOK /\ DiskOK /\ Placed /\ LocalOK /\ RestOK /\ AtWork

LEMMA TypeInvTypes == TypeInv => TypeOK
  <1>1. LocalOK => then \in Label
    BY DEF LocalOK, Returns, Label
  <1> QED
    BY <1>1 DEF TypeInv, DbOK, DiskOK, LocalOK, RestOK, TypeOK, Kind

LEMMA NoRowTyped == NoRow \in [Path -> Row \cup {None}]
  BY DEF NoRow

LEMMA TypeInit == Init => TypeInv
  <1> SUFFICES ASSUME Init PROVE TypeInv
    OBVIOUS
  <1>1. DbOK
    BY NoRowTyped DEF Init, DbOK
  <1>2. file = [q \in Path |-> None] /\ object = [h \in Hash |-> None]
    BY DEF Init, NoRow
  <1>3. InUse(file, object) = {}
    BY <1>2 DEF InUse
  <1>4. DiskOK /\ Placed
    BY <1>2, <1>3 DEF Init, DiskOK, Placed
  <1>5. NoCmd \in Flags /\ "idle" \in Label
    BY DEF NoCmd, Flags, Label
  <1>6. LocalOK
    BY <1>5, NoRowTyped DEF Init, LocalOK, Returns
  <1>7. RestOK
    BY WorkspaceAssumption DEF Init, RestOK
  <1>8. AtWork
    BY DEF Init, AtWork
  <1> QED
    BY <1>1, <1>4, <1>6, <1>7, <1>8 DEF TypeInv

\* What a step leaves alone keeps its type.
LEMMA SameDb == ASSUME DbOK, UNCHANGED dbVars PROVE DbOK'
  BY DEF DbOK, dbVars
LEMMA SameDisk == ASSUME DiskOK, Placed, UNCHANGED diskVars PROVE DiskOK' /\ Placed'
  <1>1. InUse(file, object)' = InUse(file, object)
    BY DEF InUse, diskVars
  <1> QED
    BY <1>1 DEF DiskOK, Placed, diskVars
LEMMA SameRest == ASSUME RestOK, UNCHANGED <<bounds, empty, gone>> PROVE RestOK'
  BY DEF RestOK, bounds
LEMMA NotAtWork == ASSUME pc' \notin {"copy", "stage", "put", "keep"} PROVE AtWork'
  BY DEF AtWork

LEMMA DoneTypes == ASSUME Done PROVE LocalOK' /\ pc' = "idle" /\ AtWork'
  <1>1. NoCmd \in Flags
    BY DEF NoCmd, Flags
  <1>2. pc' = "idle"
    BY DEF Done, Goto
  <1> QED
    BY <1>1, <1>2, NoRowTyped, NotAtWork DEF Done, LocalOK, Label, Returns

LEMMA BeginTypes ==
    ASSUME TypeInv, NEW name \in {"update", "add", "readonly", "push", "pull", "cleanup"},
           NEW whole \in BOOLEAN, Begin(name, whole), NEW label \in {"sync", "add", "mode"},
           Goto(label), todo' \subseteq Path, ro' \in BOOLEAN,
           then' \in Returns
    PROVE  TypeInv'
  <1>1. cmd' \in Flags
    BY DEF Begin, Flags
  <1>2. LocalOK'
    BY <1>1 DEF TypeInv, LocalOK, Begin, Goto, Label, Returns
  <1>3. DbOK' /\ DiskOK' /\ Placed' /\ RestOK'
    BY SameDb, SameDisk, SameRest DEF TypeInv, Begin
  <1>4. AtWork'
    BY NotAtWork DEF Goto
  <1> QED
    BY <1>2, <1>3, <1>4 DEF TypeInv

LEMMA BeginSyncTypes ==
    ASSUME TypeInv, NEW name \in {"update", "push", "pull", "cleanup"},
           NEW label \in {"idle", "publish", "open", "select"}, BeginSync(name, label)
    PROVE  TypeInv'
  <1>1. Begin(name, FALSE) /\ Goto("sync") /\ then' = label /\ todo' = todo /\ ro' = ro
    BY DEF BeginSync
  <1>2. todo' \subseteq Path /\ ro' \in BOOLEAN /\ then' \in Returns
    BY <1>1 DEF TypeInv, LocalOK, Returns
  <1> QED
    BY <1>1, <1>2, BeginTypes

LEMMA NextPathTypes ==
    ASSUME LocalOK, NEW label \in {"add", "mode", "fetch"}, NEW error \in BOOLEAN,
           NextPath(label, error), todo' \subseteq Path
    PROVE  LocalOK' /\ AtWork'
  <1>1. pc' = label
    BY DEF NextPath, Goto
  <1> QED
    BY <1>1, NotAtWork DEF LocalOK, NextPath, Label, Returns

LEMMA ApplyTypes ==
    ASSUME TypeInv, NEW news \in [Path -> Row \cup {None}], Apply(news), staged' = staged,
           joined' \in {"no", "half", "fresh", "yes"}, UNCHANGED <<world, empty, edits, gone>>
    PROVE  DbOK' /\ RestOK'
  <1> DEFINE own == [q \in Path |-> IF sent[q] # None THEN sent[q] ELSE row[q]]
             next == [q \in Path |-> IF news[q] # None THEN news[q] ELSE own[q]]
             past(q) == (({row[q]} \ {own[q]}) \cup ({own[q]} \ {next[q]})) \ {None}
             n == Cardinality({q \in Path : news[q] # None})
  <1>1. own \in [Path -> Row \cup {None}]
    BY DEF TypeInv, DbOK
  <1>2. next \in [Path -> Row \cup {None}]
    BY <1>1
  <1>3. row' = next
    BY DEF Apply
  <1>4. \A q \in Path : past(q) \subseteq Row
    BY <1>1, <1>2 DEF TypeInv, DbOK
  <1> HIDE DEF own, next
  <1>5. \A q \in Path : {r.hash : r \in past(q)} \subseteq Hash
    BY <1>4 DEF Row
  <1>6. old' = [q \in Path |-> old[q] \cup {r.hash : r \in past(q)}]
    BY <1>3 DEF Apply, own
  <1> HIDE DEF past
  <1>7. old' \in [Path -> SUBSET Hash]
    BY <1>5, <1>6 DEF TypeInv, DbOK
  <1>8. n \in Nat
    BY WorkspaceAssumption, FS_Subset, FS_CardinalityType
  <1>9. versions' = versions + n /\ versions' <= world.versions /\ sent' = NoRow
    BY DEF Apply
  <1> HIDE DEF n
  <1>10. DbOK'
    BY <1>2, <1>3, <1>7, <1>9, NoRowTyped DEF TypeInv, DbOK
  <1>11. world.versions \in Nat
    BY WorkspaceAssumption DEF TypeInv, RestOK
  <1>12. RestOK'
    BY <1>8, <1>9, <1>11 DEF TypeInv, RestOK
  <1> QED
    BY <1>10, <1>12

\* connect, disconnect, deinit and sync
LEMMA ConnectTypes == ASSUME TypeInv, Connect PROVE TypeInv'
  <1>1. PICK news \in [Path -> Row \cup {None}] : Apply(news)
    BY DEF Connect
  <1>2. DbOK' /\ RestOK'
    BY <1>1, ApplyTypes DEF Connect
  <1>3. DiskOK' /\ Placed'
    BY SameDisk DEF TypeInv, Connect
  <1>4. LocalOK' /\ AtWork'
    BY NotAtWork DEF TypeInv, LocalOK, Connect, localVars
  <1> QED
    BY <1>2, <1>3, <1>4 DEF TypeInv

LEMMA DisconnectTypes == ASSUME TypeInv, Disconnect PROVE TypeInv'
  <1>1. DiskOK' /\ Placed'
    BY SameDisk DEF TypeInv, Disconnect
  <1>2. DbOK'
    BY DEF TypeInv, DbOK, Disconnect
  <1>3. RestOK'
    BY WorkspaceAssumption DEF TypeInv, RestOK, Disconnect
  <1>4. LocalOK' /\ AtWork'
    BY NotAtWork DEF TypeInv, LocalOK, Disconnect, localVars
  <1> QED
    BY <1>1, <1>2, <1>3, <1>4 DEF TypeInv

LEMMA DeinitTypes == ASSUME TypeInv, Deinit PROVE TypeInv'
  <1>1. DiskOK' /\ Placed'
    <2>1. [h \in Hash |-> None] \in [Hash -> Inodes \cup {None}]
      OBVIOUS
    <2> QED
      BY <2>1, RemoveNames DEF TypeInv, DiskOK, Deinit
  <1>2. DbOK'
    BY NoRowTyped DEF TypeInv, DbOK, Deinit
  <1>3. world.versions \in Nat
    BY WorkspaceAssumption DEF TypeInv, RestOK
  <1>4. RestOK'
    BY <1>3, WorkspaceAssumption DEF TypeInv, RestOK, Deinit
  <1>5. LocalOK' /\ AtWork'
    BY NotAtWork DEF TypeInv, LocalOK, Deinit, localVars
  <1> QED
    BY <1>1, <1>2, <1>4, <1>5 DEF TypeInv

LEMMA SyncApplyTypes == ASSUME TypeInv, SyncApply PROVE TypeInv'
  <1>1. DiskOK' /\ Placed'
    BY SameDisk DEF TypeInv, SyncApply
  <1>2. CASE SyncFails /\ UNCHANGED <<row, old, sent, versions>>
    <2>1. DbOK' /\ RestOK'
      BY <1>2 DEF SyncApply, TypeInv, DbOK, RestOK
    <2>2. LocalOK' /\ AtWork'
      <3>1. CASE Done
        BY <3>1, DoneTypes
      <3>2. CASE todo' = (IF cmd.whole THEN {} ELSE todo) /\ NextPath("fetch", TRUE)
        BY <3>2, NextPathTypes DEF TypeInv, LocalOK
      <3> QED
        BY <1>2, <3>1, <3>2 DEF SyncFails
    <2> QED
      BY <1>1, <2>1, <2>2 DEF TypeInv
  <1>3. CASE /\ \E news \in News : Apply(news)
             /\ Goto("collect")
             /\ UNCHANGED <<cmd, todo, path, hash, ro, plan, removed, failed, then, wanted, garbage>>
    <2>1. PICK news \in News : Apply(news)
      BY <1>3
    <2>2. news \in [Path -> Row \cup {None}]
      <3>1. CASE news = NoRow
        BY <3>1, NoRowTyped
      <3>2. ASSUME NEW q \in Path, NEW r \in Row, news = [NoRow EXCEPT ![q] = r]
            PROVE  news \in [Path -> Row \cup {None}]
        BY <3>2, NoRowTyped
      <3> QED
        BY <2>1, <3>1, <3>2 DEF News
    <2>3. staged' = staged /\ joined' \in {"no", "half", "fresh", "yes"} /\ UNCHANGED <<world, empty, edits, gone>>
      BY DEF SyncApply, TypeInv, DbOK
    <2>4. DbOK' /\ RestOK'
      BY <2>1, <2>2, <2>3, ApplyTypes
    <2>5. LocalOK' /\ AtWork'
      BY <1>3, NotAtWork DEF TypeInv, LocalOK, Goto, Label, Returns
    <2> QED
      BY <1>1, <2>4, <2>5 DEF TypeInv
  <1> QED
    BY <1>2, <1>3 DEF SyncApply

LEMMA SyncCollectTypes == ASSUME TypeInv, SyncCollect PROVE TypeInv'
  <1>1. DbOK' /\ DiskOK' /\ Placed'
    BY SameDb, SameDisk DEF TypeInv, SyncCollect
  <1>2. wanted' \subseteq Path
    BY DEF SyncCollect, Tracked
  <1>3. LocalOK' /\ AtWork'
    BY <1>2, NotAtWork DEF TypeInv, LocalOK, SyncCollect, Goto, Label, Returns
  <1>4. RestOK'
    BY DEF TypeInv, RestOK, SyncCollect, bounds
  <1> QED
    BY <1>1, <1>3, <1>4 DEF TypeInv

LEMMA SyncPlaceTypes == ASSUME TypeInv, SyncPlace PROVE TypeInv'
  <1>1. DiskOK' /\ Placed'
    BY SameDisk DEF TypeInv, SyncPlace
  <1>2. DbOK'
    BY DEF TypeInv, DbOK, SyncPlace
  <1>3. RestOK'
    BY DEF TypeInv, LocalOK, RestOK, SyncPlace, bounds
  <1>4. LocalOK' /\ AtWork'
    <2>1. CASE Done
      BY <2>1, DoneTypes
    <2>2. CASE /\ then # "idle" /\ Goto(then) /\ then' = "idle" /\ wanted' = {}
               /\ UNCHANGED <<cmd, todo, path, hash, ro, plan, removed, failed, garbage>>
      BY <2>2, NotAtWork DEF TypeInv, LocalOK, Goto, Label, Returns
    <2> QED
      BY <2>1, <2>2 DEF SyncPlace, GoOn
  <1> QED
    BY <1>1, <1>2, <1>3, <1>4 DEF TypeInv

\* add, unstage and readonly
LEMMA StartAddTypes == ASSUME TypeInv, StartAdd PROVE TypeInv'
  <1>1. todo' \subseteq Path /\ ro' \in BOOLEAN /\ Goto("add") /\ then' = then
    BY DEF StartAdd
  <1>2. then \in Returns
    BY DEF TypeInv, LocalOK
  <1>3. PICK whole \in BOOLEAN : Begin("add", whole)
    BY DEF StartAdd
  <1> QED
    BY <1>1, <1>2, <1>3, BeginTypes

LEMMA AddFileTypes == ASSUME TypeInv, AddFile PROVE TypeInv'
  <1>1. DiskOK' /\ Placed' /\ RestOK'
    BY SameDisk, SameRest DEF TypeInv, AddFile
  <1>2. pc = "add" /\ UNCHANGED <<joined, row, old, sent, diskVars, empty, bounds, gone>>
    BY DEF AddFile
  <1>3. PICK q \in todo : AddMissing(q) \/ AddHash(q)
    BY DEF AddFile
  <1>4. q \in Path
    BY <1>3 DEF TypeInv, LocalOK
  <1>5. CASE AddMissing(q)
    <2>1. DbOK'
      BY <1>2, <1>5 DEF TypeInv, DbOK, AddMissing
    <2>2. LocalOK' /\ AtWork'
      BY <1>2, <1>4, <1>5, NotAtWork DEF TypeInv, LocalOK, AddMissing
    <2> QED
      BY <1>1, <2>1, <2>2 DEF TypeInv
  <1>6. CASE AddHash(q)
    <2>1. DbOK'
      BY <1>2, <1>4, <1>6 DEF TypeInv, DbOK, AddHash
    <2>2. Content(q) \in Hash
      BY <1>4, <1>6, NamesInUse DEF AddHash, Content, TypeInv, DiskOK, Kind
    <2>3. LocalOK' /\ AtWork'
      BY <1>2, <1>4, <1>6, <2>2 DEF TypeInv, LocalOK, AddHash, Goto, Label, Returns, AtWork
    <2> QED
      BY <1>1, <2>1, <2>3 DEF TypeInv
  <1> QED
    BY <1>3, <1>5, <1>6

LEMMA AddCopyTypes == ASSUME TypeInv, AddCopy PROVE TypeInv'
  <1>1. DbOK' /\ RestOK'
    BY SameDb, SameRest DEF TypeInv, AddCopy
  <1>2. pc = "copy" /\ path \in Path /\ hash \in Hash
    BY DEF AddCopy, TypeInv, AtWork
  <1>3. CASE Has(hash) /\ Goto("stage") /\ UNCHANGED <<diskVars, cmd, todo, path, hash, ro, plan,
                                            removed, failed, then, wanted, garbage>>
    <2>1. DiskOK' /\ Placed'
      BY <1>3, SameDisk DEF TypeInv
    <2>2. LocalOK' /\ AtWork'
      BY <1>2, <1>3 DEF TypeInv, LocalOK, AtWork, Goto, Label, Returns, Has, diskVars
    <2> QED
      BY <1>1, <2>1, <2>2 DEF TypeInv
  <1>4. CASE /\ ~Has(hash) /\ Exists(path) /\ CreateObject(hash, path) /\ Goto("stage")
             /\ UNCHANGED <<cmd, todo, path, hash, ro, plan, removed, failed, then, wanted, garbage>>
    <2>1. disk[file[path]] \in Kind
      BY <1>2, <1>4, NamesInUse DEF TypeInv, DiskOK
    <2>2. DiskOK' /\ Placed' /\ Has(hash)'
      BY <1>2, <1>4, <2>1, PutObjectEffect DEF CreateObject, Write, TypeInv
    <2>3. LocalOK' /\ AtWork'
      BY <1>2, <1>4, <2>2 DEF TypeInv, LocalOK, AtWork, Goto, Label, Returns
    <2> QED
      BY <1>1, <2>2, <2>3 DEF TypeInv
  <1>5. CASE /\ ~Has(hash) /\ ~Exists(path)
             /\ NextPath(IF cmd.name = "add" THEN "add" ELSE "mode", TRUE)
             /\ UNCHANGED <<diskVars, todo>>
    <2>1. DiskOK' /\ Placed'
      BY <1>5, SameDisk DEF TypeInv
    <2>2. LocalOK /\ todo' \subseteq Path
      BY <1>5 DEF TypeInv, LocalOK
    <2>3. LocalOK' /\ AtWork'
      BY <1>5, <2>2, NextPathTypes
    <2> QED
      BY <1>1, <2>1, <2>3 DEF TypeInv
  <1> QED
    BY <1>3, <1>4, <1>5 DEF AddCopy

LEMMA AddStageTypes == ASSUME TypeInv, AddStage PROVE TypeInv'
  <1>1. path \in Path /\ hash \in Hash /\ Has(hash) /\ ro \in BOOLEAN
    BY DEF AddStage, TypeInv, AtWork, LocalOK
  <1>2. DiskOK' /\ Placed'
    <2>1. CASE Link(path, hash)
      BY <1>1, <2>1, LinkEffect DEF TypeInv
    <2>2. CASE UNCHANGED diskVars
      BY <2>2, SameDisk DEF TypeInv
    <2> QED
      BY <2>1, <2>2 DEF AddStage
  <1>3. [hash |-> hash, readOnly |-> ro] \in Row
    BY <1>1 DEF Row
  <1>4. DbOK'
    BY <1>1, <1>3 DEF AddStage, TypeInv, DbOK
  <1>5. LocalOK /\ todo' \subseteq Path /\ NextPath(IF cmd.name = "add" THEN "add" ELSE "mode", FALSE)
    BY DEF AddStage, TypeInv, LocalOK
  <1>6. LocalOK' /\ AtWork'
    BY <1>5, NextPathTypes
  <1>7. RestOK'
    BY SameRest DEF AddStage, TypeInv
  <1> QED
    BY <1>2, <1>4, <1>6, <1>7 DEF TypeInv

LEMMA AddEndTypes == ASSUME TypeInv, AddEnd PROVE TypeInv'
  <1>1. DbOK' /\ DiskOK' /\ Placed' /\ RestOK'
    BY SameDb, SameDisk, SameRest DEF TypeInv, AddEnd
  <1>2. CASE Done
    BY <1>1, <1>2, DoneTypes DEF TypeInv
  <1> DEFINE gathered == IF cmd.whole THEN removed \cup MissingTracked ELSE removed
  <1>3. CASE /\ removed' = gathered
             /\ Goto("sync") /\ then' = "clean"
             /\ UNCHANGED <<cmd, todo, path, hash, ro, plan, failed, wanted, garbage>>
    <2>1. gathered \subseteq Path
      BY DEF TypeInv, LocalOK, MissingTracked, Tracked
    <2> HIDE DEF gathered
    <2>2. LocalOK' /\ AtWork'
      BY <1>3, <2>1, NotAtWork DEF TypeInv, LocalOK, Goto, Label, Returns
    <2> QED
      BY <1>1, <2>2 DEF TypeInv
  <1> QED
    BY <1>2, <1>3 DEF AddEnd

LEMMA UnstageTypes == ASSUME TypeInv, Unstage PROVE TypeInv'
  <1>1. DiskOK' /\ Placed' /\ RestOK'
    BY SameDisk, SameRest DEF TypeInv, Unstage
  <1>2. DbOK'
    BY DEF TypeInv, DbOK, Unstage
  <1>3. LocalOK' /\ AtWork'
    BY NotAtWork DEF TypeInv, LocalOK, Unstage, localVars
  <1> QED
    BY <1>1, <1>2, <1>3 DEF TypeInv

LEMMA StartReadonlyTypes == ASSUME TypeInv, StartReadonly PROVE TypeInv'
  <1>1. PICK off \in BOOLEAN : Begin("readonly", off) /\ ro' = ~off
    BY DEF StartReadonly
  <1>2. todo' \subseteq Path /\ Goto("mode") /\ then' = then
    BY DEF StartReadonly
  <1>3. then \in Returns /\ ro' \in BOOLEAN
    BY <1>1 DEF TypeInv, LocalOK
  <1> QED
    BY <1>1, <1>2, <1>3, BeginTypes

\* What a step can do to files and objects.
Links == \E q \in Path, h \in Hash : Has(h) /\ Link(q, h)
HalfLinks == \E q \in Path, h \in Hash : Has(h) /\ HalfLink(q, h)
Puts == \E q \in Path, c \in Hash : PutFile(q, c)
Creates == \E h \in Hash, what \in Kind : \E half \in SUBSET {h} :
             /\ ~Has(h)
             /\ Leave(file, [object EXCEPT ![h] = ObjectInode(h)], ObjectInode(h), what, half)
Rewrites == \E i, what : what \in Kind /\ Write(file, object, i, what)
OneOfKinds == UNCHANGED diskVars \/ Links \/ HalfLinks \/ Puts \/ Creates \/ Rewrites

LEMMA HalfLinkTypes ==
    ASSUME DiskOK, Placed, NEW q \in Path, NEW h \in Hash, Has(h), HalfLink(q, h)
    PROVE  DiskOK' /\ Placed'
  <1>1. PICK r \in Path, w \in BOOLEAN, half \in SUBSET {h} : LinkAs(r, h, w, half)
    BY HalfLinkIsLinkAs
  <1> QED
    BY <1>1, LinkAsEffect

LEMMA KindTypes == ASSUME TypeInv, OneOfKinds PROVE DiskOK' /\ Placed'
  <1>1. DiskOK /\ Placed
    BY DEF TypeInv
  <1>2. CASE UNCHANGED diskVars
    BY <1>1, <1>2, SameDisk
  <1>3. CASE Links
    BY <1>1, <1>3, LinkEffect DEF Links
  <1>4. CASE HalfLinks
    BY <1>1, <1>4, HalfLinkTypes DEF HalfLinks
  <1>5. CASE Puts
    BY <1>1, <1>5, PutFileEffect DEF Puts
  <1>6. CASE Creates
    BY <1>1, <1>6, PutObjectEffect DEF Creates
  <1>7. CASE Rewrites
    BY <1>1, <1>7, WriteInPlace DEF Rewrites
  <1> QED
    BY <1>2, <1>3, <1>4, <1>5, <1>6, <1>7 DEF OneOfKinds

\* What is at a name that leads somewhere.
LEMMA ContentTypes ==
    ASSUME TypeInv
    PROVE  /\ \A q \in Path : Exists(q) => disk[file[q]] \in Kind /\ Content(q) \in Hash
           /\ \A h \in Hash : Has(h) => disk[object[h]] \in Kind /\ disk[object[h]].content \in Hash
  BY NamesInUse DEF TypeInv, DiskOK, Kind, Content

LEMMA RowHash == ASSUME TypeInv, NEW q \in Tracked PROVE q \in Path /\ row[q].hash \in Hash
  BY DEF TypeInv, DbOK, Tracked, Row

LEMMA RestoreKind ==
    ASSUME TypeInv, NEW q \in Path, CanRestore(q), Restore(q) PROVE OneOfKinds
  <1>1. row[q].hash \in Hash
    BY RowHash DEF CanRestore
  <1>2. CASE Has(row[q].hash)
    <2>1. disk[object[row[q].hash]].content \in Hash
      BY <1>1, <1>2, ContentTypes
    <2>2. Puts
      BY <1>2, <2>1 DEF Restore, Puts
    <2> QED
      BY <2>2 DEF OneOfKinds
  <1>3. CASE ~Has(row[q].hash)
    <2>1. Inode(Content(q), TRUE) \in Kind
      BY <1>3, ContentTypes DEF CanRestore, Kind, Inode
    <2>2. Rewrites
      BY <1>3, <2>1 DEF Restore, MakeWritable, Rewrites
    <2> QED
      BY <2>2 DEF OneOfKinds
  <1> QED
    BY <1>2, <1>3

LEMMA ReadonlyFileTypes == ASSUME TypeInv, ReadonlyFile PROVE TypeInv'
  <1>1. /\ pc = "mode"
        /\ UNCHANGED <<joined, row, old, sent, empty, cmd, ro, plan, removed, then, wanted, garbage,
                       bounds, gone>>
    BY DEF ReadonlyFile
  <1>2. RestOK'
    BY <1>1, SameRest DEF TypeInv
  <1>3. PICK q \in todo : /\ ReadonlyOn(q) \/ ReadonlyOff(q) \/ ReadonlyRefuses(q) \/ ReadonlyAlready(q)
                          /\ todo' = todo \ {q}
    BY DEF ReadonlyFile
  <1>4. q \in Path
    BY <1>3 DEF TypeInv, LocalOK
  <1>5. q \in Tracked => row[q].hash \in Hash
    BY <1>4 DEF TypeInv, DbOK, Tracked, Row
  <1>6. CASE ReadonlyOn(q)
    <2>1. DiskOK' /\ Placed' /\ DbOK'
      BY <1>1, <1>6, SameDisk DEF TypeInv, ReadonlyOn, DbOK
    <2>2. LocalOK' /\ AtWork'
      BY <1>1, <1>3, <1>4, <1>5, <1>6 DEF TypeInv, LocalOK, AtWork, ReadonlyOn, Goto, Label, Returns
    <2> QED
      BY <1>2, <2>1, <2>2 DEF TypeInv
  <1>7. CASE ReadonlyOff(q)
    <2>1. [hash |-> row[q].hash, readOnly |-> FALSE] \in Row
      BY <1>5, <1>7 DEF ReadonlyOff, CanRestore, Row
    <2>2. DbOK'
      BY <1>1, <1>4, <1>7, <2>1 DEF TypeInv, DbOK, ReadonlyOff
    <2>3. LocalOK' /\ AtWork'
      BY <1>1, <1>3, <1>7, NotAtWork DEF TypeInv, LocalOK, ReadonlyOff
    <2>4. DiskOK' /\ Placed'
      BY <1>4, <1>7, RestoreKind, KindTypes DEF ReadonlyOff
    <2> QED
      BY <1>2, <2>2, <2>3, <2>4 DEF TypeInv
  <1>8. CASE ReadonlyRefuses(q) \/ ReadonlyAlready(q)
    <2>1. DiskOK' /\ Placed' /\ DbOK'
      BY <1>1, <1>8, SameDisk DEF TypeInv, ReadonlyRefuses, ReadonlyAlready, DbOK
    <2>2. LocalOK' /\ AtWork'
      BY <1>1, <1>3, <1>8, NotAtWork DEF TypeInv, LocalOK, ReadonlyRefuses, ReadonlyAlready
    <2> QED
      BY <1>2, <2>1, <2>2 DEF TypeInv
  <1> QED
    BY <1>3, <1>6, <1>7, <1>8

\* A command that comes to its end changes nothing else.
LEMMA EndTypes ==
    ASSUME TypeInv, Done, UNCHANGED <<dbVars, diskVars, empty, bounds, gone>> PROVE TypeInv'
  BY DoneTypes, SameDb, SameDisk, SameRest DEF TypeInv

\* push and pull
LEMMA PublishTypes == ASSUME TypeInv, Publish PROVE TypeInv'
  <1>1. DiskOK' /\ Placed'
    BY SameDisk DEF TypeInv, Publish
  <1>2. CASE Done /\ UNCHANGED <<sent, staged, versions>>
    <2>1. DbOK' /\ RestOK'
      BY <1>2 DEF Publish, TypeInv, DbOK, RestOK
    <2> QED
      BY <1>1, <1>2, <2>1, DoneTypes DEF TypeInv
  <1> DEFINE entries == {q \in Staged : Has(staged[q].hash)}
  <1>3. CASE /\ entries # {} /\ versions + Cardinality(entries) <= world.versions
             /\ sent' = [q \in Path |-> IF q \in entries THEN staged[q] ELSE None]
             /\ staged' = [q \in Path |-> IF q \in entries THEN None ELSE staged[q]]
             /\ versions' = versions + Cardinality(entries)
             /\ Goto("sync") /\ then' = "idle"
             /\ UNCHANGED <<cmd, todo, path, hash, ro, plan, removed, failed, wanted, garbage>>
    <2>1. entries \subseteq Path
      BY DEF Staged
    <2> HIDE DEF entries
    <2>2. Cardinality(entries) \in Nat
      BY <2>1, WorkspaceAssumption, FS_Subset, FS_CardinalityType
    <2>3. DbOK'
      BY <1>3 DEF Publish, TypeInv, DbOK
    <2>4. world.versions \in Nat
      BY WorkspaceAssumption DEF TypeInv, RestOK
    <2>5. RestOK'
      BY <1>3, <2>2, <2>4 DEF Publish, TypeInv, RestOK
    <2>6. LocalOK' /\ AtWork'
      BY <1>3, NotAtWork DEF TypeInv, LocalOK, Goto, Label, Returns
    <2> QED
      BY <1>1, <2>3, <2>5, <2>6 DEF TypeInv
  <1> QED
    BY <1>2, <1>3 DEF Publish

LEMMA PullOpenTypes == ASSUME TypeInv, PullOpen PROVE TypeInv'
  <1>1. DbOK' /\ DiskOK' /\ Placed' /\ RestOK'
    BY SameDb, SameDisk, SameRest DEF TypeInv, PullOpen
  <1>2. PICK paths \in (SUBSET Path) \ {{}}, whole \in BOOLEAN, share \in BOOLEAN :
              /\ cmd' = [name |-> "pull", whole |-> whole, share |-> share]
              /\ todo' = IF whole THEN Tracked ELSE paths
              /\ plan' = IF whole THEN row ELSE NoRow
    BY DEF PullOpen
  <1>3. cmd' \in Flags /\ todo' \subseteq Path /\ plan' \in [Path -> Row \cup {None}]
    BY <1>2, NoRowTyped DEF Flags, Tracked, TypeInv, DbOK
  <1>4. LocalOK' /\ AtWork'
    BY <1>3, NotAtWork DEF PullOpen, TypeInv, LocalOK, Goto, Label, Returns
  <1> QED
    BY <1>1, <1>4 DEF TypeInv

LEMMA PullFileTypes == ASSUME TypeInv, PullFile PROVE TypeInv'
  <1>1. DbOK' /\ RestOK' /\ pc = "fetch"
    BY SameDb, SameRest DEF TypeInv, PullFile
  <1>2. PICK q \in todo : PullFetch(q) \/ PullFails(q)
    BY DEF PullFile
  <1>3. q \in Path /\ todo' \subseteq Path
    BY <1>2 DEF TypeInv, LocalOK, PullFetch, PullFails
  <1>4. CASE PullFetch(q)
    <2> DEFINE h == Target(q).hash
               linked == Target(q).readOnly
    <2>1. Target(q) \in Row
      BY <1>3, <1>4 DEF PullFetch, Target, TypeInv, DbOK, LocalOK
    <2>2. h \in Hash /\ linked \in BOOLEAN
      BY <2>1 DEF Row
    <2>3. /\ \/ Has(h) /\ Goto("put") /\ UNCHANGED diskVars
             \/ ~Has(h) /\ linked /\ PutObject(h) /\ Goto("put")
             \/ ~Has(h) /\ ~linked /\ PutFile(q, h) /\ Goto("keep")
          /\ path' = q /\ hash' = h /\ ro' = linked
          /\ UNCHANGED <<cmd, plan, removed, failed, then, wanted, garbage>>
      BY <1>4 DEF PullFetch
    <2> HIDE DEF h, linked
    <2>4. LocalOK'
      BY <1>3, <2>2, <2>3 DEF TypeInv, LocalOK, Goto, Label, Returns
    <2>5. CASE Has(h) /\ Goto("put") /\ UNCHANGED diskVars
      <3>1. DiskOK' /\ Placed'
        BY <2>5, SameDisk DEF TypeInv
      <3>2. AtWork'
        BY <1>3, <2>2, <2>3, <2>5 DEF AtWork, Has, diskVars, Goto
      <3> QED
        BY <1>1, <2>4, <3>1, <3>2 DEF TypeInv
    <2>6. CASE ~Has(h) /\ linked /\ PutObject(h) /\ Goto("put")
      <3>1. Inode(h, TRUE) \in Kind
        BY <2>2 DEF Inode, Kind
      <3>2. DiskOK' /\ Placed' /\ object'[h] # None
        <4>1. ASSUME NEW g \in Hash, ~Has(g), PutObject(g), Inode(g, TRUE) \in Kind
              PROVE  DiskOK' /\ Placed' /\ object'[g] # None
          <5> DEFINE what == Inode(g, TRUE)
                     none == {}
          <5>1. /\ what \in Kind /\ none \in SUBSET {g}
                /\ Leave(file, [object EXCEPT ![g] = ObjectInode(g)], ObjectInode(g), what, none)
            BY <4>1 DEF PutObject, Write
          <5> HIDE DEF what, none
          <5>2. DiskOK' /\ Placed' /\ Has(g)'
            BY <4>1, <5>1, PutObjectEffect DEF TypeInv
          <5> QED
            BY <5>2 DEF Has
        <4> QED
          BY <2>2, <2>6, <3>1, <4>1
      <3>3. AtWork'
        BY <1>3, <2>2, <2>3, <2>6, <3>2 DEF AtWork, Has, Goto
      <3> QED
        BY <1>1, <2>4, <3>2, <3>3 DEF TypeInv
    <2>7. CASE ~Has(h) /\ ~linked /\ PutFile(q, h) /\ Goto("keep")
      <3>1. DiskOK' /\ Placed'
        BY <1>3, <2>2, <2>7, PutFileEffect DEF TypeInv
      <3>2. AtWork'
        BY <1>3, <2>2, <2>3, <2>7 DEF AtWork, Goto
      <3> QED
        BY <1>1, <2>4, <3>1, <3>2 DEF TypeInv
    <2> QED
      BY <2>3, <2>5, <2>6, <2>7
  <1>5. CASE PullFails(q)
    <2>1. DiskOK' /\ Placed'
      BY <1>5, SameDisk DEF PullFails, TypeInv
    <2>2. LocalOK /\ NextPath("fetch", TRUE)
      BY <1>5 DEF PullFails, TypeInv
    <2>3. LocalOK' /\ AtWork'
      BY <1>3, <2>2, NextPathTypes
    <2> QED
      BY <1>1, <2>1, <2>3 DEF TypeInv
  <1> QED
    BY <1>2, <1>4, <1>5

LEMMA PullPutTypes == ASSUME TypeInv, PullPut PROVE TypeInv'
  <1>1. DbOK' /\ RestOK'
    BY SameDb, SameRest DEF TypeInv, PullPut
  <1>2. path \in Path /\ hash \in Hash /\ Has(hash)
    BY DEF PullPut, TypeInv, AtWork
  <1>3. disk[object[hash]].content \in Hash
    BY <1>2, NamesInUse DEF TypeInv, DiskOK, Kind
  <1>4. DiskOK' /\ Placed'
    BY <1>2, <1>3, LinkEffect, PutFileEffect DEF PullPut, TypeInv
  <1>5. LocalOK' /\ AtWork'
    BY <1>2 DEF PullPut, TypeInv, LocalOK, AtWork, Goto, Label, Returns
  <1> QED
    BY <1>1, <1>4, <1>5 DEF TypeInv

LEMMA PullKeepTypes == ASSUME TypeInv, PullKeep PROVE TypeInv'
  <1>1. DbOK' /\ UNCHANGED <<bounds, gone>>
    BY SameDb DEF TypeInv, PullKeep
  <1>2. path \in Path /\ hash \in Hash
    BY DEF PullKeep, TypeInv, AtWork
  <1>3. CASE /\ todo' = (IF cmd.whole THEN {} ELSE todo)
             /\ NextPath("fetch", TRUE)
             /\ UNCHANGED <<diskVars, empty>>
    <2>1. DiskOK' /\ Placed' /\ RestOK'
      BY <1>1, <1>3, SameDisk, SameRest DEF TypeInv
    <2>2. LocalOK /\ todo' \subseteq Path
      BY <1>3 DEF TypeInv, LocalOK
    <2>3. LocalOK' /\ AtWork'
      BY <1>3, <2>2, NextPathTypes
    <2> QED
      BY <1>1, <2>1, <2>3 DEF TypeInv
  <1>4. CASE /\ cmd.share /\ ~Has(hash) => Exists(path)
             /\ IF cmd.share /\ ~Has(hash) THEN CreateObject(hash, path) ELSE UNCHANGED diskVars
             /\ empty' = empty \ {path}
             /\ \/ Goto("fetch") /\ UNCHANGED then
                \/ cmd.share /\ Goto("sync") /\ then' = "fetch"
             /\ path' = None /\ hash' = None
             /\ UNCHANGED <<cmd, todo, ro, plan, removed, failed, wanted, garbage>>
    <2>1. DiskOK' /\ Placed'
      <3>1. CASE cmd.share /\ ~Has(hash)
        <4>1. disk[file[path]] \in Kind
          BY <1>2, <1>4, <3>1, NamesInUse DEF TypeInv, DiskOK
        <4> QED
          BY <1>2, <1>4, <3>1, <4>1, PutObjectEffect DEF CreateObject, Write, TypeInv
      <3>2. CASE ~(cmd.share /\ ~Has(hash))
        BY <1>4, <3>2, SameDisk DEF TypeInv
      <3> QED
        BY <3>1, <3>2
    <2>2. RestOK'
      BY <1>1, <1>4 DEF TypeInv, RestOK, bounds
    <2>3. LocalOK' /\ AtWork'
      BY <1>4, NotAtWork DEF TypeInv, LocalOK, Goto, Label, Returns
    <2> QED
      BY <1>1, <2>1, <2>2, <2>3 DEF TypeInv
  <1> QED
    BY <1>3, <1>4 DEF PullKeep

\* cleanup
LEMMA CleanupSelectTypes == ASSUME TypeInv, CleanupSelect PROVE TypeInv'
  <1>1. DbOK' /\ DiskOK' /\ Placed' /\ RestOK'
    BY SameDb, SameDisk, SameRest DEF TypeInv, CleanupSelect
  <1>2. CASE Done
    BY <1>1, <1>2, DoneTypes DEF TypeInv
  <1>3. CASE /\ \E paths \in (SUBSET Tracked) \ {{}} : todo' = paths
             /\ Goto("sync") /\ then' = "clean"
             /\ UNCHANGED <<cmd, path, hash, ro, plan, removed, failed, wanted, garbage>>
    <2>1. todo' \subseteq Path
      BY <1>3 DEF Tracked
    <2>2. LocalOK' /\ AtWork'
      BY <1>3, <2>1, NotAtWork DEF TypeInv, LocalOK, Goto, Label, Returns
    <2> QED
      BY <1>1, <2>2 DEF TypeInv
  <1> QED
    BY <1>2, <1>3 DEF CleanupSelect

LEMMA CleanTypes == ASSUME TypeInv, Clean PROVE TypeInv'
  <1>1. DiskOK' /\ Placed'
    BY SameDisk DEF TypeInv, Clean
  <1>2. row' \in [Path -> Row \cup {None}]
    BY DEF TypeInv, DbOK, Clean
  <1>3. PICK keep \in SUBSET Hash :
             old' = [q \in Path |-> IF q \in removed THEN {}
                                    ELSE IF q \in todo THEN old[q] \cap keep ELSE old[q]]
    BY DEF Clean
  <1>4. old' \in [Path -> SUBSET Hash]
    BY <1>3 DEF TypeInv, DbOK
  <1>5. DbOK'
    BY <1>2, <1>4 DEF TypeInv, DbOK, Clean
  <1>6. garbage' \subseteq Hash
    BY DEF Clean
  <1>7. LocalOK' /\ AtWork'
    BY <1>6, NotAtWork DEF Clean, TypeInv, LocalOK, Goto, Label, Returns
  <1>8. RestOK'
    BY DEF Clean, TypeInv, RestOK, bounds
  <1> QED
    BY <1>1, <1>5, <1>7, <1>8 DEF TypeInv

LEMMA CleanDeleteTypes == ASSUME TypeInv, CleanDelete PROVE TypeInv'
  <1>1. DbOK' /\ RestOK'
    BY SameDb, SameRest DEF TypeInv, CleanDelete
  <1>2. PICK deleted \in SUBSET garbage :
             Write(file, [h \in Hash |-> IF h \in deleted THEN None ELSE object[h]], None, None)
    BY DEF CleanDelete
  <1> DEFINE o == [h \in Hash |-> IF h \in deleted THEN None ELSE object[h]]
  <1>3. o \in [Hash -> Inodes \cup {None}] /\ \A h \in Hash : o[h] \in {object[h], None}
    BY DEF TypeInv, DiskOK
  <1> HIDE DEF o
  <1>4. DiskOK' /\ Placed'
    BY <1>2, <1>3, RemoveNames DEF TypeInv, DiskOK, o
  <1> QED
    BY <1>1, <1>4, DoneTypes DEF TypeInv, CleanDelete

\* Commands that are broken off
LEMMA HalfKind ==
    ASSUME TypeInv, NEW q \in Path, pc \in {"copy", "stage", "put", "keep"} => q = path, Half(q)
    PROVE  OneOfKinds
  <1>1. pc \in {"copy", "stage", "put", "keep"} => hash \in Hash
    BY DEF TypeInv, AtWork
  <1>2. pc \in {"stage", "put"} => Has(hash)
    BY DEF TypeInv, AtWork
  <1>3. ASSUME HalfFile(q) PROVE Puts
    BY <1>3, WorkspaceAssumption DEF HalfFile, TempIsFree, Puts
  <1>4. ASSUME NEW h \in Hash, HalfObject(h, q) PROVE Creates
    <2>1. disk[file[q]].writable \in BOOLEAN
      BY <1>4, ContentTypes DEF HalfObject, Kind
    <2>2. PICK c \in Hash, w \in BOOLEAN :
             Leave(file, [object EXCEPT ![h] = ObjectInode(h)], ObjectInode(h), Inode(c, w), {h})
      BY <1>4, <2>1 DEF HalfObject
    <2>3. Inode(c, w) \in Kind
      BY DEF Inode, Kind
    <2> QED
      BY <1>4, <2>2, <2>3 DEF HalfObject, Creates
  <1>5. CASE UNCHANGED diskVars
    BY <1>5 DEF OneOfKinds
  <1>6. CASE pc \in {"copy", "keep"} /\ HalfObject(hash, q)
    BY <1>1, <1>4, <1>6 DEF OneOfKinds
  <1>7. CASE pc \in {"stage", "put"} /\ (HalfLink(q, hash) \/ Link(q, hash))
    BY <1>1, <1>2, <1>7 DEF OneOfKinds, Links, HalfLinks
  <1>8. CASE pc = "put" /\ PutFile(q, disk[object[hash]].content)
    <2>1. disk[object[hash]].content \in Hash
      BY <1>1, <1>2, <1>8, ContentTypes
    <2> QED
      BY <1>8, <2>1 DEF OneOfKinds, Puts
  <1>9. CASE HalfFile(q)
    BY <1>3, <1>9 DEF OneOfKinds
  <1>10. CASE CanRestore(q) /\ Restore(q)
    BY <1>10, RestoreKind
  <1> QED
    BY <1>5, <1>6, <1>7, <1>8, <1>9, <1>10 DEF Half

LEMMA BrokenOffTypes ==
    ASSUME TypeInv, NEW q, BrokenOff(q) PROVE LocalOK' /\ AtWork' /\ pc' \in {"idle", "add", "mode", "fetch"}
  <1>1. CASE Done
    BY <1>1, DoneTypes
  <1>2. CASE todo' = (IF Loop = "fetch" /\ cmd.whole THEN {} ELSE todo \ {q}) /\ NextPath(Loop, TRUE)
    <2>1. LocalOK /\ todo' \subseteq Path /\ Loop \in {"add", "mode", "fetch"}
      BY <1>2 DEF TypeInv, LocalOK, Loop
    <2>2. pc' = Loop
      BY <1>2 DEF NextPath, Goto
    <2> QED
      BY <1>2, <2>1, <2>2, NextPathTypes
  <1> QED
    BY <1>1, <1>2 DEF BrokenOff

\* The file a command is broken off at, and what it leaves there.
LEMMA BreakFileAt ==
    ASSUME TypeInv, BreakFile
    PROVE  \E q \in Path : OneOfKinds /\ Half(q) /\ BrokenOff(q)
                          /\ (pc \in {"copy", "stage", "put", "keep"} => q = path)
  <1>1. CASE pc \in {"add", "mode", "fetch"} /\ \E q \in todo : Half(q) /\ BrokenOff(q)
    BY <1>1, HalfKind DEF TypeInv, LocalOK
  <1>2. CASE pc \in {"copy", "stage", "put", "keep"} /\ Half(path) /\ BrokenOff(path)
    BY <1>2, HalfKind DEF TypeInv, AtWork
  <1> QED
    BY <1>1, <1>2 DEF BreakFile

LEMMA SyncBreaksTypes ==
    ASSUME TypeInv, \/ Done
                    \/ todo' = (IF cmd.whole THEN {} ELSE todo) /\ NextPath("fetch", TRUE)
    PROVE  LocalOK' /\ AtWork'
  <1>1. CASE Done
    BY <1>1, DoneTypes
  <1>2. CASE todo' = (IF cmd.whole THEN {} ELSE todo) /\ NextPath("fetch", TRUE)
    <2>1. LocalOK /\ todo' \subseteq Path
      BY <1>2 DEF TypeInv, LocalOK
    <2> QED
      BY <1>2, <2>1, NextPathTypes
  <1> QED
    BY <1>1, <1>2

LEMMA BreakTypes == ASSUME TypeInv, Break PROVE TypeInv'
  <1>0. world.acts \in Nat /\ world.versions \in Nat
    BY WorkspaceAssumption DEF TypeInv, RestOK
  <1>1. world' = world /\ edits' \in 0 .. world'.acts
    BY <1>0 DEF Break, TypeInv, RestOK
  <1>2. world.versions \in Nat
    BY <1>0
  <1>3. CASE BreakFile
    <2>1. DiskOK' /\ Placed' /\ LocalOK' /\ AtWork'
      BY <1>3, BreakFileAt, KindTypes, BrokenOffTypes
    <2>2. DbOK' /\ RestOK'
      BY <1>1, <1>3, SameDb DEF BreakFile, TypeInv, RestOK
    <2> QED
      BY <2>1, <2>2 DEF TypeInv
  <1>4. CASE BreakSync
    <2>1. DiskOK' /\ Placed' /\ LocalOK' /\ AtWork'
      BY <1>4, SameDisk, SyncBreaksTypes DEF BreakSync, TypeInv
    <2>2. empty' \subseteq Path
      BY <1>4 DEF BreakSync, TypeInv, LocalOK, RestOK
    <2>3. DbOK' /\ RestOK'
      BY <1>1, <1>4, <2>2 DEF BreakSync, TypeInv, DbOK, RestOK
    <2> QED
      BY <2>1, <2>3 DEF TypeInv
  <1>5. CASE BreakPush
    <2>1. DiskOK' /\ Placed' /\ LocalOK' /\ AtWork'
      BY <1>5, SameDisk, DoneTypes DEF BreakPush, TypeInv
    <2>2. PICK entries, unstaged \in SUBSET {q \in Staged : Has(staged[q].hash)} :
             /\ versions + Cardinality(entries) <= world.versions
             /\ sent' = [q \in Path |-> IF q \in entries THEN staged[q] ELSE None]
             /\ staged' = [q \in Path |-> IF q \in unstaged THEN None ELSE staged[q]]
             /\ versions' = versions + Cardinality(entries)
      BY <1>5 DEF BreakPush
    <2>3. Cardinality(entries) \in Nat
      BY WorkspaceAssumption, FS_Subset, FS_CardinalityType DEF Staged
    <2>4. DbOK'
      BY <1>5, <2>2 DEF BreakPush, TypeInv, DbOK
    <2>5. versions' \in 0 .. world.versions
      BY <1>2, <2>2, <2>3 DEF TypeInv, RestOK
    <2>6. RestOK'
      BY <1>1, <1>5, <2>5 DEF BreakPush, TypeInv, RestOK
    <2> QED
      BY <2>1, <2>4, <2>6 DEF TypeInv
  <1>6. CASE Kill
    <2>1. LocalOK' /\ AtWork'
      BY <1>6, DoneTypes DEF Kill
    <2>2. DbOK' /\ DiskOK' /\ Placed'
      BY <1>6, SameDb, SameDisk DEF Kill, TypeInv
    <2>3. RestOK'
      BY <1>1, <1>6 DEF Kill, TypeInv, RestOK
    <2> QED
      BY <2>1, <2>2, <2>3 DEF TypeInv
  <1> QED
    BY <1>3, <1>4, <1>5, <1>6 DEF Break

\* The user
LEMMA UserTypes ==
    ASSUME TypeInv, UserActs, empty' \subseteq Path, gone' \subseteq Path, DiskOK', Placed',
           \A h \in Hash : Has(h) => Has(h)'
    PROVE  TypeInv'
  <1>1. DbOK'
    BY SameDb DEF TypeInv, UserActs
  <1>2. LocalOK' /\ AtWork'
    BY DEF TypeInv, LocalOK, AtWork, UserActs, localVars
  <1>3. RestOK'
    BY WorkspaceAssumption DEF TypeInv, RestOK, UserActs
  <1> QED
    BY <1>1, <1>2, <1>3 DEF TypeInv

LEMMA EditTypes == ASSUME TypeInv, Edit PROVE TypeInv'
  <1>1. PICK q \in Path, c \in Hash : Write(file, object, file[q], Inode(c, TRUE))
    BY DEF Edit
  <1>2. Inode(c, TRUE) \in Kind
    BY DEF Inode, Kind
  <1>3. DiskOK' /\ Placed' /\ object' = object
    BY <1>1, <1>2, WriteInPlace DEF TypeInv
  <1> QED
    BY <1>3, UserTypes DEF Edit, TypeInv, RestOK, Has

LEMMA SaveTypes == ASSUME TypeInv, Save PROVE TypeInv'
  <1>1. PICK q \in Path, c \in Hash : PutFile(q, c)
    BY DEF Save
  <1>2. DiskOK' /\ Placed' /\ object' = object
    BY <1>1, PutFileEffect DEF TypeInv
  <1> QED
    BY <1>2, UserTypes DEF Save, TypeInv, RestOK, Has

LEMMA DeleteTypes == ASSUME TypeInv, Delete PROVE TypeInv'
  <1>1. PICK q \in Path :
         /\ gone' = gone \cup {q}
         /\ \/ /\ Exists(q) /\ Write([file EXCEPT ![q] = None], object, None, None)
               /\ UNCHANGED empty
            \/ q \in empty /\ empty' = empty \ {q} /\ UNCHANGED diskVars
    BY DEF Delete
  <1>2. empty' \subseteq Path /\ gone' \subseteq Path
    BY <1>1 DEF TypeInv, RestOK
  <1>3. CASE Write([file EXCEPT ![q] = None], object, None, None)
    <2>1. [file EXCEPT ![q] = None] \in [Path -> Inodes \cup {None}]
          /\ \A p \in Path : [file EXCEPT ![q] = None][p] \in {file[p], None}
      BY DEF TypeInv, DiskOK
    <2>2. DiskOK' /\ Placed' /\ object' = object
      BY <1>3, <2>1, RemoveNames DEF TypeInv, DiskOK
    <2> QED
      BY <1>2, <2>2, UserTypes DEF Delete, Has
  <1>4. CASE UNCHANGED diskVars
    <2>1. DiskOK' /\ Placed' /\ object' = object
      BY <1>4, SameDisk DEF TypeInv, diskVars
    <2> QED
      BY <1>2, <2>1, UserTypes DEF Delete, Has
  <1> QED
    BY <1>1, <1>3, <1>4

LEMMA StartTypes == ASSUME TypeInv, Start PROVE TypeInv'
  BY ConnectTypes, DisconnectTypes, DeinitTypes, StartAddTypes, UnstageTypes, StartReadonlyTypes,
     BeginSyncTypes DEF Start, StartUpdate, StartPush, StartPull, StartCleanup

LEMMA StepTypes == ASSUME TypeInv, Step PROVE TypeInv'
  <1>1. CASE SyncApply \/ SyncCollect \/ SyncPlace
    BY <1>1, SyncApplyTypes, SyncCollectTypes, SyncPlaceTypes
  <1>2. CASE AddFile \/ AddCopy \/ AddStage \/ AddEnd
    BY <1>2, AddFileTypes, AddCopyTypes, AddStageTypes, AddEndTypes
  <1>3. CASE ReadonlyFile
    BY <1>3, ReadonlyFileTypes
  <1>4. CASE ReadonlyEnd \/ PullEnd
    BY <1>4, EndTypes DEF ReadonlyEnd, PullEnd
  <1>5. CASE Publish \/ PullOpen \/ PullFile \/ PullPut \/ PullKeep
    BY <1>5, PublishTypes, PullOpenTypes, PullFileTypes, PullPutTypes, PullKeepTypes
  <1>6. CASE CleanupSelect \/ Clean \/ CleanDelete
    BY <1>6, CleanupSelectTypes, CleanTypes, CleanDeleteTypes
  <1> QED
    BY <1>1, <1>2, <1>3, <1>4, <1>5, <1>6 DEF Step

LEMMA Stutter == ASSUME TypeInv, UNCHANGED vars PROVE TypeInv'
  <1>1. DbOK' /\ DiskOK' /\ Placed' /\ RestOK'
    BY SameDb, SameDisk, SameRest DEF TypeInv, vars
  <1>2. LocalOK' /\ AtWork'
    BY DEF TypeInv, LocalOK, AtWork, Has, vars, localVars, diskVars
  <1> QED
    BY <1>1, <1>2 DEF TypeInv

LEMMA TypeInvariant == Spec => []TypeInv
  <1>1. TypeInv /\ [Next]_vars => TypeInv'
    BY StartTypes, StepTypes, BreakTypes, EditTypes, SaveTypes, DeleteTypes, Stutter DEF Next
  <1> QED
    BY TypeInit, <1>1, PTL DEF Spec

\* Every variable of the model has a value the code can give it, and the inode of a new
\* object is one that no file is still a link of.
THEOREM WorkspaceTypes == Spec => []TypeOK
  BY TypeInvariant, TypeInvTypes, PTL

-----------------------------------------------------------------------------
(* Which command is at work                                                *)

\* Only add and readonly stage; without readonly --off, readonly makes links.
CmdInv ==
    /\ pc = "add" => cmd.name = "add"
    /\ pc = "mode" => cmd.name = "readonly"
    /\ pc \in {"copy", "stage"} => cmd.name \in {"add", "readonly"}
    /\ (~world.off /\ cmd.name = "readonly" /\ pc \in {"mode", "copy", "stage"}) => ro

Staging == {"add", "mode", "copy", "stage"}

LEMMA WorldStays == ASSUME [Next]_vars PROVE world' = world
  <1>1. CASE UNCHANGED vars
    BY <1>1 DEF vars, bounds
  <1>2. CASE Start
    BY <1>2 DEF Start, Connect, Disconnect, Deinit, StartUpdate, StartAdd, Unstage, StartReadonly,
                StartPush, StartPull, StartCleanup, BeginSync, Begin, bounds
  <1>3. CASE Step
    BY <1>3 DEF Step, SyncApply, SyncCollect, SyncPlace, AddFile, AddCopy, AddStage, AddEnd,
                ReadonlyFile, ReadonlyEnd, Publish, PullOpen, PullFile, PullPut, PullKeep, PullEnd,
                CleanupSelect, Clean, CleanDelete, bounds
  <1>4. CASE Break \/ Edit \/ Save \/ Delete
    BY <1>4 DEF Break, Edit, Save, Delete, UserActs
  <1> QED
    BY <1>1, <1>2, <1>3, <1>4 DEF Next

LEMMA NotStaging == ASSUME pc' \notin Staging PROVE CmdInv'
  BY DEF CmdInv, Staging

\* Steps that stay out of the part of a command that stages.
LEMMA OtherSteps ==
    ASSUME TypeInv, \/ SyncApply \/ SyncCollect \/ SyncPlace \/ AddEnd \/ ReadonlyEnd \/ Publish
                    \/ PullOpen \/ PullFile \/ PullPut \/ PullKeep \/ PullEnd
                    \/ CleanupSelect \/ Clean \/ CleanDelete
    PROVE  pc' \notin Staging
  <1> USE DEF Goto, Staging
  <1>1. CASE SyncApply
    BY <1>1 DEF SyncApply, SyncFails, Done, NextPath
  <1>2. CASE SyncPlace
    BY <1>2 DEF SyncPlace, GoOn, Done, TypeInv, LocalOK, Returns
  <1>3. CASE PullFile
    BY <1>3 DEF PullFile, PullFetch, PullFails, NextPath
  <1>4. CASE PullKeep
    BY <1>4 DEF PullKeep, NextPath
  <1> QED
    BY <1>1, <1>2, <1>3, <1>4 DEF SyncCollect, AddEnd, ReadonlyEnd, Publish, PullOpen, PullPut, PullEnd,
       CleanupSelect, Clean, CleanDelete, Done

LEMMA BreakCmd ==
    ASSUME TypeInv, CmdInv, Break PROVE CmdInv'
  <1>1. world' = world
    BY DEF Break
  <1>2. CASE Done
    BY <1>2 DEF Done, Goto, CmdInv
  <1>3. CASE NextPath("fetch", TRUE)
    BY <1>3 DEF NextPath, Goto, CmdInv
  <1>4. CASE /\ pc \in {"add", "mode", "fetch", "copy", "stage", "put", "keep"}
             /\ NextPath(Loop, TRUE)
    <2>1. pc' = Loop /\ cmd' = cmd /\ ro' = ro
      BY <1>4 DEF NextPath, Goto
    <2>2. \/ Loop = "fetch"
          \/ Loop = "add" /\ cmd.name = "add"
          \/ Loop = "mode" /\ cmd.name = "readonly" /\ pc \in {"mode", "copy", "stage"}
      BY <1>4 DEF Loop, CmdInv
    <2> QED
      BY <1>1, <2>1, <2>2 DEF CmdInv
  <1> QED
    BY <1>2, <1>3, <1>4 DEF Break, BreakFile, BrokenOff, BreakSync, BreakPush, Kill

LEMMA CmdStep == ASSUME TypeInv, CmdInv, [Next]_vars PROVE CmdInv'
  <1>0. world' = world
    BY WorldStays
  <1>1. CASE UNCHANGED localVars
    BY <1>0, <1>1 DEF CmdInv, localVars
  <1>2. CASE StartAdd
    BY <1>2 DEF StartAdd, Begin, Goto, CmdInv
  <1>3. CASE StartReadonly
    <2>1. PICK off \in BOOLEAN : (off => world.off) /\ ro' = ~off
      BY <1>3 DEF StartReadonly
    <2>2. world.off \/ ro' = TRUE
      BY <2>1
    <2>3. pc' = "mode" /\ cmd'.name = "readonly"
      BY <1>3 DEF StartReadonly, Begin, Goto
    <2> QED
      BY <1>0, <2>2, <2>3 DEF CmdInv
  <1>4. CASE StartUpdate \/ StartPush \/ StartPull \/ StartCleanup
    BY <1>4, NotStaging DEF StartUpdate, StartPush, StartPull, StartCleanup, BeginSync, Goto, Staging
  <1>5. CASE AddFile
    <2>1. PICK q \in todo : AddMissing(q) \/ AddHash(q)
      BY <1>5 DEF AddFile
    <2>2. pc = "add" /\ pc' \in {"add", "copy"} /\ cmd' = cmd
      BY <1>5, <2>1 DEF AddFile, AddMissing, AddHash, Goto
    <2> QED
      BY <2>2 DEF CmdInv
  <1>6. CASE AddCopy
    <2>1. pc = "copy" /\ cmd' = cmd /\ ro' = ro
      BY <1>6 DEF AddCopy, NextPath
    <2>2. pc' = "stage" \/ pc' = (IF cmd.name = "add" THEN "add" ELSE "mode")
      BY <1>6 DEF AddCopy, NextPath, Goto
    <2> QED
      BY <1>0, <2>1, <2>2 DEF CmdInv
  <1>7. CASE AddStage
    <2>1. pc = "stage" /\ cmd' = cmd /\ ro' = ro
      BY <1>7 DEF AddStage, NextPath
    <2>2. pc' = IF cmd.name = "add" THEN "add" ELSE "mode"
      BY <1>7 DEF AddStage, NextPath, Goto
    <2> QED
      BY <1>0, <2>1, <2>2 DEF CmdInv
  <1>8. CASE ReadonlyFile
    <2>1. pc = "mode" /\ cmd' = cmd /\ ro' = ro
      BY <1>8 DEF ReadonlyFile
    <2>2. pc' \in {"mode", "copy"}
      BY <1>8 DEF ReadonlyFile, ReadonlyOn, ReadonlyOff, ReadonlyRefuses, ReadonlyAlready, Goto
    <2> QED
      BY <1>0, <2>1, <2>2 DEF CmdInv
  <1>9. CASE Step /\ ~(AddFile \/ AddCopy \/ AddStage \/ ReadonlyFile)
    BY <1>9, OtherSteps, NotStaging DEF Step
  <1>10. CASE Connect \/ Disconnect \/ Deinit \/ Unstage \/ Edit \/ Save \/ Delete \/ UNCHANGED vars
    BY <1>1, <1>10 DEF Connect, Disconnect, Deinit, Unstage, Edit, Save, Delete, UserActs, vars
  <1> QED
    BY <1>2, <1>3, <1>4, <1>5, <1>6, <1>7, <1>8, <1>9, <1>10, BreakCmd DEF Next, Start

-----------------------------------------------------------------------------
(* Objects                                                                 *)

\* But for the torn ones, an object is its name, and a file that is a link of one cannot
\* be written.
Named == \A h \in Hash \ torn : Has(h) => disk[object[h]].content = h
Sealed == \A q \in Path, h \in Hash \ torn :
            (Has(h) /\ file[q] = object[h]) => ~disk[object[h]].writable
Objects == Named /\ Sealed

\* The file a command is at has the content whose hash the command holds, unless pull
\* has just put a torn object there.
AtHand ==
    /\ pc \in {"copy", "stage", "keep"} => Exists(path)
    /\ pc \in {"copy", "stage"} \/ (pc = "keep" /\ hash \notin torn) => Content(path) = hash

ObjInv == Undisturbed => Objects /\ AtHand

Keeps == \A q \in Path : Exists(q) => Exists(q)' /\ Content(q)' = Content(q)

LEMMA OneObjectEach ==
    ASSUME Placed, NEW g \in Hash, NEW h \in Hash, Has(g), object[g] = object[h] PROVE g = h
  BY DEF Placed, ObjectInodes, Has

LEMMA NoneIsTorn == ASSUME TypeInv PROVE \A h \in Hash : ~Has(h) => h \notin torn
  BY DEF TypeInv, DiskOK, Has

LEMMA PutFileKeeps ==
    ASSUME TypeInv, Objects, NEW q \in Path, NEW c \in Hash, PutFile(q, c)
    PROVE  Objects' /\ Exists(q)' /\ Content(q)' = c /\ torn' = torn
  <1>1. /\ file' = [file EXCEPT ![q] = q] /\ object' = object /\ torn' = torn
        /\ disk'[q] = Inode(c, TRUE)
        /\ \A j \in InUse(file, object) \ {q} : j \in InUse(file', object') => disk'[j] = disk[j]
    BY PutFileEffect DEF TypeInv
  <1>2. file'[q] = q /\ \A p \in Path \ {q} : file'[p] = file[p]
    BY <1>1 DEF TypeInv, DiskOK
  <1>3. \A h \in Hash : Has(h) => object[h] # q
    BY InodesDiffer DEF TypeInv, Placed, Has
  <1>4. \A h \in Hash : Has(h) => object[h] \in InUse(file', object')
    BY <1>1 DEF InUse, Has
  <1>5. \A h \in Hash : Has(h) => disk'[object[h]] = disk[object[h]]
    BY <1>1, <1>3, <1>4, NamesInUse
  <1>6. Named'
    BY <1>1, <1>5 DEF Objects, Named, Has
  <1>7. Sealed'
    BY <1>1, <1>2, <1>3, <1>5 DEF Objects, Sealed, Has
  <1>8. q # None
    BY WorkspaceAssumption
  <1> QED
    BY <1>1, <1>2, <1>6, <1>7, <1>8 DEF Objects, Exists, Content, Inode

LEMMA PutObjectKeeps ==
    ASSUME TypeInv, Objects, NEW h \in Hash, ~Has(h), NEW what \in Kind, NEW half \in SUBSET {h},
           Leave(file, [object EXCEPT ![h] = ObjectInode(h)], ObjectInode(h), what, half),
           half = {} => what.content = h
    PROVE  Objects' /\ Keeps /\ torn' = torn \cup half
  <1>1. /\ file' = file /\ object' = [object EXCEPT ![h] = ObjectInode(h)]
        /\ \A q \in Path : file[q] # object'[h]
        /\ disk'[object'[h]] = what /\ torn' = torn \cup half
        /\ \A j \in InUse(file, object) : disk'[j] = disk[j]
    BY PutObjectEffect DEF TypeInv
  <1>2. \A g \in Hash \ {h} : object'[g] = object[g]
    BY <1>1 DEF TypeInv, DiskOK
  <1>3. \A g \in Hash \ {h} : Has(g) => disk'[object[g]] = disk[object[g]]
    BY <1>1, NamesInUse
  <1>4. Named'
    BY <1>1, <1>2, <1>3 DEF Objects, Named, Has
  <1>5. Sealed'
    BY <1>1, <1>2, <1>3 DEF Objects, Sealed, Has
  <1>6. Keeps
    BY <1>1, NamesInUse DEF Keeps, Exists, Content
  <1> QED
    BY <1>1, <1>4, <1>5, <1>6 DEF Objects

\* create_objectfile of a file that is what the name of the object says
LEMMA CreateKeeps ==
    ASSUME TypeInv, Objects, NEW h \in Hash, ~Has(h), NEW q \in Path, Exists(q), Content(q) = h,
           CreateObject(h, q)
    PROVE  Objects' /\ Keeps /\ torn' = torn
  <1>1. disk[file[q]] \in Kind /\ disk[file[q]].content = h
    BY ContentTypes DEF Content
  <1>2. Leave(file, [object EXCEPT ![h] = ObjectInode(h)], ObjectInode(h), disk[file[q]], {})
    BY DEF CreateObject, Write
  <1> QED
    BY <1>1, <1>2, PutObjectKeeps

LEMMA HalfObjectKeeps ==
    ASSUME TypeInv, Objects, NEW h \in Hash, NEW q \in Path, HalfObject(h, q)
    PROVE  Objects' /\ Keeps
  <1>1. disk[file[q]].writable \in BOOLEAN
    BY ContentTypes DEF HalfObject, Kind
  <1>2. PICK c \in Hash, w \in BOOLEAN :
           Leave(file, [object EXCEPT ![h] = ObjectInode(h)], ObjectInode(h), Inode(c, w), {h})
    BY <1>1 DEF HalfObject
  <1>3. Inode(c, w) \in Kind
    BY DEF Inode, Kind
  <1> QED
    BY <1>2, <1>3, PutObjectKeeps DEF HalfObject

\* A name becomes a link, of which the object stays sealed or is torn.
LEMMA LinkAsKeeps ==
    ASSUME TypeInv, Objects, NEW r \in Path, NEW h \in Hash, Has(h), NEW w \in BOOLEAN,
           NEW half \in SUBSET {h}, LinkAs(r, h, w, half), w => half = {h}
    PROVE  /\ Objects' /\ Exists(r)' /\ Content(r)' = disk[object[h]].content
           /\ \A p \in Path \ {r} : Exists(p) => Exists(p)' /\ Content(p)' = Content(p)
  <1>1. /\ object' = object /\ file' = [file EXCEPT ![r] = object[h]]
        /\ disk'[object[h]] = Inode(disk[object[h]].content, w) /\ torn' = torn \cup half
        /\ \A j \in InUse(file, object) \ {object[h]} : j \in InUse(file', object') => disk'[j] = disk[j]
    BY LinkAsEffect DEF TypeInv
  <1>2. file'[r] = object[h] /\ \A p \in Path \ {r} : file'[p] = file[p]
    BY <1>1 DEF TypeInv, DiskOK
  <1>3. disk'[object[h]].content = disk[object[h]].content /\ (disk'[object[h]].writable => h \in torn')
    BY <1>1 DEF Inode
  <1>4. \A g \in Hash : Has(g) => object[g] \in InUse(file', object')
    BY <1>1 DEF InUse, Has
  <1>5. \A g \in Hash \ {h} : Has(g) => object[g] # object[h] /\ disk'[object[g]] = disk[object[g]]
    BY <1>1, <1>4, NamesInUse, OneObjectEach DEF TypeInv
  <1>6. Named'
    BY <1>1, <1>3, <1>5 DEF Objects, Named, Has
  <1>7. Sealed'
    <2> SUFFICES ASSUME NEW p \in Path, NEW g \in Hash \ torn', object[g] # None, file'[p] = object[g]
                 PROVE  ~disk'[object[g]].writable
      BY <1>1 DEF Sealed, Has
    <2>1. CASE g = h
      BY <1>3, <2>1
    <2>2. CASE g # h
      <3>1. object[g] # object[h] /\ disk'[object[g]] = disk[object[g]]
        BY <1>5, <2>2 DEF Has
      <3>2. file[p] = object[g] /\ g \notin torn
        BY <1>1, <1>2, <3>1
      <3>3. ~disk[object[g]].writable
        BY <3>2 DEF Objects, Sealed, Has
      <3> QED
        BY <3>1, <3>3
    <2> QED
      BY <2>1, <2>2
  <1>8. \A p \in Path \ {r} : Exists(p) => Exists(p)' /\ Content(p)' = Content(p)
    <2> SUFFICES ASSUME NEW p \in Path \ {r}, Exists(p) PROVE Exists(p)' /\ Content(p)' = Content(p)
      OBVIOUS
    <2>1. file'[p] = file[p] /\ file[p] \in InUse(file, object) /\ file[p] \in InUse(file', object')
      BY <1>2, NamesInUse DEF InUse, Exists
    <2>2. disk'[file[p]].content = disk[file[p]].content
      BY <1>1, <1>3, <2>1
    <2> QED
      BY <2>1, <2>2 DEF Exists, Content
  <1>9. Exists(r)' /\ Content(r)' = disk[object[h]].content
    BY <1>2, <1>3 DEF Exists, Content, Has
  <1> QED
    BY <1>6, <1>7, <1>8, <1>9 DEF Objects

LEMMA LinkKeeps ==
    ASSUME TypeInv, Objects, NEW q \in Path, NEW h \in Hash, Has(h), Link(q, h)
    PROVE  /\ Objects' /\ Exists(q)' /\ (h \notin torn => Content(q)' = h) /\ torn' = torn
           /\ \A p \in Path \ {q} : Exists(p) => Exists(p)' /\ Content(p)' = Content(p)
  <1>1. PICK r \in Path :
             /\ LinkAs(r, h, FALSE, {})
             /\ r # q => file[q] = object[h] /\ ~Exists(r) /\ r \notin Tracked \cup Staged
    BY LinkIsLinkAs
  <1>2. /\ Objects' /\ Exists(r)' /\ Content(r)' = disk[object[h]].content
        /\ \A p \in Path \ {r} : Exists(p) => Exists(p)' /\ Content(p)' = Content(p)
    <2> DEFINE none == {}
    <2>1. none \in SUBSET {h} /\ LinkAs(r, h, FALSE, none)
      BY <1>1
    <2> HIDE DEF none
    <2> QED
      BY <2>1, LinkAsKeeps
  <1>3. Exists(q)' /\ Content(q)' = disk[object[h]].content
    <2>1. CASE r = q
      BY <1>2, <2>1
    <2>2. CASE r # q
      <3>1. Exists(q) /\ Content(q) = disk[object[h]].content
        BY <1>1, <2>2 DEF Exists, Content, Has
      <3> QED
        BY <1>2, <2>2, <3>1
    <2> QED
      BY <2>1, <2>2
  <1>4. h \notin torn => disk[object[h]].content = h
    BY DEF Objects, Named
  <1>5. \A p \in Path \ {q} : Exists(p) => p # r \/ r = q
    BY <1>1
  <1>6. torn' = torn
    BY LinkEffect DEF TypeInv
  <1> QED
    BY <1>2, <1>3, <1>4, <1>5, <1>6

LEMMA HalfLinkKeeps ==
    ASSUME TypeInv, Objects, NEW q \in Path, NEW h \in Hash, Has(h), HalfLink(q, h)
    PROVE  Objects' /\ Keeps
  <1>1. PICK r \in Path, w \in BOOLEAN, half \in SUBSET {h} :
             LinkAs(r, h, w, half) /\ (w => half = {h}) /\ ~Exists(r)
    BY HalfLinkIsLinkAs DEF TypeInv
  <1>2. /\ Objects'
        /\ \A p \in Path \ {r} : Exists(p) => Exists(p)' /\ Content(p)' = Content(p)
    BY <1>1, LinkAsKeeps
  <1> QED
    BY <1>1, <1>2 DEF Keeps

LEMMA RemoveKeeps ==
    ASSUME TypeInv, Objects, NEW f \in [Path -> Inodes \cup {None}],
           NEW o \in [Hash -> Inodes \cup {None}], Write(f, o, None, None),
           \A q \in Path : f[q] \in {file[q], None}, \A h \in Hash : o[h] \in {object[h], None}
    PROVE  Objects'
  <1>1. /\ file' = f /\ object' = o /\ torn' = {h \in torn : o[h] # None}
        /\ \A j \in InUse(f, o) : disk'[j] = disk[j]
    BY RemoveNames DEF TypeInv
  <1>2. \A h \in Hash : o[h] # None => Has(h) /\ o[h] = object[h] /\ disk'[o[h]] = disk[object[h]]
    BY <1>1 DEF InUse, Has
  <1>3. Named'
    BY <1>1, <1>2 DEF Objects, Named, Has
  <1>4. Sealed'
    BY <1>1, <1>2 DEF Objects, Sealed, Has
  <1> QED
    BY <1>3, <1>4 DEF Objects

LEMMA SameObjects == ASSUME Objects, UNCHANGED diskVars PROVE Objects'
  BY DEF Objects, Named, Sealed, Has, diskVars

\* Steps that leave files alone and take up none.
LEMMA QuietObjects ==
    ASSUME Objects, AtHand, UNCHANGED diskVars,
           pc' \notin {"copy", "stage", "keep"} \/ UNCHANGED localVars
    PROVE  Objects' /\ AtHand'
  <1>1. Objects'
    BY SameObjects
  <1>2. AtHand'
    BY DEF AtHand, localVars, diskVars, Exists, Content
  <1> QED
    BY <1>1, <1>2

LEMMA AddFileObjects == ASSUME TypeInv, Objects, AtHand, AddFile PROVE Objects' /\ AtHand'
  <1>1. PICK q \in todo : AddMissing(q) \/ AddHash(q)
    BY DEF AddFile
  <1>2. UNCHANGED diskVars /\ pc = "add"
    BY DEF AddFile
  <1>3. CASE pc' = "add"
    BY <1>2, <1>3, QuietObjects
  <1>4. CASE pc' # "add"
    <2>1. Exists(q) /\ path' = q /\ hash' = Content(q)
      BY <1>1, <1>2, <1>4 DEF AddMissing, AddHash
    <2>2. AtHand'
      BY <1>2, <2>1 DEF AtHand, Exists, Content, diskVars
    <2> QED
      BY <1>2, <2>2, SameObjects
  <1> QED
    BY <1>3, <1>4

LEMMA AddCopyObjects ==
    ASSUME TypeInv, Objects, AtHand, AddCopy PROVE Objects' /\ AtHand' /\ Keeps
  <1>1. pc = "copy" /\ path \in Path /\ hash \in Hash /\ Exists(path) /\ Content(path) = hash
    BY DEF AddCopy, TypeInv, AtWork, AtHand
  <1>2. CASE Has(hash) /\ Goto("stage") /\ UNCHANGED <<diskVars, cmd, todo, path, hash, ro, plan,
                                            removed, failed, then, wanted, garbage>>
    BY <1>1, <1>2, SameObjects DEF AtHand, Exists, Content, diskVars, Keeps
  <1>3. CASE ~Has(hash) /\ CreateObject(hash, path) /\ path' = path /\ hash' = hash /\ pc' = "stage"
    <2>1. Objects' /\ Keeps
      BY <1>1, <1>3, CreateKeeps
    <2> QED
      BY <1>1, <1>3, <2>1 DEF AtHand, Keeps, Exists, Content
  <1> QED
    BY <1>1, <1>2, <1>3 DEF AddCopy, Goto

LEMMA AddStageObjects ==
    ASSUME TypeInv, Objects, AtHand, AddStage
    PROVE  Objects' /\ AtHand' /\ (hash \notin torn => Keeps)
  <1>1. /\ path \in Path /\ hash \in Hash /\ Has(hash)
        /\ Exists(path) /\ Content(path) = hash
    BY DEF AddStage, TypeInv, AtWork, AtHand
  <1>2. pc' \notin {"copy", "stage", "keep"}
    BY DEF AddStage, NextPath, Goto
  <1>3. CASE Link(path, hash)
    BY <1>1, <1>2, <1>3, LinkKeeps DEF AtHand, Keeps
  <1>4. CASE UNCHANGED diskVars
    BY <1>2, <1>4, QuietObjects DEF Keeps, Exists, Content, diskVars
  <1> QED
    BY <1>3, <1>4 DEF AddStage

LEMMA ReadonlyFileObjects ==
    ASSUME TypeInv, CmdInv, ~world.off, Objects, AtHand, ReadonlyFile PROVE Objects' /\ AtHand'
  <1>1. pc = "mode" /\ ro
    BY DEF ReadonlyFile, CmdInv
  <1>2. PICK q \in todo : ReadonlyOn(q) \/ ReadonlyRefuses(q) \/ ReadonlyAlready(q)
    BY <1>1 DEF ReadonlyFile, ReadonlyOff, CanRestore
  <1>3. CASE ReadonlyOn(q)
    BY <1>3, SameObjects DEF ReadonlyOn, Goto, AtHand, Exists, Content, diskVars
  <1>4. CASE ReadonlyRefuses(q) \/ ReadonlyAlready(q)
    BY <1>1, <1>4, QuietObjects DEF ReadonlyRefuses, ReadonlyAlready
  <1> QED
    BY <1>2, <1>3, <1>4

LEMMA PullFileObjects == ASSUME TypeInv, Objects, AtHand, PullFile PROVE Objects' /\ AtHand'
  <1>1. PICK q \in todo : PullFetch(q) \/ PullFails(q)
    BY DEF PullFile
  <1>2. q \in Path
    BY DEF TypeInv, LocalOK
  <1>3. CASE PullFails(q)
    BY <1>3, QuietObjects DEF PullFails, NextPath, Goto
  <1>4. CASE PullFetch(q)
    <2>1. Target(q) \in Row
      BY <1>2, <1>4 DEF PullFetch, Target, TypeInv, DbOK, LocalOK
    <2>2. PICK h \in Hash : h = Target(q).hash
      BY <2>1 DEF Row
    <2>3. path' = q /\ hash' = h
      BY <1>4, <2>2 DEF PullFetch
    <2>4. CASE Goto("put") /\ UNCHANGED diskVars
      BY <2>4, QuietObjects DEF Goto
    <2>5. CASE ~Has(h) /\ PutObject(h) /\ Goto("put")
      <3>1. Inode(h, TRUE) \in Kind /\ Inode(h, TRUE).content = h
        BY DEF Inode, Kind
      <3> QED
        <4>1. Leave(file, [object EXCEPT ![h] = ObjectInode(h)], ObjectInode(h), Inode(h, TRUE), {})
          BY <2>5 DEF PutObject, Write
        <4>2. Objects'
          BY <2>5, <3>1, <4>1, PutObjectKeeps
        <4> QED
          BY <2>5, <4>2 DEF Goto, AtHand
    <2>6. CASE PutFile(q, h) /\ Goto("keep")
      BY <1>2, <2>3, <2>6, PutFileKeeps DEF AtHand, Exists, Content
    <2> QED
      BY <1>4, <2>2, <2>4, <2>5, <2>6 DEF PullFetch
  <1> QED
    BY <1>1, <1>3, <1>4

LEMMA PullPutObjects == ASSUME TypeInv, Objects, AtHand, PullPut PROVE Objects' /\ AtHand'
  <1>1. path \in Path /\ hash \in Hash /\ Has(hash) /\ path' = path /\ hash' = hash /\ pc' = "keep"
    BY DEF PullPut, TypeInv, AtWork, Goto
  <1>2. disk[object[hash]].content \in Hash
    BY <1>1, ContentTypes
  <1>3. hash \notin torn => disk[object[hash]].content = hash
    BY <1>1 DEF Objects, Named
  <1>4. Objects' /\ Exists(path)' /\ (hash \notin torn => Content(path)' = hash) /\ torn' = torn
    BY <1>1, <1>2, <1>3, LinkKeeps, PutFileKeeps DEF PullPut
  <1> QED
    BY <1>1, <1>4 DEF AtHand

LEMMA PullKeepObjects == ASSUME TypeInv, Objects, AtHand, PullKeep PROVE Objects' /\ AtHand'
  <1>1. path \in Path /\ hash \in Hash /\ Exists(path) /\ (hash \notin torn => Content(path) = hash)
    BY DEF PullKeep, TypeInv, AtWork, AtHand
  <1>2. pc' \notin {"copy", "stage", "keep"}
    BY DEF PullKeep, NextPath, Goto
  <1>3. CASE ~Has(hash) /\ CreateObject(hash, path)
    <2>1. Content(path) = hash
      BY <1>1, <1>3, NoneIsTorn
    <2>2. Objects'
      BY <1>1, <1>3, <2>1, CreateKeeps
    <2> QED
      BY <1>2, <2>2 DEF AtHand
  <1>4. CASE UNCHANGED diskVars
    BY <1>2, <1>4, QuietObjects
  <1> QED
    BY <1>3, <1>4 DEF PullKeep

LEMMA RemovalObjects ==
    ASSUME TypeInv, Objects, Deinit \/ CleanDelete PROVE Objects' /\ AtHand'
  <1>1. PICK deleted \in SUBSET Hash :
             Write(file, [h \in Hash |-> IF h \in deleted THEN None ELSE object[h]], None, None)
    <2>1. CASE Deinit
      <3>1. [h \in Hash |-> None] = [h \in Hash |-> IF h \in Hash THEN None ELSE object[h]]
        OBVIOUS
      <3> QED
        BY <2>1, <3>1 DEF Deinit
    <2>2. CASE CleanDelete
      BY <2>2 DEF CleanDelete, TypeInv, LocalOK
    <2> QED
      BY <2>1, <2>2
  <1> DEFINE o == [h \in Hash |-> IF h \in deleted THEN None ELSE object[h]]
  <1>2. o \in [Hash -> Inodes \cup {None}] /\ \A h \in Hash : o[h] \in {object[h], None}
    BY DEF TypeInv, DiskOK
  <1> HIDE DEF o
  <1>3. Objects'
    BY <1>1, <1>2, RemoveKeeps DEF TypeInv, DiskOK, o
  <1>4. pc' = "idle"
    BY DEF Deinit, CleanDelete, localVars, Done, Goto
  <1> QED
    BY <1>3, <1>4 DEF AtHand

LEMMA UserObjects ==
    ASSUME TypeInv, Undisturbed, Objects, Edit \/ Save \/ Delete PROVE Objects' /\ AtHand'
  <1>1. pc' = "idle"
    BY DEF Edit, Save, Delete, UserActs, Undisturbed, localVars
  <1>2. CASE Edit
    <2>1. PICK q \in Path, c \in Hash :
               /\ Exists(q) /\ disk[file[q]].writable
               /\ Write(file, object, file[q], Inode(c, TRUE))
      BY <1>2 DEF Edit
    <2>2. Inode(c, TRUE) \in Kind
      BY DEF Inode, Kind
    <2>3. /\ file' = file /\ object' = object /\ torn' = torn
          /\ \A j \in InUse(file, object) : disk'[j] = IF j = file[q] THEN Inode(c, TRUE) ELSE disk[j]
      BY <2>1, <2>2, WriteInPlace DEF TypeInv
    <2>4. \A h \in Hash \ torn : Has(h) => object[h] # file[q]
      BY <2>1 DEF Objects, Sealed
    <2>5. \A h \in Hash \ torn : Has(h) => disk'[object[h]] = disk[object[h]]
      BY <2>3, <2>4, NamesInUse
    <2>6. Objects'
      BY <2>3, <2>5 DEF Objects, Named, Sealed, Has
    <2> QED
      BY <1>1, <2>6 DEF AtHand
  <1>3. CASE Save
    BY <1>1, <1>3, PutFileKeeps DEF Save, AtHand
  <1>4. CASE Delete
    <2>1. PICK q \in Path : Write([file EXCEPT ![q] = None], object, None, None) \/ UNCHANGED diskVars
      BY <1>4 DEF Delete
    <2>2. [file EXCEPT ![q] = None] \in [Path -> Inodes \cup {None}]
          /\ \A p \in Path : [file EXCEPT ![q] = None][p] \in {file[p], None}
      BY DEF TypeInv, DiskOK
    <2>3. Objects'
      BY <2>1, <2>2, SameObjects, RemoveKeeps DEF TypeInv, DiskOK
    <2> QED
      BY <1>1, <2>3 DEF AtHand
  <1> QED
    BY <1>2, <1>3, <1>4

LEMMA OtherObjects ==
    ASSUME TypeInv, Objects, AtHand,
           \/ Connect \/ Disconnect \/ Unstage \/ UNCHANGED vars
           \/ StartUpdate \/ StartAdd \/ StartReadonly \/ StartPush \/ StartPull \/ StartCleanup
           \/ SyncApply \/ SyncCollect \/ SyncPlace \/ AddEnd \/ ReadonlyEnd \/ Publish \/ PullOpen
           \/ PullEnd \/ CleanupSelect \/ Clean
    PROVE  Objects' /\ AtHand'
  <1>1. CASE Connect \/ Disconnect \/ Unstage \/ UNCHANGED vars
    BY <1>1, QuietObjects DEF Connect, Disconnect, Unstage, vars
  <1>2. CASE StartUpdate \/ StartAdd \/ StartReadonly \/ StartPush \/ StartPull \/ StartCleanup
    BY <1>2, QuietObjects DEF StartUpdate, StartAdd, StartReadonly, StartPush, StartPull, StartCleanup,
       BeginSync, Begin, Goto
  <1>3. CASE SyncApply
    BY <1>3, QuietObjects DEF SyncApply, SyncFails, Done, NextPath, Goto
  <1>4. CASE SyncPlace
    BY <1>4, QuietObjects DEF SyncPlace, GoOn, Done, Goto, TypeInv, LocalOK, Returns
  <1>5. CASE SyncCollect \/ AddEnd \/ ReadonlyEnd \/ Publish \/ PullOpen \/ PullEnd \/ CleanupSelect \/ Clean
    BY <1>5, QuietObjects DEF SyncCollect, AddEnd, ReadonlyEnd, Publish, PullOpen, PullEnd,
       CleanupSelect, Clean, Done, Goto
  <1> QED
    BY <1>1, <1>2, <1>3, <1>4, <1>5

\* A command that is broken off leaves the objects what they are, but for the one it was
\* at, and the files.
LEMMA HalfKeeps ==
    ASSUME TypeInv, CmdInv, ~world.off, Objects, AtHand, NEW q \in Path,
           pc \in {"copy", "stage", "put", "keep"} => q = path, Half(q)
    PROVE  Objects' /\ ((pc \in {"copy", "stage"} /\ hash \notin torn) => Keeps)
  <1>1. pc \in {"copy", "stage", "put", "keep"} => hash \in Hash
    BY DEF TypeInv, AtWork
  <1>2. pc \in {"stage", "put"} => Has(hash)
    BY DEF TypeInv, AtWork
  <1>3. CASE UNCHANGED diskVars
    BY <1>3, SameObjects DEF Keeps, Exists, Content, diskVars
  <1>4. CASE pc \in {"copy", "keep"} /\ HalfObject(hash, q)
    BY <1>1, <1>4, HalfObjectKeeps
  <1>5. CASE pc \in {"stage", "put"} /\ HalfLink(q, hash)
    BY <1>1, <1>2, <1>5, HalfLinkKeeps
  <1>6. CASE pc \in {"stage", "put"} /\ Link(q, hash)
    <2>1. /\ Objects' /\ Exists(q)' /\ (hash \notin torn => Content(q)' = hash)
          /\ \A p \in Path \ {q} : Exists(p) => Exists(p)' /\ Content(p)' = Content(p)
      BY <1>1, <1>2, <1>6, LinkKeeps
    <2>2. pc = "stage" => Content(q) = hash
      BY <1>6 DEF AtHand
    <2> QED
      BY <1>6, <2>1, <2>2 DEF Keeps
  <1>7. CASE pc = "put" /\ PutFile(q, disk[object[hash]].content)
    <2>1. disk[object[hash]].content \in Hash
      BY <1>1, <1>2, <1>7, ContentTypes
    <2> QED
      BY <1>7, <2>1, PutFileKeeps
  <1>8. CASE pc \in {"put", "mode", "fetch"} /\ HalfFile(q)
    <2>1. PICK r \in Path, c \in Hash : PutFile(r, c)
      BY <1>8, WorkspaceAssumption DEF HalfFile, TempIsFree
    <2> QED
      BY <1>8, <2>1, PutFileKeeps
  <1>9. ~(pc = "mode" /\ CanRestore(q))
    <2>1. pc = "mode" => ro
      BY DEF CmdInv
    <2> QED
      BY <2>1 DEF CanRestore
  <1> QED
    BY <1>3, <1>4, <1>5, <1>6, <1>7, <1>8, <1>9 DEF Half

LEMMA BreakObjects ==
    ASSUME TypeInv, CmdInv, ~world.off, Objects, AtHand, Break
    PROVE  Objects' /\ AtHand' /\ ((pc \in {"copy", "stage"} /\ hash \notin torn) => Keeps)
  <1>1. CASE BreakFile
    <2>1. PICK q \in Path : Half(q) /\ BrokenOff(q) /\ (pc \in {"copy", "stage", "put", "keep"} => q = path)
      BY <1>1, BreakFileAt
    <2>2. pc' \in {"idle", "add", "mode", "fetch"}
      BY <2>1, BrokenOffTypes
    <2> QED
      BY <2>1, <2>2, HalfKeeps DEF AtHand
  <1>2. CASE BreakSync \/ BreakPush \/ Kill
    <2>1. UNCHANGED diskVars /\ pc' \in {"idle", "fetch"}
      BY <1>2 DEF BreakSync, BreakPush, Kill, Done, NextPath, Goto
    <2>2. Objects' /\ AtHand'
      BY <2>1, QuietObjects
    <2> QED
      BY <2>1, <2>2 DEF Keeps, Exists, Content, diskVars
  <1> QED
    BY <1>1, <1>2 DEF Break

LEMMA ObjectStep == ASSUME TypeInv, CmdInv, ObjInv, [Next]_vars PROVE ObjInv'
  <1>1. world' = world
    BY WorldStays
  <1>2. SUFFICES ASSUME Undisturbed PROVE Objects' /\ AtHand'
    BY <1>1 DEF ObjInv, Undisturbed
  <1>3. Objects /\ AtHand /\ ~world.off
    BY <1>2 DEF ObjInv, Undisturbed
  <1> QED
    BY <1>2, <1>3, AddFileObjects, AddCopyObjects, AddStageObjects, ReadonlyFileObjects, PullFileObjects,
       PullPutObjects, PullKeepObjects, RemovalObjects, UserObjects, BreakObjects, OtherObjects
       DEF Next, Start, Step

LEMMA ObjectInvariant == Spec => [](TypeInv /\ CmdInv /\ ObjInv)
  <1>1. Init => CmdInv /\ ObjInv
    BY DEF Init, CmdInv, ObjInv, Objects, Named, Sealed, AtHand, Has
  <1>2. TypeInv /\ CmdInv /\ ObjInv /\ [Next]_vars => CmdInv' /\ ObjInv'
    BY CmdStep, ObjectStep
  <1> QED
    BY <1>1, <1>2, TypeInvariant, PTL DEF Spec

\* As long as the user edits nothing while a command runs and does not use readonly --off, every
\* object is what its name says, in spite of the links that share its inode and wherever a
\* command is broken off, but for the object whose copy or link was broken off
\* (workspace.cpp:127-170, commands.cpp:313-322, 888-929).
THEOREM ObjectsAlways == Spec => []UndisturbedObjects
  <1>1. ObjInv => UndisturbedObjects
    BY DEF ObjInv, Objects, Named, UndisturbedObjects
  <1> QED
    BY <1>1, ObjectInvariant, PTL

\* add and readonly change no file's content, also where they are broken off, unless the object
\* they link is one that an earlier command broke off storing (commands.cpp:313-317, 563-575).
THEOREM AddAlwaysKeeps == Spec => AddKeepsContent
  <1> DEFINE A == (Undisturbed /\ pc \in {"copy", "stage"} /\ hash \notin torn) =>
                    \A q \in Path : Exists(q) => Exists(q)' /\ Content(q)' = Content(q)
  <1>1. TypeInv /\ CmdInv /\ ObjInv /\ [Next]_vars => [A]_vars
    <2> SUFFICES ASSUME TypeInv, CmdInv, ObjInv, Next, Undisturbed, pc \in {"copy", "stage"}, hash \notin torn
                 PROVE  Keeps
      BY DEF Keeps
    <2>1. Objects /\ AtHand /\ ~world.off
      BY DEF ObjInv, Undisturbed
    <2>2. ~Start
      BY DEF Start, Connect, Disconnect, Deinit, StartUpdate, StartAdd, Unstage, StartReadonly,
             StartPush, StartPull, StartCleanup, BeginSync, Begin
    <2>3. ~(Edit \/ Save \/ Delete)
      BY DEF Edit, Save, Delete, UserActs, Undisturbed
    <2>4. AddCopy \/ AddStage \/ Break
      BY <2>2, <2>3 DEF Next, Step, SyncApply, SyncCollect, SyncPlace, AddFile, AddEnd, ReadonlyFile,
         ReadonlyEnd, Publish, PullOpen, PullFile, PullPut, PullKeep, PullEnd, CleanupSelect, Clean,
         CleanDelete
    <2> QED
      BY <2>1, <2>4, AddCopyObjects, AddStageObjects, BreakObjects
  <1> QED
    BY <1>1, ObjectInvariant, PTL DEF Spec, AddKeepsContent

-----------------------------------------------------------------------------
(* What is staged has its object                                           *)

\* What a step can do to files and objects.
LEMMA CreateIsOfKinds ==
    ASSUME NEW h \in Hash, ~Has(h), NEW what \in Kind,
           Write(file, [object EXCEPT ![h] = ObjectInode(h)], ObjectInode(h), what)
    PROVE  Creates
  <1>1. {} \in SUBSET {h} /\ Leave(file, [object EXCEPT ![h] = ObjectInode(h)], ObjectInode(h), what, {})
    BY DEF Write
  <1> QED
    BY <1>1 DEF Creates

LEMMA DiskSteps ==
    ASSUME TypeInv, [Next]_vars, ~Deinit, ~CleanDelete, ~Delete PROVE OneOfKinds
  <1> USE DEF OneOfKinds
  <1>1. CASE AddCopy
    <2>1. path \in Path /\ hash \in Hash
      BY <1>1 DEF AddCopy, TypeInv, AtWork
    <2>2. Exists(path) => disk[file[path]] \in Kind
      BY <2>1, ContentTypes
    <2> QED
      BY <1>1, <2>1, <2>2, CreateIsOfKinds DEF AddCopy, CreateObject
  <1>2. CASE AddStage
    BY <1>2 DEF AddStage, TypeInv, AtWork, Links
  <1>3. CASE ReadonlyFile
    <2>1. PICK q \in todo : ReadonlyOff(q) \/ UNCHANGED diskVars
      BY <1>3 DEF ReadonlyFile, ReadonlyOn, ReadonlyRefuses, ReadonlyAlready
    <2>2. q \in Path
      BY DEF TypeInv, LocalOK
    <2> QED
      BY <2>1, <2>2, RestoreKind DEF ReadonlyOff
  <1>4. CASE PullFile
    <2>1. PICK q \in todo : PullFetch(q) \/ UNCHANGED diskVars
      BY <1>4 DEF PullFile, PullFails
    <2>2. q \in Path
      BY DEF TypeInv, LocalOK
    <2>3. CASE PullFetch(q)
      <3>1. Target(q) \in Row
        BY <2>2, <2>3 DEF PullFetch, Target, TypeInv, DbOK, LocalOK
      <3>2. PICK h \in Hash : h = Target(q).hash
        BY <3>1 DEF Row
      <3>3. UNCHANGED diskVars \/ (~Has(h) /\ PutObject(h)) \/ PutFile(q, h)
        BY <2>3, <3>2 DEF PullFetch
      <3>4. Inode(h, TRUE) \in Kind
        BY DEF Inode, Kind
      <3> QED
        BY <2>2, <3>3, <3>4, CreateIsOfKinds DEF PutObject, Puts
    <2> QED
      BY <2>1, <2>3
  <1>5. CASE PullPut
    <2>1. path \in Path /\ hash \in Hash /\ Has(hash)
      BY <1>5 DEF PullPut, TypeInv, AtWork
    <2>2. disk[object[hash]].content \in Hash
      BY <2>1, NamesInUse DEF TypeInv, DiskOK, Kind
    <2> QED
      BY <1>5, <2>1, <2>2 DEF PullPut, Links, Puts
  <1>6. CASE PullKeep
    <2>1. path \in Path /\ hash \in Hash
      BY <1>6 DEF PullKeep, TypeInv, AtWork
    <2>2. Exists(path) => disk[file[path]] \in Kind
      BY <2>1, NamesInUse DEF TypeInv, DiskOK
    <2> QED
      BY <1>6, <2>1, <2>2, CreateIsOfKinds DEF PullKeep, CreateObject
  <1>7. CASE Edit \/ Save
    <2>1. \A c \in Hash : Inode(c, TRUE) \in Kind
      BY DEF Inode, Kind
    <2> QED
      BY <1>7, <2>1 DEF Edit, Save, Puts, Rewrites
  <1>8. CASE Start
    BY <1>8 DEF Start, Connect, Disconnect, StartUpdate, StartAdd, Unstage, StartReadonly,
       StartPush, StartPull, StartCleanup, BeginSync, Begin
  <1>9. CASE \/ SyncApply \/ SyncCollect \/ SyncPlace \/ AddFile \/ AddEnd \/ ReadonlyEnd \/ Publish
             \/ PullOpen \/ PullEnd \/ CleanupSelect \/ Clean
    BY <1>9 DEF SyncApply, SyncCollect, SyncPlace, AddFile, AddEnd, ReadonlyEnd, Publish, PullOpen, PullEnd,
       CleanupSelect, Clean
  <1>10. CASE UNCHANGED vars
    BY <1>10 DEF vars
  <1>11. CASE Break
    BY <1>11, BreakFileAt DEF Break, BreakSync, BreakPush, Kill
  <1> QED
    BY <1>1, <1>2, <1>3, <1>4, <1>5, <1>6, <1>7, <1>8, <1>9, <1>10, <1>11 DEF Next, Step

\* Only deinit and cleanup take objects away, only the user takes files away.
LEMMA NamesStay ==
    ASSUME TypeInv, [Next]_vars
    PROVE  /\ Deinit \/ CleanDelete \/ \A h \in Hash : Has(h) => Has(h)'
           /\ Delete \/ \A q \in Path : Exists(q) => Exists(q)'
  <1>1. CASE Delete
    <2>1. object' = object
      BY <1>1 DEF Delete, Write, Leave, diskVars
    <2> QED
      BY <1>1, <2>1 DEF Has
  <1>2. CASE Deinit \/ CleanDelete
    <2>1. file' = file
      BY <1>2 DEF Deinit, CleanDelete, Write, Leave
    <2> QED
      BY <1>2, <2>1 DEF Exists
  <1>3. CASE UNCHANGED diskVars \/ Rewrites
    <2>1. file' = file /\ object' = object
      BY <1>3 DEF Rewrites, Write, Leave, diskVars
    <2> QED
      BY <2>1 DEF Exists, Has
  <1>4. CASE Links
    <2>1. PICK q \in Path, h \in Hash : Has(h) /\ Link(q, h)
      BY <1>4 DEF Links
    <2>2. /\ object' = object /\ file'[q] = object[h]
          /\ \A p \in Path \ {q} : file'[p] = file[p] \/ (~Exists(p) /\ file'[p] = object[h])
      BY <2>1, LinkEffect DEF TypeInv
    <2> QED
      BY <2>1, <2>2 DEF Exists, Has
  <1>5. CASE Puts
    <2>1. PICK q \in Path, c \in Hash : PutFile(q, c)
      BY <1>5 DEF Puts
    <2>2. object' = object /\ file' = [file EXCEPT ![q] = q]
      BY <2>1, PutFileEffect DEF TypeInv
    <2>3. q # None
      BY WorkspaceAssumption
    <2> QED
      BY <2>2, <2>3 DEF TypeInv, DiskOK, Exists, Has
  <1>6. CASE Creates
    <2>1. PICK h \in Hash, what \in Kind : \E half \in SUBSET {h} :
             ~Has(h) /\ Leave(file, [object EXCEPT ![h] = ObjectInode(h)], ObjectInode(h), what, half)
      BY <1>6 DEF Creates
    <2>2. file' = file /\ object' = [object EXCEPT ![h] = ObjectInode(h)]
      BY <2>1, PutObjectEffect DEF TypeInv
    <2> QED
      BY <2>1, <2>2 DEF TypeInv, DiskOK, Exists, Has
  <1>7. CASE HalfLinks
    <2>1. PICK q \in Path, h \in Hash : Has(h) /\ HalfLink(q, h)
      BY <1>7 DEF HalfLinks
    <2>2. PICK r \in Path, w \in BOOLEAN, half \in SUBSET {h} : LinkAs(r, h, w, half) /\ ~Exists(r)
      BY <2>1, HalfLinkIsLinkAs DEF TypeInv
    <2>3. object' = object /\ file' = [file EXCEPT ![r] = object[h]]
      BY <2>1, <2>2, LinkAsEffect DEF TypeInv
    <2>4. \A p \in Path : Exists(p) => file'[p] = file[p]
      BY <2>2, <2>3 DEF TypeInv, DiskOK
    <2> QED
      BY <2>3, <2>4 DEF Exists, Has
  <1> QED
    BY <1>1, <1>2, <1>3, <1>4, <1>5, <1>6, <1>7, DiskSteps DEF OneOfKinds

\* What cleanup is about to delete is not staged; otherwise nothing is.
Collecting == pc = "delete" \/ (pc \in {"sync", "collect", "place"} /\ then = "delete")
GarbageInv ==
    /\ garbage # {} => Collecting
    /\ \A q \in Staged : staged[q].hash \notin garbage
StagedInv == GarbageInv /\ StagedHasObject

\* Staging loses entries.
Unstages == \A q \in Path : staged'[q] \in {staged[q], None}

LEMMA LessStaged ==
    ASSUME TypeInv, StagedHasObject, [Next]_vars, Unstages, ~CleanDelete, ~Deinit
    PROVE  StagedHasObject'
  <1>1. world' = world
    BY WorldStays
  <1>2. \A h \in Hash : Has(h) => Has(h)'
    BY NamesStay
  <1>3. \A q \in Staged' : q \in Staged /\ staged'[q] = staged[q]
    BY DEF Staged, Unstages
  <1>4. \A q \in Staged : staged[q].hash \in Hash
    BY DEF Staged, TypeInv, DbOK, Row
  <1>5. SUFFICES ASSUME ~world.off, NEW q \in Staged' PROVE Has(staged[q].hash)'
    BY <1>1 DEF StagedHasObject
  <1>6. q \in Staged /\ staged'[q] = staged[q] /\ staged[q].hash \in Hash
    BY <1>3, <1>4
  <1>7. object[staged[q].hash] # None
    BY <1>5, <1>6 DEF StagedHasObject, Has
  <1>8. object'[staged[q].hash] # None
    BY <1>2, <1>6, <1>7 DEF Has
  <1> QED
    BY <1>6, <1>8 DEF Has

LEMMA MoreStaged ==
    ASSUME TypeInv, StagedHasObject, [Next]_vars, ~CleanDelete, ~Deinit,
           NEW p \in Path, NEW h \in Hash, Has(h), NEW flag,
           staged' = [staged EXCEPT ![p] = [hash |-> h, readOnly |-> flag]]
    PROVE  StagedHasObject'
  <1>1. world' = world
    BY WorldStays
  <1>2. \A g \in Hash : Has(g) => Has(g)'
    BY NamesStay
  <1>3. staged'[p].hash = h /\ \A q \in Path \ {p} : staged'[q] = staged[q]
    BY DEF TypeInv, DbOK
  <1>4. SUFFICES ASSUME ~world.off, NEW q \in Staged' PROVE Has(staged[q].hash)'
    BY <1>1 DEF StagedHasObject
  <1>5. PICK g \in Hash : g = staged'[q].hash /\ Has(g)
    <2>1. CASE q = p
      BY <1>3, <2>1
    <2>2. CASE q # p
      <3>1. q \in Staged /\ staged'[q] = staged[q] /\ staged[q].hash \in Hash
        BY <1>3, <2>2 DEF Staged, TypeInv, DbOK, Row
      <3> QED
        BY <1>4, <3>1 DEF StagedHasObject
    <2> QED
      BY <2>1, <2>2
  <1>6. object'[g] # None
    BY <1>2, <1>5 DEF Has
  <1> QED
    BY <1>5, <1>6 DEF Has

LEMMA NoGarbage == ASSUME garbage' = {} PROVE GarbageInv'
  BY DEF GarbageInv
LEMMA SameGarbage ==
    ASSUME GarbageInv, garbage' = garbage, Unstages, Collecting => Collecting' PROVE GarbageInv'
  BY DEF GarbageInv, Staged, Unstages

LEMMA SyncStaged ==
    ASSUME TypeInv, GarbageInv, SyncApply \/ SyncCollect \/ SyncPlace
    PROVE  GarbageInv' /\ staged' = staged
  <1>1. staged' = staged
    BY DEF SyncApply, SyncCollect, SyncPlace, dbVars
  <1>2. Unstages
    BY <1>1 DEF Unstages
  <1>3. CASE Done
    BY <1>1, <1>3, NoGarbage DEF Done
  <1>4. CASE SyncApply /\ then = "fetch" /\ NextPath("fetch", TRUE)
    <2>1. ~Collecting /\ garbage' = garbage
      BY <1>4 DEF SyncApply, Collecting, NextPath
    <2> QED
      BY <1>1, <1>2, <2>1, SameGarbage
  <1>5. CASE SyncApply /\ Goto("collect") /\ then' = then /\ garbage' = garbage
    BY <1>1, <1>2, <1>5, SameGarbage DEF SyncApply, Goto, Collecting
  <1>6. CASE SyncCollect
    BY <1>1, <1>2, <1>6, SameGarbage DEF SyncCollect, Goto, Collecting
  <1>7. CASE SyncPlace /\ Goto(then) /\ garbage' = garbage
    BY <1>1, <1>2, <1>7, SameGarbage DEF SyncPlace, Goto, Collecting
  <1> QED
    BY <1>3, <1>4, <1>5, <1>6, <1>7 DEF SyncApply, SyncFails, SyncPlace, GoOn

LEMMA CleanupStaged == ASSUME TypeInv, GarbageInv, Clean PROVE GarbageInv' /\ staged' = staged
  <1>1. staged' = staged
    BY DEF Clean
  <1>2. \A q \in Staged : staged[q].hash \in Hashes(staged)
    BY DEF Staged, Hashes
  <1>3. garbage' \cap Hashes(staged) = {}
    BY DEF Clean, Referenced
  <1>4. Collecting'
    BY DEF Clean, Goto, Collecting
  <1>5. Staged' = Staged
    BY <1>1 DEF Staged
  <1> QED
    BY <1>1, <1>2, <1>3, <1>4, <1>5 DEF GarbageInv

LEMMA CleanDeleteStaged ==
    ASSUME TypeInv, StagedInv, [Next]_vars, CleanDelete PROVE StagedInv'
  <1>1. garbage' = {} /\ staged' = staged /\ world' = world
    BY WorldStays DEF CleanDelete, Done, dbVars
  <1>2. PICK deleted \in SUBSET garbage :
             object' = [h \in Hash |-> IF h \in deleted THEN None ELSE object[h]]
    BY DEF CleanDelete, Write, Leave
  <1>3. StagedHasObject'
    <2> SUFFICES ASSUME ~world.off, NEW q \in Staged PROVE object'[staged[q].hash] # None
      BY <1>1 DEF StagedHasObject, Staged, Has
    <2>1. staged[q].hash \in Hash /\ staged[q].hash \notin deleted /\ Has(staged[q].hash)
      BY <1>2 DEF Staged, TypeInv, DbOK, Row, StagedInv, GarbageInv, StagedHasObject
    <2> QED
      BY <1>2, <2>1 DEF Has
  <1> QED
    BY <1>1, <1>3, NoGarbage DEF StagedInv

LEMMA AddStageStaged ==
    ASSUME TypeInv, StagedInv, [Next]_vars, AddStage PROVE StagedInv'
  <1>1. path \in Path /\ hash \in Hash /\ Has(hash) /\ pc = "stage"
    BY DEF AddStage, TypeInv, AtWork
  <1>2. garbage = {} /\ garbage' = garbage
    BY <1>1 DEF StagedInv, GarbageInv, Collecting, AddStage, NextPath
  <1>3. staged' = [staged EXCEPT ![path] = [hash |-> hash, readOnly |-> ro]]
    BY DEF AddStage
  <1>4. ~CleanDelete /\ ~Deinit
    BY <1>1 DEF CleanDelete, Deinit
  <1>5. StagedHasObject'
    BY <1>1, <1>3, <1>4, MoreStaged DEF StagedInv
  <1> QED
    BY <1>2, <1>5, NoGarbage DEF StagedInv

LEMMA ReadonlyFileStaged ==
    ASSUME TypeInv, CmdInv, StagedInv, [Next]_vars, ReadonlyFile PROVE StagedInv'
  <1>1. pc = "mode" /\ garbage' = garbage /\ ~CleanDelete /\ ~Deinit
    BY DEF ReadonlyFile, CleanDelete, Deinit
  <1>2. GarbageInv'
    BY <1>1, NoGarbage DEF StagedInv, GarbageInv, Collecting
  <1>3. CASE world.off
    BY <1>2, <1>3, WorldStays DEF StagedInv, StagedHasObject
  <1>4. CASE ~world.off
    <2>1. ro
      BY <1>1, <1>4 DEF CmdInv, ReadonlyFile
    <2>2. staged' = staged
      BY <2>1 DEF ReadonlyFile, ReadonlyOn, ReadonlyOff, CanRestore, ReadonlyRefuses, ReadonlyAlready
    <2>3. StagedHasObject'
      BY <1>1, <2>2, LessStaged DEF StagedInv, Unstages
    <2> QED
      BY <1>2, <2>3 DEF StagedInv
  <1> QED
    BY <1>3, <1>4

\* Every other step loses entries at most, and does not touch what cleanup has collected.
LEMMA OtherStaged ==
    ASSUME TypeInv, StagedInv, [Next]_vars, ~CleanDelete, ~Deinit, Unstages,
           \/ garbage' = {}
           \/ UNCHANGED <<pc, then, garbage>>
           \/ ~Collecting /\ garbage' = garbage
    PROVE  StagedInv'
  <1>1. GarbageInv'
    BY NoGarbage, SameGarbage DEF StagedInv, Collecting
  <1> QED
    BY <1>1, LessStaged DEF StagedInv

LEMMA BreakStaged == ASSUME TypeInv, StagedInv, [Next]_vars, Break PROVE StagedInv'
  <1>1. Unstages
    BY DEF Break, BreakFile, BreakSync, BreakPush, Kill, Unstages, dbVars
  <1>2. CASE CleanDelete
    BY <1>2, CleanDeleteStaged
  <1>3. CASE Deinit
    BY <1>3 DEF Break, BreakFile, BreakSync, BreakPush, Kill, Deinit
  <1>4. garbage' = {} \/ (~Collecting /\ garbage' = garbage)
    BY DEF Break, BreakFile, BrokenOff, BreakSync, BreakPush, Kill, Done, NextPath, Collecting
  <1> QED
    BY <1>1, <1>2, <1>3, <1>4, OtherStaged

LEMMA StagedStep == ASSUME TypeInv, CmdInv, StagedInv, [Next]_vars PROVE StagedInv'
  <1>1. CASE SyncApply \/ SyncCollect \/ SyncPlace
    <2>1. GarbageInv' /\ staged' = staged
      BY <1>1, SyncStaged DEF StagedInv
    <2>2. pc \in {"sync", "collect", "place"}
      BY <1>1 DEF SyncApply, SyncCollect, SyncPlace
    <2>3. ~CleanDelete /\ ~Deinit
      BY <2>2 DEF CleanDelete, Deinit
    <2> QED
      BY <2>1, <2>3, LessStaged DEF StagedInv, Unstages
  <1>2. CASE Clean
    <2>1. GarbageInv' /\ staged' = staged
      BY <1>2, CleanupStaged DEF StagedInv
    <2>2. ~CleanDelete /\ ~Deinit
      BY <1>2 DEF Clean, CleanDelete, Deinit
    <2> QED
      BY <2>1, <2>2, LessStaged DEF StagedInv, Unstages
  <1>3. CASE Deinit
    <2>1. staged' = NoRow /\ pc = "idle" /\ garbage' = garbage
      BY <1>3 DEF Deinit, localVars
    <2>2. Staged' = {}
      BY <2>1 DEF Staged, NoRow
    <2>3. garbage' = {}
      BY <2>1 DEF StagedInv, GarbageInv, Collecting
    <2> QED
      BY <2>2, <2>3 DEF StagedInv, GarbageInv, StagedHasObject
  <1>4. CASE Connect \/ Disconnect \/ Unstage \/ Edit \/ Save \/ Delete \/ UNCHANGED vars
    <2>1. UNCHANGED localVars
      BY <1>4 DEF Connect, Disconnect, Unstage, Edit, Save, Delete, UserActs, vars
    <2>2. UNCHANGED <<pc, then, garbage>>
      BY <2>1 DEF localVars
    <2>3. Unstages
      BY <1>4 DEF Connect, Disconnect, Unstage, Edit, Save, Delete, UserActs, vars, dbVars, Unstages
    <2>4. CASE CleanDelete \/ Deinit
      BY <2>4, <1>3, CleanDeleteStaged
    <2> QED
      BY <2>2, <2>3, <2>4, OtherStaged
  <1>5. CASE StartUpdate \/ StartAdd \/ StartReadonly \/ StartPush \/ StartPull \/ StartCleanup
    <2>1. pc = "idle" /\ pc' # "idle" /\ garbage' = garbage /\ staged' = staged
      BY <1>5 DEF StartUpdate, StartAdd, StartReadonly, StartPush, StartPull, StartCleanup, BeginSync,
         Begin, Goto, dbVars
    <2>2. ~CleanDelete /\ ~Deinit /\ ~Collecting
      BY <2>1 DEF CleanDelete, Deinit, Collecting, localVars
    <2> QED
      BY <2>1, <2>2, OtherStaged DEF Unstages
  <1>6. CASE AddFile
    <2>1. pc = "add" /\ garbage' = garbage
      BY <1>6 DEF AddFile, AddMissing, AddHash
    <2>2. Unstages
      <3>1. PICK q \in todo : AddMissing(q) \/ AddHash(q)
        BY <1>6 DEF AddFile
      <3>2. staged' = staged \/ staged' = [staged EXCEPT ![q] = None]
        BY <3>1 DEF AddMissing, AddHash
      <3> QED
        BY <3>2 DEF Unstages, TypeInv, DbOK
    <2>3. ~CleanDelete /\ ~Deinit /\ ~Collecting
      BY <2>1 DEF CleanDelete, Deinit, Collecting
    <2> QED
      BY <2>1, <2>2, <2>3, OtherStaged
  <1>7. CASE Publish
    <2>1. pc = "publish" /\ garbage' \in {garbage, {}}
      BY <1>7 DEF Publish, Done
    <2>2. Unstages
      BY <1>7 DEF Publish, Unstages
    <2>3. ~CleanDelete /\ ~Deinit /\ ~Collecting
      BY <2>1 DEF CleanDelete, Deinit, Collecting
    <2> QED
      BY <2>1, <2>2, <2>3, OtherStaged
  <1>8. CASE AddCopy \/ AddEnd \/ ReadonlyEnd \/ PullOpen \/ PullFile \/ PullPut \/ PullKeep \/ PullEnd
             \/ CleanupSelect
    <2>1. pc \in {"copy", "add", "mode", "open", "fetch", "put", "keep", "select"} /\ staged' = staged
      BY <1>8 DEF AddCopy, AddEnd, ReadonlyEnd, PullOpen, PullFile, PullPut, PullKeep, PullEnd,
         CleanupSelect, dbVars
    <2>2. garbage' \in {garbage, {}}
      BY <1>8 DEF AddCopy, AddEnd, ReadonlyEnd, PullOpen, PullFile, PullFetch, PullFails, PullPut, PullKeep,
         PullEnd, CleanupSelect, Done, NextPath
    <2>3. ~CleanDelete /\ ~Deinit /\ ~Collecting
      BY <2>1 DEF CleanDelete, Deinit, Collecting
    <2> QED
      BY <2>1, <2>2, <2>3, OtherStaged DEF Unstages
  <1> QED
    BY <1>1, <1>2, <1>3, <1>4, <1>5, <1>6, <1>7, <1>8, AddStageStaged, ReadonlyFileStaged,
       CleanDeleteStaged, BreakStaged DEF Next, Start, Step

\* What is staged has an object that push can announce: no cleanup takes it, and no command that is
\* broken off stages without it, as long as readonly --off is not used (sqlite_database.cpp:680-700,
\* commands.cpp:313-322).
THEOREM StagedAlways == Spec => []StagedHasObject
  <1>1. Init => StagedInv
    BY DEF Init, StagedInv, GarbageInv, StagedHasObject, Staged, NoRow
  <1>2. TypeInv /\ CmdInv /\ StagedInv /\ [Next]_vars => StagedInv'
    BY StagedStep
  <1>3. StagedInv => StagedHasObject
    BY DEF StagedInv
  <1> QED
    BY <1>1, <1>2, <1>3, ObjectInvariant, PTL DEF Spec

-----------------------------------------------------------------------------
(* What add takes for removed                                              *)

Accounted(q) == Exists(q) \/ q \in empty \/ q \in gone
Updating == pc \in {"sync", "collect", "place"} /\ then = "idle"

\* The rows may have come without their placeholders: no command goes on then but the
\* sync of an update, and a pull that has caught what its sync threw.
Unsettled == joined \in {"half", "fresh"}
Pulling == pc \in {"fetch", "put", "keep"} \/ (pc \in {"sync", "collect", "place"} /\ then = "fetch")

\* Otherwise, outside a sync, each tracked path has its file or its placeholder, unless
\* the user took it away.
AccountInv ==
    /\ Unsettled => pc = "idle" \/ Updating \/ Pulling
    /\ (~Unsettled /\ pc \notin {"collect", "place"}) => \A q \in Tracked : Accounted(q)
    /\ pc = "place" => \A q \in Tracked : Accounted(q) \/ q \in wanted
    /\ pc = "keep" => Exists(path) \/ path \in gone
    /\ removed \subseteq gone
RemovedInv == pc = "idle" => removed = {}
RemovalInv == RemovedInv /\ (world.careful => AccountInv)

LEMMA RemovedStep == ASSUME RemovedInv, TypeInv, [Next]_vars PROVE RemovedInv'
  <1>1. CASE Done
    BY <1>1 DEF Done, RemovedInv
  <1>2. CASE pc' # "idle"
    BY <1>2 DEF RemovedInv
  <1>3. CASE UNCHANGED localVars
    BY <1>3 DEF RemovedInv, localVars
  <1>4. CASE Start
    BY <1>2, <1>3, <1>4 DEF Start, Connect, Disconnect, Deinit, StartUpdate, StartAdd, Unstage, StartReadonly,
       StartPush, StartPull, StartCleanup, BeginSync, Goto
  <1>5. CASE Edit \/ Save \/ Delete \/ UNCHANGED vars
    BY <1>3, <1>5 DEF Edit, Save, Delete, UserActs, vars
  <1>6. CASE SyncApply \/ SyncCollect \/ SyncPlace
    BY <1>1, <1>2, <1>6 DEF SyncApply, SyncFails, SyncCollect, SyncPlace, GoOn, Goto, NextPath
  <1>7. CASE AddFile \/ AddCopy \/ AddStage \/ AddEnd \/ ReadonlyFile \/ ReadonlyEnd
    BY <1>1, <1>2, <1>7 DEF AddFile, AddMissing, AddHash, AddCopy, AddStage, AddEnd, ReadonlyFile, ReadonlyOn,
       ReadonlyOff, ReadonlyRefuses, ReadonlyAlready, ReadonlyEnd, Goto, NextPath
  <1>8. CASE Publish \/ PullOpen \/ PullFile \/ PullPut \/ PullKeep \/ PullEnd
    BY <1>1, <1>2, <1>8 DEF Publish, PullOpen, PullFile, PullFetch, PullFails, PullPut, PullKeep, PullEnd,
       Goto, NextPath
  <1>9. CASE CleanupSelect \/ Clean \/ CleanDelete
    BY <1>1, <1>2, <1>9 DEF CleanupSelect, Clean, CleanDelete, Goto
  <1>10. CASE Break
    <2>1. Done \/ NextPath("fetch", TRUE) \/ NextPath(Loop, TRUE)
      BY <1>10 DEF Break, BreakFile, BrokenOff, BreakSync, BreakPush, Kill
    <2>2. Loop # "idle"
      BY DEF Loop
    <2> QED
      BY <1>1, <1>2, <2>1, <2>2 DEF NextPath, Goto
  <1> QED
    BY <1>4, <1>5, <1>6, <1>7, <1>8, <1>9, <1>10 DEF Next, Step

\* A step that brings no rows and takes no file, placeholder or history away.
LEMMA AccountsStay ==
    ASSUME TypeInv, [Next]_vars, ~Delete, UNCHANGED <<row, empty, gone>>
    PROVE  Tracked' = Tracked /\ \A q \in Path : Accounted(q) => Accounted(q)'
  <1>1. \A q \in Path : Exists(q) => Exists(q)'
    BY NamesStay
  <1> QED
    BY <1>1 DEF Accounted, Tracked

\* Steps between the syncs of a command, and its beginning and end.
LEMMA PlainStep ==
    ASSUME TypeInv, AccountInv, [Next]_vars, ~Delete, UNCHANGED <<joined, row, empty, gone>>,
           pc \notin {"collect", "place"}, pc' \notin {"collect", "place"},
           Unsettled => pc' = "idle" \/ Updating' \/ Pulling',
           pc' = "keep" => (path' \in Path /\ Exists(path)'), removed' \subseteq gone
    PROVE  AccountInv'
  <1>1. Tracked' = Tracked /\ \A q \in Path : Accounted(q) => Accounted(q)'
    BY AccountsStay
  <1>2. Tracked \subseteq Path
    BY DEF Tracked
  <1>3. ~Unsettled => \A q \in Tracked' : Accounted(q)'
    BY <1>1, <1>2 DEF AccountInv
  <1> QED
    BY <1>3 DEF AccountInv, Unsettled

LEMMA PlainSteps ==
    ASSUME TypeInv, AccountInv, world.careful, [Next]_vars,
           \/ StartUpdate \/ StartAdd \/ Unstage \/ StartReadonly \/ StartPush \/ StartPull \/ StartCleanup
           \/ AddFile \/ AddCopy \/ AddStage \/ AddEnd \/ ReadonlyFile \/ ReadonlyEnd \/ Publish \/ PullOpen
           \/ PullFile \/ PullPut \/ PullEnd \/ CleanupSelect \/ CleanDelete
    PROVE  AccountInv'
  <1>1. UNCHANGED <<joined, row, empty, gone>>
    BY DEF StartUpdate, StartAdd, Unstage, StartReadonly, StartPush, StartPull, StartCleanup, BeginSync, Begin,
       AddFile, AddCopy, AddStage, AddEnd, ReadonlyFile, ReadonlyEnd, Publish, PullOpen, PullFile, PullPut,
       PullEnd, CleanupSelect, CleanDelete, dbVars
  <1>2. removed \subseteq gone
    BY DEF AccountInv
  <1>3. \A q \in Tracked : ~Unsettled /\ pc \notin {"collect", "place"} => Accounted(q)
    BY DEF AccountInv
  <1>4. ASSUME ~Delete, pc \notin {"collect", "place"}, pc' \notin {"collect", "place", "keep"},
               Unsettled => pc' = "idle" \/ Updating' \/ Pulling', removed' \in {removed, {}}
        PROVE  AccountInv'
    BY <1>1, <1>2, <1>4, PlainStep
  <1>5. CASE StartUpdate
    BY <1>4, <1>5 DEF StartUpdate, BeginSync, Begin, Goto, Updating, Delete, UserActs, localVars
  <1>6. CASE StartAdd \/ StartReadonly \/ StartPush \/ StartPull \/ StartCleanup
    <2>1. ~Unsettled /\ pc = "idle" /\ pc' \in {"add", "mode", "sync"} /\ removed' = removed
      BY <1>6 DEF StartAdd, StartReadonly, StartPush, StartPull, StartCleanup, BeginSync, Begin, Goto,
         Unsettled
    <2>2. ~Delete
      BY <2>1 DEF Delete, UserActs, localVars
    <2> QED
      BY <1>4, <2>1, <2>2
  <1>7. CASE Unstage
    <2>1. UNCHANGED localVars /\ pc = "idle"
      BY <1>7 DEF Unstage
    <2>2. CASE Delete
      <3>1. UNCHANGED <<joined, row, file, empty, gone, localVars>>
        BY <1>1, <1>7 DEF Unstage, diskVars
      <3> QED
        BY <3>1, <2>1 DEF AccountInv, Accounted, Exists, Tracked, Updating, Pulling, Unsettled, localVars
    <2> QED
      BY <1>4, <2>1, <2>2 DEF localVars
  <1>8. CASE AddFile
    <2>1. PICK q \in todo : AddMissing(q) \/ AddHash(q)
      BY <1>8 DEF AddFile
    <2>2. pc = "add" /\ pc' \in {"add", "copy"}
      BY <1>8, <2>1 DEF AddFile, AddMissing, AddHash, Goto
    <2>3. ~Unsettled /\ ~Delete
      <3>1. ~Delete
        BY <2>1, <2>2, <1>8 DEF Delete, UserActs, localVars, AddMissing, AddHash, TypeInv, LocalOK
      <3> QED
        BY <2>2, <3>1 DEF AccountInv, Updating, Pulling
    <2>4. removed' \subseteq gone
      BY <1>2, <1>3, <2>1, <2>2, <2>3 DEF AddMissing, AddHash, MissingTracked, Accounted
    <2> QED
      BY <1>1, <2>2, <2>3, <2>4, PlainStep
  <1>9. CASE AddEnd
    <2>1. pc = "add" /\ ~Unsettled
      BY <1>9 DEF AddEnd, AccountInv, Updating, Pulling
    <2>2. MissingTracked \subseteq gone
      BY <1>3, <2>1 DEF MissingTracked, Accounted
    <2>3. removed' \subseteq gone /\ pc' \in {"idle", "sync"}
      BY <1>2, <1>9, <2>2 DEF AddEnd, Done, Goto
    <2>4. ~Delete
      BY <2>1, <2>3 DEF Delete, UserActs, localVars
    <2> QED
      BY <1>1, <2>1, <2>3, <2>4, PlainStep
  <1>10. CASE PullFile
    <2>1. PICK q \in todo : PullFetch(q) \/ PullFails(q)
      BY <1>10 DEF PullFile
    <2>2. q \in Path /\ pc = "fetch" /\ removed' = removed
      BY <1>10, <2>1 DEF PullFile, TypeInv, LocalOK, PullFetch, PullFails, NextPath
    <2>3. CASE PullFails(q)
      <3>1. pc' = "fetch" /\ ~Delete
        BY <1>1, <2>3 DEF PullFails, NextPath, Goto, Delete, UserActs, localVars, TypeInv, LocalOK, diskVars,
           Write, InUse, Exists
      <3> QED
        BY <1>4, <2>2, <3>1 DEF Pulling
    <2>4. CASE PullFetch(q)
      <3>1. pc' \in {"put", "keep"} /\ path' = q
        BY <2>4 DEF PullFetch, Goto
      <3>2. ~Delete
        BY <2>2, <3>1 DEF Delete, UserActs, localVars
      <3>3. pc' = "keep" => file'[q] = q
        BY <2>2, <2>4 DEF PullFetch, Goto, PutFile, Write, Leave, TypeInv, DiskOK
      <3>4. q # None
        BY <2>2, WorkspaceAssumption
      <3> QED
        BY <1>1, <1>2, <2>2, <3>1, <3>2, <3>3, <3>4, PlainStep DEF Exists, Pulling
    <2> QED
      BY <2>1, <2>3, <2>4
  <1>11. CASE PullPut
    <2>1. path \in Path /\ hash \in Hash /\ Has(hash) /\ path' = path
      BY <1>11 DEF PullPut, TypeInv, AtWork
    <2>2. pc = "put" /\ pc' = "keep" /\ removed' = removed
      BY <1>11 DEF PullPut, Goto
    <2>3. file'[path] # None
      <3>1. CASE Link(path, hash)
        BY <2>1, <3>1, LinkEffect DEF TypeInv, Has
      <3>2. CASE PutFile(path, disk[object[hash]].content)
        <4>1. file'[path] = path /\ path # None
          BY <2>1, <3>2, WorkspaceAssumption DEF PutFile, Write, Leave, TypeInv, DiskOK
        <4> QED
          BY <4>1
      <3> QED
        BY <1>11, <3>1, <3>2 DEF PullPut
    <2>4. ~Delete
      BY <2>2 DEF Delete, UserActs, localVars
    <2> QED
      BY <1>1, <1>2, <2>1, <2>2, <2>3, <2>4, PlainStep DEF Exists, Pulling
  <1>12. CASE AddCopy \/ AddStage \/ ReadonlyEnd \/ Publish \/ PullOpen \/ PullEnd \/ CleanupSelect \/ CleanDelete
    <2>1. /\ pc \in {"copy", "stage", "mode", "publish", "open", "fetch", "select", "delete"}
          /\ pc = "fetch" => pc' = "idle"
          /\ pc' # pc /\ pc' \in {"stage", "add", "mode", "idle", "sync", "fetch"}
      BY <1>12 DEF AddCopy, AddStage, ReadonlyEnd, Publish, PullOpen, PullEnd, CleanupSelect, CleanDelete,
         Done, NextPath, Goto
    <2>2. (Unsettled => pc' = "idle") /\ ~Delete
      BY <2>1 DEF AccountInv, Updating, Pulling, Delete, UserActs, localVars
    <2>3. removed' \in {removed, {}}
      BY <1>12 DEF AddCopy, AddStage, ReadonlyEnd, Publish, PullOpen, PullEnd, CleanupSelect, CleanDelete,
         Done, NextPath
    <2> QED
      BY <1>4, <2>1, <2>2, <2>3
  <1>13. CASE ReadonlyFile
    <2>1. PICK q \in todo : todo' = todo \ {q}
      BY <1>13 DEF ReadonlyFile
    <2>2. pc = "mode" /\ removed' = removed /\ pc' \in {"mode", "copy"}
      BY <1>13 DEF ReadonlyFile, ReadonlyOn, ReadonlyOff, ReadonlyRefuses, ReadonlyAlready, Goto
    <2>3. ~Unsettled /\ ~Delete
      BY <2>1, <2>2 DEF AccountInv, Updating, Pulling, Delete, UserActs, localVars
    <2> QED
      BY <1>4, <2>2, <2>3
  <1> QED
    BY <1>5, <1>6, <1>7, <1>8, <1>9, <1>10, <1>11, <1>12, <1>13

\* What the user does, and steps of no command.
LEMMA UserAccounts ==
    ASSUME TypeInv, AccountInv, UNCHANGED <<joined, row, localVars>>, gone \subseteq gone',
           \A q \in Path : Exists(q) => Exists(q)' \/ q \in gone',
           \A q \in empty : q \in empty' \/ q \in gone'
    PROVE  AccountInv'
  <1>1. Tracked' = Tracked /\ Tracked \subseteq Path /\ \A q \in Path : Accounted(q) => Accounted(q)'
    BY DEF Tracked, Accounted
  <1>2. UNCHANGED <<pc, then, wanted, removed, path>>
    BY DEF localVars
  <1>3. pc = "keep" => path \in Path
    BY DEF TypeInv, AtWork
  <1>4. pc' = "keep" => Exists(path)' \/ path' \in gone'
    BY <1>2, <1>3 DEF AccountInv, Exists
  <1> QED
    BY <1>1, <1>2, <1>4 DEF AccountInv, Updating, Pulling, Unsettled

\* connect, disconnect and deinit
LEMMA SessionAccounts ==
    ASSUME TypeInv, AccountInv, world.careful, RemovedInv, Connect \/ Disconnect \/ Deinit
    PROVE  AccountInv'
  <1>1. pc = "idle" /\ removed = {} /\ UNCHANGED <<pc, removed>>
    BY DEF Connect, Disconnect, Deinit, RemovedInv, localVars
  <1>2. CASE Connect
    BY <1>1, <1>2 DEF Connect, AccountInv, Unsettled
  <1>3. CASE Disconnect
    <2>1. joined = "yes" /\ joined' = "no" /\ UNCHANGED <<row, file, empty, gone>>
      BY <1>3 DEF Disconnect, diskVars
    <2>2. Tracked' = Tracked /\ \A q : Accounted(q)' = Accounted(q)
      BY <2>1 DEF Tracked, Accounted, Exists
    <2>3. \A q \in Tracked : Accounted(q)
      BY <1>1, <2>1 DEF AccountInv, Unsettled
    <2> QED
      BY <1>1, <2>1, <2>2, <2>3 DEF AccountInv, Unsettled
  <1>4. CASE Deinit
    <2>1. row' = NoRow /\ joined' = "no"
      BY <1>4 DEF Deinit
    <2>2. Tracked' = {}
      BY <2>1 DEF Tracked, NoRow
    <2> QED
      BY <1>1, <2>1, <2>2 DEF AccountInv, Unsettled
  <1> QED
    BY <1>2, <1>3, <1>4

LEMMA SyncAccounts ==
    ASSUME TypeInv, AccountInv, world.careful, SyncApply \/ SyncCollect \/ SyncPlace
    PROVE  AccountInv'
  <1>1. UNCHANGED <<file, gone>> /\ then \in Returns /\ removed \subseteq gone
    BY DEF SyncApply, SyncCollect, SyncPlace, diskVars, TypeInv, LocalOK, AccountInv
  <1>2. removed' \subseteq gone'
    BY <1>1 DEF SyncApply, SyncFails, SyncCollect, SyncPlace, GoOn, Done, NextPath
  <1>3. Unsettled => Updating \/ then = "fetch"
    BY DEF AccountInv, SyncApply, SyncCollect, SyncPlace, Pulling
  <1>4. \A q : Exists(q)' = Exists(q)
    BY <1>1 DEF Exists
  <1>5. CASE SyncApply /\ SyncFails /\ row' = row
    <2>1. pc = "sync" /\ UNCHANGED <<joined, empty>>
      BY <1>5 DEF SyncApply
    <2>2. pc' \in {"idle", "fetch"}
      BY <1>5 DEF SyncFails, Done, NextPath, Goto
    <2>3. Tracked' = Tracked /\ \A q : Accounted(q)' = Accounted(q)
      BY <1>1, <1>4, <1>5, <2>1 DEF Tracked, Accounted
    <2> QED
      BY <1>2, <2>1, <2>2, <2>3 DEF AccountInv, Unsettled, Pulling
  <1>6. CASE SyncApply /\ Goto("collect") /\ then' = then
    <2>1. pc' = "collect" /\ pc = "sync" /\ joined' = joined
      BY <1>6 DEF SyncApply, Goto
    <2> QED
      BY <1>2, <1>3, <1>6, <2>1 DEF AccountInv, Unsettled, Updating, Pulling
  <1>7. CASE SyncCollect
    <2>1. /\ wanted' = {q \in Tracked : ~Exists(q)} /\ pc = "collect" /\ pc' = "place"
          /\ UNCHANGED <<row, joined, then>>
      BY <1>7 DEF SyncCollect, Goto, dbVars
    <2>2. Tracked' = Tracked
      BY <2>1 DEF Tracked
    <2>3. \A q \in Tracked' : Exists(q)' \/ q \in wanted'
      BY <1>4, <2>1, <2>2
    <2> QED
      BY <1>2, <1>3, <2>1, <2>3 DEF AccountInv, Accounted, Unsettled, Updating, Pulling
  <1>8. CASE SyncPlace
    <2>1. empty' = empty \cup wanted /\ joined' = "yes" /\ row' = row /\ pc = "place"
      BY <1>8 DEF SyncPlace
    <2>2. pc' \in Returns
      BY <1>1, <1>8 DEF SyncPlace, GoOn, Done, Goto, Returns
    <2>3. Tracked' = Tracked
      BY <2>1 DEF Tracked
    <2>4. \A q \in Tracked : Accounted(q) \/ q \in wanted
      BY <2>1 DEF AccountInv
    <2>5. \A q \in Tracked' : Accounted(q)'
      BY <1>1, <1>4, <2>1, <2>3, <2>4 DEF Accounted
    <2> QED
      BY <1>2, <2>1, <2>2, <2>5 DEF AccountInv, Unsettled, Returns
  <1> QED
    BY <1>5, <1>6, <1>7, <1>8 DEF SyncApply

\* A placeholder goes when the file is there, or has just been deleted.
LEMMA PullKeepAccounts ==
    ASSUME TypeInv, AccountInv, [Next]_vars, PullKeep PROVE AccountInv'
  <1>1. /\ pc = "keep" /\ path \in Path /\ UNCHANGED <<joined, row, gone, removed>>
        /\ pc' \in {"fetch", "sync"}
    BY DEF PullKeep, TypeInv, AtWork, NextPath, Goto, dbVars
  <1>2. Pulling'
    BY DEF PullKeep, NextPath, Goto, Pulling
  <1>3. \A q \in Path : Exists(q) => Exists(q)'
    <2>1. ~Delete
      BY <1>1 DEF Delete, UserActs, localVars
    <2> QED
      BY <2>1, NamesStay
  <1>4. empty' = empty \/ empty' = empty \ {path}
    BY DEF PullKeep
  <1>5. Tracked' = Tracked /\ Tracked \subseteq Path
    BY <1>1 DEF Tracked
  <1>6. ~Unsettled => \A q \in Tracked : Accounted(q)
    BY <1>1 DEF AccountInv
  <1>7. Exists(path) \/ path \in gone
    BY <1>1 DEF AccountInv
  <1>8. ASSUME ~Unsettled, NEW q \in Tracked PROVE Accounted(q)'
    <2>1. CASE q = path
      BY <1>1, <1>3, <1>7, <2>1 DEF Accounted
    <2>2. CASE q # path
      BY <1>1, <1>3, <1>4, <1>5, <1>6, <1>8, <2>2 DEF Accounted
    <2> QED
      BY <2>1, <2>2
  <1> QED
    BY <1>1, <1>2, <1>5, <1>8 DEF AccountInv, Unsettled

\* With a removed path its row goes too.
LEMMA CleanAccounts == ASSUME TypeInv, AccountInv, Clean PROVE AccountInv'
  <1>1. /\ pc = "clean" /\ ~Unsettled /\ pc' \in {"delete", "sync"}
        /\ UNCHANGED <<joined, file, empty>> /\ gone' = gone \ removed /\ removed' = {}
    BY DEF Clean, Goto, AccountInv, Updating, Pulling, diskVars
  <1>2. row' = [q \in Path |-> IF q \in removed THEN None ELSE row[q]]
    BY DEF Clean
  <1>3. \A q \in Tracked' : q \in Tracked /\ q \notin removed
    BY <1>2 DEF Tracked
  <1>4. \A q \in Tracked : Accounted(q)
    BY <1>1 DEF AccountInv
  <1>5. \A q \in Tracked' : Accounted(q)'
    BY <1>1, <1>3, <1>4 DEF Accounted, Exists
  <1> QED
    BY <1>1, <1>5 DEF AccountInv, Unsettled

\* The command returns, or is at another step or has a file less to do.
LEMMA BreakMoves ==
    ASSUME BreakFile \/ BreakPush \/ Kill PROVE pc' # pc \/ todo' # todo
  <1>1. CASE Done
    BY <1>1 DEF BreakFile, BreakPush, Kill, Done, Goto
  <1>2. CASE BreakFile /\ ~Done
    <2>1. PICK q : (pc \in {"add", "mode", "fetch"} /\ q \in todo /\ BrokenOff(q))
                   \/ (pc \in {"copy", "stage", "put", "keep"} /\ BrokenOff(q))
      BY <1>2 DEF BreakFile
    <2>2. pc' = Loop /\ (todo' = {} \/ todo' = todo \ {q})
      BY <1>2, <2>1 DEF BrokenOff, NextPath, Goto
    <2>3. Loop \in {"fetch", "add", "mode"}
      BY DEF Loop
    <2> QED
      BY <2>1, <2>2, <2>3
  <1> QED
    BY <1>1, <1>2 DEF BreakPush, Kill

\* A command that is broken off takes no file away; in the middle of a sync it leaves the
\* node unsettled.
LEMMA BreakAccounts ==
    ASSUME TypeInv, AccountInv, [Next]_vars, Break PROVE AccountInv'
  <1>1. removed' \subseteq gone' /\ gone' = gone
    BY DEF Break, BreakFile, BrokenOff, BreakSync, BreakPush, Kill, Done, NextPath, AccountInv
  <1>2. CASE BreakSync
    <2>1. joined' = "fresh" /\ pc' \in {"idle", "fetch"}
      BY <1>2 DEF BreakSync, Done, NextPath, Goto
    <2> QED
      BY <1>1, <2>1 DEF AccountInv, Unsettled, Pulling
  <1>3. CASE BreakFile \/ BreakPush \/ Kill
    <2>1. UNCHANGED <<joined, row, empty>> /\ pc \notin {"idle", "collect", "place"}
      BY <1>3 DEF BreakFile, BreakPush, Kill, dbVars
    <2>2. ~Delete
      BY <1>3, BreakMoves DEF Delete, UserActs, localVars
    <2>3. \A q \in Path : Exists(q) => Exists(q)'
      BY <2>2, NamesStay
    <2>4. Tracked' = Tracked /\ \A q \in Tracked : Accounted(q) => Accounted(q)'
      BY <1>1, <2>1, <2>3 DEF Accounted, Tracked
    <2>5. pc' = "idle" \/ (pc' = Loop /\ pc # "sync")
      BY <1>3 DEF BreakFile, BrokenOff, BreakPush, Kill, Done, NextPath, Goto
    <2>6. Unsettled => pc' = "idle" \/ Pulling'
      BY <2>1, <2>5 DEF AccountInv, Updating, Pulling, Loop
    <2>7. pc' \notin {"collect", "place", "keep"}
      BY <2>5 DEF Loop
    <2> QED
      BY <1>1, <2>1, <2>4, <2>6, <2>7 DEF AccountInv, Unsettled
  <1> QED
    BY <1>2, <1>3 DEF Break

LEMMA AccountStep ==
    ASSUME TypeInv, AccountInv, world.careful, RemovedInv, [Next]_vars PROVE AccountInv'
  <1>1. CASE Delete
    <2>1. PICK q \in Path :
             /\ gone' = gone \cup {q}
             /\ \/ /\ Exists(q) /\ Write([file EXCEPT ![q] = None], object, None, None)
                   /\ UNCHANGED empty
                \/ q \in empty /\ empty' = empty \ {q} /\ UNCHANGED diskVars
      BY <1>1 DEF Delete
    <2>2. \A p \in Path : p # q => file'[p] = file[p]
      BY <2>1 DEF Write, Leave, diskVars, TypeInv, DiskOK
    <2>3. UNCHANGED <<joined, row, localVars>>
      BY <1>1 DEF Delete, UserActs, dbVars
    <2> QED
      BY <2>1, <2>2, <2>3, UserAccounts DEF Exists
  <1>2. CASE ~Delete /\ (Edit \/ Save \/ UNCHANGED vars)
    <2>1. UNCHANGED <<joined, row, localVars, empty, gone>>
      BY <1>2 DEF Edit, Save, UserActs, dbVars, localVars, vars
    <2>2. \A q \in Path : Exists(q) => Exists(q)'
      BY <1>2, NamesStay
    <2> QED
      BY <2>1, <2>2, UserAccounts
  <1> QED
    BY <1>1, <1>2, SessionAccounts, SyncAccounts, PullKeepAccounts, CleanAccounts, BreakAccounts, PlainSteps
       DEF Next, Start, Step

\* add never takes a file for removed that the user has not deleted, wherever earlier commands were
\* broken off, as long as update follows a connect, and a command that stopped in a sync, before
\* anything else (commands.cpp:282, 333, 392, sync.cpp:41-83).
THEOREM RemovalAlways == Spec => []RemovalIsDeliberate
  <1>1. Init => RemovalInv
    BY DEF Init, RemovalInv, RemovedInv, AccountInv, Tracked, NoRow, Unsettled
  <1>2. TypeInv /\ RemovalInv /\ [Next]_vars => RemovalInv'
    BY RemovedStep, AccountStep, WorldStays DEF RemovalInv
  <1>3. RemovalInv => RemovalIsDeliberate
    BY DEF RemovalInv, AccountInv, RemovalIsDeliberate
  <1> QED
    BY <1>1, <1>2, <1>3, TypeInvariant, PTL DEF Spec

-----------------------------------------------------------------------------
(* What pull leaves                                                        *)

\* Version h of the file is among those the node knows of.
Known(q, h) == row[q] # None /\ h \in {row[q].hash} \cup old[q]
VersionInv ==
    /\ \A q \in Path : plan[q] # None => Pulling /\ Known(q, plan[q].hash)
    /\ pc \in {"put", "keep"} => Known(path, hash)

\* What comes in only adds versions.
LEMMA ApplyKnown ==
    ASSUME TypeInv, NEW news \in [Path -> Row \cup {None}], Apply(news),
           NEW q \in Path, NEW h, Known(q, h)
    PROVE  Known(q, h)'
  <1> DEFINE own == IF sent[q] # None THEN sent[q] ELSE row[q]
             new == IF news[q] # None THEN news[q] ELSE own
             later == (({row[q]} \ {own}) \cup ({own} \ {new})) \ {None}
  <1>1. row'[q] = new /\ old'[q] = old[q] \cup {r.hash : r \in later}
    BY DEF Apply
  <1>2. row[q] # None /\ own # None /\ new # None
    BY DEF Known
  <1>3. row[q] = new \/ row[q] \in later
    <2>1. CASE row[q] # own
      BY <1>2, <2>1
    <2>2. CASE row[q] = own
      BY <1>2, <2>2
    <2> QED
      BY <2>1, <2>2
  <1> HIDE DEF own, new, later
  <1>4. h \in {new.hash} \cup old[q] \cup {r.hash : r \in later}
    BY <1>3 DEF Known
  <1> QED
    BY <1>1, <1>2, <1>4 DEF Known

\* A step that keeps rows and versions, and starts no work on a file.
LEMMA SameVersions ==
    ASSUME TypeInv, VersionInv, \A q \in Path, h \in Hash : Known(q, h) => Known(q, h)',
           plan' = NoRow \/ (plan' = plan /\ (Pulling => Pulling')),
           pc' \in {"put", "keep"} => UNCHANGED <<pc, path, hash>> \/ (pc = "put" /\ UNCHANGED <<path, hash>>)
    PROVE  VersionInv'
  <1>1. ASSUME NEW q \in Path, plan'[q] # None PROVE Pulling' /\ Known(q, plan[q].hash)'
    <2>1. plan' = plan /\ plan[q] # None
      BY <1>1 DEF NoRow
    <2>2. PICK g \in Hash : g = plan[q].hash /\ Known(q, g)
      BY <2>1 DEF VersionInv, TypeInv, LocalOK, Row
    <2>3. Pulling'
      BY <2>1, <1>1 DEF VersionInv, NoRow
    <2>4. Known(q, g)'
      BY <2>2
    <2> QED
      BY <2>1, <2>2, <2>3, <2>4 DEF Known
  <1>2. ASSUME pc' \in {"put", "keep"} PROVE Known(path, hash)'
    <2>1. UNCHANGED <<path, hash>> /\ path \in Path /\ hash \in Hash /\ Known(path, hash)
      BY <1>2 DEF VersionInv, TypeInv, AtWork
    <2> QED
      BY <2>1 DEF Known
  <1> QED
    BY <1>1, <1>2 DEF VersionInv

LEMMA SameKnown ==
    ASSUME row' = row, old' = old PROVE \A q \in Path, h \in Hash : Known(q, h) => Known(q, h)'
  BY DEF Known

\* Outside a pull there is no plan.
LEMMA NotPulling ==
    ASSUME TypeInv, VersionInv, ~Pulling, plan' = plan \/ plan' = NoRow, pc' \notin {"put", "keep"}
    PROVE  VersionInv'
  <1>1. \A q \in Path : plan'[q] = None
    BY DEF VersionInv, NoRow
  <1> QED
    BY <1>1 DEF VersionInv

LEMMA VersionStep == ASSUME TypeInv, VersionInv, [Next]_vars PROVE VersionInv'
  <1>1. CASE Start
    <2>1. pc = "idle" /\ plan' = plan /\ pc' \notin {"put", "keep"}
      BY <1>1 DEF Start, Connect, Disconnect, Deinit, StartUpdate, StartAdd, Unstage, StartReadonly, StartPush,
         StartPull, StartCleanup, BeginSync, Begin, Goto, localVars
    <2> QED
      BY <2>1, NotPulling DEF Pulling
  <1>2. CASE Edit \/ Save \/ Delete \/ UNCHANGED vars
    <2>1. UNCHANGED <<row, old, localVars>>
      BY <1>2 DEF Edit, Save, Delete, UserActs, vars, dbVars
    <2> QED
      BY <2>1, SameVersions, SameKnown DEF localVars, Pulling
  <1>3. CASE SyncApply
    <2>1. pc = "sync" /\ pc' \in {"idle", "fetch", "collect"}
      BY <1>3 DEF SyncApply, SyncFails, Done, NextPath, Goto
    <2>2. plan' = NoRow \/ (plan' = plan /\ (Pulling => Pulling'))
      BY <1>3 DEF SyncApply, SyncFails, Done, NextPath, Goto, Pulling
    <2>3. \A q \in Path, h \in Hash : Known(q, h) => Known(q, h)'
      <3>1. CASE UNCHANGED <<row, old>>
        BY <3>1, SameKnown
      <3>2. CASE \E news \in News : Apply(news)
        <4>1. PICK news \in News : Apply(news)
          BY <3>2
        <4>2. news \in [Path -> Row \cup {None}]
          BY DEF News, NoRow
        <4> QED
          BY <4>1, <4>2, ApplyKnown
      <3> QED
        BY <1>3, <3>1, <3>2 DEF SyncApply
    <2> QED
      BY <2>1, <2>2, <2>3, SameVersions
  <1>4. CASE SyncCollect \/ SyncPlace
    <2>1. UNCHANGED <<row, old>> /\ pc \in {"collect", "place"} /\ then \in Returns
      BY <1>4 DEF SyncCollect, SyncPlace, dbVars, TypeInv, LocalOK
    <2>2. plan' = NoRow \/ (plan' = plan /\ (Pulling => Pulling'))
      BY <1>4 DEF SyncCollect, SyncPlace, GoOn, Done, Goto, Pulling
    <2>3. pc' \notin {"put", "keep"}
      BY <1>4, <2>1 DEF SyncCollect, SyncPlace, GoOn, Done, Goto, Returns
    <2> QED
      BY <2>1, <2>2, <2>3, SameVersions, SameKnown
  <1>5. CASE \/ AddFile \/ AddCopy \/ AddStage \/ AddEnd \/ ReadonlyFile \/ ReadonlyEnd \/ Publish
             \/ CleanupSelect \/ Clean \/ CleanDelete
    <2>1. pc \in {"add", "copy", "stage", "mode", "publish", "select", "clean", "delete"}
      BY <1>5 DEF AddFile, AddCopy, AddStage, AddEnd, ReadonlyFile, ReadonlyEnd, Publish, CleanupSelect,
         Clean, CleanDelete
    <2>2. plan' = plan \/ plan' = NoRow
      BY <1>5 DEF AddFile, AddMissing, AddHash, AddCopy, AddStage, AddEnd, ReadonlyFile, ReadonlyEnd, Publish,
         CleanupSelect, Clean, CleanDelete, NextPath, Done
    <2>3. pc' \notin {"put", "keep"}
      BY <1>5 DEF AddFile, AddMissing, AddHash, AddCopy, AddStage, AddEnd, ReadonlyFile, ReadonlyOn, ReadonlyOff,
         ReadonlyRefuses, ReadonlyAlready, ReadonlyEnd, Publish, CleanupSelect, Clean, CleanDelete, NextPath,
         Done, Goto
    <2> QED
      BY <2>1, <2>2, <2>3, NotPulling DEF Pulling
  <1>6. CASE PullOpen
    <2>1. pc' = "fetch" /\ UNCHANGED <<row, old>> /\ (plan' = row \/ plan' = NoRow)
      BY <1>6 DEF PullOpen, Goto, dbVars
    <2>2. \A q \in Path : plan'[q] # None => Known(q, plan[q].hash)'
      BY <2>1 DEF Known, NoRow
    <2> QED
      BY <2>1, <2>2 DEF VersionInv, Pulling
  <1>7. CASE PullFile
    <2>1. PICK q \in todo : PullFetch(q) \/ PullFails(q)
      BY <1>7 DEF PullFile
    <2>2. q \in Path /\ pc = "fetch" /\ UNCHANGED <<row, old, plan>>
      BY <1>7, <2>1 DEF PullFile, PullFetch, PullFails, NextPath, dbVars, TypeInv, LocalOK
    <2>3. pc' \in {"fetch", "put", "keep"}
      BY <2>1 DEF PullFetch, PullFails, NextPath, Goto
    <2>4. \A p \in Path : plan'[p] # None => Pulling' /\ Known(p, plan[p].hash)'
      BY <2>2, <2>3 DEF VersionInv, Known, Pulling
    <2>5. PullFetch(q) => Known(path, hash)'
      <3> SUFFICES ASSUME PullFetch(q) PROVE Known(path, hash)'
        OBVIOUS
      <3>1. path' = q /\ hash' = Target(q).hash /\ Target(q) # None
        BY DEF PullFetch
      <3>2. Known(q, Target(q).hash)
        BY <2>2, <3>1 DEF Target, VersionInv, Known
      <3> QED
        BY <2>2, <3>1, <3>2 DEF Known
    <2>6. PullFails(q) => pc' = "fetch"
      BY DEF PullFails, NextPath, Goto
    <2> QED
      BY <2>1, <2>4, <2>5, <2>6 DEF VersionInv
  <1>8. CASE PullPut \/ PullKeep \/ PullEnd
    <2>1. UNCHANGED <<row, old>>
      BY <1>8 DEF PullPut, PullKeep, PullEnd, dbVars
    <2>2. plan' = NoRow \/ (plan' = plan /\ (Pulling => Pulling'))
      BY <1>8 DEF PullPut, PullKeep, PullEnd, NextPath, Done, Goto, Pulling
    <2>3. pc' \in {"put", "keep"} => pc = "put" /\ UNCHANGED <<path, hash>>
      BY <1>8 DEF PullPut, PullKeep, PullEnd, NextPath, Done, Goto
    <2> QED
      BY <2>1, <2>2, <2>3, SameVersions, SameKnown
  <1>9. CASE Break
    <2>1. UNCHANGED <<row, old>>
      BY <1>9 DEF Break, BreakFile, BreakSync, BreakPush, Kill, dbVars
    <2>2. plan' = NoRow \/ (plan' = plan /\ (Pulling => Pulling'))
      BY <1>9 DEF Break, BreakFile, BrokenOff, BreakSync, BreakPush, Kill, NextPath, Done, Goto, Loop, Pulling
    <2>3. pc' \notin {"put", "keep"}
      BY <1>9 DEF Break, BreakFile, BrokenOff, BreakSync, BreakPush, Kill, NextPath, Done, Goto, Loop
    <2> QED
      BY <2>1, <2>2, <2>3, SameVersions, SameKnown
  <1> QED
    BY <1>1, <1>2, <1>3, <1>4, <1>5, <1>6, <1>7, <1>8, <1>9 DEF Next, Step

\* pull leaves a version of the file that the node knows of, whatever syncs bring in while a
\* directory is pulled by the rows read at its start, also when it is repeated after it was broken
\* off, unless the object was left torn (commands.cpp:876, 896, 950).
THEOREM PullAlways == Spec => PullGivesAVersion
  <1> DEFINE A == \A q \in Path :
                    (Undisturbed /\ pc = "keep" /\ path = q /\ hash \notin torn)
                      => Exists(q) /\ Content(q) \in {row[q].hash} \cup old[q]
  <1>1. Init => VersionInv
    BY DEF Init, VersionInv, NoRow
  <1>2. TypeInv /\ VersionInv /\ [Next]_vars => VersionInv'
    BY VersionStep
  <1>3. ObjInv /\ VersionInv => [A]_vars
    BY DEF ObjInv, AtHand, VersionInv, Known
  <1> QED
    BY <1>1, <1>2, <1>3, ObjectInvariant, PTL DEF Spec, PullGivesAVersion

-----------------------------------------------------------------------------
(* What add --all leaves to be reported                                    *)

\* The file is what is staged for it, but for a torn object, or else what its row says; a file that is neither
\* staged nor tracked is a link.
Settled(q) ==
    \/ q \in Staged /\ (Content(q) = staged[q].hash \/ staged[q].hash \in torn)
    \/ q \in Tracked \ Staged /\ Content(q) = row[q].hash
    \/ q \notin Tracked \cup Staged /\ \E h \in Hash : file[q] = object[h]
AddingAll ==
    Undisturbed /\ pc \in {"add", "copy", "stage"} /\ cmd.name = "add" /\ cmd.whole /\ ~failed

\* Each file that add --all is through with is settled.
SettledInv ==
    AddingAll => \A q \in Path \ todo :
                   Exists(q) => Settled(q) \/ (pc \in {"copy", "stage"} /\ q = path)

\* A file that no longer changes, nor what is known of it, stays settled.
LEMMA StaysSettled ==
    ASSUME NEW q \in Path, Settled(q), Exists(q), row' = row, staged'[q] = staged[q],
           file'[q] = file[q], Content(q)' = Content(q), torn' = torn,
           \A h \in Hash : Has(h) => object'[h] = object[h]
    PROVE  Settled(q)'
  <1>1. (q \in Staged' <=> q \in Staged) /\ Tracked' = Tracked
    BY DEF Staged, Tracked
  <1>2. \A h \in Hash : file[q] = object[h] => file'[q] = object'[h]
    BY DEF Exists, Has
  <1> QED
    BY <1>1, <1>2 DEF Settled

LEMMA AddFileSettles ==
    ASSUME TypeInv, SettledInv, AddFile, world' = world PROVE SettledInv'
  <1>1. PICK q \in todo : AddMissing(q) \/ AddHash(q)
    BY DEF AddFile
  <1>2. /\ pc = "add" /\ UNCHANGED <<row, file, object, disk, torn, cmd>> /\ todo' = todo \ {q}
        /\ q \in Path /\ (~failed' => ~failed)
    BY <1>1 DEF AddFile, AddMissing, AddHash, diskVars, TypeInv, LocalOK
  <1>3. SUFFICES ASSUME AddingAll', NEW p \in Path \ todo', Exists(p)'
                 PROVE  Settled(p)' \/ (pc' \in {"copy", "stage"} /\ p = path')
    BY DEF SettledInv
  <1>4. AddHash(q) /\ AddingAll
    BY <1>1, <1>2, <1>3 DEF AddingAll, Undisturbed, AddMissing
  <1>5. Exists(p) /\ Content(p)' = Content(p)
    BY <1>2, <1>3 DEF Exists, Content
  <1>6. CASE p # q
    <2>1. Settled(p)
      BY <1>2, <1>3, <1>4, <1>5, <1>6 DEF SettledInv
    <2>2. staged'[p] = staged[p]
      BY <1>3, <1>4, <1>6 DEF AddHash, TypeInv, DbOK
    <2> QED
      BY <1>2, <1>3, <1>5, <2>1, <2>2, StaysSettled
  <1>7. CASE p = q
    <2>1. CASE q \in Tracked /\ Content(q) = row[q].hash
      <3>1. staged'[q] = None
        BY <1>2, <1>4, <2>1 DEF AddHash, TypeInv, DbOK
      <3>2. q \in Tracked' /\ q \notin Staged'
        BY <1>2, <2>1, <3>1 DEF Tracked, Staged
      <3> QED
        BY <1>2, <1>5, <1>7, <2>1, <3>2 DEF Settled
    <2>2. CASE ~(q \in Tracked /\ Content(q) = row[q].hash)
      BY <1>4, <1>7, <2>2 DEF AddHash, Goto
    <2> QED
      BY <2>1, <2>2
  <1> QED
    BY <1>6, <1>7

LEMMA AddCopySettles ==
    ASSUME TypeInv, ObjInv, SettledInv, [Next]_vars, AddCopy PROVE SettledInv'
  <1>1. SUFFICES ASSUME AddingAll', NEW p \in Path \ todo', Exists(p)'
                 PROVE  Settled(p)' \/ (pc' \in {"copy", "stage"} /\ p = path')
    BY DEF SettledInv
  <1>2. Undisturbed /\ cmd' = cmd
    BY <1>1, WorldStays DEF AddingAll, Undisturbed, AddCopy, NextPath
  <1>3. Objects /\ AtHand
    BY <1>2 DEF ObjInv
  <1>4. pc = "copy" /\ UNCHANGED <<row, staged>> /\ Exists(path)
    BY <1>3 DEF AddCopy, AtHand, dbVars
  <1>5. UNCHANGED <<cmd, todo, path, failed>> /\ pc' = "stage"
    BY <1>4 DEF AddCopy, Goto
  <1>6. Keeps
    BY <1>3, AddCopyObjects
  <1>7. file' = file /\ torn' = torn /\ \A h \in Hash : Has(h) => object'[h] = object[h]
    <2>1. CASE UNCHANGED diskVars
      BY <2>1 DEF diskVars
    <2>2. CASE ~Has(hash) /\ CreateObject(hash, path)
      <3>1. path \in Path /\ hash \in Hash /\ Content(path) = hash
        BY <1>3, <1>4 DEF AtHand, TypeInv, AtWork
      <3>2. torn' = torn
        BY <1>3, <1>4, <2>2, <3>1, CreateKeeps
      <3> QED
        BY <2>2, <3>2 DEF CreateObject, Write, Leave, TypeInv, DiskOK, Has
    <2> QED
      BY <1>4, <2>1, <2>2 DEF AddCopy
  <1>8. Exists(p) /\ Content(p)' = Content(p)
    BY <1>1, <1>6, <1>7 DEF Exists, Keeps
  <1>9. Settled(p) \/ p = path
    BY <1>1, <1>2, <1>4, <1>5, <1>8 DEF SettledInv, AddingAll
  <1> QED
    BY <1>1, <1>4, <1>5, <1>7, <1>8, <1>9, StaysSettled

LEMMA AddStageSettles ==
    ASSUME TypeInv, CmdInv, ObjInv, SettledInv, [Next]_vars, AddStage PROVE SettledInv'
  <1>1. SUFFICES ASSUME AddingAll', NEW p \in Path \ todo', Exists(p)' PROVE Settled(p)'
    BY DEF SettledInv
  <1>2. Undisturbed /\ UNCHANGED <<row, todo, cmd>> /\ pc = "stage" /\ failed' = failed
    BY <1>1, WorldStays DEF AddingAll, Undisturbed, AddStage, NextPath, TypeInv, LocalOK
  <1>3. /\ path \in Path /\ hash \in Hash /\ Has(hash) /\ Objects
        /\ Exists(path) /\ Content(path) = hash
    BY <1>2 DEF ObjInv, AtHand, TypeInv, AtWork
  <1>4. PICK f \in Path : f = path
    BY <1>3
  <1>5. staged' = [staged EXCEPT ![path] = [hash |-> hash, readOnly |-> ro]]
    BY DEF AddStage
  <1>6. staged'[f] = [hash |-> hash, readOnly |-> ro] /\ \A q \in Path \ {f} : staged'[q] = staged[q]
    BY <1>4, <1>5 DEF TypeInv, DbOK
  <1>7. /\ object' = object /\ (hash \notin torn => Content(f)' = hash) /\ torn' = torn
        /\ \A q \in Path \ {f} : Exists(q) => file'[q] = file[q] /\ Content(q)' = Content(q)
        /\ \A q \in Path \ {f} : (~Exists(q) /\ Exists(q)')
             => q \notin Tracked \cup Staged /\ file'[q] = object[hash]
    <2>1. CASE Link(path, hash)
      <3>1. /\ object' = object /\ torn' = torn
            /\ \A q \in Path \ {f} :
                 \/ file'[q] = file[q]
                 \/ ~Exists(q) /\ q \notin Tracked \cup Staged /\ file'[q] = object[hash]
        BY <1>3, <1>4, <2>1, LinkEffect DEF TypeInv
      <3>2. Link(f, hash)
        BY <1>4, <2>1
      <3>3. /\ hash \notin torn => Content(f)' = hash
            /\ \A q \in Path \ {f} : Exists(q) => Content(q)' = Content(q)
        <4>1. PICK h \in Hash : h = hash
          BY <1>3
        <4>2. Has(h) /\ Link(f, h)
          BY <1>3, <3>2, <4>1
        <4>3. /\ h \notin torn => Content(f)' = h
              /\ \A q \in Path \ {f} : Exists(q) => Content(q)' = Content(q)
          BY <1>3, <4>2, LinkKeeps
        <4> QED
          BY <4>1, <4>3
      <3> QED
        BY <3>1, <3>3 DEF Exists
    <2>2. CASE UNCHANGED diskVars
      BY <1>3, <1>4, <2>2 DEF diskVars, Exists, Content
    <2> QED
      BY <2>1, <2>2 DEF AddStage
  <1>8. CASE p = f
    <2>1. p \in Staged'
      <3>1. staged'[p] \in Row
        BY <1>3, <1>6, <1>8 DEF Row, TypeInv, LocalOK
      <3> QED
        BY <3>1, WorkspaceAssumption DEF Staged
    <2> QED
      BY <1>6, <1>7, <1>8, <2>1 DEF Settled
  <1>9. CASE p # f /\ Exists(p)
    <2>1. Settled(p)
      BY <1>1, <1>2, <1>4, <1>9 DEF SettledInv, AddingAll
    <2> QED
      BY <1>1, <1>2, <1>4, <1>6, <1>7, <1>9, <2>1, StaysSettled
  <1>10. CASE p # f /\ ~Exists(p)
    <2>1. p \notin Tracked \cup Staged /\ file'[p] = object'[hash]
      BY <1>1, <1>7, <1>10
    <2>2. p \notin Tracked' \cup Staged'
      BY <1>1, <1>2, <1>6, <1>10, <2>1 DEF Tracked, Staged
    <2> QED
      BY <1>3, <2>1, <2>2 DEF Settled
  <1> QED
    BY <1>8, <1>9, <1>10

LEMMA SettledStep ==
    ASSUME TypeInv, CmdInv, ObjInv, SettledInv, [Next]_vars PROVE SettledInv'
  <1>0. world' = world
    BY WorldStays
  <1>1. CASE StartAdd
    <2>1. UNCHANGED diskVars /\ (cmd'.whole => todo' = {q \in Path : Exists(q)})
      BY <1>1 DEF StartAdd, Begin
    <2> QED
      BY <2>1 DEF SettledInv, AddingAll, Exists, diskVars
  <1>2. CASE pc = "idle" /\ UNCHANGED localVars
    BY <1>2 DEF localVars, SettledInv, AddingAll
  <1>3. CASE Connect \/ Disconnect \/ Deinit \/ Unstage
    BY <1>2, <1>3 DEF Connect, Disconnect, Deinit, Unstage
  <1>4. CASE StartUpdate \/ StartReadonly \/ StartPush \/ StartPull \/ StartCleanup
    BY <1>4 DEF StartUpdate, StartReadonly, StartPush, StartPull, StartCleanup, BeginSync, Goto, SettledInv,
       AddingAll
  <1>5. CASE Edit \/ Save \/ Delete
    <2>1. UNCHANGED localVars /\ (pc = "idle" \/ ~Undisturbed)
      BY <1>5 DEF Edit, Save, Delete, UserActs, Undisturbed
    <2> QED
      BY <1>0, <1>2, <2>1 DEF SettledInv, AddingAll, Undisturbed
  <1>6. CASE UNCHANGED vars
    BY <1>6 DEF vars, diskVars, dbVars, localVars, bounds, SettledInv, AddingAll, Undisturbed, Exists, Settled,
       Content, Staged, Tracked
  <1>7. CASE ReadonlyFile
    <2>1. cmd' = cmd /\ cmd.name = "readonly"
      BY <1>7 DEF ReadonlyFile, CmdInv
    <2> QED
      BY <2>1 DEF SettledInv, AddingAll
  <1>8. CASE Step /\ ~(AddFile \/ AddCopy \/ AddStage \/ ReadonlyFile)
    <2>1. pc' \notin Staging
      BY <1>8, OtherSteps DEF Step
    <2> QED
      BY <2>1 DEF SettledInv, AddingAll, Staging
  <1>9. CASE Break
    <2>1. pc' \in {"idle", "fetch"} \/ failed' = TRUE
      BY <1>9 DEF Break, BreakFile, BrokenOff, BreakSync, BreakPush, Kill, NextPath, Done, Goto
    <2> QED
      BY <2>1 DEF SettledInv, AddingAll
  <1> QED
    BY <1>0, <1>1, <1>3, <1>4, <1>5, <1>6, <1>7, <1>8, <1>9, AddFileSettles, AddCopySettles, AddStageSettles
       DEF Next, Start

\* After a sync, every tracked path has its file or its placeholder, if the user lets
\* commands end.
PlacedInv ==
    ~world.edits =>
      /\ pc = "place" => \A q \in Tracked : Exists(q) \/ q \in wanted
      /\ pc \in {"clean", "delete"} => \A q \in Tracked : Exists(q) \/ q \in empty

\* Only a sync comes to these labels, and cleanup.
LEMMA ElsewhereNotPlaced ==
    ASSUME TypeInv, [Next]_vars, ~world.edits, ~SyncCollect, ~SyncPlace, ~Clean, ~UNCHANGED vars
    PROVE  pc' \notin {"place", "clean", "delete"}
  <1> USE DEF Goto
  <1>1. CASE Start
    BY <1>1 DEF Start, Connect, Disconnect, Deinit, StartUpdate, StartAdd, Unstage, StartReadonly, StartPush,
       StartPull, StartCleanup, BeginSync, localVars
  <1>2. CASE Edit \/ Save \/ Delete
    BY <1>2 DEF Edit, Save, Delete, UserActs, localVars
  <1>3. CASE SyncApply \/ AddFile \/ AddCopy \/ AddStage \/ AddEnd \/ ReadonlyFile \/ ReadonlyEnd
    BY <1>3 DEF SyncApply, SyncFails, AddFile, AddMissing, AddHash, AddCopy, AddStage, AddEnd, ReadonlyFile,
       ReadonlyOn, ReadonlyOff, ReadonlyRefuses, ReadonlyAlready, ReadonlyEnd, NextPath, Done
  <1>4. CASE Publish \/ PullOpen \/ PullFile \/ PullPut \/ PullKeep \/ PullEnd \/ CleanupSelect \/ CleanDelete
    BY <1>4 DEF Publish, PullOpen, PullFile, PullFetch, PullFails, PullPut, PullKeep, PullEnd, CleanupSelect,
       CleanDelete, NextPath, Done
  <1>5. CASE Break
    BY <1>5 DEF Break, BreakFile, BrokenOff, BreakSync, BreakPush, Kill, NextPath, Done, Loop
  <1> QED
    BY <1>1, <1>2, <1>3, <1>4, <1>5 DEF Next, Step

LEMMA PlacedStep == ASSUME TypeInv, PlacedInv, [Next]_vars PROVE PlacedInv'
  <1>1. world' = world
    BY WorldStays
  <1>2. SUFFICES ASSUME ~world.edits
                 PROVE  /\ pc' = "place" => \A q \in Tracked' : Exists(q)' \/ q \in wanted'
                        /\ pc' \in {"clean", "delete"} => \A q \in Tracked' : Exists(q)' \/ q \in empty'
    BY <1>1 DEF PlacedInv
  <1>3. CASE SyncCollect
    BY <1>3 DEF SyncCollect, Goto, dbVars, diskVars, Tracked, Exists
  <1>4. CASE SyncPlace
    <2>1. UNCHANGED <<row, file>> /\ empty' = empty \cup wanted /\ pc' # "place"
      BY <1>4 DEF SyncPlace, GoOn, Done, Goto, diskVars, TypeInv, LocalOK, Returns
    <2>2. \A q \in Tracked : Exists(q) \/ q \in wanted
      BY <1>2, <1>4 DEF PlacedInv, SyncPlace
    <2> QED
      BY <2>1, <2>2 DEF Tracked, Exists
  <1>5. CASE Clean
    <2>1. /\ UNCHANGED <<file, empty>> /\ pc' # "place"
          /\ \A q \in Tracked : Exists(q) \/ q \in empty
      BY <1>2, <1>5 DEF PlacedInv, Clean, Goto, diskVars
    <2>2. Tracked' \subseteq Tracked
      BY <1>5 DEF Clean, Tracked
    <2> QED
      BY <2>1, <2>2 DEF Exists
  <1>6. CASE UNCHANGED vars
    BY <1>2, <1>6 DEF PlacedInv, vars, dbVars, diskVars, localVars, Tracked, Exists
  <1> QED
    BY <1>2, <1>3, <1>4, <1>5, <1>6, ElsewhereNotPlaced

\* After an add --all without errors, status reports no modified and no untracked file but links,
\* and none as modified after staging but those a torn object has replaced; after its cleanup, it
\* reports none as deleted (commands.cpp:297-331, 392-427, status.cpp:133-165).
THEOREM AddAllAlwaysSettles == Spec => []AddAllSettlesStatus
  <1>1. Init => SettledInv /\ PlacedInv
    BY DEF Init, SettledInv, AddingAll, PlacedInv
  <1>2. TypeInv /\ CmdInv /\ ObjInv /\ SettledInv /\ PlacedInv /\ [Next]_vars => SettledInv' /\ PlacedInv'
    BY SettledStep, PlacedStep
  <1>3. CmdInv /\ SettledInv /\ PlacedInv => AddAllSettlesStatus
    <2> SUFFICES ASSUME CmdInv, SettledInv, PlacedInv, Undisturbed, cmd.whole
                 PROVE  /\ (pc = "add" /\ todo = {} /\ ~failed) =>
                             /\ Modified \cup (Untracked \ Linked) = {}
                             /\ \A q \in ModifiedAfterStaging : staged[q].hash \in torn
                        /\ pc = "delete" => Deleted = {}
      BY DEF AddAllSettlesStatus
    <2>1. Tracked \subseteq Path /\ Staged \subseteq Path
      BY DEF Tracked, Staged
    <2>2. ASSUME pc = "add", todo = {}, ~failed
          PROVE  /\ Modified \cup (Untracked \ Linked) = {}
                 /\ \A q \in ModifiedAfterStaging : staged[q].hash \in torn
      <3>1. \A q \in Path : Exists(q) => Settled(q)
        BY <2>2 DEF SettledInv, AddingAll, CmdInv
      <3> QED
        BY <2>1, <3>1 DEF Modified, ModifiedAfterStaging, Untracked, Linked, Settled
    <2>3. ASSUME pc = "delete" PROVE Deleted = {}
      BY <2>1, <2>3 DEF PlacedInv, Undisturbed, Deleted
    <2> QED
      BY <2>2, <2>3
  <1> QED
    BY <1>1, <1>2, <1>3, ObjectInvariant, PTL DEF Spec

===============================================================================
