---------------------------- MODULE ObjectTransfer ----------------------------
(***************************************************************************)
(* How one object travels: `pear pull` of one file on the node Me, its     *)
(* download threads, and the storage services of the nodes that hold the   *)
(* object, with the lock per object that keeps `pear cleanup` from         *)
(* deleting it while it is served.                                         *)
(*                                                                         *)
(* A content is a sequence of units.  A download splits it in chunks of    *)
(* ChunkSize units; a service reads and sends one unit at a time, so that  *)
(* a file that changes meanwhile is seen changing.                         *)
(***************************************************************************)
EXTENDS Naturals, Sequences, SequencesExt

CONSTANTS Node, Me,
          Owners,      \* the addresses collect_owner_addresses finds, in order
          Unit,        \* what contents consist of
          Right,       \* the content whose hash names the object
          Edited,      \* what a user may make of the file
          NoFile,      \* the content of a path without a file
          ChunkSize,   \* kChunkSize
          MaxThreads,  \* kMaxDownloadThreads
          Hardware,    \* hardware_concurrency(), 0 when unknown
          Worlds       \* what a behaviour may assume of the nodes

ASSUME TransferAssumption ==
    /\ Me \in Node
    /\ Owners \in Seq(Node) /\ Owners # <<>>
    /\ ChunkSize \in Nat \ {0} /\ MaxThreads \in Nat \ {0} /\ Hardware \in Nat
    /\ Worlds \subseteq [reliable : SUBSET (Node \ {Me}), inPlace : SUBSET (Node \ {Me}),
                         keeps : BOOLEAN]
    /\ Right \in Seq(Unit) /\ Edited \in Seq(Unit) /\ Right # Edited
    /\ NoFile \notin Seq(Unit)

VARIABLES
    world,      \* nodes that serve, answer and keep their object; nodes on which it
                \* may be added, and so filled in place; whether pulls keep objects
    obj,        \* the object file of each node, complete or not
    up,         \* the nodes whose daemon runs
    readers,    \* the threads whose requests hold the object lock of a node
    file,       \* the user's file on Me
    pull,       \* what pull_file does next
    readOnly,   \* whether the version it pulls is read-only ...
    share,      \* ... and is to be kept as an object (no --no-share)
    asked,      \* owners that did not tell the size
    size,       \* object_size
    nextChunk,  \* next_chunk_index
    failed,     \* has_error
    chunk,      \* the chunk files, by index from 0
    assembled,  \* the file they are put together in
    thread      \* the download threads

kindVars == <<readOnly, share>>
downloadVars == <<asked, size, nextChunk, failed, chunk, assembled>>
pullVars == <<pull, kindVars, downloadVars>>
vars == <<world, obj, up, readers, file, pullVars, thread>>

Content == Seq(Unit) \cup {NoFile}
Thread == 1 .. MaxThreads
ThreadState == [at : {"done", "test", "take", "request", "read", "lost"},
                index : Nat, attempt : 0 .. Len(Owners) - 1,
                data : Seq(Unit), left : Nat]
Asking(i, a) == [at |-> "request", index |-> i, attempt |-> a, data |-> <<>>, left |-> 0]
Receiving(i, a, d, l) == [at |-> "read", index |-> i, attempt |-> a, data |-> d, left |-> l]
NoThread == [at |-> "done", index |-> 0, attempt |-> 0, data |-> <<>>, left |-> 0]

Init ==
    /\ world \in Worlds
    /\ obj \in [Node -> {NoFile, Right}]
    /\ obj[Me] = NoFile
    /\ \A n \in world.reliable : obj[n] = Right
    /\ up = Node
    /\ readers = [n \in Node |-> {}]
    /\ file = NoFile
    /\ pull = "idle" /\ readOnly = FALSE /\ share = FALSE
    /\ asked = 0 /\ size = 0 /\ nextChunk = 0 /\ failed = FALSE
    /\ chunk = <<>> /\ assembled = <<>>
    /\ thread = [t \in Thread |-> NoThread]

-----------------------------------------------------------------------------
(* pull_file up to the threads                                             *)

\* The temporary directory and the threads are gone.
Discard ==
    /\ readOnly' = FALSE /\ share' = FALSE
    /\ asked' = 0 /\ size' = 0 /\ nextChunk' = 0 /\ failed' = FALSE
    /\ chunk' = <<>> /\ assembled' = <<>>
    /\ thread' = [t \in Thread |-> NoThread]

Return(label) == pull' = label /\ Discard

\* A present object is used as it is, an absent one downloaded.
Begin ==
    /\ pull = "idle"
    /\ readOnly' \in BOOLEAN /\ share' \in {FALSE, world.keeps}
    /\ pull' = IF obj[Me] = NoFile THEN "size" ELSE "materialize"
    /\ UNCHANGED <<obj, up, readers, file, downloadVars, thread>>

\* Mutant of ChunkCount: a last chunk that is not full is forgotten.
FullChunks(s) == s \div ChunkSize

\* make_chunk_paths
ChunkCount(s) == (s + ChunkSize - 1) \div ChunkSize

Least(S) == CHOOSE x \in S : \A y \in S : x <= y

ThreadCount(chunks) ==
    Least({chunks, Len(Owners), MaxThreads} \cup (IF Hardware = 0 THEN {} ELSE {Hardware}))

\* Whether a call to a node may go wrong although the node could answer it.
MayFail(n) == n \notin world.reliable

\* GetObjectInfo, asked of one owner after the other.
AskSize ==
    /\ pull = "size"
    /\ LET n == Owners[asked + 1]
       IN  \/ /\ n \in up /\ obj[n] # NoFile
              /\ size' = Len(obj[n])
              /\ pull' = "download"
              /\ thread' = [t \in Thread |-> IF t <= ThreadCount(ChunkCount(size'))
                                             THEN [NoThread EXCEPT !.at = "test"]
                                             ELSE NoThread]
              /\ chunk' = [i \in 1 .. ChunkCount(size') |-> NoFile]
              /\ UNCHANGED <<kindVars, asked, nextChunk, failed, assembled>>
           \/ /\ n \notin up \/ obj[n] = NoFile \/ MayFail(n)
              /\ IF asked + 1 < Len(Owners)
                 THEN /\ asked' = asked + 1
                      /\ UNCHANGED <<pull, kindVars, size, nextChunk, failed,
                                     chunk, assembled, thread>>
                 ELSE Return("failed")
    /\ UNCHANGED <<obj, up, readers, file>>

-----------------------------------------------------------------------------
(* The download threads and the handlers that serve them                   *)

\* Mutant of OwnerOf: every attempt goes to the same owner.
SameOwner(t) == Owners[(thread[t].index % Len(Owners)) + 1]

OwnerOf(t) == Owners[((thread[t].index + thread[t].attempt) % Len(Owners)) + 1]
Offset(t) == thread[t].index * ChunkSize
RangeSize(t) == Least({ChunkSize, size - Offset(t)})
Reading(t) == thread[t].at = "read"

\* while (!has_error.load())
Test(t) ==
    /\ thread[t].at = "test"
    /\ thread' = [thread EXCEPT ![t].at = IF failed THEN "done" ELSE "take"]
    /\ UNCHANGED <<obj, up, readers, file, pullVars>>

\* Mutant of Take: the counter is read and written back in two steps, and the
\* write has not happened when another thread reads.
TakeStale(t) ==
    /\ thread[t].at = "take"
    /\ nextChunk' \in {nextChunk, nextChunk + 1}
    /\ thread' = [thread EXCEPT ![t] =
                    IF nextChunk >= Len(chunk) THEN NoThread
                    ELSE Asking(nextChunk, 0)]
    /\ UNCHANGED <<obj, up, readers, file, pull, kindVars, asked, size, failed, chunk,
                   assembled>>

\* Mutant of Take: a thread does not stop after the last chunk but one later.
TakePastEnd(t) ==
    /\ thread[t].at = "take"
    /\ nextChunk' = nextChunk + 1
    /\ thread' = [thread EXCEPT ![t] =
                    IF nextChunk > Len(chunk) THEN NoThread
                    ELSE Asking(nextChunk, 0)]
    /\ UNCHANGED <<obj, up, readers, file, pull, kindVars, asked, size, failed, chunk,
                   assembled>>

\* next_chunk_index.fetch_add(1)
Take(t) ==
    /\ thread[t].at = "take"
    /\ nextChunk' = nextChunk + 1
    /\ thread' = [thread EXCEPT ![t] =
                    IF nextChunk >= Len(chunk) THEN NoThread
                    ELSE Asking(nextChunk, 0)]
    /\ UNCHANGED <<obj, up, readers, file, pull, kindVars, asked, size, failed, chunk,
                   assembled>>

\* DownloadFileRange begins: it locks the object, finds it and opens it.
Serve(t) ==
    LET n == OwnerOf(t)
    IN  /\ thread[t].at = "request"
        /\ n \in up /\ obj[n] # NoFile /\ Offset(t) <= Len(obj[n])
        /\ readers' = [readers EXCEPT ![n] = @ \cup {t}]
        /\ thread' = [thread EXCEPT ![t] =
                        Receiving(@.index, @.attempt, <<>>,
                                  Least({RangeSize(t), Len(obj[n]) - Offset(t)}))]
        /\ UNCHANGED <<obj, up, file, pullVars>>

\* One round of the loop in stream_object_range, received at once.
SendUnit(t) ==
    LET n == OwnerOf(t)
        i == Offset(t) + Len(thread[t].data) + 1
    IN  /\ Reading(t)
        /\ thread[t].left > 0
        /\ i <= Len(obj[n])
        /\ thread' = [thread EXCEPT ![t] =
                        Receiving(@.index, @.attempt, Append(@.data, obj[n][i]), @.left - 1)]
        /\ UNCHANGED <<obj, up, readers, file, pullVars>>

\* The handler returns OK at the end of the range, or early when the file has
\* become shorter; the client keeps what came as the chunk file.
EndRange(t) ==
    LET n == OwnerOf(t)
    IN  /\ Reading(t)
        /\ thread[t].left = 0 \/ Offset(t) + Len(thread[t].data) >= Len(obj[n])
        /\ readers' = [readers EXCEPT ![n] = @ \ {t}]
        /\ chunk' = [chunk EXCEPT ![thread[t].index + 1] = thread[t].data]
        /\ thread' = [thread EXCEPT ![t] = [NoThread EXCEPT !.at = "test"]]
        /\ UNCHANGED <<obj, up, file, pull, kindVars, asked, size, nextChunk, failed,
                       assembled>>

Attempts == Len(Owners)

\* Mutant of RangeFails: the thread starts over when all owners have failed.
RangeStartsOver(t) ==
    LET n == OwnerOf(t)
    IN  /\ \/ thread[t].at = "lost"
           \/ thread[t].at = "request" /\ (n \notin up \/ obj[n] = NoFile \/ MayFail(n))
           \/ Reading(t) /\ MayFail(n)
        /\ readers' = [readers EXCEPT ![n] = @ \ {t}]
        /\ thread' = [thread EXCEPT ![t] =
                        Asking(@.index, (@.attempt + 1) % Attempts)]
        /\ UNCHANGED <<obj, up, file, pullVars>>

\* A request that cannot be served, or that fails before or while it is
\* served: the next owner is tried, and after the last one the thread ends.
RangeFails(t) ==
    LET n == OwnerOf(t)
        more == thread[t].attempt + 1 < Attempts
    IN  /\ \/ thread[t].at = "lost"
           \/ thread[t].at = "request" /\ (n \notin up \/ obj[n] = NoFile \/ MayFail(n))
           \/ thread[t].at = "request" /\ n \in up /\ obj[n] # NoFile /\ Offset(t) > Len(obj[n])
           \/ Reading(t) /\ MayFail(n)
        /\ readers' = [readers EXCEPT ![n] = @ \ {t}]
        /\ thread' = [thread EXCEPT ![t] =
                        IF more THEN Asking(@.index, @.attempt + 1) ELSE NoThread]
        /\ failed' = (failed \/ ~more)
        /\ UNCHANGED <<obj, up, file, pull, kindVars, asked, size, nextChunk, chunk,
                       assembled>>

-----------------------------------------------------------------------------
(* pull_file after the threads                                             *)

\* The threads have joined: rethrow the first error or assemble.
Join ==
    /\ pull = "download"
    /\ \A t \in Thread : thread[t].at = "done"
    /\ IF failed
       THEN Return("failed")
       ELSE /\ assembled' = FlattenSeq(chunk)
            /\ pull' = "verify"
            /\ UNCHANGED <<kindVars, asked, size, nextChunk, failed, chunk, thread>>
    /\ UNCHANGED <<obj, up, readers, file>>

\* Mutant of Verify: what was assembled is taken as it is.
VerifyNothing ==
    /\ pull = "verify"
    /\ IF readOnly THEN /\ obj' = [obj EXCEPT ![Me] = assembled]
                        /\ UNCHANGED file
                   ELSE /\ file' = assembled
                        /\ UNCHANGED obj
    /\ pull' = IF readOnly THEN "materialize" ELSE IF share THEN "create" ELSE "done"
    /\ UNCHANGED <<up, readers, kindVars, downloadVars, thread>>

\* The hash check and the rename into the object directory or the workspace.
Verify ==
    /\ pull = "verify"
    /\ IF assembled = Right
       THEN /\ IF readOnly THEN /\ obj' = [obj EXCEPT ![Me] = assembled]
                                /\ UNCHANGED file
                           ELSE /\ file' = assembled
                                /\ UNCHANGED obj
            /\ pull' = IF readOnly THEN "materialize"
                       ELSE IF share THEN "create" ELSE "done"
            /\ UNCHANGED <<kindVars, downloadVars, thread>>
       ELSE /\ Return("failed")
            /\ UNCHANGED <<obj, file>>
    /\ UNCHANGED <<up, readers>>

\* link_objectfile_to_workspace and copy_objectfile_to_workspace: a sibling
\* file is made and renamed.  The object may have been deleted by now.
Materialize ==
    /\ pull = "materialize"
    /\ IF obj[Me] = NoFile THEN Return("failed") /\ UNCHANGED file
       ELSE /\ file' = obj[Me]
            /\ pull' = "done"
            /\ UNCHANGED <<kindVars, downloadVars, thread>>
    /\ UNCHANGED <<obj, up, readers>>

\* create_objectfile: the object's own path is opened and filled in place.
CreateObject ==
    /\ pull = "create"
    /\ obj' = [obj EXCEPT ![Me] = <<>>]
    /\ pull' = "copy"
    /\ UNCHANGED <<up, readers, file, kindVars, downloadVars, thread>>

CopyUnit ==
    /\ pull = "copy"
    /\ IF obj[Me] # NoFile /\ Len(obj[Me]) < Len(file)
       THEN /\ obj' = [obj EXCEPT ![Me] = Append(@, file[Len(@) + 1])]
            /\ UNCHANGED pull
       ELSE /\ pull' = "done"
            /\ UNCHANGED obj
    /\ UNCHANGED <<up, readers, file, kindVars, downloadVars, thread>>

End ==
    /\ pull \in {"done", "failed"}
    /\ Return("idle")
    /\ UNCHANGED <<obj, up, readers, file>>

-----------------------------------------------------------------------------
(* What happens around it                                                  *)

\* The command throws (a full disk) or is killed; its requests are cancelled.
Abort ==
    /\ pull \notin {"idle", "done", "failed"}
    /\ Return("idle")
    /\ readers' = [n \in Node |-> {}]
    /\ UNCHANGED <<obj, up, file>>

\* A daemon dies with its handlers ...
GoDown(n) ==
    /\ n \in up \ world.reliable
    /\ up' = up \ {n}
    /\ readers' = [readers EXCEPT ![n] = {}]
    /\ thread' = [t \in Thread |-> IF t \in readers[n] THEN [thread[t] EXCEPT !.at = "lost"]
                                   ELSE thread[t]]
    /\ UNCHANGED <<obj, file, pullVars>>

\* ... and is started again.
GoUp(n) ==
    /\ n \notin up
    /\ up' = up \cup {n}
    /\ UNCHANGED <<obj, readers, file, pullVars, thread>>

\* Mutant of DeleteObject: it does not try the lock.
DeleteUnlocked(n) ==
    /\ n \in up \ world.reliable
    /\ obj[n] # NoFile
    /\ obj' = [obj EXCEPT ![n] = NoFile]
    /\ UNCHANGED <<up, readers, file, pullVars, thread>>

\* DeleteObject, called by a cleanup of the node on its own daemon: it is
\* answered "busy" while a request holds the lock.
DeleteObject(n) ==
    /\ n \in up \ world.reliable
    /\ readers[n] = {}
    /\ obj[n] # NoFile
    /\ obj' = [obj EXCEPT ![n] = NoFile]
    /\ UNCHANGED <<up, readers, file, pullVars, thread>>

\* `pear add` on another node creates the object: like CreateObject and CopyUnit,
\* and it may stop anywhere.
Fill(n) ==
    /\ n \in world.inPlace
    /\ \/ /\ obj[n] = NoFile
          /\ obj' = [obj EXCEPT ![n] = <<>>]
       \/ /\ obj[n] # NoFile /\ Len(obj[n]) < Len(Right)
          /\ obj' = [obj EXCEPT ![n] = Append(@, Right[Len(@) + 1])]
    /\ UNCHANGED <<up, readers, file, pullVars, thread>>

\* Another node has pulled the object: it appears there by a rename.
ObjectArrives(n) ==
    /\ n # Me
    /\ obj[n] = NoFile
    /\ obj' = [obj EXCEPT ![n] = Right]
    /\ UNCHANGED <<up, readers, file, pullVars, thread>>

\* The user changes the file, also while it is being copied.
Edit ==
    /\ file # NoFile
    /\ file' = Edited
    /\ UNCHANGED <<obj, up, readers, pullVars, thread>>

-----------------------------------------------------------------------------

PullStep == AskSize \/ Join \/ Verify \/ Materialize \/ CreateObject \/ CopyUnit \/ End
ThreadStep(t) ==
    Test(t) \/ Take(t) \/ Serve(t) \/ SendUnit(t) \/ EndRange(t) \/ RangeFails(t)
Around == \/ Begin \/ Abort \/ Edit
          \/ \E n \in Node : GoDown(n) \/ GoUp(n) \/ DeleteObject(n)
                         \/ Fill(n) \/ ObjectArrives(n)

Next ==
    /\ PullStep \/ (\E t \in Thread : ThreadStep(t)) \/ Around
    /\ UNCHANGED world

Spec == Init /\ [][Next]_vars

\* A running command and its threads are scheduled and their calls return.
FairSpec == /\ Spec
            /\ WF_vars(PullStep /\ UNCHANGED world)
            /\ \A t \in Thread : WF_vars(ThreadStep(t) /\ UNCHANGED world)

-----------------------------------------------------------------------------
(* Properties                                                              *)

\* The variables have their types; no range a thread asks for has a negative
\* length (`object_size - offset` does not wrap), and the list of owners is never
\* left.  What is in chunk and in assembled only the hash check sees.
TypeOK ==
    /\ world \in Worlds
    /\ obj \in [Node -> Content] /\ file \in Content
    /\ up \subseteq Node
    /\ readers \in [Node -> SUBSET Thread]
    /\ pull \in {"idle", "size", "download", "verify", "materialize", "create", "copy",
                 "done", "failed"}
    /\ readOnly \in BOOLEAN /\ share \in BOOLEAN /\ failed \in BOOLEAN
    /\ asked \in 0 .. Len(Owners) - 1
    /\ size \in Nat /\ nextChunk \in Nat
    /\ chunk \in Seq(Content)
    /\ thread \in [Thread -> ThreadState]

\* Owners that hold the whole object make a whole download: chunks, offsets,
\* retries and threads never lose, repeat or mix a unit, whatever dies or is
\* deleted meanwhile, so that the hash check never fails on its own account.
WholeWhenVerified ==
    (world.inPlace = {} /\ pull = "verify") => assembled = Right

\* A chunk file has one writer: no two threads ever work on the same chunk.
Busy(t) == thread[t].at \in {"request", "read", "lost"}
ChunkHasOneWriter ==
    \A s, t \in Thread :
        (s # t /\ Busy(s) /\ Busy(t)) => thread[s].index # thread[t].index

\* An object does not go away while a thread reads it.
ServedStays == \A t \in Thread : Reading(t) => obj[OwnerOf(t)] # NoFile

\* One owner that serves, answers and keeps its object is enough, as long as
\* nobody fills objects in place: other owners' failures fail no download.
Trusted == world.inPlace = {} /\ \E i \in DOMAIN Owners : Owners[i] \in world.reliable
ReliableOwnerSuffices ==
    Trusted => /\ ~failed
               /\ pull = "size" => \E i \in asked + 1 .. Len(Owners) :
                                       Owners[i] \in world.reliable

\* What a pull leaves in the workspace is the whole content it was to fetch,
\* or the user's own edit of it, also when an earlier pull of it has failed:
\* "retrying update or download is safe" (docs/transport.md).
FileIsWhole == file \in {NoFile, Right, Edited}

\* Without objects filled in place on its own node a pull keeps that promise,
\* although the objects it downloads may be half there.
DownloadIsWhole == ~world.keeps => FileIsWhole

\* Every pull ends, with its threads, whatever happens to the owners.
PullEnds == pull # "idle" ~> pull = "idle"
===============================================================================
