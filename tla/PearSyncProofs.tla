---------------------------- MODULE PearSyncProofs ----------------------------
(***************************************************************************)
(* Proofs about PearSync, for any number of nodes, processes, paths and    *)
(* hashes, any assignment of commands and no bound on the log.             *)
(***************************************************************************)
EXTENDS PearSync, WellFoundedInduction, TLAPS

-----------------------------------------------------------------------------
(* Lemmas about the log operators                                          *)

\* A bounded, nonempty set of naturals has a greatest element.
LEMMA MaxOfBounded ==
    ASSUME NEW m \in Nat, NEW S, S \subseteq 0 .. m, S # {}
    PROVE  Max(S) \in S /\ \A y \in S : Max(S) >= y
<1> DEFINE T == {m - s : s \in S}
           R == OpToRel(<, Nat)
<1>1. T \subseteq Nat
  OBVIOUS
<1>2. T # {}
  <2>1. PICK s \in S : TRUE
    OBVIOUS
  <2>2. m - s \in T
    BY <2>1
  <2> QED BY <2>2
<1>3. PICK t \in T : \A u \in T : ~ (<<u, t>> \in R)
  BY <1>1, <1>2, NatLessThanWellFounded, WFMin
<1>4. \A u \in T : ~ (u < t)
  BY <1>1, <1>3 DEF OpToRel
<1>5. PICK s \in S : t = m - s
  OBVIOUS
<1>6. \A y \in S : s >= y
  BY <1>4, <1>5
<1> QED BY <1>6 DEF Max

\* A log without gaps ends at its length.
LEMMA LastOfInterval ==
    ASSUME NEW w, NEW k \in Nat, DOMAIN w = 1 .. k
    PROVE  LastSeqId(w) = k
<1>1. CASE k = 0
  BY <1>1 DEF LastSeqId
<1>2. CASE k # 0
  <2>1. k \in DOMAIN w /\ \A s \in DOMAIN w : k >= s
    BY <1>2
  <2>2. ASSUME NEW m \in DOMAIN w, \A s \in DOMAIN w : m >= s
        PROVE  m = k
    <3>1. m >= k /\ k >= m /\ m \in Int
      BY <2>1, <2>2
    <3> QED BY <3>1
  <2>3. Max(DOMAIN w) = k
    BY <2>1, <2>2 DEF Max
  <2> QED BY <2>1, <2>3 DEF LastSeqId
<1> QED BY <1>1, <1>2

\* Adding one entry after the last one.
LEMMA InsertAtEnd ==
    ASSUME NEW w, NEW k \in Nat, DOMAIN w = 1 .. k, NEW v,
           NEW u, u = InsertOrIgnore(w, Single(k + 1, v))
    PROVE  /\ u = [s \in DOMAIN u |-> u[s]]
           /\ DOMAIN u = 1 .. (k + 1)
           /\ LastSeqId(u) = k + 1
           /\ \A s \in 1 .. k : u[s] = w[s]
           /\ u[k + 1] = v
<1>1. DOMAIN Single(k + 1, v) = {k + 1} /\ Single(k + 1, v)[k + 1] = v
  BY DEF Single
<1>2. DOMAIN u = (1 .. k) \cup {k + 1} /\ u = [s \in DOMAIN u |-> u[s]]
  BY <1>1 DEF InsertOrIgnore
<1>3. DOMAIN u = 1 .. (k + 1)
  <2>1. (1 .. k) \cup {k + 1} = 1 .. (k + 1)
    OBVIOUS
  <2> QED BY <1>2, <2>1
<1>4. LastSeqId(u) = k + 1
  BY <1>3, LastOfInterval
<1>5. \A s \in 1 .. k : u[s] = w[s]
  BY <1>1 DEF InsertOrIgnore
<1>6. u[k + 1] = v
  BY <1>1 DEF InsertOrIgnore
<1> QED BY <1>2, <1>3, <1>4, <1>5, <1>6

\* Adding a stretch of entries that begins at or before the end.
LEMMA InsertStretch ==
    ASSUME NEW w, NEW k \in Nat, DOMAIN w = 1 .. k,
           NEW b, NEW from \in 0 .. k, NEW to \in Nat,
           DOMAIN b = {s \in 1 .. to : s > from},
           NEW u, u = InsertOrIgnore(w, b)
    PROVE  /\ u = [s \in DOMAIN u |-> u[s]]
           /\ \E m \in Nat : /\ m = k \/ (m = to /\ to > k)
                             /\ DOMAIN u = 1 .. m /\ LastSeqId(u) = m
           /\ \A s \in 1 .. k : u[s] = w[s]
           /\ \A s \in DOMAIN u : s \in 1 .. k \/ (s \in DOMAIN b /\ u[s] = b[s])
<1>1. /\ DOMAIN u = (1 .. k) \cup {s \in 1 .. to : s > from}
      /\ u = [s \in DOMAIN u |-> u[s]]
  BY DEF InsertOrIgnore
<1>2. \E m \in Nat : (m = k \/ (m = to /\ to > k)) /\ DOMAIN u = 1 .. m
  <2>1. CASE to > k
    <3>1. DOMAIN u = 1 .. to
      BY <1>1, <2>1
    <3> QED BY <2>1, <3>1
  <2>2. CASE ~(to > k)
    <3>1. DOMAIN u = 1 .. k
      BY <1>1, <2>2
    <3> QED BY <3>1
  <2> QED BY <2>1, <2>2
<1>3. \A s \in 1 .. k : u[s] = w[s]
  BY DEF InsertOrIgnore
<1>4. \A s \in DOMAIN u : s \in 1 .. k \/ (s \in DOMAIN b /\ u[s] = b[s])
  BY DEF InsertOrIgnore
<1> QED BY <1>1, <1>2, <1>3, <1>4, LastOfInterval

-----------------------------------------------------------------------------
(* The inductive invariant behind LogPrefix                                *)

Length(n) == LastSeqId(wal[n])

\* The variables the argument follows are functions on nodes and processes.
Shape ==
    /\ wal = [n \in Node |-> wal[n]]
    /\ DOMAIN pc = Proc /\ DOMAIN last = Proc /\ DOMAIN batch = Proc

\* Each log has no gaps, agrees with Main's and is not longer.
LogInv ==
    \A n \in Node :
        /\ wal[n] = [s \in DOMAIN wal[n] |-> wal[n][s]]
        /\ Length(n) \in Nat
        /\ DOMAIN wal[n] = 1 .. Length(n)
        /\ Length(n) <= Length(Main)
        /\ \A s \in 1 .. Length(n) : wal[n][s] = wal[Main][s]

\* A sync asks from a position its node has reached: another sync of the node
\* may have moved it on since, and back only a deinit, when no command runs there.
ReadInv ==
    \A p \in Proc : /\ last[p] \in Nat /\ last[p] <= Length(At[p])
                    /\ pc[p] = "idle" => last[p] = 0

\* The answer it holds is the stretch of Main's log after that position.
Stretch(b, from, to) ==
    /\ DOMAIN b = {s \in 1 .. to : s > from}
    /\ \A s \in DOMAIN b : b[s] = wal[Main][s]
BatchInv ==
    \A p \in Proc : pc[p] = "apply" =>
        \E to \in 0 .. Length(Main) : Stretch(batch[p], last[p], to)

SyncInv == Shape /\ LogInv /\ ReadInv /\ BatchInv

-----------------------------------------------------------------------------
(* What a step does to the logs and to the syncs in progress               *)

OthersKeep(p) ==
    \A q \in Proc \ {p} : pc'[q] = pc[q] /\ last'[q] = last[q] /\ batch'[q] = batch[q]

\* A step of p that appends to Main's log.
Appends(p) ==
    /\ \E e : wal' = [wal EXCEPT ![Main] = InsertOrIgnore(@,
                        Single(LastSeqId(wal[Main]) + 1, Versioned(files[Main], e)))]
    /\ pc'[p] \notin {"apply", "idle"}
    /\ last' = last /\ batch' = batch /\ OthersKeep(p)

\* A step of p that leaves every log alone and starts or drops a sync at most.
Quiet(p) ==
    /\ wal' = wal
    /\ \/ pc' = pc /\ last' = last /\ batch' = batch
       \/ /\ pc'[p] # "apply" /\ last'[p] \in {0, last[p], Length(At[p])}
          /\ pc'[p] = "idle" => last'[p] = 0
    /\ OthersKeep(p)

\* A command that ends (returns or throws) starts no sync and appends nothing.
LEMMA FinishIsQuiet ==
    ASSUME NEW p \in Proc, Shape, Finish(p), wal' = wal
    PROVE  Quiet(p) /\ Shape'
BY DEF Finish, Goto, Quiet, OthersKeep, Shape

\* Nor does one that catches an exception.
LEMMA ThrowIsQuiet ==
    ASSUME NEW p \in Proc, Shape, Throw(p), wal' = wal
    PROVE  Quiet(p) /\ Shape'
<1>1. CASE Finish(p)
  BY <1>1, FinishIsQuiet
<1>2. CASE GoOn(p)
  BY <1>2 DEF GoOn, Goto, Quiet, OthersKeep, Shape
<1> QED BY <1>1, <1>2 DEF Throw

\* Nor does a step that moves p on and leaves logs and answers alone.
LEMMA LocalIsQuiet ==
    ASSUME NEW p \in Proc, Shape, NEW l, l \notin {"apply", "idle"}, Goto(p, l),
           UNCHANGED <<wal, last, batch>>
    PROVE  Quiet(p) /\ Shape'
BY DEF Goto, Quiet, OthersKeep, Shape

\* Nor does a step that does not even move p on.
LEMMA IdleIsQuiet ==
    ASSUME NEW p \in Proc, Shape, UNCHANGED <<wal, pc, last, batch>>
    PROVE  Quiet(p) /\ Shape'
BY DEF Quiet, OthersKeep, Shape

\* What users start (connect, update, push, pull, cleanup, add, ...) is quiet.
LEMMA StartIsQuiet ==
    ASSUME NEW p \in Proc, Shape, Start(p)
    PROVE  Quiet(p) /\ Shape'
<1>1. ASSUME NEW c, NEW paths, NEW next, StartSync(p, c, paths, next)
      PROVE  Quiet(p) /\ Shape'
  BY <1>1, LocalIsQuiet DEF StartSync, localVars
<1>2. CASE StartConnect(p)
  BY <1>2, LocalIsQuiet DEF StartConnect, localVars
<1>3. CASE StartUpdate(p) \/ StartPush(p) \/ StartPull(p) \/ StartCleanup(p) \/ StartRemove(p)
  BY <1>3, <1>1 DEF StartUpdate, StartPush, StartPull, StartCleanup, StartRemove
<1>4. CASE Disconnect(p)
  BY <1>4, IdleIsQuiet DEF Disconnect, localVars
<1>5. ASSUME NEW path \in Path, NEW hash \in Hash, AddObject(p, path, hash)
      PROVE  Quiet(p) /\ Shape'
  BY <1>5, IdleIsQuiet, LocalIsQuiet DEF AddObject, localVars
<1>6. CASE Unstage(p)
  BY <1>6, IdleIsQuiet DEF Unstage, localVars
<1> QED BY <1>2, <1>3, <1>4, <1>5, <1>6 DEF Start

\* Each action of a process is quiet, appends one entry to Main's log, or is
\* one of the two halves of sync_with_master: the RPC and the application.
LEMMA StepKinds ==
    ASSUME NEW p \in Proc, Shape, Start(p) \/ Step(p) \/ Abort(p)
    PROVE  /\ Shape'
           /\ Quiet(p) \/ Appends(p) \/ SyncRequest(p) \/ SyncApply(p)
<1>1. CASE Start(p)
  BY <1>1, StartIsQuiet
<1>2. CASE Register(p)
  BY <1>2, LocalIsQuiet DEF Register, Registration, localVars
<1>3. CASE RegisterLog(p)
  BY <1>3 DEF RegisterLog, Registration, AddWalEntry, Goto, Appends, OthersKeep, Shape,
              localVars
<1>4. CASE Configure(p)
  BY <1>4, FinishIsQuiet DEF Configure, dbVars
<1>5. CASE SyncRead(p)
  <2>1. CASE Connected(At[p])
    BY <1>5, <2>1 DEF SyncRead, Goto, Quiet, OthersKeep, Shape, Length
  <2>2. CASE ~Connected(At[p])
    BY <1>5, <2>2, ThrowIsQuiet DEF SyncRead
  <2> QED BY <2>1, <2>2
<1>6. CASE SyncRequest(p)
  BY <1>6 DEF SyncRequest, Goto, Shape, dbVars
<1>7. CASE SyncApply(p)
  BY <1>7 DEF SyncApply, ApplyWalEntries, Goto, Shape
<1>8. CASE Report(p)
  BY <1>8, FinishIsQuiet DEF Report, dbVars
<1>9. CASE AddStage(p)
  BY <1>9, FinishIsQuiet DEF AddStage, dbVars
<1>10. CASE PushCollect(p)
  <2>1. CASE Finish(p)
    BY <1>10, <2>1, FinishIsQuiet DEF PushCollect, dbVars
  <2>2. CASE Goto(p, "lock") /\ UNCHANGED <<mutex, last, batch, acks, garbage>>
    BY <1>10, <2>2, LocalIsQuiet DEF PushCollect, dbVars
  <2> QED BY <1>10, <2>1, <2>2 DEF PushCollect
<1>11. CASE PushLock(p)
  BY <1>11, LocalIsQuiet DEF PushLock, dbVars, localVars
<1>12. CASE PushAppend(p)
  BY <1>12 DEF PushAppend, AddWalEntry, Goto, Appends, OthersKeep, Shape
<1>13. CASE PushSettle(p)
  BY <1>13, LocalIsQuiet DEF PushSettle, dbVars, localVars
<1>14. CASE PullOpen(p)
  BY <1>14, LocalIsQuiet DEF PullOpen, localVars
<1>15. CASE PullFetch(p)
  <2>1. CASE Finish(p)
    BY <1>15, <2>1, FinishIsQuiet DEF PullFetch, dbVars
  <2>2. CASE UNCHANGED <<pc, last, batch>>
    BY <1>15, <2>2, IdleIsQuiet DEF PullFetch, dbVars
  <2>3. CASE Goto(p, "lock") /\ UNCHANGED <<last, batch>>
    BY <1>15, <2>3, LocalIsQuiet DEF PullFetch, dbVars
  <2> QED BY <1>15, <2>1, <2>2, <2>3 DEF PullFetch, localVars
<1>16. CASE CleanupSelect(p)
  BY <1>16, FinishIsQuiet, LocalIsQuiet DEF CleanupSelect, localVars
<1>17. CASE CleanupRows(p)
  BY <1>17, FinishIsQuiet, LocalIsQuiet DEF CleanupRows, localVars
<1>18. CASE CleanupScan(p)
  BY <1>18, LocalIsQuiet DEF CleanupScan, dbVars
<1>19. CASE CleanupDelete(p)
  BY <1>19, FinishIsQuiet, IdleIsQuiet DEF CleanupDelete, dbVars
<1>20. CASE Unreachable(p)
  BY <1>20, ThrowIsQuiet DEF Unreachable, dbVars
<1>21. CASE Abort(p)
  BY <1>21, FinishIsQuiet, ThrowIsQuiet DEF Abort, dbVars
<1>22. CASE PushOpen(p)
  BY <1>22, FinishIsQuiet, LocalIsQuiet DEF PushOpen, localVars
<1> QED
  BY <1>1, <1>2, <1>3, <1>4, <1>5, <1>6, <1>7, <1>8, <1>9, <1>10, <1>11, <1>12, <1>13,
     <1>14, <1>15, <1>16, <1>17, <1>18, <1>19, <1>20, <1>21, <1>22 DEF Step

-----------------------------------------------------------------------------
(* SyncInv is inductive                                                    *)

\* The nodes that have joined begin with equal logs, the others with empty ones.
LEMMA InitSyncInv == Init => SyncInv
<1> SUFFICES ASSUME Init PROVE SyncInv
  OBVIOUS
<1> DEFINE k == Len(Joined)
<1>0. k \in Nat /\ Main \in Node /\ At \in [Proc -> Node]
  BY SyncAssumption
<1>1. Shape
  BY DEF Init, Shape
<1>2. ASSUME NEW n \in Node
      PROVE  \/ wal[n] = Empty
             \/ wal[n] = [i \in 1 .. k |-> DeviceUpdate(i, Joined[i])] /\ wal[Main] = wal[n]
  BY <1>0, SyncAssumption DEF Init
<1>3. DOMAIN Empty = 1 .. 0 /\ Empty = [s \in DOMAIN Empty |-> Empty[s]]
  BY DEF Empty
<1>4. LastSeqId(Empty) = 0
  BY <1>3, LastOfInterval
<1>5. ASSUME NEW n \in Node
      PROVE  /\ wal[n] = [s \in DOMAIN wal[n] |-> wal[n][s]]
             /\ Length(n) \in Nat /\ DOMAIN wal[n] = 1 .. Length(n)
             /\ Length(n) = 0 \/ wal[n] = wal[Main]
  <2>1. CASE wal[n] = Empty
    BY <1>3, <1>4, <2>1 DEF Length
  <2>2. CASE wal[n] = [i \in 1 .. k |-> DeviceUpdate(i, Joined[i])] /\ wal[Main] = wal[n]
    <3>1. DOMAIN wal[n] = 1 .. k /\ wal[n] = [s \in DOMAIN wal[n] |-> wal[n][s]]
      BY <2>2
    <3>2. LastSeqId(wal[n]) = k
      BY <1>0, <3>1, LastOfInterval
    <3> QED BY <1>0, <2>2, <3>1, <3>2 DEF Length
  <2> QED BY <1>2, <2>1, <2>2
<1>6. LogInv
  <2> SUFFICES ASSUME NEW n \in Node
               PROVE  /\ Length(n) <= Length(Main)
                      /\ \A s \in 1 .. Length(n) : wal[n][s] = wal[Main][s]
    BY <1>5 DEF LogInv
  <2>1. Length(n) \in Nat /\ Length(Main) \in Nat
    BY <1>0, <1>5
  <2>2. CASE Length(n) = 0
    BY <2>1, <2>2
  <2>3. CASE wal[n] = wal[Main]
    BY <2>1, <2>3 DEF Length
  <2> QED BY <1>5, <2>2, <2>3
<1>7. ReadInv
  <2> SUFFICES ASSUME NEW p \in Proc
               PROVE  last[p] = 0 /\ last[p] \in Nat /\ last[p] <= Length(At[p])
    BY DEF ReadInv
  <2>1. last[p] = 0
    BY DEF Init
  <2>2. Length(At[p]) \in Nat
    BY <1>0, <1>5
  <2> QED BY <2>1, <2>2
<1>8. BatchInv
  BY DEF Init, BatchInv
<1> QED BY <1>1, <1>6, <1>7, <1>8 DEF SyncInv

\* A quiet step keeps every log, so at most its own position changes.
LEMMA QuietKeeps ==
    ASSUME SyncInv, NEW p \in Proc, Quiet(p), Shape'
    PROVE  SyncInv'
<1>1. LogInv'
  BY DEF SyncInv, Quiet, LogInv, Length
<1>2. ReadInv'
  <2> SUFFICES ASSUME NEW q \in Proc
               PROVE  /\ last'[q] \in Nat /\ last'[q] <= Length(At[q])'
                      /\ pc'[q] = "idle" => last'[q] = 0
    BY DEF ReadInv
  <2>1. At[q] \in Node /\ Length(At[q]) \in Nat /\ Length(At[q])' = Length(At[q])
    BY SyncAssumption DEF SyncInv, LogInv, Quiet, Length
  <2>2. last[q] \in Nat /\ last[q] <= Length(At[q])
    BY DEF SyncInv, ReadInv
  <2>3. last'[q] \in {0, last[q], Length(At[q])}
    BY DEF Quiet, OthersKeep
  <2>4. pc'[q] = "idle" => last'[q] = 0
    BY DEF Quiet, OthersKeep, SyncInv, ReadInv
  <2> QED BY <2>1, <2>2, <2>3, <2>4
<1>3. BatchInv'
  BY DEF SyncInv, BatchInv, Quiet, OthersKeep, Stretch, Length
<1> QED BY <1>1, <1>2, <1>3 DEF SyncInv

\* addWalEntry on Main makes the longest log longer: prefixes stay prefixes, and
\* the stretches that syncs hold are still stretches of it.
LEMMA AppendKeeps ==
    ASSUME SyncInv, NEW p \in Proc, Appends(p), Shape'
    PROVE  SyncInv'
<1> DEFINE k == Length(Main)
<1>0. Main \in Node /\ At \in [Proc -> Node]
  BY SyncAssumption
<1>1. k \in Nat /\ DOMAIN wal[Main] = 1 .. k
  BY <1>0 DEF SyncInv, LogInv
<1>2. \A n \in Node \ {Main} : wal'[n] = wal[n]
  BY <1>0 DEF Appends, SyncInv, Shape
<1>3. PICK e : wal'[Main] = InsertOrIgnore(wal[Main], Single(k + 1, Versioned(files[Main], e)))
  BY <1>0 DEF Appends, SyncInv, Shape, Length
<1>4. /\ wal'[Main] = [s \in DOMAIN wal'[Main] |-> wal'[Main][s]]
      /\ DOMAIN wal'[Main] = 1 .. (k + 1)
      /\ LastSeqId(wal'[Main]) = k + 1
      /\ \A s \in 1 .. k : wal'[Main][s] = wal[Main][s]
  BY <1>1, <1>3, InsertAtEnd
<1>5. Length(Main)' = k + 1 /\ \A n \in Node \ {Main} : Length(n)' = Length(n)
  BY <1>2, <1>4 DEF Length
<1>6. LogInv'
  <2> SUFFICES ASSUME NEW n \in Node
               PROVE  /\ wal'[n] = [s \in DOMAIN wal'[n] |-> wal'[n][s]]
                      /\ Length(n)' \in Nat
                      /\ DOMAIN wal'[n] = 1 .. Length(n)'
                      /\ Length(n)' <= Length(Main)'
                      /\ \A s \in 1 .. Length(n)' : wal'[n][s] = wal'[Main][s]
    BY DEF LogInv
  <2>1. CASE n = Main
    BY <1>1, <1>4, <1>5, <2>1
  <2>2. CASE n # Main
    <3>1. /\ wal'[n] = wal[n] /\ Length(n)' = Length(n)
      BY <1>2, <1>5, <2>2
    <3>2. /\ wal[n] = [s \in DOMAIN wal[n] |-> wal[n][s]]
          /\ Length(n) \in Nat /\ DOMAIN wal[n] = 1 .. Length(n) /\ Length(n) <= k
          /\ \A s \in 1 .. Length(n) : wal[n][s] = wal[Main][s]
      BY DEF SyncInv, LogInv
    <3> QED BY <1>1, <1>4, <1>5, <3>1, <3>2
  <2> QED BY <2>1, <2>2
<1>7. ReadInv'
  <2> SUFFICES ASSUME NEW q \in Proc
               PROVE  /\ last'[q] \in Nat /\ last'[q] <= Length(At[q])'
                      /\ pc'[q] = "idle" => last'[q] = 0
    BY DEF ReadInv
  <2>1. /\ last'[q] = last[q] /\ last[q] \in Nat /\ last[q] <= Length(At[q])
        /\ pc'[q] = "idle" => last'[q] = 0
    BY DEF Appends, OthersKeep, SyncInv, ReadInv
  <2>2. Length(At[q]) \in Nat /\ (Length(At[q])' = Length(At[q]) \/ Length(At[q])' = Length(At[q]) + 1)
    BY <1>0, <1>1, <1>5 DEF SyncInv, LogInv
  <2> QED BY <2>1, <2>2
<1>8. BatchInv'
  <2> SUFFICES ASSUME NEW q \in Proc, pc'[q] = "apply"
               PROVE  \E to \in 0 .. Length(Main)' : Stretch(batch[q], last[q], to)'
    BY DEF BatchInv
  <2>1. q # p /\ pc[q] = "apply" /\ batch'[q] = batch[q] /\ last'[q] = last[q]
    BY DEF Appends, OthersKeep
  <2>2. PICK to \in 0 .. k : Stretch(batch[q], last[q], to)
    BY <2>1 DEF SyncInv, BatchInv
  <2>3. to \in 0 .. Length(Main)'
    BY <1>1, <1>5, <2>2
  <2>4. Stretch(batch[q], last[q], to)'
    <3>1. \A s \in DOMAIN batch[q] : s \in 1 .. k
      BY <1>1, <2>2 DEF Stretch
    <3> QED BY <1>4, <2>1, <2>2, <3>1 DEF Stretch
  <2> QED BY <2>3, <2>4
<1> QED BY <1>6, <1>7, <1>8 DEF SyncInv

\* UpdateDB answers with the stretch of Main's log after the position asked for.
LEMMA RequestKeeps ==
    ASSUME SyncInv, NEW p \in Proc, SyncRequest(p), Shape'
    PROVE  SyncInv'
<1>0. Main \in Node
  BY SyncAssumption
<1>1. wal' = wal /\ last' = last
  BY DEF SyncRequest, dbVars
<1>2. LogInv' /\ ReadInv'
  <2>1. \A q \in Proc : pc'[q] = "idle" => pc[q] = "idle"
    BY DEF SyncRequest, Goto, SyncInv, Shape
  <2> QED BY <1>1, <2>1 DEF SyncInv, LogInv, ReadInv, Length
<1>3. Stretch(EntriesSince(wal[Main], last[p]), last[p], Length(Main))
  <2>1. DOMAIN wal[Main] = 1 .. Length(Main)
    BY <1>0 DEF SyncInv, LogInv
  <2> QED BY <2>1 DEF Stretch, EntriesSince, Restrict
<1>4. BatchInv'
  <2> SUFFICES ASSUME NEW q \in Proc, pc'[q] = "apply"
               PROVE  \E to \in 0 .. Length(Main) : Stretch(batch'[q], last[q], to)
    BY <1>1 DEF BatchInv, Stretch, Length
  <2>1. CASE q = p
    <3>1. batch'[p] = EntriesSince(wal[Main], last[p])
      BY DEF SyncRequest, SyncInv, Shape
    <3>2. Length(Main) \in Nat
      BY <1>0 DEF SyncInv, LogInv
    <3>3. Length(Main) \in 0 .. Length(Main)
      BY <3>2
    <3> QED BY <1>3, <2>1, <3>1, <3>3
  <2>2. CASE q # p
    <3>1. pc[q] = "apply" /\ batch'[q] = batch[q]
      BY <2>2 DEF SyncRequest, Goto, SyncInv, Shape
    <3> QED BY <3>1 DEF SyncInv, BatchInv
  <2> QED BY <2>1, <2>2
<1> QED BY <1>2, <1>4 DEF SyncInv

\* What SyncApply does to the log of its node, Main's own included: applying
\* an old stretch again changes nothing there.
LEMMA ApplyEffect ==
    ASSUME SyncInv, NEW p \in Proc, SyncApply(p)
    PROVE  LET n == At[p]
           IN  /\ wal'[n] = InsertOrIgnore(wal[n], batch[p])
               /\ wal'[n] = [s \in DOMAIN wal'[n] |-> wal'[n][s]]
               /\ Length(n)' \in Nat /\ DOMAIN wal'[n] = 1 .. Length(n)'
               /\ Length(n) <= Length(n)' /\ Length(n)' <= Length(Main)
               /\ \A s \in DOMAIN wal'[n] : wal'[n][s] = wal[Main][s]
               /\ wal'[Main] = wal[Main]
               /\ \A m \in Node \ {n} : wal'[m] = wal[m]
<1> DEFINE n == At[p]
<1>0. Main \in Node /\ n \in Node
  BY SyncAssumption
<1>1. wal' = [wal EXCEPT ![n] = InsertOrIgnore(wal[n], batch[p])] /\ pc[p] = "apply"
  BY DEF SyncApply, ApplyWalEntries
<1>2. wal'[n] = InsertOrIgnore(wal[n], batch[p]) /\ \A m \in Node \ {n} : wal'[m] = wal[m]
  BY <1>0, <1>1 DEF SyncInv, Shape
<1>3. /\ Length(n) \in Nat /\ DOMAIN wal[n] = 1 .. Length(n)
      /\ Length(Main) \in Nat /\ DOMAIN wal[Main] = 1 .. Length(Main)
      /\ Length(n) <= Length(Main)
      /\ \A s \in 1 .. Length(n) : wal[n][s] = wal[Main][s]
      /\ wal[n] = [s \in DOMAIN wal[n] |-> wal[n][s]]
      /\ wal[Main] = [s \in DOMAIN wal[Main] |-> wal[Main][s]]
  BY <1>0 DEF SyncInv, LogInv
<1>4. last[p] \in 0 .. Length(n)
  BY <1>3 DEF SyncInv, ReadInv
<1>5. PICK to \in 0 .. Length(Main) : Stretch(batch[p], last[p], to)
  BY <1>1 DEF SyncInv, BatchInv
<1>6. to \in Nat
  BY <1>3, <1>5
<1>7. /\ wal'[n] = [s \in DOMAIN wal'[n] |-> wal'[n][s]]
      /\ \E m \in Nat : /\ m = Length(n) \/ (m = to /\ to > Length(n))
                        /\ DOMAIN wal'[n] = 1 .. m /\ LastSeqId(wal'[n]) = m
      /\ \A s \in 1 .. Length(n) : wal'[n][s] = wal[n][s]
      /\ \A s \in DOMAIN wal'[n] :
            s \in 1 .. Length(n) \/ (s \in DOMAIN batch[p] /\ wal'[n][s] = batch[p][s])
  <2>1. DOMAIN batch[p] = {s \in 1 .. to : s > last[p]}
    BY <1>5 DEF Stretch
  <2>2. wal'[n] = InsertOrIgnore(wal[n], batch[p])
    BY <1>2
  <2> QED BY <1>3, <1>4, <1>6, <2>1, <2>2, InsertStretch
<1>8. PICK m \in Nat : /\ m = Length(n) \/ (m = to /\ to > Length(n))
                       /\ DOMAIN wal'[n] = 1 .. m /\ LastSeqId(wal'[n]) = m
  BY <1>7
<1>9. Length(n)' = m
  BY <1>8 DEF Length
<1>10. Length(n) <= m /\ m <= Length(Main)
  BY <1>3, <1>5, <1>8
<1>11. \A s \in DOMAIN wal'[n] : wal'[n][s] = wal[Main][s]
  BY <1>3, <1>5, <1>7 DEF Stretch
<1>12. wal'[Main] = wal[Main]
  <2>1. CASE n # Main
    BY <1>0, <1>2, <2>1
  <2>2. CASE n = Main
    <3>1. m = Length(Main)
      BY <1>3, <1>10, <2>2
    <3>2. DOMAIN wal'[Main] = DOMAIN wal[Main]
      BY <1>3, <1>8, <2>2, <3>1
    <3> QED BY <1>3, <1>7, <1>11, <2>2, <3>2
  <2> QED BY <2>1, <2>2
<1> QED BY <1>2, <1>7, <1>8, <1>9, <1>10, <1>11, <1>12

\* applyWalEntries extends the node's log by what it lacks of the stretch, however
\* far another sync has brought the log meanwhile.
LEMMA ApplyKeeps ==
    ASSUME SyncInv, NEW p \in Proc, SyncApply(p), Shape'
    PROVE  SyncInv'
<1> DEFINE n == At[p]
<1>0. Main \in Node /\ n \in Node /\ At \in [Proc -> Node]
  BY SyncAssumption
<1>1. /\ wal'[n] = [s \in DOMAIN wal'[n] |-> wal'[n][s]]
      /\ Length(n)' \in Nat /\ DOMAIN wal'[n] = 1 .. Length(n)'
      /\ Length(n) <= Length(n)' /\ Length(n)' <= Length(Main)
      /\ \A s \in DOMAIN wal'[n] : wal'[n][s] = wal[Main][s]
      /\ wal'[Main] = wal[Main]
      /\ \A m \in Node \ {n} : wal'[m] = wal[m]
  BY ApplyEffect
<1>2. Length(Main)' = Length(Main) /\ \A m \in Node \ {n} : Length(m)' = Length(m)
  BY <1>1 DEF Length
<1>3. LogInv'
  <2> SUFFICES ASSUME NEW m \in Node
               PROVE  /\ wal'[m] = [s \in DOMAIN wal'[m] |-> wal'[m][s]]
                      /\ Length(m)' \in Nat
                      /\ DOMAIN wal'[m] = 1 .. Length(m)'
                      /\ Length(m)' <= Length(Main)'
                      /\ \A s \in 1 .. Length(m)' : wal'[m][s] = wal'[Main][s]
    BY DEF LogInv
  <2>1. CASE m = n
    BY <1>1, <1>2, <2>1
  <2>2. CASE m # n
    BY <1>1, <1>2, <2>2 DEF SyncInv, LogInv
  <2> QED BY <2>1, <2>2
<1>4. ReadInv'
  <2> SUFFICES ASSUME NEW q \in Proc
               PROVE  /\ last'[q] \in Nat /\ last'[q] <= Length(At[q])'
                      /\ pc'[q] = "idle" => last'[q] = 0
    BY DEF ReadInv
  <2>1. /\ last'[q] \in {0, last[q]} /\ last[q] \in Nat /\ last[q] <= Length(At[q])
        /\ pc'[q] = "idle" => last'[q] = 0
    BY DEF SyncApply, Goto, SyncInv, Shape, ReadInv
  <2>2. /\ Length(At[q]) \in Nat /\ Length(At[q])' \in Nat
        /\ Length(At[q]) <= Length(At[q])'
    <3>1. At[q] \in Node /\ Length(At[q]) \in Nat
      BY <1>0 DEF SyncInv, LogInv
    <3>2. CASE At[q] = n
      BY <1>1, <3>1, <3>2
    <3>3. CASE At[q] # n
      BY <1>2, <3>1, <3>3
    <3> QED BY <3>2, <3>3
  <2> QED BY <2>1, <2>2
<1>5. BatchInv'
  <2> SUFFICES ASSUME NEW q \in Proc, pc'[q] = "apply"
               PROVE  \E to \in 0 .. Length(Main) : Stretch(batch'[q], last'[q], to)
    BY <1>1, <1>2 DEF BatchInv, Stretch
  <2>1. CASE q = p
    <3>1. batch'[p] = Empty /\ last'[p] = 0
      BY DEF SyncApply, SyncInv, Shape
    <3>2. Stretch(Empty, 0, 0)
      BY DEF Stretch, Empty
    <3>3. Length(Main) \in Nat
      BY <1>0 DEF SyncInv, LogInv
    <3> QED BY <2>1, <3>1, <3>2, <3>3
  <2>2. CASE q # p
    <3>1. pc[q] = "apply" /\ batch'[q] = batch[q] /\ last'[q] = last[q]
      BY <2>2 DEF SyncApply, Goto, SyncInv, Shape
    <3> QED BY <3>1 DEF SyncInv, BatchInv
  <2> QED BY <2>1, <2>2
<1> QED BY <1>3, <1>4, <1>5 DEF SyncInv

\* What deinit does to the logs: that of its node is emptied, or none changes; and it
\* finds no command on the node.
LEMMA DeinitEffect ==
    ASSUME Shape, NEW p \in Proc, Deinit(p)
    PROVE  LET n == At[p]
           IN  /\ n \in Node /\ n # Main
               /\ wal' = wal \/ wal' = [wal EXCEPT ![n] = Empty]
               /\ wal'[n] = wal[n] \/ wal'[n] = Empty
               /\ \A m \in Node \ {n} : wal'[m] = wal[m]
               /\ \A q \in Proc : At[q] = n => pc[q] = "idle"
               /\ UNCHANGED <<mutex, pc, job, localVars>>
BY SyncAssumption DEF Deinit, Shape, dbVars

\* deinit keeps SyncInv: an empty log is a prefix, and no sync of the node is under way.
LEMMA DeinitKeeps ==
    ASSUME SyncInv, NEW p \in Proc, Deinit(p)
    PROVE  SyncInv'
<1> DEFINE n == At[p]
<1>0. Main \in Node
  BY SyncAssumption
<1>1. /\ n \in Node /\ n # Main
      /\ wal' = wal \/ wal' = [wal EXCEPT ![n] = Empty]
      /\ wal'[n] = wal[n] \/ wal'[n] = Empty
      /\ \A m \in Node \ {n} : wal'[m] = wal[m]
      /\ \A q \in Proc : At[q] = n => pc[q] = "idle"
      /\ pc' = pc /\ last' = last /\ batch' = batch
  BY DeinitEffect DEF SyncInv, localVars
<1>2. Shape'
  BY <1>1 DEF SyncInv, Shape
<1>3. wal'[Main] = wal[Main] /\ Length(Main)' = Length(Main) /\ Length(Main) \in Nat
  BY <1>0, <1>1 DEF Length, SyncInv, LogInv
<1>4. DOMAIN Empty = 1 .. 0 /\ Empty = [s \in DOMAIN Empty |-> Empty[s]] /\ LastSeqId(Empty) = 0
  <2>1. DOMAIN Empty = 1 .. 0 /\ Empty = [s \in DOMAIN Empty |-> Empty[s]]
    BY DEF Empty
  <2> QED BY <2>1, LastOfInterval
<1>5. ASSUME NEW m \in Node
      PROVE  \/ wal'[m] = wal[m] /\ Length(m)' = Length(m)
             \/ m = n /\ wal'[m] = Empty /\ Length(m)' = 0
  BY <1>1, <1>4 DEF Length
<1>6. LogInv'
  <2> SUFFICES ASSUME NEW m \in Node
               PROVE  /\ wal'[m] = [s \in DOMAIN wal'[m] |-> wal'[m][s]]
                      /\ Length(m)' \in Nat
                      /\ DOMAIN wal'[m] = 1 .. Length(m)'
                      /\ Length(m)' <= Length(Main)'
                      /\ \A s \in 1 .. Length(m)' : wal'[m][s] = wal'[Main][s]
    BY DEF LogInv
  <2>1. CASE wal'[m] = wal[m] /\ Length(m)' = Length(m)
    BY <1>3, <2>1 DEF SyncInv, LogInv
  <2>2. CASE wal'[m] = Empty /\ Length(m)' = 0
    BY <1>3, <1>4, <2>2
  <2> QED BY <1>5, <2>1, <2>2
<1>7. ReadInv'
  <2> SUFFICES ASSUME NEW q \in Proc
               PROVE  /\ last[q] \in Nat /\ last[q] <= Length(At[q])'
                      /\ pc[q] = "idle" => last[q] = 0
    BY <1>1 DEF ReadInv
  <2>1. /\ last[q] \in Nat /\ last[q] <= Length(At[q]) /\ (pc[q] = "idle" => last[q] = 0)
        /\ At[q] \in Node
    BY SyncAssumption DEF SyncInv, ReadInv
  <2>2. CASE At[q] = n
    <3>1. last[q] = 0
      BY <1>1, <2>1, <2>2
    <3>2. Length(At[q])' \in Nat
      BY <1>6, <2>1 DEF LogInv
    <3> QED BY <2>1, <3>1, <3>2
  <2>3. CASE At[q] # n
    BY <1>5, <2>1, <2>3
  <2> QED BY <2>2, <2>3
<1>8. BatchInv'
  BY <1>1, <1>3 DEF SyncInv, BatchInv, Stretch
<1> QED BY <1>2, <1>6, <1>7, <1>8 DEF SyncInv

\* SyncInv is inductive.
LEMMA NextSyncInv == SyncInv /\ [Next]_vars => SyncInv'
<1> SUFFICES ASSUME SyncInv, [Next]_vars PROVE SyncInv'
  OBVIOUS
<1>1. ASSUME NEW p \in Proc, Start(p) \/ Step(p) \/ Abort(p)
      PROVE  SyncInv'
  <2>1. Shape' /\ (Quiet(p) \/ Appends(p) \/ SyncRequest(p) \/ SyncApply(p))
    BY <1>1, StepKinds DEF SyncInv
  <2> QED BY <2>1, QuietKeeps, AppendKeeps, RequestKeeps, ApplyKeeps
<1>2. CASE UNCHANGED vars
  BY <1>2 DEF vars, dbVars, localVars, SyncInv, Shape, LogInv, ReadInv, BatchInv, Stretch,
              Length
<1> QED BY <1>1, <1>2, DeinitKeeps DEF Next

\* SyncInv holds always.
THEOREM SyncInvariance == Spec => []SyncInv
BY InitSyncInv, NextSyncInv, PTL DEF Spec

\* The log of every node is a gap-free prefix of Main's log.
THEOREM LogPrefixTheorem == Spec => []LogPrefix
<1>1. SyncInv => LogPrefix
  <2> SUFFICES ASSUME SyncInv, NEW n \in Node
               PROVE  DOMAIN wal[n] = 1 .. LastSeqId(wal[n]) /\ IsRestriction(wal[n], wal[Main])
    BY DEF LogPrefix
  <2>1. Main \in Node
    BY SyncAssumption
  <2>2. /\ DOMAIN wal[n] = 1 .. Length(n) /\ DOMAIN wal[Main] = 1 .. Length(Main)
        /\ Length(n) \in Nat /\ Length(Main) \in Nat /\ Length(n) <= Length(Main)
        /\ \A s \in 1 .. Length(n) : wal[n][s] = wal[Main][s]
    BY <2>1 DEF SyncInv, LogInv
  <2>3. DOMAIN wal[n] \subseteq DOMAIN wal[Main]
    BY <2>2
  <2> QED BY <2>2, <2>3 DEF IsRestriction, Length
<1> QED BY <1>1, SyncInvariance, PTL

-----------------------------------------------------------------------------
(* The databases implement MetadataLog                                     *)

\* The logs of an initial state are an initial state of MetadataLog.
LEMMA InitRefines == Init => Replicated!Init
<1> SUFFICES ASSUME Init PROVE Replicated!Init
  OBVIOUS
<1> DEFINE k == Len(Joined)
<1>0. Main \in Node /\ k \in Nat
  BY SyncAssumption
<1>1. wal = [n \in Node |-> wal[n]]
  BY DEF Init
<1>2. DOMAIN Empty = 1 .. 0
  BY DEF Empty
<1>3. ASSUME NEW n \in Node
      PROVE  \/ wal[n] = Empty
             \/ wal[n] = [i \in 1 .. k |-> DeviceUpdate(i, Joined[i])] /\ wal[Main] = wal[n]
  BY <1>0, SyncAssumption DEF Init
<1>4. \E j \in {0} \cup DOMAIN wal[Main] : DOMAIN wal[Main] = 1 .. j
  <2>1. \E j \in Nat : DOMAIN wal[Main] = 1 .. j
    BY <1>0, <1>2, <1>3
  <2>2. PICK j \in Nat : DOMAIN wal[Main] = 1 .. j
    BY <2>1
  <2>3. j \in {0} \cup DOMAIN wal[Main]
    BY <2>2
  <2> QED BY <2>2, <2>3
<1> QED BY <1>1, <1>2, <1>3, <1>4 DEF Replicated!Init, Replicated!HasLength

\* Every step is a step of MetadataLog or leaves all logs as they are.
LEMMA StepRefines == SyncInv /\ [Next]_vars => [Replicated!Next]_wal
<1> SUFFICES ASSUME SyncInv, [Next]_vars PROVE Replicated!Next \/ wal' = wal
  OBVIOUS
<1>0. Main \in Node
  BY SyncAssumption
<1>1. ASSUME NEW p \in Proc, Appends(p)
      PROVE  Replicated!Append
  <2> DEFINE k == Length(Main)
  <2>1. k \in Nat /\ DOMAIN wal[Main] = 1 .. k /\ wal[Main] = [s \in DOMAIN wal[Main] |-> wal[Main][s]]
    BY <1>0 DEF SyncInv, LogInv
  <2>2. PICK e : wal' = [wal EXCEPT ![Main] = InsertOrIgnore(wal[Main],
                                       Single(k + 1, Versioned(files[Main], e)))]
    BY <1>1 DEF Appends, Length
  <2>3. wal'[Main] = InsertOrIgnore(wal[Main], Single(k + 1, Versioned(files[Main], e)))
    BY <1>0, <2>2 DEF SyncInv, Shape
  <2>4. DOMAIN wal'[Main] = 1 .. (k + 1) /\ \A s \in 1 .. k : wal'[Main][s] = wal[Main][s]
    BY <2>1, <2>3, InsertAtEnd
  <2>5. wal[Main] = Replicated!FirstOf(wal'[Main], (k + 1) - 1)
    <3>1. 1 .. ((k + 1) - 1) = 1 .. k
      BY <2>1
    <3>2. wal[Main] = [s \in 1 .. k |-> wal'[Main][s]]
      BY <2>1, <2>4
    <3> QED BY <3>1, <3>2 DEF Replicated!FirstOf
  <2>6. k + 1 \in {i \in DOMAIN wal'[Main] : Replicated!HasLength(wal'[Main], i)}
    BY <2>1, <2>4 DEF Replicated!HasLength
  <2>7. wal' = [wal EXCEPT ![Main] = wal'[Main]]
    BY <2>2, <2>3
  <2> QED BY <2>5, <2>6, <2>7 DEF Replicated!Append
<1>2. ASSUME NEW p \in Proc, SyncApply(p)
      PROVE  Replicated!Next \/ wal' = wal
  <2> DEFINE n == At[p]
  <2>0. n \in Node
    BY SyncAssumption
  <2>1. /\ wal'[n] = [s \in DOMAIN wal'[n] |-> wal'[n][s]]
        /\ Length(n)' \in Nat /\ DOMAIN wal'[n] = 1 .. Length(n)'
        /\ Length(n) <= Length(n)' /\ Length(n)' <= Length(Main)
        /\ \A s \in DOMAIN wal'[n] : wal'[n][s] = wal[Main][s]
        /\ wal'[Main] = wal[Main]
    BY <1>2, ApplyEffect
  <2>2. wal' = [wal EXCEPT ![n] = wal'[n]]
    BY <1>2, <2>0 DEF SyncApply, ApplyWalEntries, SyncInv, Shape
  <2>3. CASE n = Main
    <3>1. wal' = [wal EXCEPT ![Main] = wal[Main]]
      BY <2>1, <2>2, <2>3
    <3>2. wal = [m \in Node |-> wal[m]]
      BY DEF SyncInv, Shape
    <3> QED BY <1>0, <3>1, <3>2
  <2>4. CASE n # Main
    <3>1. /\ Length(n) \in Nat /\ DOMAIN wal[n] = 1 .. Length(n)
          /\ Length(Main) \in Nat /\ DOMAIN wal[Main] = 1 .. Length(Main)
      BY <1>0, <2>0 DEF SyncInv, LogInv
    <3>2. DOMAIN wal[n] \subseteq DOMAIN wal'[n]
      BY <2>1, <3>1
    <3>3. Length(n)' \in {0} \cup DOMAIN wal[Main]
      BY <2>1, <3>1
    <3>4. wal'[n] = Replicated!FirstOf(wal[Main], Length(n)')
      BY <2>1 DEF Replicated!FirstOf
    <3>5. Replicated!CatchUp(n)
      BY <2>2, <2>4, <3>2, <3>3, <3>4 DEF Replicated!CatchUp
    <3> QED BY <2>0, <3>5 DEF Replicated!Next
  <2> QED BY <2>3, <2>4
<1>3. ASSUME NEW p \in Proc, Start(p) \/ Step(p) \/ Abort(p)
      PROVE  Replicated!Next \/ wal' = wal
  <2>1. Quiet(p) \/ Appends(p) \/ SyncRequest(p) \/ SyncApply(p)
    BY <1>3, StepKinds DEF SyncInv
  <2> QED BY <1>1, <1>2, <2>1 DEF Quiet, SyncRequest, dbVars, Replicated!Next
<1>4. ASSUME NEW p \in Proc, Deinit(p)
      PROVE  Replicated!Next \/ wal' = wal
  <2> DEFINE n == At[p]
  <2>1. n \in Node /\ n # Main /\ (wal' = wal \/ wal' = [wal EXCEPT ![n] = Empty])
    BY <1>4, DeinitEffect DEF SyncInv
  <2>2. Empty = Replicated!FirstOf(wal[Main], 0)
    BY DEF Empty, Replicated!FirstOf
  <2>3. wal' = wal \/ Replicated!StartOver(n)
    BY <2>1, <2>2 DEF Replicated!StartOver
  <2> QED BY <2>1, <2>3 DEF Replicated!Next
<1>5. CASE UNCHANGED vars
  BY <1>5 DEF vars, dbVars
<1> QED BY <1>3, <1>4, <1>5 DEF Next

\* Every behaviour of the databases is a behaviour of the replicated log: Main
\* appends one entry at a time, everybody else catches up or starts over.
THEOREM Refinement == Spec => ImplementsMetadataLog
<1>1. Spec => Replicated!Init /\ [][Replicated!Next]_wal
  BY InitRefines, StepRefines, SyncInvariance, PTL DEF Spec
<1> QED BY <1>1 DEF ImplementsMetadataLog, Replicated!Spec

-----------------------------------------------------------------------------
(* Rows and owners come from the log                                       *)

\* What justifies the row at a key, and an owner, in a log.
RowFrom(w, k, row) ==
    \E s \in DOMAIN w : /\ IsFileEntry(w[s])
                        /\ k = <<w[s].path, w[s].version>>
                        /\ row = RowOf(w[s])
OwnerFrom(w, x) == \E s \in DOMAIN w : Adds(w[s], x[1], x[2])

\* Every row after a batch was there before or is written by the batch.
LEMMA AppliedRows ==
    ASSUME NEW f, NEW b, NEW m \in Nat, DOMAIN b \subseteq 0 .. m,
           NEW k \in DOMAIN ApplyToFiles(f, b)
    PROVE  \/ k \in DOMAIN f /\ ApplyToFiles(f, b)[k] = f[k]
           \/ RowFrom(b, k, ApplyToFiles(f, b)[k])
<1> DEFINE W == WrittenRows(b)
<1>1. /\ k \in DOMAIN W \cup DOMAIN f
      /\ ApplyToFiles(f, b)[k] = IF k \in DOMAIN W THEN W[k] ELSE f[k]
  BY DEF ApplyToFiles, InsertOrReplace, InsertOrIgnore
<1>2. CASE k \in DOMAIN W
  <2>1. PICK r \in DOMAIN b : IsFileEntry(b[r]) /\ k = <<b[r].path, b[r].version>>
    BY <1>2 DEF WrittenRows
  <2> DEFINE S == FileWrites(b, k[1], k[2])
  <2>2. r \in S
    BY <2>1 DEF FileWrites
  <2>3. S \subseteq 0 .. m /\ S # {}
    BY <2>2 DEF FileWrites
  <2>4. Max(S) \in S
    BY <2>3, MaxOfBounded
  <2>5. W[k] = RowOf(b[Max(S)])
    BY <1>2 DEF WrittenRows
  <2>6. /\ Max(S) \in DOMAIN b /\ IsFileEntry(b[Max(S)])
        /\ b[Max(S)].path = k[1] /\ b[Max(S)].version = k[2]
    BY <2>4 DEF FileWrites
  <2>7. k = <<b[Max(S)].path, b[Max(S)].version>>
    BY <2>1, <2>6
  <2> QED BY <1>1, <1>2, <2>5, <2>6, <2>7 DEF RowFrom
<1>3. CASE k \notin DOMAIN W
  BY <1>1, <1>3
<1> QED BY <1>2, <1>3

\* Every owner after a batch was there before or is added by the batch.
LEMMA AppliedOwners ==
    ASSUME NEW o, NEW b, NEW x \in ApplyToOwners(o, b)
    PROVE  x \in o \/ OwnerFrom(b, x)
BY DEF ApplyToOwners, AddedOwners, Adds, OwnerFrom

\* The backfill adds the owners of rows, whom the log justifies as well.
LEMMA BackfilledOwners ==
    ASSUME NEW w, NEW f, NEW o, NEW x \in Backfill(f, o),
           \A k \in DOMAIN f : RowFrom(w, k, f[k]),
           \A y \in o : OwnerFrom(w, y)
    PROVE  OwnerFrom(w, x)
<1>1. CASE x \in o
  BY <1>1
<1>2. CASE x \notin o
  <2>1. PICK k \in DOMAIN f : f[k].hash # None /\ x = <<f[k].hash, f[k].owner>>
    BY <1>2 DEF Backfill
  <2>2. PICK s \in DOMAIN w : IsFileEntry(w[s]) /\ f[k] = RowOf(w[s])
    BY DEF RowFrom
  <2>3. w[s].op = "FileUpdate" /\ x = <<w[s].hash, w[s].owner>>
    BY <2>1, <2>2 DEF IsFileEntry, RowOf
  <2> QED BY <2>3 DEF OwnerFrom, Adds
<1> QED BY <1>1, <1>2

\* A longer log justifies what a shorter one did.
LEMMA JustifiedByMore ==
    ASSUME NEW w, NEW u, DOMAIN w \subseteq DOMAIN u, \A s \in DOMAIN w : u[s] = w[s]
    PROVE  /\ \A k, row : RowFrom(w, k, row) => RowFrom(u, k, row)
           /\ \A x : OwnerFrom(w, x) => OwnerFrom(u, x)
BY DEF RowFrom, OwnerFrom

Justified(n) ==
    /\ \A k \in DOMAIN files[n] : RowFrom(wal[n], k, files[n][k])
    /\ \A x \in owners[n] : OwnerFrom(wal[n], x)

Tables == files = [n \in Node |-> files[n]] /\ owners = [n \in Node |-> owners[n]]

\* A step that learns nothing: rows may go, owners may come from rows.
Tame ==
    /\ wal' = wal
    /\ Tables'
    /\ \A n \in Node :
         /\ \A k \in DOMAIN files'[n] : k \in DOMAIN files[n] /\ files'[n][k] = files[n][k]
         /\ owners'[n] \subseteq Backfill(files[n], owners[n])

\* Steps that leave log, rows and owners alone are tame ...
LEMMA StillIsTame ==
    ASSUME Tables, UNCHANGED <<wal, files, owners>>
    PROVE  Tame
BY DEF Tables, Tame, Backfill

\* ... opening a database (the backfill of ensure_schema) is ...
LEMMA OpeningIsTame ==
    ASSUME Tables, NEW n \in Node, OpenDatabase(n), UNCHANGED <<wal, files>>
    PROVE  Tame
BY DEF Tables, Tame, Backfill, OpenDatabase

\* ... and so is cleanOldVersions, which only drops rows.
LEMMA CleaningIsTame ==
    ASSUME Tables, NEW p \in Proc, CleanupRows(p)
    PROVE  Tame
<1>0. At[p] \in Node
  BY SyncAssumption
<1>1. CASE UNCHANGED files
  BY <1>0, <1>1, OpeningIsTame DEF CleanupRows
<1>2. CASE files' = [files EXCEPT ![At[p]] = CleanOldVersions(@, job[p].paths, job[p].keep)]
  <2> DEFINE n == At[p]
             kept == CleanOldVersions(files[n], job[p].paths, job[p].keep)
  <2>1. \A k \in DOMAIN kept : k \in DOMAIN files[n] /\ kept[k] = files[n][k]
    BY DEF CleanOldVersions, Restrict
  <2>2. files'[n] = kept /\ \A m \in Node \ {n} : files'[m] = files[m]
    BY <1>0, <1>2 DEF Tables
  <2>3. \A m \in Node : \A k \in DOMAIN files'[m] :
          k \in DOMAIN files[m] /\ files'[m][k] = files[m][k]
    BY <2>1, <2>2
  <2>4. owners' = [owners EXCEPT ![n] = Backfill(files[n], owners[n])] /\ wal' = wal
    BY DEF CleanupRows, OpenDatabase
  <2>5. \A m \in Node : owners'[m] \subseteq Backfill(files[m], owners[m])
    BY <1>0, <2>4 DEF Tables, Backfill
  <2>6. Tables'
    BY <1>2, <2>4 DEF Tables
  <2> QED BY <2>3, <2>4, <2>5, <2>6 DEF Tame
<1> QED BY <1>1, <1>2 DEF CleanupRows

\* Each action of a process is tame, adds an entry on Main or applies an answer.
LEMMA TableKinds ==
    ASSUME NEW p \in Proc, Tables, Start(p) \/ Step(p) \/ Abort(p)
    PROVE  Tame \/ (\E e : AddWalEntry(e)) \/ SyncApply(p)
<1>0. At[p] \in Node
  BY SyncAssumption
<1>1. ASSUME NEW c, NEW paths, NEW next, StartSync(p, c, paths, next)
      PROVE  Tame
  BY <1>0, <1>1, OpeningIsTame DEF StartSync
<1>2. CASE Start(p)
  <2>1. CASE StartConnect(p)
    BY <1>0, <2>1, OpeningIsTame DEF StartConnect
  <2>2. CASE \/ StartUpdate(p) \/ StartPush(p) \/ StartPull(p) \/ StartCleanup(p)
             \/ StartRemove(p)
    BY <1>1, <2>2 DEF StartUpdate, StartPush, StartPull, StartCleanup, StartRemove
  <2>3. CASE Disconnect(p)
    BY <1>0, <2>3, OpeningIsTame DEF Disconnect
  <2>4. ASSUME NEW path \in Path, NEW hash \in Hash, AddObject(p, path, hash)
        PROVE  Tame
    BY <1>0, <2>4, OpeningIsTame DEF AddObject
  <2>5. CASE Unstage(p)
    BY <1>0, <2>5, OpeningIsTame DEF Unstage
  <2> QED BY <1>2, <2>1, <2>2, <2>3, <2>4, <2>5 DEF Start
<1>3. CASE \/ Register(p) \/ Configure(p) \/ SyncRequest(p) \/ Report(p) \/ AddStage(p)
           \/ PushCollect(p) \/ PushLock(p) \/ PushSettle(p) \/ PullFetch(p)
           \/ CleanupScan(p) \/ CleanupDelete(p) \/ Unreachable(p) \/ Abort(p)
  BY <1>3, StillIsTame
     DEF Register, Configure, SyncRequest, Report, AddStage, PushCollect, PushLock, PushSettle,
         PullFetch, CleanupScan, CleanupDelete, Unreachable, Abort, dbVars
<1>4. CASE SyncRead(p) \/ PushOpen(p) \/ PullOpen(p) \/ CleanupSelect(p)
  BY <1>0, <1>4, OpeningIsTame DEF SyncRead, PushOpen, PullOpen, CleanupSelect
<1>5. CASE CleanupRows(p)
  BY <1>5, CleaningIsTame
<1>6. CASE RegisterLog(p) \/ PushAppend(p)
  BY <1>6 DEF RegisterLog, PushAppend
<1> QED BY <1>2, <1>3, <1>4, <1>5, <1>6 DEF Step

\* A batch of entries, applied to a node whose log then contains them, leaves
\* everything there justified.
LEMMA ApplyJustifies ==
    ASSUME NEW n \in Node, Justified(n), NEW m \in Nat,
           NEW b, DOMAIN b \subseteq 0 .. m,
           DOMAIN wal[n] \subseteq DOMAIN wal'[n],
           \A s \in DOMAIN wal[n] : wal'[n][s] = wal[n][s],
           DOMAIN b \subseteq DOMAIN wal'[n],
           \A s \in DOMAIN b : wal'[n][s] = b[s],
           files'[n] = ApplyToFiles(files[n], b),
           owners'[n] = ApplyToOwners(owners[n], b)
    PROVE  Justified(n)'
<1>1. ASSUME NEW k \in DOMAIN files'[n]
      PROVE  RowFrom(wal'[n], k, files'[n][k])
  <2>1. \/ k \in DOMAIN files[n] /\ files'[n][k] = files[n][k]
        \/ RowFrom(b, k, files'[n][k])
    BY <1>1, AppliedRows
  <2>2. CASE k \in DOMAIN files[n] /\ files'[n][k] = files[n][k]
    BY <2>2, JustifiedByMore DEF Justified
  <2>3. CASE RowFrom(b, k, files'[n][k])
    BY <2>3, JustifiedByMore
  <2> QED BY <2>1, <2>2, <2>3
<1>2. ASSUME NEW x \in owners'[n]
      PROVE  OwnerFrom(wal'[n], x)
  <2>1. x \in owners[n] \/ OwnerFrom(b, x)
    BY <1>2, AppliedOwners
  <2>2. CASE x \in owners[n]
    BY <2>2, JustifiedByMore DEF Justified
  <2>3. CASE OwnerFrom(b, x)
    BY <2>3, JustifiedByMore
  <2> QED BY <2>1, <2>2, <2>3
<1> QED BY <1>1, <1>2 DEF Justified

JustifiedInv == Tables /\ \A n \in Node : Justified(n)

\* A tame step leaves rows and owners justified.
LEMMA TameKeepsJustified ==
    ASSUME JustifiedInv, Tame
    PROVE  JustifiedInv'
<1>1. ASSUME NEW n \in Node
      PROVE  Justified(n)'
  <2>1. ASSUME NEW k \in DOMAIN files'[n]
        PROVE  RowFrom(wal'[n], k, files'[n][k])
    BY <1>1, <2>1 DEF JustifiedInv, Justified, Tame
  <2>2. ASSUME NEW x \in owners'[n]
        PROVE  OwnerFrom(wal'[n], x)
    <3>1. x \in Backfill(files[n], owners[n]) /\ wal'[n] = wal[n]
      BY <1>1, <2>2 DEF Tame
    <3>2. /\ \A k \in DOMAIN files[n] : RowFrom(wal[n], k, files[n][k])
          /\ \A y \in owners[n] : OwnerFrom(wal[n], y)
      BY <1>1 DEF JustifiedInv, Justified
    <3> QED BY <3>1, <3>2, BackfilledOwners
  <2> QED BY <2>1, <2>2 DEF Justified
<1> QED BY <1>1 DEF JustifiedInv, Tame

\* So does addWalEntry: what it writes comes from the entry it adds.
LEMMA AddKeepsJustified ==
    ASSUME SyncInv, JustifiedInv, NEW e, AddWalEntry(e)
    PROVE  JustifiedInv'
<1> DEFINE k == Length(Main)
           v == Versioned(files[Main], e)
           new == Single(k + 1, v)
<1>0. Main \in Node /\ k \in Nat /\ DOMAIN wal[Main] = 1 .. k
  BY SyncAssumption DEF SyncInv, LogInv
<1>1. /\ wal' = [wal EXCEPT ![Main] = InsertOrIgnore(wal[Main], new)]
      /\ files' = [files EXCEPT ![Main] = ApplyToFiles(files[Main], new)]
      /\ owners' = [owners EXCEPT ![Main] = ApplyToOwners(owners[Main], new)]
  BY DEF AddWalEntry, Length
<1>2. /\ wal'[Main] = InsertOrIgnore(wal[Main], new)
      /\ files'[Main] = ApplyToFiles(files[Main], new)
      /\ owners'[Main] = ApplyToOwners(owners[Main], new)
  BY <1>0, <1>1 DEF SyncInv, Shape, JustifiedInv, Tables
<1>3. /\ DOMAIN wal'[Main] = 1 .. (k + 1)
      /\ \A s \in 1 .. k : wal'[Main][s] = wal[Main][s]
      /\ wal'[Main][k + 1] = v
  BY <1>0, <1>2, InsertAtEnd
<1>4. DOMAIN new = {k + 1} /\ new[k + 1] = v
  BY DEF Single
<1>5. Justified(Main)'
  <2>1. DOMAIN new \subseteq 0 .. (k + 1) /\ k + 1 \in Nat
    BY <1>0, <1>4
  <2>2. DOMAIN wal[Main] \subseteq DOMAIN wal'[Main]
    BY <1>0, <1>3
  <2>3. DOMAIN new \subseteq DOMAIN wal'[Main] /\ \A s \in DOMAIN new : wal'[Main][s] = new[s]
    BY <1>0, <1>3, <1>4
  <2>4. Justified(Main)
    BY <1>0 DEF JustifiedInv
  <2> HIDE DEF new, k
  <2> QED BY <1>0, <1>2, <1>3, <2>1, <2>2, <2>3, <2>4, ApplyJustifies
<1>6. ASSUME NEW n \in Node, n # Main
      PROVE  Justified(n)'
  BY <1>1, <1>6 DEF SyncInv, Shape, JustifiedInv, Tables, Justified
<1>7. Tables'
  BY <1>1 DEF JustifiedInv, Tables
<1> QED BY <1>5, <1>6, <1>7 DEF JustifiedInv

\* So does a sync: what it writes comes from its answer, which the log then has.
LEMMA SyncKeepsJustified ==
    ASSUME SyncInv, JustifiedInv, NEW p \in Proc, SyncApply(p)
    PROVE  JustifiedInv'
<1> DEFINE n == At[p]
           b == batch[p]
<1>0. n \in Node /\ Main \in Node
  BY SyncAssumption
<1>1. /\ wal' = [wal EXCEPT ![n] = InsertOrIgnore(wal[n], b)]
      /\ files' = [files EXCEPT ![n] = ApplyToFiles(files[n], b)]
      /\ owners' = [owners EXCEPT ![n] = ApplyToOwners(owners[n], b)]
  BY DEF SyncApply, ApplyWalEntries
<1>2. /\ wal'[n] = InsertOrIgnore(wal[n], b)
      /\ files'[n] = ApplyToFiles(files[n], b)
      /\ owners'[n] = ApplyToOwners(owners[n], b)
  BY <1>0, <1>1 DEF SyncInv, Shape, JustifiedInv, Tables
<1>3. PICK to \in 0 .. Length(Main) : Stretch(b, last[p], to)
  BY DEF SyncInv, BatchInv, SyncApply
<1>4. /\ DOMAIN wal[n] \subseteq DOMAIN wal'[n]
      /\ DOMAIN b \subseteq DOMAIN wal'[n]
      /\ \A s \in DOMAIN wal[n] : wal'[n][s] = wal[n][s]
  BY <1>2 DEF InsertOrIgnore
<1>5. \A s \in DOMAIN b : wal'[n][s] = b[s]
  <2>1. \A s \in DOMAIN wal'[n] : wal'[n][s] = wal[Main][s]
    BY ApplyEffect
  <2> QED BY <1>3, <1>4, <2>1 DEF Stretch
<1>6. Justified(n)'
  <2>1. Length(Main) \in Nat
    BY <1>0 DEF SyncInv, LogInv
  <2>2. DOMAIN b \subseteq 0 .. Length(Main)
    BY <1>3, <2>1 DEF Stretch
  <2>3. Justified(n)
    BY <1>0 DEF JustifiedInv
  <2> HIDE DEF n, b
  <2> QED BY <1>0, <1>2, <1>4, <1>5, <2>1, <2>2, <2>3, ApplyJustifies
<1>7. ASSUME NEW m \in Node, m # n
      PROVE  Justified(m)'
  BY <1>1, <1>7 DEF SyncInv, Shape, JustifiedInv, Tables, Justified
<1>8. Tables'
  BY <1>1 DEF JustifiedInv, Tables
<1> QED BY <1>6, <1>7, <1>8 DEF JustifiedInv

\* So does deinit: an empty database claims nothing.
LEMMA DeinitKeepsJustified ==
    ASSUME Shape, JustifiedInv, NEW p \in Proc, Deinit(p)
    PROVE  JustifiedInv'
<1> DEFINE n == At[p]
<1>1. CASE UNCHANGED dbVars
  BY <1>1, StillIsTame, TameKeepsJustified DEF dbVars, JustifiedInv
<1>2. CASE /\ wal' = [wal EXCEPT ![n] = Empty]
           /\ files' = [files EXCEPT ![n] = Empty]
           /\ owners' = [owners EXCEPT ![n] = {}]
  <2>1. Tables'
    BY <1>2 DEF JustifiedInv, Tables
  <2>2. ASSUME NEW m \in Node
        PROVE  Justified(m)'
    <3>1. CASE m = n
      BY <1>2, <3>1 DEF JustifiedInv, Tables, Justified, Empty
    <3>2. CASE m # n
      BY <1>2, <3>2 DEF Shape, JustifiedInv, Tables, Justified
    <3> QED BY <3>1, <3>2
  <2> QED BY <2>1, <2>2 DEF JustifiedInv
<1> QED BY <1>1, <1>2 DEF Deinit

\* Initially there is nothing to justify.
LEMMA InitJustified == Init => JustifiedInv
BY DEF Init, JustifiedInv, Tables, Justified, Empty

\* JustifiedInv is inductive, relative to SyncInv.
LEMMA NextJustified == SyncInv /\ JustifiedInv /\ [Next]_vars => JustifiedInv'
<1> SUFFICES ASSUME SyncInv, JustifiedInv, [Next]_vars PROVE JustifiedInv'
  OBVIOUS
<1>1. ASSUME NEW p \in Proc, Start(p) \/ Step(p) \/ Abort(p)
      PROVE  JustifiedInv'
  <2>1. Tame \/ (\E e : AddWalEntry(e)) \/ SyncApply(p)
    BY <1>1, TableKinds DEF JustifiedInv
  <2> QED BY <2>1, TameKeepsJustified, AddKeepsJustified, SyncKeepsJustified
<1>2. ASSUME NEW p \in Proc, Deinit(p)
      PROVE  JustifiedInv'
  BY <1>2, DeinitKeepsJustified DEF SyncInv
<1>3. CASE UNCHANGED vars
  BY <1>3, StillIsTame, TameKeepsJustified DEF vars, dbVars, JustifiedInv
<1> QED BY <1>1, <1>2, <1>3 DEF Next

\* What a node believes comes from its log, always.
THEOREM JustifiedInvariance == Spec => []JustifiedInv
BY InitJustified, NextJustified, SyncInvariance, PTL DEF Spec

\* No node invents a file row: whatever it shows, its log says (batches that
\* are applied again, rows that are cleaned up and every open included).
THEOREM RowsTheorem == Spec => []RowsJustified
<1>1. JustifiedInv => RowsJustified
  BY DEF JustifiedInv, Justified, RowFrom, RowsJustified
<1> QED BY <1>1, JustifiedInvariance, PTL

\* No node invents an owner, although every open derives owners from rows.
THEOREM OwnersTheorem == Spec => []OwnersJustified
<1>1. JustifiedInv => OwnersJustified
  BY DEF JustifiedInv, Justified, OwnerFrom, OwnersJustified
<1> QED BY <1>1, JustifiedInvariance, PTL
===============================================================================
