------------------------- MODULE ObjectTransferProofs -------------------------
(***************************************************************************)
(* Proofs about ObjectTransfer, for any content, any list of owners, any   *)
(* chunk size and any number of threads: locks, chunks and owners, and     *)
(* that what arrives is what was sent.                                     *)
(***************************************************************************)
EXTENDS ObjectTransfer, SequenceTheorems, WellFoundedInduction, TLAPS

-----------------------------------------------------------------------------
(* The inductive invariant                                                 *)

\* Threads work only while pull_file waits for them.
Settled == pull # "download" => \A t \in Thread : thread[t].at = "done"

\* Only a file that has been downloaded is copied into the object directory.
Downloaded == pull \in {"create", "copy"} => file # NoFile

\* The object locks that are held are those of the threads that read.
Serving == \A n \in Node, t \in Thread :
               t \in readers[n] <=> (Reading(t) /\ OwnerOf(t) = n)

\* Chunk indices are given out once, in order, and each has a chunk file.
InRange ==
    /\ pull = "download" => Len(chunk) = ChunkCount(size)
    /\ \A t \in Thread : Busy(t) => /\ thread[t].index < nextChunk
                                    /\ thread[t].index < Len(chunk)

\* Where nothing is filled in place, a file that others can read is complete.
Whole == Trusted =>
    /\ \A n \in Node \ {Me} : obj[n] \in {NoFile, Right}
    /\ \A n \in world.reliable : n \in up /\ obj[n] = Right
    /\ pull \in {"size", "download"} => obj[Me] = NoFile
    /\ pull = "download" => size = Len(Right)

\* Every thread at work still has a reliable owner before it.
Untried == Trusted =>
    /\ \A t \in Thread :
          /\ Busy(t) => \E b \in thread[t].attempt .. Len(Owners) - 1 :
                            Owners[((thread[t].index + b) % Len(Owners)) + 1] \in world.reliable
          /\ thread[t].at = "lost" => OwnerOf(t) \notin world.reliable
    /\ pull = "idle" => asked = 0

TransferInv ==
    /\ TypeOK
    /\ Settled /\ Downloaded /\ Serving /\ ServedStays
    /\ InRange /\ ChunkHasOneWriter
    /\ Whole /\ Untried /\ ReliableOwnerSuffices

-----------------------------------------------------------------------------
(* Arithmetic                                                              *)

\* Products grow with their factors.
LEMMA Multiples ==
    ASSUME NEW c \in Nat \ {0}, NEW p \in Nat, NEW q \in Nat, p + 1 <= q
    PROVE  p * c + c <= q * c
BY SMT

\* A quotient of naturals, rounded down.
LEMMA Quotient ==
    ASSUME NEW c \in Nat \ {0}, NEW a \in Nat
    PROVE  /\ a \div c \in Nat
           /\ (a \div c) * c <= a
           /\ a < (a \div c) * c + c
BY SMT

\* A remainder is an index.
LEMMA Remainder ==
    ASSUME NEW c \in Nat \ {0}, NEW a \in Nat
    PROVE  a % c \in 0 .. c - 1
BY SMT

\* Whole multiples do not count for a remainder.
LEMMA RemainderOf ==
    ASSUME NEW c \in Nat \ {0}, NEW q \in Nat, NEW r \in 0 .. c - 1
    PROVE  (q * c + r) % c = r
BY SMT

\* Counting on from any number, c steps meet every remainder: a chunk is
\* tried at every owner.
LEMMA EveryRemainder ==
    ASSUME NEW c \in Nat \ {0}, NEW a \in Nat, NEW k \in 0 .. c - 1
    PROVE  \E b \in 0 .. c - 1 : (a + b) % c = k
<1> DEFINE q == a \div c
           r == a - q * c
<1>1. q \in Nat /\ q * c \in Nat /\ r \in 0 .. c - 1
  BY Quotient, SMT
<1> HIDE DEF q
<1>2. CASE k >= r
  <2>1. k - r \in 0 .. c - 1 /\ a + (k - r) = q * c + k
    BY <1>1, <1>2, SMT
  <2>2. (q * c + k) % c = k
    BY <1>1, RemainderOf
  <2> QED BY <2>1, <2>2
<1>3. CASE k < r
  <2>1. k - r + c \in 0 .. c - 1 /\ a + (k - r + c) = (q + 1) * c + k
    BY <1>1, <1>3, SMT
  <2>2. q + 1 \in Nat
    BY <1>1, SMT
  <2>3. ((q + 1) * c + k) % c = k
    BY <2>2, RemainderOf
  <2> QED BY <2>1, <2>3
<1> QED BY <1>1, <1>2, <1>3, SMT

\* The chunks of a file are numbered by naturals, and each begins inside it.
LEMMA ChunksCover ==
    ASSUME NEW s \in Nat
    PROVE  /\ ChunkCount(s) \in Nat
           /\ \A p \in Nat : p < ChunkCount(s) => p * ChunkSize \in 0 .. s - 1
<1>1. ChunkSize \in Nat \ {0}
  BY TransferAssumption
<1> DEFINE c == ChunkSize
           q == (s + c - 1) \div c
<1>2. q \in Nat /\ q * c <= s + c - 1
  BY <1>1, Quotient, SMT
<1>3. ASSUME NEW p \in Nat, p < q
      PROVE  p * c \in 0 .. s - 1
  <2> HIDE DEF q
  <2>1. p * c + c <= q * c
    BY <1>1, <1>2, <1>3, Multiples
  <2>2. p * c \in Nat /\ q * c \in Nat
    BY <1>1, <1>2, SMT
  <2> QED BY <1>1, <1>2, <2>1, <2>2, SMT
<1> QED BY <1>2, <1>3 DEF ChunkCount

\* Least finds the smaller one of two numbers.
LEMMA LeastOfTwo ==
    ASSUME NEW x \in Nat, NEW y \in Nat
    PROVE  Least({x, y}) = IF x <= y THEN x ELSE y
BY DEF Least

-----------------------------------------------------------------------------
(* Owners                                                                  *)

\* The owner a thread turns to is one of the list.
LEMMA OwnerIsOwner ==
    ASSUME TypeOK, NEW t \in Thread
    PROVE  OwnerOf(t) \in Node
<1>1. Len(Owners) \in Nat \ {0} /\ Owners \in Seq(Node)
  BY TransferAssumption
<1>2. thread[t].index + thread[t].attempt \in Nat
  <2>1. thread[t] \in ThreadState
    BY DEF TypeOK
  <2> QED BY <1>1, <2>1 DEF ThreadState
<1>3. (thread[t].index + thread[t].attempt) % Len(Owners) \in 0 .. Len(Owners) - 1
  BY <1>1, <1>2, Remainder
<1> QED BY <1>1, <1>3 DEF OwnerOf
-----------------------------------------------------------------------------
(* Types                                                                   *)

\* A thread that has nothing to do is a thread.
LEMMA NoThreadType ==
    /\ NoThread \in ThreadState /\ NoThread.at = "done"
    /\ [NoThread EXCEPT !.at = "test"] \in ThreadState
<1>1. Len(Owners) \in Nat \ {0}
  BY TransferAssumption
<1>2. NoThread \in ThreadState
  BY <1>1 DEF NoThread, ThreadState
<1>3. NoThread.at = "done"
  BY DEF NoThread
<1>4. [NoThread EXCEPT !.at = "test"] \in ThreadState
  BY <1>2 DEF ThreadState
<1> QED BY <1>2, <1>3, <1>4

\* Every variable begins with its type.
LEMMA TypeInit == Init => TypeOK
<1> SUFFICES ASSUME Init PROVE TypeOK
  OBVIOUS
<1>1. thread \in [Thread -> ThreadState]
  BY NoThreadType DEF Init
<1>2. obj \in [Node -> Content] /\ file \in Content
  BY TransferAssumption DEF Init, Content
<1>3. readers \in [Node -> SUBSET Thread]
  BY DEF Init
<1>4. asked \in 0 .. Len(Owners) - 1
  BY TransferAssumption DEF Init
<1>5. chunk \in Seq(Content)
  BY DEF Init
<1> QED BY <1>1, <1>2, <1>3, <1>4, <1>5 DEF Init, TypeOK

\* What Return does to the types.
LEMMA ReturnType ==
    ASSUME NEW label \in {"idle", "failed"}, Return(label)
    PROVE  /\ pull' \in {"idle", "failed"}
           /\ readOnly' \in BOOLEAN /\ share' \in BOOLEAN /\ failed' \in BOOLEAN
           /\ asked' \in 0 .. Len(Owners) - 1
           /\ size' \in Nat /\ nextChunk' \in Nat
           /\ chunk' \in Seq(Content)
           /\ thread' \in [Thread -> ThreadState]
<1>1. thread' \in [Thread -> ThreadState]
  BY NoThreadType DEF Return, Discard
<1>2. asked' \in 0 .. Len(Owners) - 1
  BY TransferAssumption DEF Return, Discard
<1>3. chunk' \in Seq(Content)
  BY DEF Return, Discard
<1> QED BY <1>1, <1>2, <1>3 DEF Return, Discard

\* The steps of pull_file keep the types.
LEMMA PullTypes ==
    ASSUME TypeOK, Downloaded, PullStep, UNCHANGED world
    PROVE  TypeOK'
<1> USE DEF TypeOK
<1>1. CASE AskSize
  <2> DEFINE n == Owners[asked + 1]
  <2>1. n \in Node
    BY TransferAssumption
  <2>2. ASSUME n \in up, obj[n] # NoFile, size' = Len(obj[n]), pull' = "download",
               thread' = [t \in Thread |-> IF t <= ThreadCount(ChunkCount(size'))
                                           THEN [NoThread EXCEPT !.at = "test"]
                                           ELSE NoThread],
               chunk' = [i \in 1 .. ChunkCount(size') |-> NoFile],
               UNCHANGED <<kindVars, asked, nextChunk, failed, assembled>>
        PROVE  TypeOK'
    <3>1. size' \in Nat
      BY <2>1, <2>2 DEF Content
    <3>2. ChunkCount(size') \in Nat
      BY <3>1, ChunksCover
    <3>3. NoFile \in Content
      BY DEF Content
    <3>4. chunk' \in Seq(Content)
      <4>1. chunk' \in [1 .. ChunkCount(size') -> Content]
        BY <2>2, <3>3
      <4> QED BY <3>2, <4>1, SeqDef
    <3> QED BY <1>1, <2>2, <3>1, <3>4, NoThreadType DEF AskSize, kindVars
  <2>3. CASE Return("failed")
    BY <1>1, <2>3, ReturnType DEF AskSize
  <2>4. CASE /\ asked + 1 < Len(Owners) /\ asked' = asked + 1
             /\ UNCHANGED <<pull, kindVars, size, nextChunk, failed, chunk, assembled, thread>>
    BY <1>1, <2>4, TransferAssumption DEF AskSize, kindVars
  <2> QED BY <1>1, <2>2, <2>3, <2>4 DEF AskSize
<1>2. CASE Join
  BY <1>2, ReturnType DEF Join, kindVars
<1>3. CASE Verify
  <2>1. Right \in Content
    BY TransferAssumption DEF Content
  <2>2. CASE assembled = Right
    <3>1. obj' \in [Node -> Content] /\ file' \in Content
      BY <1>3, <2>1, <2>2 DEF Verify
    <3>2. pull' \in {"materialize", "create", "done"}
      BY <1>3, <2>2 DEF Verify
    <3> QED BY <1>3, <2>2, <3>1, <3>2 DEF Verify, kindVars, downloadVars
  <2>3. CASE assembled # Right
    BY <1>3, <2>3, ReturnType DEF Verify
  <2> QED BY <2>2, <2>3
<1>4. CASE Materialize
  BY <1>4, ReturnType, TransferAssumption DEF Materialize, kindVars, downloadVars
<1>5. CASE CreateObject
  BY <1>5, TransferAssumption DEF CreateObject, kindVars, downloadVars, Content
<1>6. CASE CopyUnit
  <2>1. obj' \in [Node -> Content]
    <3>1. CASE obj[Me] # NoFile /\ Len(obj[Me]) < Len(file)
      <4>1. Me \in Node
        BY TransferAssumption
      <4>2. obj[Me] \in Seq(Unit)
        BY <3>1, <4>1 DEF Content
      <4>3. file \in Seq(Unit)
        BY <1>6 DEF CopyUnit, Content, Downloaded
      <4>4. file[Len(obj[Me]) + 1] \in Unit
        BY <3>1, <4>2, <4>3
      <4>5. Append(obj[Me], file[Len(obj[Me]) + 1]) \in Content
        BY <4>2, <4>4 DEF Content
      <4> QED BY <1>6, <3>1, <4>1, <4>5 DEF CopyUnit
    <3>2. CASE ~(obj[Me] # NoFile /\ Len(obj[Me]) < Len(file))
      BY <1>6, <3>2 DEF CopyUnit
    <3> QED BY <3>1, <3>2
  <2> QED BY <1>6, <2>1 DEF CopyUnit, kindVars, downloadVars
<1>7. CASE End
  BY <1>7, ReturnType DEF End
<1> QED BY <1>1, <1>2, <1>3, <1>4, <1>5, <1>6, <1>7 DEF PullStep

\* The steps of a thread keep the types.
LEMMA ThreadTypes ==
    ASSUME TypeOK, InRange, Settled, ServedStays, NEW t \in Thread, ThreadStep(t), UNCHANGED world
    PROVE  TypeOK'
<1> USE DEF TypeOK
<1>1. thread[t] \in ThreadState /\ OwnerOf(t) \in Node
  BY OwnerIsOwner
<1>2. CASE Test(t)
  BY <1>1, <1>2 DEF Test, ThreadState, pullVars, kindVars, downloadVars
<1>3. CASE Take(t)
  <2>1. Asking(nextChunk, 0) \in ThreadState
    BY TransferAssumption DEF Asking, ThreadState
  <2>2. thread' \in [Thread -> ThreadState]
    BY <1>3, <2>1, NoThreadType DEF Take
  <2> QED BY <1>3, <2>2 DEF Take, kindVars
<1>4. CASE Serve(t)
  <2> DEFINE n == OwnerOf(t)
  <2>1. obj[n] \in Seq(Unit)
    BY <1>1, <1>4 DEF Serve, Content
  <2>2. Offset(t) \in 0 .. size - 1
    <3>1. thread[t].at = "request"
      BY <1>4 DEF Serve
    <3>2. pull = "download" /\ thread[t].index < ChunkCount(size)
      BY <3>1 DEF Settled, InRange, Busy
    <3> QED BY <1>1, <3>2, ChunksCover DEF Offset, ThreadState
  <2>3. RangeSize(t) \in Nat
    <3>1. size - Offset(t) \in Nat /\ ChunkSize \in Nat
      BY <2>2, TransferAssumption
    <3> QED BY <3>1, LeastOfTwo DEF RangeSize
  <2>4. Least({RangeSize(t), Len(obj[n]) - Offset(t)}) \in Nat
    <3>1. Len(obj[n]) - Offset(t) \in Nat
      BY <1>4, <2>1, <2>2 DEF Serve
    <3> QED BY <2>3, <3>1, LeastOfTwo
  <2>5. thread' \in [Thread -> ThreadState]
    <3>1. Receiving(thread[t].index, thread[t].attempt, <<>>,
                    Least({RangeSize(t), Len(obj[n]) - Offset(t)})) \in ThreadState
      BY <1>1, <2>4 DEF Receiving, ThreadState
    <3> QED BY <1>4, <3>1 DEF Serve
  <2>6. readers' \in [Node -> SUBSET Thread]
    BY <1>1, <1>4 DEF Serve
  <2> QED BY <1>4, <2>5, <2>6 DEF Serve, pullVars, kindVars, downloadVars
<1>5. CASE SendUnit(t)
  <2> DEFINE n == OwnerOf(t)
             i == Offset(t) + Len(thread[t].data) + 1
  <2>1. Offset(t) \in Nat
    BY <1>1, TransferAssumption DEF Offset, ThreadState
  <2>2. thread' \in [Thread -> ThreadState]
    <3>1. thread[t].data \in Seq(Unit) /\ thread[t].left \in Nat \ {0}
      BY <1>1, <1>5 DEF SendUnit, ThreadState
    <3>2. obj[n] \in Seq(Unit)
      BY <1>1, <1>5 DEF SendUnit, ServedStays, Content
    <3>3. obj[n][i] \in Unit
      BY <1>5, <2>1, <3>1, <3>2 DEF SendUnit
    <3>4. Append(thread[t].data, obj[n][i]) \in Seq(Unit) /\ thread[t].left - 1 \in Nat
      BY <3>1, <3>3
    <3>5. Receiving(thread[t].index, thread[t].attempt, Append(thread[t].data, obj[n][i]),
                    thread[t].left - 1) \in ThreadState
      BY <1>1, <3>4 DEF Receiving, ThreadState
    <3> QED BY <1>5, <3>5 DEF SendUnit
  <2> QED BY <1>5, <2>2 DEF SendUnit, pullVars, kindVars, downloadVars
<1>6. CASE EndRange(t)
  <2>1. thread' \in [Thread -> ThreadState]
    BY <1>6, NoThreadType DEF EndRange
  <2>2. chunk' \in Seq(Content)
    <3>1. thread[t].data \in Content
      BY <1>1 DEF ThreadState, Content
    <3>2. thread[t].index + 1 \in 1 .. Len(chunk)
      <4>1. Busy(t)
        BY <1>6 DEF EndRange, Reading, Busy
      <4>2. thread[t].index < Len(chunk) /\ thread[t].index \in Nat
        BY <1>1, <4>1 DEF InRange, ThreadState
      <4> QED BY <4>2
    <3> QED BY <1>6, <3>1, <3>2, ExceptSeq DEF EndRange
  <2>3. readers' \in [Node -> SUBSET Thread]
    BY <1>1, <1>6 DEF EndRange
  <2> QED BY <1>6, <2>1, <2>2, <2>3 DEF EndRange, kindVars
<1>7. CASE RangeFails(t)
  <2>1. thread' \in [Thread -> ThreadState]
    <3>1. CASE thread[t].attempt + 1 < Attempts
      <4>1. Asking(thread[t].index, thread[t].attempt + 1) \in ThreadState
        BY <1>1, <3>1, TransferAssumption DEF Asking, ThreadState, Attempts
      <4> QED BY <1>7, <3>1, <4>1 DEF RangeFails
    <3>2. CASE ~(thread[t].attempt + 1 < Attempts)
      BY <1>7, <3>2, NoThreadType DEF RangeFails
    <3> QED BY <3>1, <3>2
  <2>2. readers' \in [Node -> SUBSET Thread]
    BY <1>1, <1>7 DEF RangeFails
  <2>3. failed' \in BOOLEAN
    BY <1>7 DEF RangeFails
  <2> QED BY <1>7, <2>1, <2>2, <2>3 DEF RangeFails, kindVars
<1> QED BY <1>2, <1>3, <1>4, <1>5, <1>6, <1>7 DEF ThreadStep
\* What happens around a pull keeps the types.
LEMMA AroundTypes ==
    ASSUME TypeOK, Around, UNCHANGED world
    PROVE  TypeOK'
<1> USE DEF TypeOK
<1>1. CASE Begin
  BY <1>1, TransferAssumption DEF Begin, downloadVars
<1>2. CASE Abort
  BY <1>2, ReturnType DEF Abort
<1>3. CASE Edit
  BY <1>3, TransferAssumption DEF Edit, Content, pullVars, kindVars, downloadVars
<1>4. ASSUME NEW n \in Node, GoDown(n)
      PROVE  TypeOK'
  <2>1. \A t \in Thread : [thread[t] EXCEPT !.at = "lost"] \in ThreadState
    BY DEF ThreadState
  <2>2. thread' \in [Thread -> ThreadState]
    BY <1>4, <2>1 DEF GoDown
  <2> QED BY <1>4, <2>2 DEF GoDown, pullVars, kindVars, downloadVars
<1>5. ASSUME NEW n \in Node, GoUp(n)
      PROVE  TypeOK'
  BY <1>5 DEF GoUp, pullVars, kindVars, downloadVars
<1>6. ASSUME NEW n \in Node, DeleteObject(n) \/ ObjectArrives(n) \/ Fill(n)
      PROVE  TypeOK'
  <2>1. Right \in Content /\ <<>> \in Content
    BY TransferAssumption DEF Content
  <2>2. obj' \in [Node -> Content]
    <3>1. CASE DeleteObject(n)
      BY <3>1 DEF DeleteObject, Content
    <3>2. CASE ObjectArrives(n)
      BY <2>1, <3>2 DEF ObjectArrives
    <3>3. CASE Fill(n)
      <4>1. CASE obj[n] = NoFile
        BY <2>1, <3>3, <4>1 DEF Fill
      <4>2. CASE obj[n] # NoFile
        <5>1. obj[n] \in Seq(Unit)
          BY <4>2 DEF Content
        <5>2. Len(obj[n]) < Len(Right) /\ obj' = [obj EXCEPT ![n] = Append(@, Right[Len(@) + 1])]
          BY <3>3, <4>2 DEF Fill
        <5>3. Right[Len(obj[n]) + 1] \in Unit
          BY <5>1, <5>2, TransferAssumption
        <5>4. Append(obj[n], Right[Len(obj[n]) + 1]) \in Content
          BY <5>1, <5>3 DEF Content
        <5> QED BY <5>2, <5>4
      <4> QED BY <4>1, <4>2
    <3> QED BY <1>6, <3>1, <3>2, <3>3
  <2> QED BY <1>6, <2>2 DEF DeleteObject, ObjectArrives, Fill, pullVars, kindVars, downloadVars
<1> QED BY <1>1, <1>2, <1>3, <1>4, <1>5, <1>6 DEF Around
-----------------------------------------------------------------------------
(* The object lock                                                         *)

\* What of the invariant is about the lock.
LockInv == Settled /\ Downloaded /\ Serving /\ ServedStays

\* While no thread works nobody holds a lock.
LEMMA NobodyReads ==
    ASSUME TypeOK, LockInv, \A t \in Thread : thread[t].at = "done"
    PROVE  \A n \in Node : readers[n] = {}
BY DEF TypeOK, LockInv, Serving, Reading

\* No thread works before a step of pull_file, nor right after it.
LEMMA PullThreads ==
    ASSUME TypeOK, Settled, PullStep
    PROVE  /\ \A t \in Thread : thread[t].at = "done"
           /\ \A t \in Thread : thread'[t].at \in {"done", "test"}
           /\ pull' # "download" => \A t \in Thread : thread'[t].at = "done"
<1>1. \A t \in Thread : thread[t].at = "done"
  BY DEF Settled, PullStep, AskSize, Join, Verify, Materialize, CreateObject, CopyUnit, End
<1>2. CASE thread' = [t \in Thread |-> NoThread] \/ UNCHANGED thread
  BY <1>1, <1>2, NoThreadType
<1>3. CASE /\ pull' = "download"
           /\ thread' = [t \in Thread |-> IF t <= ThreadCount(ChunkCount(size'))
                                          THEN [NoThread EXCEPT !.at = "test"]
                                          ELSE NoThread]
  BY <1>1, <1>3, NoThreadType DEF NoThread
<1> QED BY <1>2, <1>3 DEF PullStep, AskSize, Join, Verify, Materialize, CreateObject,
           CopyUnit, End, Return, Discard

\* The steps of pull_file keep LockInv: no thread reads before or after one.
LEMMA PullLocks ==
    ASSUME TypeOK, LockInv, PullStep
    PROVE  LockInv'
<1>1. \A t \in Thread : thread[t].at = "done"
  BY PullThreads DEF LockInv
<1>2. readers' = readers
  BY DEF PullStep, AskSize, Join, Verify, Materialize, CreateObject, CopyUnit, End
<1>3. /\ \A t \in Thread : thread'[t].at \in {"done", "test"}
      /\ pull' # "download" => \A t \in Thread : thread'[t].at = "done"
  BY PullThreads DEF LockInv
<1>4. Downloaded'
  <2>1. CASE Verify
    BY <2>1, TransferAssumption DEF Verify, Return, Downloaded
  <2>2. CASE CreateObject \/ CopyUnit
    BY <2>2 DEF CreateObject, CopyUnit, LockInv, Downloaded
  <2>3. CASE AskSize \/ Join \/ Materialize \/ End
    BY <2>3 DEF AskSize, Join, Materialize, End, Return, Downloaded
  <2> QED BY <2>1, <2>2, <2>3 DEF PullStep
<1>5. Serving' /\ ServedStays'
  BY <1>1, <1>2, <1>3, NobodyReads DEF Serving, ServedStays, Reading
<1> QED BY <1>3, <1>4, <1>5 DEF LockInv, Settled

\* A thread step leaves the other threads and the owners they use alone.
LEMMA OtherThreads ==
    ASSUME TypeOK, NEW t \in Thread, ThreadStep(t)
    PROVE  /\ UNCHANGED <<obj, up, file, pull>>
           /\ \A s \in Thread \ {t} : thread'[s] = thread[s] /\ OwnerOf(s)' = OwnerOf(s)
           /\ thread[t].at # "done"
<1>1. UNCHANGED <<obj, up, file, pull>> /\ thread[t].at # "done"
  BY DEF ThreadStep, Test, Take, Serve, SendUnit, EndRange, RangeFails, Reading, pullVars
<1>2. \A s \in Thread \ {t} : thread'[s] = thread[s]
  BY DEF ThreadStep, Test, Take, Serve, SendUnit, EndRange, RangeFails, TypeOK
<1> QED BY <1>1, <1>2 DEF OwnerOf

\* The steps of a thread keep LockInv.
LEMMA ThreadLocks ==
    ASSUME TypeOK, TypeOK', LockInv, NEW t \in Thread, ThreadStep(t)
    PROVE  LockInv'
<1>1. /\ UNCHANGED <<obj, up, file, pull>>
      /\ \A s \in Thread \ {t} : thread'[s] = thread[s] /\ OwnerOf(s)' = OwnerOf(s)
      /\ thread[t].at # "done"
  BY OtherThreads
<1>2. Settled' /\ Downloaded'
  BY <1>1 DEF LockInv, Settled, Downloaded
<1>3. OwnerOf(t) \in Node
  BY OwnerIsOwner
<1>4. CASE Test(t) \/ Take(t)
  <2>1. readers' = readers /\ thread[t].at # "read" /\ thread'[t].at # "read"
    <3>1. CASE Test(t)
      BY <3>1 DEF Test, TypeOK, ThreadState
    <3>2. CASE Take(t)
      BY <3>2, NoThreadType DEF Take, TypeOK, Asking
    <3> QED BY <1>4, <3>1, <3>2
  <2> QED BY <1>1, <1>2, <2>1 DEF LockInv, Serving, ServedStays, Reading
<1>5. CASE Serve(t)
  <2>1. /\ readers' = [readers EXCEPT ![OwnerOf(t)] = @ \cup {t}]
        /\ thread[t].at = "request" /\ thread'[t].at = "read"
        /\ thread'[t].index = thread[t].index /\ thread'[t].attempt = thread[t].attempt
        /\ obj[OwnerOf(t)] # NoFile
    BY <1>5 DEF Serve, TypeOK, Receiving
  <2>2. OwnerOf(t)' = OwnerOf(t)
    BY <2>1 DEF OwnerOf
  <2>3. Serving'
    BY <1>1, <1>3, <2>1, <2>2 DEF LockInv, Serving, Reading, TypeOK
  <2>4. ServedStays'
    BY <1>1, <2>1, <2>2 DEF LockInv, ServedStays, Reading
  <2> QED BY <1>2, <2>3, <2>4 DEF LockInv
<1>6. CASE SendUnit(t)
  <2>1. /\ readers' = readers
        /\ thread[t].at = "read" /\ thread'[t].at = "read"
        /\ thread'[t].index = thread[t].index /\ thread'[t].attempt = thread[t].attempt
    BY <1>6 DEF SendUnit, TypeOK, Receiving, Reading
  <2>2. OwnerOf(t)' = OwnerOf(t)
    BY <2>1 DEF OwnerOf
  <2> QED BY <1>1, <1>2, <2>1, <2>2 DEF LockInv, Serving, ServedStays, Reading
<1>7. CASE EndRange(t) \/ RangeFails(t)
  <2>1. /\ readers' = [readers EXCEPT ![OwnerOf(t)] = @ \ {t}]
        /\ thread'[t].at # "read"
    BY <1>7 DEF EndRange, RangeFails, TypeOK, Asking, NoThread
  <2>2. \A n \in Node : t \notin readers'[n]
    BY <1>3, <2>1 DEF LockInv, Serving, TypeOK
  <2>3. \A n \in Node, s \in Thread \ {t} : s \in readers'[n] <=> s \in readers[n]
    BY <1>3, <2>1 DEF TypeOK
  <2>4. Serving'
    BY <1>1, <2>1, <2>2, <2>3 DEF LockInv, Serving, Reading
  <2>5. ServedStays'
    BY <1>1, <2>1 DEF LockInv, ServedStays, Reading
  <2> QED BY <1>2, <2>4, <2>5 DEF LockInv
<1> QED BY <1>4, <1>5, <1>6, <1>7 DEF ThreadStep
\* What happens around a pull keeps LockInv: a daemon that dies releases its
\* locks, an object that is locked is not deleted.
LEMMA AroundLocks ==
    ASSUME TypeOK, LockInv, Around
    PROVE  LockInv'
<1>1. CASE Begin
  <2>1. pull # "download" /\ UNCHANGED <<obj, readers, thread>>
        /\ pull' \in {"size", "materialize"}
    BY <1>1 DEF Begin
  <2> QED BY <2>1 DEF LockInv, Settled, Downloaded, Serving, ServedStays, Reading, OwnerOf
<1>2. CASE Abort
  <2>1. \A t \in Thread : thread'[t].at = "done"
    BY <1>2, NoThreadType DEF Abort, Return, Discard
  <2>2. \A n \in Node : readers'[n] = {}
    BY <1>2 DEF Abort
  <2>3. pull' = "idle"
    BY <1>2 DEF Abort, Return
  <2> QED BY <2>1, <2>2, <2>3 DEF LockInv, Settled, Downloaded, Serving, ServedStays, Reading
<1>3. CASE Edit
  <2>1. UNCHANGED <<obj, readers, pull, thread>> /\ file' # NoFile
    BY <1>3, TransferAssumption DEF Edit, pullVars
  <2> QED BY <2>1 DEF LockInv, Settled, Downloaded, Serving, ServedStays, Reading, OwnerOf
<1>4. ASSUME NEW n \in Node, GoDown(n)
      PROVE  LockInv'
  <2>1. /\ readers' = [readers EXCEPT ![n] = {}]
        /\ UNCHANGED <<obj, file, pull>>
    BY <1>4 DEF GoDown, pullVars
  <2>2. ASSUME NEW t \in Thread
        PROVE  /\ thread'[t].at = IF t \in readers[n] THEN "lost" ELSE thread[t].at
               /\ OwnerOf(t)' = OwnerOf(t)
    <3>1. thread[t] \in ThreadState
      BY DEF TypeOK
    <3>2. thread'[t] = IF t \in readers[n] THEN [thread[t] EXCEPT !.at = "lost"] ELSE thread[t]
      BY <1>4 DEF GoDown
    <3> QED BY <3>1, <3>2 DEF OwnerOf, ThreadState
  <2>3. \A t \in Thread : t \in readers[n] <=> (Reading(t) /\ OwnerOf(t) = n)
    BY DEF LockInv, Serving
  <2>4. Settled' /\ Downloaded'
    BY <2>1, <2>2, <2>3 DEF LockInv, Settled, Downloaded, Reading
  <2>5. Serving'
    BY <2>1, <2>2, <2>3 DEF LockInv, Serving, Reading, TypeOK
  <2>6. ServedStays'
    BY <2>1, <2>2 DEF LockInv, ServedStays, Reading
  <2> QED BY <2>4, <2>5, <2>6 DEF LockInv
<1>5. ASSUME NEW n \in Node, GoUp(n) \/ ObjectArrives(n) \/ Fill(n) \/ DeleteObject(n)
      PROVE  LockInv'
  <2>1. UNCHANGED <<readers, file, pull, thread>>
    BY <1>5 DEF GoUp, ObjectArrives, Fill, DeleteObject, pullVars
  <2>2. ASSUME NEW t \in Thread, Reading(t)
        PROVE  obj'[OwnerOf(t)] # NoFile
    <3>1. OwnerOf(t) \in Node /\ obj[OwnerOf(t)] # NoFile /\ t \in readers[OwnerOf(t)]
      BY <2>2, OwnerIsOwner DEF LockInv, Serving, ServedStays
    <3>2. CASE GoUp(n) \/ DeleteObject(n)
      BY <3>1, <3>2 DEF GoUp, DeleteObject, TypeOK
    <3>3. CASE ObjectArrives(n)
      BY <3>1, <3>3, TransferAssumption DEF ObjectArrives, TypeOK
    <3>4. CASE Fill(n)
      <4>1. CASE OwnerOf(t) # n
        BY <3>1, <3>4, <4>1 DEF Fill, TypeOK
      <4>2. CASE OwnerOf(t) = n
        <5>1. obj[n] \in Seq(Unit)
          BY <3>1, <4>2 DEF TypeOK, Content
        <5>2. Len(obj[n]) < Len(Right) /\ obj' = [obj EXCEPT ![n] = Append(@, Right[Len(@) + 1])]
          BY <3>1, <3>4, <4>2 DEF Fill
        <5>3. Append(obj[n], Right[Len(obj[n]) + 1]) \in Seq(Unit)
          BY <5>1, <5>2, TransferAssumption
        <5> QED BY <4>2, <5>2, <5>3, TransferAssumption DEF TypeOK
      <4> QED BY <4>1, <4>2
    <3> QED BY <1>5, <3>2, <3>3, <3>4
  <2> QED BY <2>1, <2>2 DEF LockInv, Settled, Downloaded, Serving, ServedStays, Reading, OwnerOf
<1> QED BY <1>1, <1>2, <1>3, <1>4, <1>5 DEF Around
-----------------------------------------------------------------------------
(* Chunks                                                                  *)

\* What of the invariant is about chunks.
ChunkInv == InRange /\ ChunkHasOneWriter

\* A thread stays at its chunk and its owner when a daemon dies; what else
\* happens around a pull leaves it alone or ends it.
LEMMA AroundThreads ==
    ASSUME TypeOK, LockInv, Around, NEW t \in Thread
    PROVE  \/ thread'[t].at = "done"
           \/ /\ Busy(t)' <=> Busy(t)
              /\ thread'[t].index = thread[t].index
              /\ thread'[t].attempt = thread[t].attempt
              /\ OwnerOf(t)' = OwnerOf(t)
              /\ \/ thread'[t].at = thread[t].at
                 \/ thread'[t].at = "lost" /\ OwnerOf(t) \notin world.reliable
<1>1. CASE Abort
  BY <1>1, NoThreadType DEF Abort, Return, Discard
<1>2. ASSUME NEW n \in Node, GoDown(n)
      PROVE  /\ Busy(t)' <=> Busy(t)
             /\ thread'[t].index = thread[t].index
             /\ thread'[t].attempt = thread[t].attempt
             /\ OwnerOf(t)' = OwnerOf(t)
             /\ \/ thread'[t].at = thread[t].at
                \/ thread'[t].at = "lost" /\ OwnerOf(t) \notin world.reliable
  <2>1. thread[t] \in ThreadState
    BY DEF TypeOK
  <2>2. CASE t \in readers[n]
    <3>1. Reading(t) /\ OwnerOf(t) = n /\ n \notin world.reliable
      BY <1>2, <2>2 DEF LockInv, Serving, GoDown
    <3>2. thread'[t] = [thread[t] EXCEPT !.at = "lost"]
      BY <1>2, <2>2 DEF GoDown
    <3> QED BY <2>1, <3>1, <3>2 DEF ThreadState, Busy, Reading, OwnerOf
  <2>3. CASE t \notin readers[n]
    <3>1. thread'[t] = thread[t]
      BY <1>2, <2>3 DEF GoDown
    <3> QED BY <3>1 DEF Busy, OwnerOf
  <2> QED BY <2>2, <2>3
<1>3. CASE UNCHANGED thread
  BY <1>3 DEF Busy, OwnerOf
<1> QED BY <1>1, <1>2, <1>3 DEF Around, Begin, Edit, GoUp, DeleteObject, Fill, ObjectArrives

\* What a step of a thread does to the thread itself.
LEMMA OwnThread ==
    ASSUME TypeOK, NEW t \in Thread, ThreadStep(t)
    PROVE  \/ ~Busy(t)'
           \/ /\ Take(t) /\ nextChunk < Len(chunk)
              /\ thread'[t] = Asking(nextChunk, 0)
           \/ /\ Busy(t) /\ thread'[t].index = thread[t].index
              /\ \/ /\ Serve(t) \/ SendUnit(t)
                    /\ thread'[t].attempt = thread[t].attempt
                    /\ thread'[t].at = "read"
                 \/ /\ RangeFails(t) /\ thread[t].attempt + 1 < Attempts
                    /\ thread'[t] = Asking(thread[t].index, thread[t].attempt + 1)
<1>1. CASE Test(t)
  BY <1>1 DEF Test, TypeOK, ThreadState, Busy
<1>2. CASE Take(t)
  <2>1. CASE nextChunk < Len(chunk)
    BY <1>2, <2>1 DEF Take, TypeOK
  <2>2. CASE ~(nextChunk < Len(chunk))
    BY <1>2, <2>2, NoThreadType DEF Take, TypeOK, Busy
  <2> QED BY <2>1, <2>2
<1>3. CASE Serve(t)
  BY <1>3 DEF Serve, TypeOK, Receiving, Busy
<1>4. CASE SendUnit(t)
  BY <1>4 DEF SendUnit, Reading, TypeOK, Receiving, Busy
<1>5. CASE EndRange(t)
  BY <1>5, NoThreadType DEF EndRange, TypeOK, NoThread, Busy
<1>6. CASE RangeFails(t)
  <2>1. Busy(t)
    BY <1>6 DEF RangeFails, Busy, Reading
  <2>2. CASE thread[t].attempt + 1 < Attempts
    BY <1>6, <2>1, <2>2 DEF RangeFails, TypeOK, Asking
  <2>3. CASE ~(thread[t].attempt + 1 < Attempts)
    BY <1>6, <2>3, NoThreadType DEF RangeFails, TypeOK, Busy
  <2> QED BY <2>2, <2>3
<1> QED BY <1>1, <1>2, <1>3, <1>4, <1>5, <1>6 DEF ThreadStep

\* Every step keeps ChunkInv: only Take gives out a chunk, and it gives out
\* the next one.
LEMMA ChunkSteps ==
    ASSUME TypeOK, TypeOK', LockInv, ChunkInv,
           PullStep \/ (\E t \in Thread : ThreadStep(t)) \/ Around
    PROVE  ChunkInv'
<1>1. CASE PullStep
  <2>1. \A t \in Thread : ~Busy(t)'
    BY <1>1, PullThreads DEF LockInv, Busy
  <2>2. pull' = "download" => Len(chunk') = ChunkCount(size')
    <3>1. ASSUME pull' = "download"
          PROVE  Len(chunk') = ChunkCount(size')
      <4>1. size' = Len(obj[Owners[asked + 1]])
            /\ chunk' = [i \in 1 .. ChunkCount(size') |-> NoFile]
        BY <1>1, <3>1 DEF PullStep, AskSize, Join, Verify, Materialize, CreateObject,
           CopyUnit, End, Return, TypeOK
      <4>2. ChunkCount(size') \in Nat
        BY ChunksCover DEF TypeOK
      <4> QED BY <4>1, <4>2 DEF TypeOK
    <3> QED BY <3>1
  <2> QED BY <2>1, <2>2 DEF ChunkInv, InRange, ChunkHasOneWriter
<1>2. ASSUME NEW t \in Thread, ThreadStep(t)
      PROVE  ChunkInv'
  <2>1. /\ UNCHANGED pull
        /\ \A s \in Thread \ {t} : thread'[s] = thread[s]
    BY <1>2, OtherThreads
  <2>2. size' = size /\ Len(chunk') = Len(chunk) /\ nextChunk' \in Nat /\ nextChunk' >= nextChunk
    <3>1. CASE EndRange(t)
      <4>1. thread[t].data \in Content
        BY DEF TypeOK, ThreadState, Content
      <4>2. thread[t].index + 1 \in 1 .. Len(chunk)
        <5>1. Busy(t)
          BY <3>1 DEF EndRange, Reading, Busy
        <5>2. thread[t].index < Len(chunk) /\ thread[t].index \in Nat
          BY <5>1 DEF ChunkInv, InRange, TypeOK, ThreadState
        <5> QED BY <5>2 DEF TypeOK
      <4>3. Len(chunk') = Len(chunk)
        BY <3>1, <4>1, <4>2, ExceptSeq DEF EndRange, TypeOK
      <4> QED BY <3>1, <4>3 DEF EndRange, TypeOK
    <3>2. CASE ~EndRange(t)
      BY <1>2, <3>2 DEF ThreadStep, Test, Take, Serve, SendUnit, RangeFails, TypeOK, pullVars,
         downloadVars
    <3> QED BY <3>1, <3>2
  <2>3. \A s \in Thread : thread[s].index \in Nat /\ thread'[s].index \in Nat
    BY DEF TypeOK, ThreadState
  <2>4. ASSUME \A s \in Thread : Busy(s)' => Busy(s) /\ thread'[s].index = thread[s].index
        PROVE  ChunkInv'
    <3>1. \A s \in Thread : Busy(s) => /\ thread[s].index < nextChunk
                                      /\ thread[s].index < Len(chunk)
      BY DEF ChunkInv, InRange
    <3>2. pull' = "download" => Len(chunk') = ChunkCount(size')
      BY <2>1, <2>2 DEF ChunkInv, InRange
    <3>3. nextChunk \in Nat
      BY DEF TypeOK
    <3>4. ASSUME NEW s \in Thread, Busy(s)'
          PROVE  thread'[s].index < nextChunk' /\ thread'[s].index < Len(chunk')
      <4>1. Busy(s) /\ thread'[s].index = thread[s].index
        BY <2>4, <3>4
      <4>2. thread[s].index < nextChunk /\ thread[s].index < Len(chunk)
        BY <3>1, <4>1
      <4> QED BY <2>2, <2>3, <3>3, <4>1, <4>2
    <3>5. InRange'
      BY <3>2, <3>4 DEF InRange
    <3>6. ChunkHasOneWriter'
      BY <2>4 DEF ChunkInv, ChunkHasOneWriter, Busy
    <3> QED BY <3>5, <3>6 DEF ChunkInv
  <2>5. CASE Take(t) /\ nextChunk < Len(chunk) /\ thread'[t] = Asking(nextChunk, 0)
    <3>1. nextChunk' = nextChunk + 1 /\ thread'[t].index = nextChunk /\ nextChunk \in Nat
      BY <2>5 DEF Take, Asking, TypeOK
    <3>2. \A s \in Thread \ {t} : Busy(s) => thread[s].index < nextChunk
      BY DEF ChunkInv, InRange
    <3>3. InRange'
      BY <2>1, <2>2, <2>3, <2>5, <3>1 DEF ChunkInv, InRange, Busy
    <3>4. ChunkHasOneWriter'
      BY <2>1, <2>3, <3>1, <3>2 DEF ChunkInv, ChunkHasOneWriter, Busy
    <3> QED BY <3>3, <3>4 DEF ChunkInv
  <2>6. CASE ~Busy(t)' \/ (Busy(t) /\ thread'[t].index = thread[t].index)
    BY <2>1, <2>4, <2>6 DEF Busy
  <2> QED BY <1>2, <2>5, <2>6, OwnThread
<1>3. CASE Around
  <2>1. \A t \in Thread : Busy(t)' => Busy(t) /\ thread'[t].index = thread[t].index
    BY <1>3, AroundThreads DEF Busy
  <2>2. \/ UNCHANGED <<chunk, size, nextChunk>> /\ (pull' = "download" => pull = "download")
        \/ /\ pull' # "download" /\ \A t \in Thread : thread'[t].at = "done"
    BY <1>3, NoThreadType DEF Around, Begin, Abort, Return, Discard, Edit, GoDown, GoUp,
       DeleteObject, Fill, ObjectArrives, pullVars, downloadVars
  <2> QED BY <2>1, <2>2 DEF ChunkInv, InRange, ChunkHasOneWriter, Busy
<1> QED BY <1>1, <1>2, <1>3
-----------------------------------------------------------------------------
(* Reliable owners                                                         *)

\* What of the invariant is about reliable owners.
TrustInv == Whole /\ Untried /\ ReliableOwnerSuffices

\* No step makes a reliable owner lose its object or a file be half there.
LEMMA WholeSteps ==
    ASSUME TypeOK, Whole, UNCHANGED world,
           PullStep \/ (\E t \in Thread : ThreadStep(t)) \/ Around
    PROVE  Whole'
<1> SUFFICES ASSUME Trusted
             PROVE  /\ \A n \in Node \ {Me} : obj'[n] \in {NoFile, Right}
                    /\ \A n \in world.reliable : n \in up' /\ obj'[n] = Right
                    /\ pull' \in {"size", "download"} => obj'[Me] = NoFile
                    /\ pull' = "download" => size' = Len(Right)
  BY DEF Whole, Trusted
<1>1. /\ \A n \in Node \ {Me} : obj[n] \in {NoFile, Right}
      /\ \A n \in world.reliable : n \in up /\ obj[n] = Right
      /\ pull \in {"size", "download"} => obj[Me] = NoFile
      /\ pull = "download" => size = Len(Right)
  BY DEF Whole
<1>2. world.reliable \subseteq Node \ {Me} /\ world.inPlace = {} /\ Me \in Node
  BY TransferAssumption DEF TypeOK, Trusted
<1>3. CASE PullStep
  <2>1. UNCHANGED up /\ \A n \in Node \ {Me} : obj'[n] = obj[n]
    BY <1>3, <1>2 DEF PullStep, AskSize, Join, Verify, Materialize, CreateObject, CopyUnit,
       End, TypeOK
  <2>2. CASE AskSize
    <3>1. UNCHANGED obj /\ pull = "size" /\ obj[Me] = NoFile
      BY <1>1, <2>2 DEF AskSize
    <3>2. Owners[asked + 1] \in Node
      BY TransferAssumption DEF TypeOK
    <3>3. pull' = "download" => size' = Len(Right)
      BY <1>1, <2>2, <3>1, <3>2 DEF AskSize, Return
    <3> QED BY <1>1, <2>1, <3>1, <3>3
  <2>3. CASE Join \/ Verify \/ Materialize \/ CreateObject \/ CopyUnit \/ End
    <3>1. pull' \notin {"size", "download"}
      BY <2>3 DEF Join, Verify, Materialize, CreateObject, CopyUnit, End, Return
    <3> QED BY <1>1, <1>2, <2>1, <3>1
  <2> QED BY <1>3, <2>2, <2>3 DEF PullStep
<1>4. ASSUME NEW t \in Thread, ThreadStep(t)
      PROVE  UNCHANGED <<obj, up, pull, size>>
  BY <1>4 DEF ThreadStep, Test, Take, Serve, SendUnit, EndRange, RangeFails, pullVars,
     downloadVars
<1>5. CASE Around
  <2>1. CASE Begin \/ Abort \/ Edit
    <3>1. UNCHANGED <<obj, up>>
      BY <2>1 DEF Begin, Abort, Edit
    <3>2. pull' \in {"size", "download"} => obj[Me] = NoFile
      BY <1>1, <2>1 DEF Begin, Abort, Return, Edit, pullVars
    <3>3. pull' = "download" => size' = Len(Right)
      BY <1>1, <2>1 DEF Begin, Abort, Return, Edit, pullVars, downloadVars
    <3> QED BY <1>1, <3>1, <3>2, <3>3
  <2>2. ASSUME NEW n \in Node, GoDown(n) \/ GoUp(n)
        PROVE  /\ UNCHANGED <<obj, pull, size>>
               /\ \A m \in world.reliable : m \in up'
    BY <1>1, <2>2 DEF GoDown, GoUp, pullVars, downloadVars
  <2>3. ASSUME NEW n \in Node, DeleteObject(n) \/ ObjectArrives(n) \/ Fill(n)
        PROVE  /\ UNCHANGED <<up, pull, size>>
               /\ \A m \in Node \ {Me} : obj'[m] \in {NoFile, Right}
               /\ \A m \in world.reliable : obj'[m] = Right
               /\ obj[Me] = NoFile => obj'[Me] = NoFile
    BY <1>1, <1>2, <2>3 DEF DeleteObject, ObjectArrives, Fill, pullVars, downloadVars, TypeOK
  <2> QED BY <1>1, <1>5, <2>1, <2>2, <2>3 DEF Around
<1> QED BY <1>1, <1>3, <1>4, <1>5

\* A reliable owner fails no request: it is up, it has the object, the
\* range begins inside it, and it was not lost.
LEMMA OnlyOthersFail ==
    ASSUME TypeOK, Settled, InRange, Whole, Untried, Trusted,
           NEW t \in Thread, RangeFails(t)
    PROVE  OwnerOf(t) \notin world.reliable
<1> SUFFICES ASSUME OwnerOf(t) \in world.reliable PROVE FALSE
  OBVIOUS
<1>1. OwnerOf(t) \in up /\ obj[OwnerOf(t)] = Right /\ Right # NoFile
  BY TransferAssumption DEF Whole
<1>2. thread[t].at # "lost" /\ ~MayFail(OwnerOf(t))
  BY DEF Untried, MayFail
<1>3. thread[t].at = "request" /\ Offset(t) > Len(Right)
  BY <1>1, <1>2 DEF RangeFails
<1>4. size = Len(Right) /\ thread[t].index \in Nat /\ thread[t].index < ChunkCount(size)
  BY <1>3 DEF Settled, InRange, Whole, Busy, TypeOK, ThreadState
<1>5. Offset(t) \in 0 .. size - 1
  BY <1>4, ChunksCover DEF Offset, TypeOK
<1> QED BY <1>3, <1>4, <1>5, TransferAssumption

\* No step skips the reliable owners of a thread.
LEMMA UntriedSteps ==
    ASSUME TypeOK, TypeOK', LockInv, ChunkInv, TrustInv, UNCHANGED world,
           PullStep \/ (\E t \in Thread : ThreadStep(t)) \/ Around
    PROVE  Untried'
<1> DEFINE Left(i, a) == \E b \in a .. Len(Owners) - 1 :
                             Owners[((i + b) % Len(Owners)) + 1] \in world.reliable
<1> SUFFICES ASSUME Trusted
             PROVE  /\ \A t \in Thread :
                          /\ Busy(t)' => Left(thread'[t].index, thread'[t].attempt)
                          /\ thread'[t].at = "lost" => OwnerOf(t)' \notin world.reliable
                    /\ pull' = "idle" => asked' = 0
  BY DEF Untried, Trusted
<1>1. /\ \A t \in Thread : /\ Busy(t) => Left(thread[t].index, thread[t].attempt)
                           /\ thread[t].at = "lost" => OwnerOf(t) \notin world.reliable
      /\ pull = "idle" => asked = 0
  BY DEF TrustInv, Untried
<1> HIDE DEF Left
<1>2. CASE PullStep
  <2>1. \A t \in Thread : thread'[t].at \in {"done", "test"}
    BY <1>2, PullThreads DEF LockInv
  <2>2. pull' = "idle" => asked' = 0
    BY <1>2 DEF PullStep, AskSize, Join, Verify, Materialize, CreateObject, CopyUnit, End,
       Return, Discard
  <2> QED BY <2>1, <2>2 DEF Busy
<1>3. ASSUME NEW t \in Thread, ThreadStep(t)
      PROVE  /\ \A s \in Thread :
                   /\ Busy(s)' => Left(thread'[s].index, thread'[s].attempt)
                   /\ thread'[s].at = "lost" => OwnerOf(s)' \notin world.reliable
             /\ pull' = "idle" => asked' = 0
  <2>1. /\ UNCHANGED pull
        /\ \A s \in Thread \ {t} : thread'[s] = thread[s] /\ OwnerOf(s)' = OwnerOf(s)
    BY <1>3, OtherThreads
  <2>2. UNCHANGED asked
    BY <1>3 DEF ThreadStep, Test, Take, Serve, SendUnit, EndRange, RangeFails, pullVars,
       downloadVars
  <2>3. ASSUME NEW s \in Thread \ {t}
        PROVE  /\ Busy(s)' => Left(thread'[s].index, thread'[s].attempt)
               /\ thread'[s].at = "lost" => OwnerOf(s)' \notin world.reliable
    BY <1>1, <2>1 DEF Busy
  <2>4. /\ Busy(t)' => Left(thread'[t].index, thread'[t].attempt)
        /\ thread'[t].at # "lost"
    <3>1. CASE ~Busy(t)'
      BY <3>1 DEF Busy
    <3>2. CASE Take(t) /\ thread'[t] = Asking(nextChunk, 0)
      <4>1. thread'[t].index = nextChunk /\ thread'[t].attempt = 0 /\ thread'[t].at = "request"
        BY <3>2 DEF Asking
      <4>2. PICK i \in DOMAIN Owners : Owners[i] \in world.reliable
        BY DEF Trusted
      <4>3. /\ Len(Owners) \in Nat \ {0} /\ i \in 1 .. Len(Owners)
            /\ i - 1 \in 0 .. Len(Owners) - 1 /\ (i - 1) + 1 = i
        BY TransferAssumption
      <4>4. PICK b \in 0 .. Len(Owners) - 1 : (nextChunk + b) % Len(Owners) = i - 1
        BY <4>3, EveryRemainder DEF TypeOK
      <4>5. Left(nextChunk, 0)
        BY <4>2, <4>3, <4>4 DEF Left
      <4> QED BY <4>1, <4>5
    <3>3. CASE /\ Busy(t) /\ thread'[t].index = thread[t].index
               /\ thread'[t].attempt = thread[t].attempt /\ thread'[t].at = "read"
      BY <1>1, <3>3
    <3>4. CASE /\ Busy(t) /\ RangeFails(t)
               /\ thread'[t] = Asking(thread[t].index, thread[t].attempt + 1)
      <4>1. /\ thread'[t].index = thread[t].index /\ thread'[t].attempt = thread[t].attempt + 1
            /\ thread'[t].at = "request"
        BY <3>4 DEF Asking
      <4>2. OwnerOf(t) \notin world.reliable
        BY <3>4, OnlyOthersFail DEF LockInv, ChunkInv, TrustInv
      <4>3. Left(thread[t].index, thread[t].attempt)
        BY <1>1, <3>4
      <4>4. Left(thread[t].index, thread[t].attempt + 1)
        <5>1. PICK b \in thread[t].attempt .. Len(Owners) - 1 :
                  Owners[((thread[t].index + b) % Len(Owners)) + 1] \in world.reliable
          BY <4>3 DEF Left
        <5>2. b # thread[t].attempt
          BY <4>2, <5>1 DEF OwnerOf
        <5>3. b \in thread[t].attempt + 1 .. Len(Owners) - 1
          <6>1. thread[t].attempt \in Nat /\ Len(Owners) \in Nat
            <7>1. thread[t] \in ThreadState
              BY DEF TypeOK
            <7>2. Len(Owners) \in Nat
              BY TransferAssumption
            <7> QED BY <7>1, <7>2 DEF ThreadState
          <6>2. b \in Int /\ thread[t].attempt <= b /\ b <= Len(Owners) - 1
            BY <5>1, <6>1
          <6> QED BY <5>2, <6>1, <6>2
        <5> QED BY <5>1, <5>3 DEF Left
      <4> QED BY <4>1, <4>4
    <3> QED BY <1>3, <3>1, <3>2, <3>3, <3>4, OwnThread
  <2> QED BY <1>1, <2>1, <2>2, <2>3, <2>4
<1>4. CASE Around
  <2>1. ASSUME NEW t \in Thread
        PROVE  /\ Busy(t)' => Left(thread'[t].index, thread'[t].attempt)
               /\ thread'[t].at = "lost" => OwnerOf(t)' \notin world.reliable
    <3>1. CASE thread'[t].at = "done"
      BY <3>1 DEF Busy
    <3>2. CASE thread'[t].at # "done"
      BY <1>1, <1>4, <3>2, AroundThreads
    <3> QED BY <3>1, <3>2
  <2>2. pull' = "idle" => asked' = 0
    BY <1>1, <1>4 DEF Around, Begin, Abort, Return, Discard, Edit, GoDown, GoUp,
       DeleteObject, Fill, ObjectArrives, pullVars, downloadVars
  <2> QED BY <2>1, <2>2
<1> QED BY <1>2, <1>3, <1>4
\* No step fails a pull that has a reliable owner.
LEMMA SufficesSteps ==
    ASSUME TypeOK, LockInv, ChunkInv, TrustInv, UNCHANGED world,
           PullStep \/ (\E t \in Thread : ThreadStep(t)) \/ Around
    PROVE  ReliableOwnerSuffices'
<1> SUFFICES ASSUME Trusted
             PROVE  /\ ~failed'
                    /\ pull' = "size" => \E i \in asked' + 1 .. Len(Owners) :
                                            Owners[i] \in world.reliable
  BY DEF ReliableOwnerSuffices, Trusted
<1>1. /\ ~failed
      /\ pull = "size" => \E i \in asked + 1 .. Len(Owners) : Owners[i] \in world.reliable
  BY DEF TrustInv, ReliableOwnerSuffices
<1>2. CASE AskSize
  <2>1. PICK i \in asked + 1 .. Len(Owners) : Owners[i] \in world.reliable
    BY <1>1, <1>2 DEF AskSize
  <2>2. ~failed'
    BY <1>1, <1>2 DEF AskSize, Return, Discard
  <2>3. ASSUME pull' = "size"
        PROVE  asked' = asked + 1 /\ Owners[asked + 1] \notin world.reliable
    <3>1. asked' = asked + 1
      BY <1>2, <2>3 DEF AskSize, Return
    <3>2. \A n \in world.reliable : n \in up /\ obj[n] # NoFile /\ ~MayFail(n)
      BY TransferAssumption DEF TrustInv, Whole, MayFail
    <3>3. \/ Owners[asked + 1] \notin up \/ obj[Owners[asked + 1]] = NoFile
          \/ MayFail(Owners[asked + 1])
      BY <1>2, <2>3 DEF AskSize
    <3> QED BY <3>1, <3>2, <3>3
  <2>4. ASSUME pull' = "size"
        PROVE  i \in asked' + 1 .. Len(Owners)
    <3>1. i # asked + 1 /\ asked' = asked + 1
      BY <2>1, <2>3, <2>4
    <3> QED BY <3>1, TransferAssumption DEF TypeOK
  <2> QED BY <2>1, <2>2, <2>4
<1>3. CASE Join \/ Verify \/ Materialize \/ CreateObject \/ CopyUnit \/ End
  BY <1>1, <1>3 DEF Join, Verify, Materialize, CreateObject, CopyUnit, End, Return, Discard,
     downloadVars
<1>4. ASSUME NEW t \in Thread, ThreadStep(t)
      PROVE  UNCHANGED <<failed, pull, asked>>
  <2>1. ASSUME RangeFails(t)
        PROVE  thread[t].attempt + 1 < Attempts
    <3>1. Busy(t)
      BY <2>1 DEF RangeFails, Busy, Reading
    <3>2. PICK b \in thread[t].attempt .. Len(Owners) - 1 :
              Owners[((thread[t].index + b) % Len(Owners)) + 1] \in world.reliable
      BY <3>1 DEF TrustInv, Untried
    <3>3. OwnerOf(t) \notin world.reliable
      BY <2>1, OnlyOthersFail DEF LockInv, ChunkInv, TrustInv
    <3>4. b # thread[t].attempt
      BY <3>2, <3>3 DEF OwnerOf
    <3> QED BY <3>4, TransferAssumption DEF Attempts, TypeOK, ThreadState
  <2> QED BY <1>1, <1>4, <2>1 DEF ThreadStep, Test, Take, Serve, SendUnit, EndRange, RangeFails,
             pullVars, downloadVars, TypeOK
<1>5. CASE Around
  <2>1. CASE Begin
    <3>1. asked' = 0 /\ ~failed'
      BY <1>1, <2>1 DEF Begin, TrustInv, Untried, downloadVars
    <3>2. \E i \in 1 .. Len(Owners) : Owners[i] \in world.reliable
      BY TransferAssumption DEF Trusted
    <3> QED BY <3>1, <3>2
  <2>2. CASE ~Begin
    BY <1>1, <1>5, <2>2 DEF Around, Abort, Return, Discard, Edit, GoDown, GoUp, DeleteObject,
       Fill, ObjectArrives, pullVars, downloadVars
  <2> QED BY <2>1, <2>2
<1> QED BY <1>1, <1>2, <1>3, <1>4, <1>5 DEF PullStep

-----------------------------------------------------------------------------
(* The theorems                                                            *)

\* TransferInv is an invariant of every behaviour.
THEOREM TransferInvariance == Spec => []TransferInv
<1>1. Init => TransferInv
  <2> SUFFICES ASSUME Init PROVE TransferInv
    OBVIOUS
  <2>1. TypeOK
    BY TypeInit
  <2>2. \A t \in Thread : thread[t].at = "done"
    BY NoThreadType DEF Init
  <2>3. Settled /\ Downloaded /\ Serving /\ ServedStays
    BY <2>2 DEF Init, Settled, Downloaded, Serving, ServedStays, Reading
  <2>4. InRange /\ ChunkHasOneWriter
    BY <2>2 DEF Init, InRange, ChunkHasOneWriter, Busy
  <2>5. world.reliable \subseteq Node \ {Me}
    BY <2>1, TransferAssumption DEF TypeOK
  <2>6. Whole
    BY <2>5 DEF Init, Whole
  <2>7. Untried /\ ReliableOwnerSuffices
    BY <2>2 DEF Init, Untried, ReliableOwnerSuffices, Busy
  <2> QED BY <2>1, <2>3, <2>4, <2>6, <2>7 DEF TransferInv
<1>2. TransferInv /\ [Next]_vars => TransferInv'
  <2> SUFFICES ASSUME TransferInv, [Next]_vars PROVE TransferInv'
    OBVIOUS
  <2>1. TypeOK /\ LockInv /\ ChunkInv /\ TrustInv
    BY DEF TransferInv, LockInv, ChunkInv, TrustInv
  <2>2. CASE Next
    <3>1. /\ PullStep \/ (\E t \in Thread : ThreadStep(t)) \/ Around
          /\ UNCHANGED world
      BY <2>2 DEF Next
    <3>2. TypeOK'
      BY <2>1, <3>1, PullTypes, ThreadTypes, AroundTypes DEF LockInv, ChunkInv
    <3>3. LockInv'
      BY <2>1, <3>1, <3>2, PullLocks, ThreadLocks, AroundLocks
    <3>4. ChunkInv'
      BY <2>1, <3>1, <3>2, ChunkSteps
    <3>5. Whole'
      BY <2>1, <3>1, WholeSteps DEF TrustInv
    <3>6. Untried'
      BY <2>1, <3>1, <3>2, UntriedSteps
    <3>7. ReliableOwnerSuffices'
      BY <2>1, <3>1, SufficesSteps
    <3> QED BY <3>2, <3>3, <3>4, <3>5, <3>6, <3>7 DEF TransferInv, LockInv, ChunkInv
  <2>3. CASE UNCHANGED vars
    BY <2>3 DEF TransferInv, TypeOK, Settled, Downloaded, Serving, ServedStays, InRange,
       ChunkHasOneWriter, Whole, Untried, ReliableOwnerSuffices, Trusted, Reading, Busy, OwnerOf,
       vars, pullVars, kindVars, downloadVars
  <2> QED BY <2>2, <2>3
<1> QED BY <1>1, <1>2, PTL DEF Spec

\* Types: no range has a negative length, no owner is read past the list.
THEOREM TransferTypes == Spec => []TypeOK
<1>1. TransferInv => TypeOK
  BY DEF TransferInv
<1> QED BY <1>1, TransferInvariance, PTL

\* A chunk file has one writer.
THEOREM OneWriterTheorem == Spec => []ChunkHasOneWriter
<1>1. TransferInv => ChunkHasOneWriter
  BY DEF TransferInv
<1> QED BY <1>1, TransferInvariance, PTL

\* An object that is being served stays.
THEOREM ServedTheorem == Spec => []ServedStays
<1>1. TransferInv => ServedStays
  BY DEF TransferInv
<1> QED BY <1>1, TransferInvariance, PTL

\* One reliable owner is enough for a download, however many others fail.
THEOREM ReliableTheorem == Spec => []ReliableOwnerSuffices
<1>1. TransferInv => ReliableOwnerSuffices
  BY DEF TransferInv
<1> QED BY <1>1, TransferInvariance, PTL

-----------------------------------------------------------------------------
(* Contents: a second inductive invariant, above TransferInv               *)

\* Where chunk k, counted from 1, ends in the object, and what it contains.
Upto(k) == Least({k * ChunkSize, Len(Right)})
Piece(k) == SubSeq(Right, Upto(k - 1) + 1, Upto(k))

\* Where nothing is filled in place, what can be read is complete.
Sound == world.inPlace = {} =>
    /\ \A n \in Node \ {Me} : obj[n] \in {NoFile, Right}
    /\ pull \in {"size", "download"} => obj[Me] = NoFile
    /\ pull = "download" => size = Len(Right)

\* A thread has received the beginning of its chunk, and the rest is left.
Received == world.inPlace = {} =>
    \A t \in Thread : Reading(t) =>
        LET begin == Upto(thread[t].index)
            now == begin + Len(thread[t].data)
        IN  /\ now + thread[t].left = Upto(thread[t].index + 1)
            /\ thread[t].data = SubSeq(Right, begin + 1, now)

\* While no thread has given up, a chunk is complete, or a thread is at it, or
\* it has not been given out, and then there is a thread to take it.
Collected == (world.inPlace = {} /\ pull = "download" /\ ~failed) =>
    /\ \A i \in 1 .. Len(chunk) :
          \/ chunk[i] = Piece(i)
          \/ i > nextChunk
          \/ \E t \in Thread : Busy(t) /\ thread[t].index = i - 1
    /\ nextChunk >= Len(chunk) \/ \E t \in Thread : thread[t].at # "done"

\* A pull that asks for the size has given out no chunk yet.
Fresh == pull \in {"idle", "size"} => nextChunk = 0

ContentInv == Sound /\ Received /\ Fresh /\ Collected /\ WholeWhenVerified

\* Nothing half written reaches the file of a node that keeps no objects.
Unkept == ~world.keeps =>
    /\ obj[Me] \in {NoFile, Right} /\ FileIsWhole
    /\ ~share /\ pull \notin {"create", "copy"}

\* The ends of the chunks: they grow to the end of the object, and all but the
\* last are multiples of the chunk size.
LEMMA Ends ==
    /\ Len(Right) \in Nat /\ ChunkCount(Len(Right)) \in Nat
    /\ \A k \in Nat : /\ Upto(k) \in 0 .. Len(Right) /\ Upto(k) <= Upto(k + 1)
                      /\ k < ChunkCount(Len(Right)) =>
                            /\ Upto(k) = k * ChunkSize /\ Upto(k) < Len(Right)
                            /\ Upto(k + 1) = Least({ChunkSize, Len(Right) - Upto(k)}) + Upto(k)
    /\ Upto(0) = 0
    /\ Upto(ChunkCount(Len(Right))) = Len(Right)
<1> DEFINE c == ChunkSize
           L == Len(Right)
           q == ChunkCount(L)
<1>1. c \in Nat \ {0} /\ L \in Nat
  BY TransferAssumption
<1>2. q \in Nat /\ \A p \in Nat : p < q => p * c \in 0 .. L - 1
  BY <1>1, ChunksCover
<1> HIDE DEF c, L
<1>3. q * c >= L
  <2>1. L + c - 1 \in Nat
    BY <1>1
  <2> DEFINE a == L + c - 1
             d == a \div c
  <2>2. d \in Nat /\ a < d * c + c
    BY <1>1, <2>1, Quotient
  <2>3. q = d
    BY DEF ChunkCount, c
  <2> HIDE DEF d, q
  <2>4. d * c \in Nat
    BY <1>1, <2>2
  <2>5. d * c >= L
    BY <1>1, <2>2, <2>4
  <2> QED BY <2>3, <2>5
<1> HIDE DEF q
<1>4. \A k \in Nat : k * c \in Nat
  BY <1>1
<1>5. \A k \in Nat : Upto(k) = IF k * c <= L THEN k * c ELSE L
  BY <1>1, <1>4, LeastOfTwo DEF Upto, c, L
<1>6. ASSUME NEW k \in Nat
      PROVE  /\ Upto(k) \in 0 .. L /\ Upto(k) <= Upto(k + 1)
             /\ k < q => /\ Upto(k) = k * c /\ Upto(k) < L
                         /\ Upto(k + 1) = Least({c, L - Upto(k)}) + Upto(k)
  <2>1. k + 1 \in Nat /\ k * c \in Nat /\ (k + 1) * c = k * c + c
    BY <1>1, <1>4
  <2> DEFINE x == k * c
             y == (k + 1) * c
  <2>2. /\ Upto(k) = IF x <= L THEN x ELSE L
        /\ Upto(k + 1) = IF y <= L THEN y ELSE L
        /\ x \in Nat /\ y = x + c
        /\ k < q => x \in 0 .. L - 1
    BY <1>2, <1>5, <2>1
  <2> HIDE DEF x, y
  <2>3. Upto(k) \in 0 .. L /\ Upto(k) <= Upto(k + 1)
    BY <1>1, <2>2
  <2>4. ASSUME k < q
        PROVE  /\ Upto(k) = x /\ Upto(k) < L
               /\ Upto(k + 1) = Least({c, L - Upto(k)}) + Upto(k)
    <3>1. Upto(k) = x /\ x \in 0 .. L - 1
      BY <1>1, <2>2, <2>4
    <3>2. Least({c, L - x}) = IF c <= L - x THEN c ELSE L - x
      BY <1>1, <3>1, LeastOfTwo
    <3> QED BY <1>1, <2>2, <3>1, <3>2
  <2> QED BY <2>3, <2>4 DEF x
<1>7. Upto(0) = 0
  <2>1. 0 * c = 0 /\ 0 \in Nat
    BY <1>1
  <2> QED BY <1>1, <1>5, <2>1
<1>8. Upto(q) = L
  <2> DEFINE x == q * c
  <2>1. x \in Nat /\ x >= L /\ Upto(q) = IF x <= L THEN x ELSE L
    BY <1>2, <1>3, <1>4, <1>5
  <2> HIDE DEF x
  <2> QED BY <1>1, <2>1
<1> QED BY <1>1, <1>2, <1>6, <1>7, <1>8 DEF q, L, c

\* A function that satisfies the equation of FlattenSeq.
Unrolls(f, s, n) == \A i \in 1 .. n : f[i] = IF i = 1 THEN s[i] ELSE f[i - 1] \o s[i]

\* Two of them end in the same: where they differ there would be a first place.
LEMMA Unrolled ==
    ASSUME NEW n \in Nat \ {0}, NEW s, NEW f, Unrolls(f, s, n), NEW g, Unrolls(g, s, n)
    PROVE  f[n] = g[n]
<1> DEFINE D == {i \in 1 .. n : f[i] # g[i]}
<1>1. \A i : i \in D <=> i \in 1 .. n /\ f[i] # g[i]
  OBVIOUS
<1> HIDE DEF D
<1>2. CASE D # {}
  <2>1. D \in SUBSET Nat
    BY <1>1
  <2>2. PICK m \in D : \A j \in D : ~(j < m)
    <3> DEFINE R == OpToRel(<, Nat)
    <3>1. PICK m \in D : \A j \in D : ~(<<j, m>> \in R)
      BY <1>2, <2>1, NatLessThanWellFounded, WFMin
    <3> QED BY <2>1, <3>1 DEF OpToRel
  <2>3. m \in 1 .. n /\ f[m] # g[m]
    BY <1>1, <2>2
  <2>4. m # 1
    BY <2>3 DEF Unrolls
  <2>5. m - 1 \in 1 .. n /\ m - 1 \notin D
    BY <2>1, <2>2, <2>3, <2>4
  <2>6. f[m - 1] = g[m - 1]
    BY <1>1, <2>5
  <2> QED BY <2>3, <2>4, <2>6 DEF Unrolls
<1> QED BY <1>1, <1>2

\* The chunks of the object put together one after the other are the object.
\* FlattenSeq is a recursive function; there is one that satisfies its equation
\* (the beginnings of the object), and where two differ there is a first place.
LEMMA Flattened ==
    ASSUME NEW s, Len(s) = ChunkCount(Len(Right)), s \in Seq(Content),
           \A i \in 1 .. Len(s) : s[i] = Piece(i)
    PROVE  FlattenSeq(s) = Right
<1> DEFINE n == Len(s)
           F == [i \in 1 .. n |-> SubSeq(Right, 1, Upto(i))]
           Joins(f) == f = [i \in 1 .. n |-> IF i = 1 THEN s[i] ELSE f[i - 1] \o s[i]]
<1>1. /\ n \in Nat /\ Upto(0) = 0 /\ Upto(n) = Len(Right)
      /\ \A k \in Nat : Upto(k) \in 0 .. Len(Right) /\ Upto(k) <= Upto(k + 1)
  BY Ends
<1>2. Right \in Seq(Unit) /\ Len(Right) \in Nat
  BY TransferAssumption
<1>3. CASE n = 0
  <2>1. s = <<>> /\ Right = <<>>
    BY <1>1, <1>2, <1>3
  <2> QED BY <1>3, <2>1 DEF FlattenSeq
<1>4. CASE n # 0
  <2>1. \A i \in 1 .. n : i - 1 \in Nat /\ Upto(i - 1) <= Upto(i)
    <3>1. \A i \in 1 .. n : i - 1 \in Nat /\ (i - 1) + 1 = i
      BY <1>1
    <3> QED BY <1>1, <3>1
  <2>2. Joins(F)
    <3>1. ASSUME NEW i \in 1 .. n, i = 1
          PROVE  F[i] = s[i]
      <4>1. Upto(i - 1) = 0
        BY <1>1, <3>1
      <4> QED BY <3>1, <4>1 DEF Piece
    <3>2. ASSUME NEW i \in 1 .. n, i # 1
          PROVE  F[i] = F[i - 1] \o s[i]
      <4> DEFINE a == Upto(i - 1)
                 b == Upto(i)
      <4>1. i - 1 \in 1 .. n /\ i \in Nat
        BY <1>1, <3>2
      <4>2. a \in 0 .. Len(Right) /\ b \in 0 .. Len(Right) /\ a <= b
        BY <1>1, <2>1, <4>1
      <4>3. s[i] = SubSeq(Right, a + 1, b)
        BY DEF Piece
      <4>4. F[i] = SubSeq(Right, 1, b) /\ F[i - 1] = SubSeq(Right, 1, a)
        BY <4>1
      <4> HIDE DEF a, b
      <4>5. 1 \in 1 .. Len(Right) + 1 /\ a \in 1 - 1 .. Len(Right) /\ b \in a .. Len(Right)
        BY <1>2, <4>2
      <4>6. SubSeq(Right, 1, a) \o SubSeq(Right, a + 1, b) = SubSeq(Right, 1, b)
        BY <1>2, <4>5, ConcatAdjacentSubSeq
      <4> QED BY <4>3, <4>4, <4>6
    <3> DEFINE G == [i \in 1 .. n |-> IF i = 1 THEN s[i] ELSE F[i - 1] \o s[i]]
    <3>3. \A i \in 1 .. n : F[i] = G[i]
      <4> HIDE DEF F
      <4> QED BY <3>1, <3>2
    <3> HIDE DEF n
    <3>4. F = [i \in 1 .. n |-> F[i]]
      OBVIOUS
    <3>5. G = [i \in 1 .. n |-> G[i]]
      <4> HIDE DEF F
      <4> QED OBVIOUS
    <3> HIDE DEF F, G
    <3>6. F = G
      BY <3>3, <3>4, <3>5
    <3> QED BY <3>6 DEF G
  <2>3. F[n] = Right
    <3>0. SubSeq(Right, 1, Len(Right)) = Right
      BY <1>2, SubSeqFull
    <3>1. n \in 1 .. n /\ SubSeq(Right, 1, Upto(n)) = Right
      <4>1. n \in Nat /\ n # 0 /\ Upto(n) = Len(Right)
        BY <1>1, <1>4
      <4> HIDE DEF n
      <4> QED BY <3>0, <4>1
    <3> HIDE DEF n
    <3> QED BY <3>1
  <2> DEFINE f == CHOOSE g : Joins(g)
  <2>4. FlattenSeq(s) = f[n]
    BY <1>4 DEF FlattenSeq
  <2>5. Joins(f)
    <3> HIDE DEF F, Joins
    <3> QED BY <2>2
  <2> HIDE DEF f, F
  <2>6. n \in Nat \ {0} /\ Unrolls(f, s, n)
    BY <1>1, <1>4, <2>5 DEF Unrolls
  <2>7. Unrolls(F, s, n)
    BY <2>2 DEF Unrolls
  <2> HIDE DEF n
  <2>8. f[n] = F[n]
    BY <2>6, <2>7, Unrolled
  <2> QED BY <2>3, <2>4, <2>8
<1> QED BY <1>3, <1>4

\* No step makes a file that others can read be half there, when nobody fills
\* one in place.
LEMMA SoundSteps ==
    ASSUME TypeOK, Sound, UNCHANGED world,
           PullStep \/ (\E t \in Thread : ThreadStep(t)) \/ Around
    PROVE  Sound'
<1> SUFFICES ASSUME world.inPlace = {}
             PROVE  /\ \A n \in Node \ {Me} : obj'[n] \in {NoFile, Right}
                    /\ pull' \in {"size", "download"} => obj'[Me] = NoFile
                    /\ pull' = "download" => size' = Len(Right)
  BY DEF Sound
<1>1. /\ \A n \in Node \ {Me} : obj[n] \in {NoFile, Right}
      /\ pull \in {"size", "download"} => obj[Me] = NoFile
      /\ pull = "download" => size = Len(Right)
  BY DEF Sound
<1>2. Me \in Node
  BY TransferAssumption
<1>3. CASE PullStep
  <2>1. \A n \in Node \ {Me} : obj'[n] = obj[n]
    BY <1>3, <1>2 DEF PullStep, AskSize, Join, Verify, Materialize, CreateObject, CopyUnit,
       End, TypeOK
  <2>2. CASE AskSize
    <3>1. UNCHANGED obj /\ pull = "size" /\ obj[Me] = NoFile
      BY <1>1, <2>2 DEF AskSize
    <3>2. Owners[asked + 1] \in Node
      BY TransferAssumption DEF TypeOK
    <3>3. pull' = "download" => size' = Len(Right)
      BY <1>1, <2>2, <3>1, <3>2 DEF AskSize, Return
    <3> QED BY <1>1, <2>1, <3>1, <3>3
  <2>3. CASE Join \/ Verify \/ Materialize \/ CreateObject \/ CopyUnit \/ End
    <3>1. pull' \notin {"size", "download"}
      BY <2>3 DEF Join, Verify, Materialize, CreateObject, CopyUnit, End, Return
    <3> QED BY <1>1, <1>2, <2>1, <3>1
  <2> QED BY <1>3, <2>2, <2>3 DEF PullStep
<1>4. ASSUME NEW t \in Thread, ThreadStep(t)
      PROVE  UNCHANGED <<obj, pull, size>>
  BY <1>4 DEF ThreadStep, Test, Take, Serve, SendUnit, EndRange, RangeFails, pullVars,
     downloadVars
<1>5. CASE Around
  <2>1. CASE Begin \/ Abort \/ Edit
    <3>1. UNCHANGED obj
      BY <2>1 DEF Begin, Abort, Edit
    <3>2. pull' \in {"size", "download"} => obj[Me] = NoFile
      BY <1>1, <2>1 DEF Begin, Abort, Return, Edit, pullVars
    <3>3. pull' = "download" => size' = Len(Right)
      BY <1>1, <2>1 DEF Begin, Abort, Return, Edit, pullVars, downloadVars
    <3> QED BY <1>1, <3>1, <3>2, <3>3
  <2>2. ASSUME NEW n \in Node, GoDown(n) \/ GoUp(n)
        PROVE  UNCHANGED <<obj, pull, size>>
    BY <2>2 DEF GoDown, GoUp, pullVars, downloadVars
  <2>3. ASSUME NEW n \in Node, DeleteObject(n) \/ ObjectArrives(n) \/ Fill(n)
        PROVE  /\ UNCHANGED <<pull, size>>
               /\ \A m \in Node \ {Me} : obj'[m] \in {NoFile, Right}
               /\ obj[Me] = NoFile => obj'[Me] = NoFile
    BY <1>1, <1>2, <2>3 DEF DeleteObject, ObjectArrives, Fill, pullVars, downloadVars, TypeOK
  <2> QED BY <1>1, <1>5, <2>1, <2>2, <2>3 DEF Around
<1> QED BY <1>1, <1>3, <1>4, <1>5

\* What a thread reads is the object.
LEMMA ReadsRight ==
    ASSUME TypeOK, Settled, Sound, world.inPlace = {}, NEW t \in Thread, thread[t].at # "done",
           obj[OwnerOf(t)] # NoFile
    PROVE  obj[OwnerOf(t)] = Right /\ size = Len(Right) /\ pull = "download"
<1>1. OwnerOf(t) \in Node
  BY OwnerIsOwner
<1>2. pull = "download"
  BY DEF Settled
<1> QED BY <1>1, <1>2 DEF Sound

\* A thread receives the units of its chunk in order, and no others.
LEMMA ReceivedSteps ==
    ASSUME TypeOK, TypeOK', LockInv, InRange, Sound, Received, UNCHANGED world,
           PullStep \/ (\E t \in Thread : ThreadStep(t)) \/ Around
    PROVE  Received'
<1> DEFINE Good(th) ==
             LET begin == Upto(th.index)
                 now == begin + Len(th.data)
             IN  now + th.left = Upto(th.index + 1) /\ th.data = SubSeq(Right, begin + 1, now)
<1> SUFFICES ASSUME world.inPlace = {}, NEW t \in Thread, thread'[t].at = "read"
             PROVE  Good(thread'[t])
  BY DEF Received, Reading
<1>1. \A s \in Thread : thread[s].at = "read" => Good(thread[s])
  BY DEF Received, Reading
<1> HIDE DEF Good
<1>2. CASE PullStep
  BY <1>2, PullThreads DEF LockInv
<1>3. CASE Around
  <2>1. CASE UNCHANGED thread
    BY <1>1, <2>1
  <2>2. CASE Abort
    BY <2>2, NoThreadType DEF Abort, Return, Discard
  <2>3. ASSUME NEW n \in Node, GoDown(n)
        PROVE  thread'[t] = thread[t]
    <3>1. thread[t] \in ThreadState
      BY DEF TypeOK
    <3>2. thread'[t] = IF t \in readers[n] THEN [thread[t] EXCEPT !.at = "lost"] ELSE thread[t]
      BY <2>3 DEF GoDown
    <3> QED BY <3>1, <3>2 DEF ThreadState
  <2>4. ASSUME thread'[t] = thread[t]
        PROVE  Good(thread'[t])
    BY <1>1, <2>4
  <2> QED BY <1>3, <2>1, <2>2, <2>3, <2>4 DEF Around, Begin, Edit, GoUp, DeleteObject, Fill,
             ObjectArrives
<1>4. ASSUME NEW s \in Thread, ThreadStep(s)
      PROVE  Good(thread'[t])
  <2>1. CASE s # t
    BY <1>1, <1>4, <2>1, OtherThreads
  <2>2. CASE s = t
    <3>0. (Serve(t) \/ SendUnit(t)) /\ Busy(t)
      <4>1. Busy(t)'
        BY DEF Busy
      <4>2. thread'[t] # Asking(nextChunk, 0)
            /\ thread'[t] # Asking(thread[t].index, thread[t].attempt + 1)
        BY DEF Asking
      <4> QED BY <1>4, <2>2, <4>1, <4>2, OwnThread
    <3> DEFINE n == OwnerOf(t)
               i == thread[t].index
    <3>1. thread[t] \in ThreadState /\ i \in Nat /\ thread[t].at # "done"
      BY <3>0 DEF TypeOK, ThreadState, Busy
    <3>2. obj[n] # NoFile
      BY <3>0 DEF Serve, SendUnit, LockInv, ServedStays
    <3>3. obj[n] = Right /\ size = Len(Right) /\ pull = "download"
      BY <3>1, <3>2, ReadsRight DEF LockInv
    <3>4. i < ChunkCount(Len(Right))
      BY <3>0, <3>3 DEF InRange
    <3>5. /\ Len(Right) \in Nat /\ Upto(i) \in 0 .. Len(Right) /\ Upto(i + 1) \in 0 .. Len(Right)
          /\ Upto(i) = Offset(t) /\ Upto(i) < Len(Right)
          /\ Upto(i + 1) = Least({ChunkSize, Len(Right) - Upto(i)}) + Upto(i)
      <4>1. i + 1 \in Nat
        BY <3>1
      <4> QED BY <3>1, <3>4, <4>1, Ends DEF Offset
    <3> DEFINE a == Upto(i)
               z == Upto(i + 1)
    <3> HIDE DEF i
    <3>6. CASE Serve(t)
      <4> DEFINE l == Least({RangeSize(t), Len(Right) - a})
      <4>1. thread'[t] = Receiving(i, thread[t].attempt, <<>>, l)
        BY <3>3, <3>5, <3>6 DEF Serve, TypeOK, i
      <4>2. l = z - a
        <5>1. RangeSize(t) = Least({ChunkSize, Len(Right) - a})
          BY <3>3, <3>5 DEF RangeSize
        <5>2. ChunkSize \in Nat /\ Len(Right) - a \in Nat
          BY <3>5, TransferAssumption
        <5>3. Least({ChunkSize, Len(Right) - a}) \in Nat
              /\ Least({ChunkSize, Len(Right) - a}) <= Len(Right) - a
          BY <5>2, LeastOfTwo
        <5>4. l = RangeSize(t)
          BY <5>1, <5>2, <5>3, LeastOfTwo
        <5> QED BY <3>5, <5>1, <5>3, <5>4
      <4> HIDE DEF l
      <4>3. /\ thread'[t].index = i /\ thread'[t].data = <<>> /\ thread'[t].left = l
        BY <4>1 DEF Receiving
      <4>4. SubSeq(Right, a + 1, a + 0) = <<>>
        BY <3>5, SubSeqEmpty
      <4>5. a + 0 + l = z /\ a + Len(<<>>) = a + 0
        BY <3>5, <4>2
      <4> QED BY <4>3, <4>4, <4>5 DEF Good
    <3>7. CASE SendUnit(t)
      <4> DEFINE d == thread[t].data
                 m == a + Len(d)
      <4>1. d \in Seq(Unit) /\ Len(d) \in Nat /\ thread[t].left \in Nat \ {0}
        BY <3>1, <3>7 DEF SendUnit, ThreadState
      <4>2. thread'[t] = Receiving(i, thread[t].attempt, Append(d, Right[m + 1]), thread[t].left - 1)
        BY <3>3, <3>5, <3>7 DEF SendUnit, TypeOK, i
      <4>3. m + thread[t].left = z /\ d = SubSeq(Right, a + 1, m)
        BY <1>1, <3>7 DEF SendUnit, Reading, Good, i
      <4> DEFINE e == Len(d)
                 l == thread[t].left
                 L == Len(Right)
      <4>9. /\ a \in 0 .. L /\ z \in 0 .. L /\ L \in Nat /\ a < L
            /\ e \in Nat /\ l \in Nat \ {0} /\ m = a + e /\ m + l = z
        BY <3>5, <4>1, <4>3 DEF a, z
      <4>8. /\ m + 1 \in 1 .. L /\ a + 1 \in 1 .. L /\ m + 1 \in a + 1 .. L
            /\ (m + 1) - 1 = m
            /\ a + (e + 1) = m + 1 /\ a + (e + 1) + (l - 1) = z
        <5> HIDE DEF a, z, e, l, L, m
        <5> QED BY <4>9
      <4>4. Append(d, Right[m + 1]) = SubSeq(Right, a + 1, m + 1)
        <5> HIDE DEF a, d
        <5>1. m + 1 \in 1 .. Len(Right) /\ a + 1 \in 1 .. Len(Right) /\ m + 1 \in a + 1 .. Len(Right)
          BY <4>8
        <5>2. SubSeq(Right, a + 1, m + 1) = SubSeq(Right, a + 1, (m + 1) - 1) \o <<Right[m + 1]>>
          <6> HIDE DEF m
          <6> QED BY <5>1, SubSeqRecursiveSecond, TransferAssumption
        <5>3. (m + 1) - 1 = m
          BY <4>8
        <5>4. Append(d, Right[m + 1]) = d \o <<Right[m + 1]>>
          BY <4>1, <5>1, TransferAssumption
        <5> QED BY <4>3, <5>2, <5>3, <5>4
      <4>5. Len(Append(d, Right[m + 1])) = Len(d) + 1
        BY <4>1
      <4>6. /\ thread'[t].index = i /\ thread'[t].data = Append(d, Right[m + 1])
            /\ thread'[t].left = thread[t].left - 1
        BY <4>2 DEF Receiving
      <4>7. a + (Len(d) + 1) = m + 1 /\ a + (Len(d) + 1) + (thread[t].left - 1) = z
        BY <4>8
      <4> QED BY <4>4, <4>5, <4>6, <4>7 DEF Good
    <3> QED BY <3>0, <3>6, <3>7
  <2> QED BY <2>1, <2>2
<1> QED BY <1>2, <1>3, <1>4

\* The counter of chunks is reset with the rest of a pull.
LEMMA FreshSteps ==
    ASSUME TypeOK, Settled, Fresh, UNCHANGED world,
           PullStep \/ (\E t \in Thread : ThreadStep(t)) \/ Around
    PROVE  Fresh'
<1>1. CASE PullStep
  BY <1>1 DEF Fresh, PullStep, AskSize, Join, Verify, Materialize, CreateObject, CopyUnit, End,
     Return, Discard
<1>2. ASSUME NEW t \in Thread, ThreadStep(t)
      PROVE  Fresh'
  <2>1. UNCHANGED pull /\ thread[t].at # "done"
    BY <1>2, OtherThreads
  <2> QED BY <2>1 DEF Settled, Fresh
<1>3. CASE Around
  BY <1>3 DEF Fresh, Around, Begin, Abort, Return, Discard, Edit, GoDown, GoUp, DeleteObject,
     Fill, ObjectArrives, pullVars, downloadVars
<1> QED BY <1>1, <1>2, <1>3

\* There is a thread for every file that has a chunk.
LEMMA SomeThread ==
    ASSUME NEW q \in Nat \ {0}
    PROVE  1 \in Thread /\ 1 <= ThreadCount(q)
<1> DEFINE S == {q, Len(Owners), MaxThreads} \cup (IF Hardware = 0 THEN {} ELSE {Hardware})
<1>1. /\ Len(Owners) \in Nat \ {0} /\ MaxThreads \in Nat \ {0} /\ Hardware \in Nat
  BY TransferAssumption
<1>2. S \in SUBSET (Nat \ {0}) /\ S # {}
  BY <1>1
<1> HIDE DEF S
<1>3. PICK m \in S : \A y \in S : ~(y < m)
  <2> DEFINE R == OpToRel(<, Nat)
  <2>1. PICK m \in S : \A j \in S : ~(<<j, m>> \in R)
    BY <1>2, NatLessThanWellFounded, WFMin
  <2> QED BY <1>2, <2>1 DEF OpToRel
<1>4. \A y \in S : m <= y
  BY <1>2, <1>3
<1>5. Least(S) \in S
  BY <1>4 DEF Least
<1>6. Least(S) >= 1
  <2> DEFINE x == Least(S)
  <2>1. x \in Nat \ {0}
    BY <1>2, <1>5
  <2> HIDE DEF x
  <2>2. x >= 1
    BY <2>1
  <2> QED BY <2>2 DEF x
<1>7. ThreadCount(q) = Least(S)
  BY DEF ThreadCount, S
<1> QED BY <1>1, <1>2, <1>5, <1>6, <1>7 DEF Thread

\* A thread that reaches the end of its range has its chunk.
LEMMA EndIsPiece ==
    ASSUME TypeOK, LockInv, InRange, Sound, Received, world.inPlace = {},
           NEW t \in Thread, EndRange(t)
    PROVE  thread[t].data = Piece(thread[t].index + 1)
<1> DEFINE i == thread[t].index
           a == Upto(i)
           z == Upto(i + 1)
           e == Len(thread[t].data)
           l == thread[t].left
           L == Len(Right)
<1>1. thread[t] \in ThreadState /\ i \in Nat /\ e \in Nat /\ l \in Nat /\ Reading(t)
  <2>1. thread[t] \in ThreadState
    BY DEF TypeOK
  <2> QED BY <2>1 DEF ThreadState, EndRange
<1>2. thread[t].at # "done" /\ Busy(t)
  BY <1>1 DEF Reading, Busy
<1>3. obj[OwnerOf(t)] # NoFile
  BY <1>1 DEF LockInv, ServedStays
<1>4. obj[OwnerOf(t)] = Right /\ size = L /\ pull = "download"
  BY <1>2, <1>3, ReadsRight DEF LockInv
<1>5. i < ChunkCount(L)
  BY <1>2, <1>4 DEF InRange
<1>6. L \in Nat /\ a \in 0 .. L /\ z \in 0 .. L /\ a = Offset(t)
  <2>1. i + 1 \in Nat
    BY <1>1
  <2> QED BY <1>1, <1>5, <2>1, Ends DEF Offset
<1>7. (a + e) + l = z /\ thread[t].data = SubSeq(Right, a + 1, a + e)
  BY <1>1 DEF Received
<1>8. l = 0 \/ a + e >= L
  BY <1>4, <1>6 DEF EndRange
<1>9. a + e = z /\ (i + 1) - 1 = i
  <2> HIDE DEF i, a, z, e, l, L
  <2> QED BY <1>1, <1>6, <1>7, <1>8
<1> QED BY <1>7, <1>9 DEF Piece

\* No chunk is lost: it is given out, its thread stays at it, and the thread
\* that leaves it without an error has put it down.
LEMMA CollectedSteps ==
    ASSUME TypeOK, TypeOK', LockInv, ChunkInv, Sound, Received, Fresh, Collected,
           UNCHANGED world,
           PullStep \/ (\E t \in Thread : ThreadStep(t)) \/ Around
    PROVE  Collected'
<1> DEFINE Held(i) == \E t \in Thread : Busy(t) /\ thread[t].index = i - 1
<1> SUFFICES ASSUME world.inPlace = {}, pull' = "download", ~failed'
             PROVE  /\ \A i \in 1 .. Len(chunk') :
                          chunk'[i] = Piece(i) \/ i > nextChunk' \/ Held(i)'
                    /\ nextChunk' >= Len(chunk') \/ \E t \in Thread : thread'[t].at # "done"
  BY DEF Collected, Piece, Upto
<1>1. ASSUME pull = "download", ~failed
      PROVE  /\ \A i \in 1 .. Len(chunk) : chunk[i] = Piece(i) \/ i > nextChunk \/ Held(i)
             /\ nextChunk >= Len(chunk) \/ \E t \in Thread : thread[t].at # "done"
  BY <1>1 DEF Collected
<1>2. Len(chunk) \in Nat /\ nextChunk \in Nat /\ \A t \in Thread : thread[t] \in ThreadState
  BY DEF TypeOK
<1>3. ASSUME UNCHANGED <<chunk, nextChunk>>, pull = "download", ~failed,
             \A t \in Thread :
                 /\ Busy(t) => Busy(t)' /\ thread'[t].index = thread[t].index
                 /\ thread[t].at # "done" => thread'[t].at # "done"
      PROVE  /\ \A i \in 1 .. Len(chunk') :
                   chunk'[i] = Piece(i) \/ i > nextChunk' \/ Held(i)'
             /\ nextChunk' >= Len(chunk') \/ \E t \in Thread : thread'[t].at # "done"
  <2>1. \A i : Held(i) => Held(i)'
    BY <1>3
  <2> QED BY <1>1, <1>3, <2>1
<1>4. CASE PullStep
  <2>1. /\ size' = Len(obj[Owners[asked + 1]]) /\ pull = "size" /\ UNCHANGED nextChunk
        /\ chunk' = [i \in 1 .. ChunkCount(size') |-> NoFile]
        /\ thread' = [t \in Thread |-> IF t <= ThreadCount(ChunkCount(size'))
                                       THEN [NoThread EXCEPT !.at = "test"]
                                       ELSE NoThread]
    BY <1>4 DEF PullStep, AskSize, Join, Verify, Materialize, CreateObject, CopyUnit, End,
       Return
  <2>2. ChunkCount(size') \in Nat
    BY ChunksCover DEF TypeOK
  <2>3. nextChunk' = 0
    BY <2>1 DEF Fresh
  <2>4. Len(chunk') = ChunkCount(size')
    BY <2>1, <2>2 DEF TypeOK
  <2>5. CASE ChunkCount(size') = 0
    BY <2>3, <2>4, <2>5
  <2>6. CASE ChunkCount(size') # 0
    <3>1. 1 \in Thread /\ 1 <= ThreadCount(ChunkCount(size'))
      BY <2>2, <2>6, SomeThread
    <3>2. thread'[1] = [NoThread EXCEPT !.at = "test"]
      BY <2>1, <3>1
    <3>3. thread'[1].at # "done"
      BY <3>2 DEF NoThread
    <3> QED BY <2>2, <2>3, <2>4, <3>1, <3>3
  <2> QED BY <2>5, <2>6
<1>5. ASSUME NEW t \in Thread, ThreadStep(t)
      PROVE  /\ \A i \in 1 .. Len(chunk') :
                   chunk'[i] = Piece(i) \/ i > nextChunk' \/ Held(i)'
             /\ nextChunk' >= Len(chunk') \/ \E s \in Thread : thread'[s].at # "done"
  <2>1. /\ pull = "download" /\ \A s \in Thread \ {t} : thread'[s] = thread[s]
        /\ thread[t].at # "done"
    BY <1>5, OtherThreads
  <2>2. ~failed
    BY <1>5 DEF ThreadStep, Test, Take, Serve, SendUnit, EndRange, RangeFails, pullVars,
       downloadVars
  <2>3. CASE Test(t) \/ Serve(t) \/ SendUnit(t) \/ RangeFails(t)
    <3>1. UNCHANGED <<chunk, nextChunk>>
      BY <2>3 DEF Test, Serve, SendUnit, RangeFails, pullVars, downloadVars
    <3>2. /\ Busy(t) => Busy(t)' /\ thread'[t].index = thread[t].index
          /\ thread'[t].at # "done"
      <4>1. CASE Test(t)
        BY <1>2, <2>2, <4>1 DEF Test, TypeOK, ThreadState, Busy
      <4>2. CASE Serve(t)
        BY <4>2 DEF Serve, TypeOK, Receiving, Busy
      <4>3. CASE SendUnit(t)
        BY <4>3 DEF SendUnit, TypeOK, Receiving, Busy
      <4>4. CASE RangeFails(t)
        BY <2>2, <4>4 DEF RangeFails, TypeOK, Asking, Busy
      <4> QED BY <2>3, <4>1, <4>2, <4>3, <4>4
    <3>3. \A s \in Thread :
              /\ Busy(s) => Busy(s)' /\ thread'[s].index = thread[s].index
              /\ thread[s].at # "done" => thread'[s].at # "done"
      BY <2>1, <3>2 DEF Busy
    <3> QED BY <1>3, <2>1, <2>2, <3>1, <3>3
  <2>4. CASE Take(t)
    <3>1. nextChunk' = nextChunk + 1 /\ UNCHANGED chunk /\ thread[t].at = "take"
      BY <2>4 DEF Take
    <3>2. \A s \in Thread : Busy(s) => s # t /\ Busy(s)' /\ thread'[s].index = thread[s].index
      BY <2>1, <3>1 DEF Busy
    <3>3. \A i : Held(i) => Held(i)'
      BY <3>2
    <3>4. CASE nextChunk >= Len(chunk)
      <4>1. ASSUME NEW i \in 1 .. Len(chunk)
            PROVE  chunk[i] = Piece(i) \/ Held(i)
        <5>1. ~(i > nextChunk)
          BY <1>2, <3>4
        <5> QED BY <1>1, <2>1, <2>2, <5>1
      <4>2. nextChunk' >= Len(chunk')
        BY <1>2, <3>1, <3>4
      <4> HIDE DEF Held
      <4> QED BY <3>1, <3>3, <4>1, <4>2
    <3>5. CASE nextChunk < Len(chunk)
      <4>1. thread'[t] = Asking(nextChunk, 0)
        BY <1>2, <2>4, <3>5 DEF Take, TypeOK
      <4>2. Busy(t)' /\ thread'[t].index = nextChunk /\ thread'[t].at # "done"
        BY <4>1 DEF Asking, Busy
      <4>3. ASSUME NEW i \in 1 .. Len(chunk), i > nextChunk
            PROVE  i > nextChunk + 1 \/ i - 1 = nextChunk
        BY <1>2, <4>3
      <4>4. \A i : i - 1 = nextChunk => Held(i)'
        BY <4>2
      <4> QED BY <1>1, <2>1, <2>2, <3>1, <3>3, <4>2, <4>3, <4>4
    <3> QED BY <1>2, <3>4, <3>5
  <2>5. CASE EndRange(t)
    <3> DEFINE k == thread[t].index + 1
    <3>1. Busy(t) /\ UNCHANGED nextChunk /\ chunk' = [chunk EXCEPT ![k] = thread[t].data]
      BY <2>5 DEF EndRange, Reading, Busy
    <3>2. thread[t].index \in Nat /\ k \in 1 .. Len(chunk)
      <4>1. thread[t].index \in Nat /\ thread[t].index < Len(chunk)
        BY <1>2, <3>1 DEF ChunkInv, InRange, ThreadState
      <4> QED BY <1>2, <4>1
    <3>3. thread[t].data = Piece(k)
      BY <2>5, EndIsPiece DEF ChunkInv
    <3>4. thread'[t].at # "done"
      BY <2>5 DEF EndRange, TypeOK, NoThread
    <3>5. /\ Len(chunk') = Len(chunk) /\ chunk'[k] = Piece(k)
          /\ \A i \in 1 .. Len(chunk) : i # k => chunk'[i] = chunk[i]
      <4>1. thread[t].data \in Content
        BY <1>2 DEF ThreadState, Content
      <4>2. chunk \in Seq(Content) /\ DOMAIN chunk = 1 .. Len(chunk)
        BY DEF TypeOK
      <4> HIDE DEF k
      <4>3. Len(chunk') = Len(chunk)
        BY <3>1, <3>2, <4>1, <4>2, ExceptSeq
      <4> QED BY <3>1, <3>2, <3>3, <4>2, <4>3
    <3>6. ASSUME NEW i \in 1 .. Len(chunk), i # k, Held(i)
          PROVE  Held(i)'
      <4>1. PICK s \in Thread : Busy(s) /\ thread[s].index = i - 1
        BY <3>6
      <4>2. s # t
        <5>1. i \in Nat
          BY <1>2
        <5> QED BY <3>2, <3>6, <4>1, <5>1
      <4> QED BY <2>1, <4>1, <4>2 DEF Busy
    <3> HIDE DEF k, Held
    <3> QED BY <1>1, <2>1, <2>2, <3>1, <3>4, <3>5, <3>6
  <2> QED BY <1>5, <2>3, <2>4, <2>5 DEF ThreadStep
<1>6. CASE Around
  <2>1. UNCHANGED <<chunk, nextChunk>> /\ pull = "download" /\ ~failed
    BY <1>6 DEF Around, Begin, Abort, Return, Edit, GoDown, GoUp, DeleteObject, Fill,
       ObjectArrives, pullVars, downloadVars
  <2>2. ASSUME NEW t \in Thread
        PROVE  /\ Busy(t) => Busy(t)' /\ thread'[t].index = thread[t].index
               /\ thread[t].at # "done" => thread'[t].at # "done"
    <3>1. CASE thread'[t] = thread[t]
      BY <3>1 DEF Busy
    <3>2. CASE thread'[t] = [thread[t] EXCEPT !.at = "lost"]
      BY <1>2, <3>2 DEF ThreadState, Busy
    <3>3. UNCHANGED thread \/ \E n \in Node : GoDown(n)
      BY <1>6 DEF Around, Begin, Abort, Return, Edit, GoUp, DeleteObject, Fill, ObjectArrives
    <3> QED BY <3>1, <3>2, <3>3 DEF GoDown
  <2> QED BY <1>3, <2>1, <2>2
<1> QED BY <1>4, <1>5, <1>6

\* What is put together is the whole object.
LEMMA VerifySteps ==
    ASSUME TypeOK, LockInv, InRange, Sound, Collected, WholeWhenVerified, UNCHANGED world,
           PullStep \/ (\E t \in Thread : ThreadStep(t)) \/ Around
    PROVE  WholeWhenVerified'
<1> SUFFICES ASSUME world.inPlace = {}, pull' = "verify"
             PROVE  assembled' = Right
  BY DEF WholeWhenVerified
<1>1. CASE Join
  <2>1. /\ pull = "download" /\ ~failed /\ assembled' = FlattenSeq(chunk)
        /\ \A t \in Thread : thread[t].at = "done"
    BY <1>1 DEF Join, Return
  <2>2. /\ \A i \in 1 .. Len(chunk) : chunk[i] = Piece(i) \/ i > nextChunk
        /\ nextChunk >= Len(chunk)
    BY <2>1 DEF Collected, Busy
  <2>3. \A i \in 1 .. Len(chunk) : chunk[i] = Piece(i)
    <3>1. Len(chunk) \in Nat /\ nextChunk \in Nat
      BY DEF TypeOK
    <3>2. \A i \in 1 .. Len(chunk) : ~(i > nextChunk)
      BY <2>2, <3>1
    <3> QED BY <2>2, <3>2
  <2>4. Len(chunk) = ChunkCount(Len(Right)) /\ chunk \in Seq(Content)
    BY <2>1 DEF InRange, Sound, TypeOK
  <2> QED BY <2>1, <2>3, <2>4, Flattened
<1>2. CASE AskSize \/ Verify \/ Materialize \/ CreateObject \/ CopyUnit \/ End
  BY <1>2 DEF AskSize, Verify, Materialize, CreateObject, CopyUnit, End, Return
<1>3. ASSUME NEW t \in Thread, ThreadStep(t)
      PROVE  UNCHANGED <<pull, assembled>>
  BY <1>3 DEF ThreadStep, Test, Take, Serve, SendUnit, EndRange, RangeFails, pullVars,
     downloadVars
<1>4. CASE Around
  <2>1. UNCHANGED <<pull, assembled>>
    BY <1>4 DEF Around, Begin, Abort, Return, Edit, GoDown, GoUp, DeleteObject, Fill,
       ObjectArrives, pullVars, downloadVars
  <2> QED BY <2>1 DEF WholeWhenVerified
<1> QED BY <1>1, <1>2, <1>3, <1>4 DEF PullStep, WholeWhenVerified

\* Where nobody keeps objects, an object file of Me is a download that has
\* passed the hash check, and so is the file.
LEMMA UnkeptSteps ==
    ASSUME TypeOK, Unkept, UNCHANGED world,
           PullStep \/ (\E t \in Thread : ThreadStep(t)) \/ Around
    PROVE  Unkept'
<1> SUFFICES ASSUME ~world.keeps
             PROVE  /\ obj'[Me] \in {NoFile, Right} /\ file' \in {NoFile, Right, Edited}
                    /\ ~share' /\ pull' \notin {"create", "copy"}
  BY DEF Unkept, FileIsWhole
<1>1. /\ obj[Me] \in {NoFile, Right} /\ file \in {NoFile, Right, Edited}
      /\ ~share /\ pull \notin {"create", "copy"}
  BY DEF Unkept, FileIsWhole
<1>2. Me \in Node /\ Me \notin world.inPlace
  BY TransferAssumption DEF TypeOK
<1>0. world.keeps = FALSE
  BY TransferAssumption DEF TypeOK
<1>3. CASE AskSize \/ Join \/ End
  BY <1>1, <1>3 DEF AskSize, Join, End, Return, Discard, kindVars
<1>4. CASE Verify
  BY <1>1, <1>2, <1>4 DEF Verify, Return, Discard, kindVars, TypeOK
<1>5. CASE Materialize
  BY <1>1, <1>5 DEF Materialize, Return, Discard, kindVars
<1>6. CASE CreateObject \/ CopyUnit
  BY <1>1, <1>6 DEF CreateObject, CopyUnit
<1>7. ASSUME NEW t \in Thread, ThreadStep(t)
      PROVE  UNCHANGED <<obj, file, pull, share>>
  BY <1>7 DEF ThreadStep, Test, Take, Serve, SendUnit, EndRange, RangeFails, pullVars, kindVars
<1>8. CASE Begin \/ Abort \/ Edit
  <2>1. CASE Begin
    <3>1. share' = FALSE /\ UNCHANGED <<obj, file>> /\ pull' \in {"size", "materialize"}
      BY <1>0, <2>1 DEF Begin
    <3> QED BY <1>1, <3>1
  <2>2. CASE Abort
    <3>1. share' = FALSE /\ UNCHANGED <<obj, file>> /\ pull' = "idle"
      BY <2>2 DEF Abort, Return, Discard
    <3> QED BY <1>1, <3>1
  <2>3. CASE Edit
    <3>1. UNCHANGED <<obj, share, pull>> /\ file' = Edited
      BY <2>3 DEF Edit, pullVars, kindVars
    <3> QED BY <1>1, <3>1
  <2> QED BY <1>8, <2>1, <2>2, <2>3
<1>9. ASSUME NEW n \in Node,
             GoDown(n) \/ GoUp(n) \/ DeleteObject(n) \/ Fill(n) \/ ObjectArrives(n)
      PROVE  UNCHANGED <<file, pull, share>> /\ obj'[Me] \in {NoFile, Right}
  BY <1>1, <1>2, <1>9 DEF GoDown, GoUp, DeleteObject, Fill, ObjectArrives, pullVars, kindVars,
     TypeOK
<1> QED BY <1>1, <1>3, <1>4, <1>5, <1>6, <1>7, <1>8, <1>9 DEF PullStep, Around

\* ContentInv and Unkept are invariants of every behaviour.
THEOREM ContentInvariance == Spec => [](ContentInv /\ Unkept)
<1>1. Init => ContentInv /\ Unkept
  <2> SUFFICES ASSUME Init PROVE ContentInv /\ Unkept
    OBVIOUS
  <2>1. \A t \in Thread : thread[t].at = "done"
    BY NoThreadType DEF Init
  <2> QED BY <2>1 DEF Init, ContentInv, Sound, Received, Fresh, Collected, WholeWhenVerified,
             Reading, Unkept, FileIsWhole
<1>2. TransferInv /\ TransferInv' /\ (ContentInv /\ Unkept) /\ [Next]_vars
      => (ContentInv /\ Unkept)'
  <2> SUFFICES ASSUME TransferInv, TransferInv', ContentInv, Unkept, [Next]_vars
               PROVE  ContentInv' /\ Unkept'
    OBVIOUS
  <2>1. /\ TypeOK /\ TypeOK' /\ LockInv /\ ChunkInv /\ InRange /\ Settled
        /\ Sound /\ Received /\ Fresh /\ Collected /\ WholeWhenVerified
    BY DEF TransferInv, LockInv, ChunkInv, ContentInv
  <2>2. CASE Next
    <3>1. /\ PullStep \/ (\E t \in Thread : ThreadStep(t)) \/ Around
          /\ UNCHANGED world
      BY <2>2 DEF Next
    <3>2. Sound'
      BY <2>1, <3>1, SoundSteps
    <3>3. Received'
      BY <2>1, <3>1, ReceivedSteps
    <3>4. Fresh'
      BY <2>1, <3>1, FreshSteps
    <3>5. Collected'
      BY <2>1, <3>1, CollectedSteps
    <3>6. WholeWhenVerified'
      BY <2>1, <3>1, VerifySteps
    <3>7. Unkept'
      BY <2>1, <3>1, UnkeptSteps
    <3> QED BY <3>2, <3>3, <3>4, <3>5, <3>6, <3>7 DEF ContentInv
  <2>3. CASE UNCHANGED vars
    <3>1. UNCHANGED <<world, obj, file, pull, share, size, nextChunk, failed, chunk, assembled,
                      thread>>
      BY <2>3 DEF vars, pullVars, kindVars, downloadVars
    <3> QED BY <3>1 DEF ContentInv, Sound, Received, Fresh, Collected, WholeWhenVerified,
               Reading, Busy, Upto, Piece, Unkept, FileIsWhole
  <2> QED BY <2>2, <2>3
<1> QED BY <1>1, <1>2, TransferInvariance, PTL DEF Spec

\* What complete owners serve is put together completely, whatever the size of
\* the object, of the chunks and of the list of owners.
THEOREM WholeTheorem == Spec => []WholeWhenVerified
<1>1. ContentInv => WholeWhenVerified
  BY DEF ContentInv
<1> QED BY <1>1, ContentInvariance, PTL

\* Where pulls keep no objects, no file is left half there.
THEOREM DownloadTheorem == Spec => []DownloadIsWhole
<1>1. Unkept => DownloadIsWhole
  BY DEF Unkept, DownloadIsWhole
<1> QED BY <1>1, ContentInvariance, PTL

===============================================================================
