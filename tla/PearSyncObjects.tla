---------------------------- MODULE PearSyncObjects ----------------------------
(***************************************************************************)
(* The objects behind the metadata, proved for nodes on which one command  *)
(* runs at a time: who the log names as an owner has the object, what      *)
(* cleanup deletes nobody is told to ask for, and the newest version of a  *)
(* file can be downloaded.                                                 *)
(***************************************************************************)
EXTENDS PearSyncLog

\* Every node has one terminal.  With two, a cleanup that has looked for
\* references and a push that has looked for its objects can pass each other.
OneTerminal == \A p, q \in Proc : At[p] = At[q] => p = q

-----------------------------------------------------------------------------
(* The id of a command                                                     *)

\* With nobody else on its node, the id a command works for stays configured, and is
\* that of all it pushes ...
Stands(p) ==
    pc[p] \in Working =>
        /\ job[p].me # 0
        /\ job[p].cmd # "connect" => deviceId[At[p]] = job[p].me
        /\ \A i \in DOMAIN out[p] : out[p][i].owner = job[p].me

\* ... so that every entry of Main's log is that of a device.
Signed ==
    \A s \in DOMAIN wal[Main] :
        wal[Main][s].op # "DeviceUpdate" => wal[Main][s].owner \in DOMAIN devices[Main]

StandInv == Signed /\ \A p \in Proc : Stands(p)

\* What a registration adds to the log is an entry.
LEMMA RegistrationIsEntry ==
    ASSUME TypeInv, NEW p \in Proc, RegisterLog(p)
    PROVE  DeviceUpdate(job[p].me, At[p]) \in Entry
<1>1. pc[p] = "registerLog" /\ At[p] \in Node
  BY SyncAssumption DEF RegisterLog
<1>2. job[p].me \in DeviceId
  BY <1>1 DEF TypeInv, Control, Fits
<1> QED BY <1>1, <1>2 DEF DeviceUpdate, Entry

\* A command works for the device of its node.
LEMMA WorksFor ==
    ASSUME DeviceInv, NEW p \in Proc, Stands(p), pc[p] \in Working
    PROVE  Names(devices[Main], job[p].me, At[p])
BY DEF DeviceInv, Identified, Stands

\* Most steps leave the id and the entries of a command alone, or drop the entries.
LEMMA StandsStays ==
    ASSUME NEW p \in Proc, Stands(p), deviceId'[At[p]] = deviceId[At[p]],
           job'[p].me = job[p].me, job'[p].cmd = job[p].cmd,
           out'[p] = out[p] \/ out'[p] = <<>>,
           pc'[p] \in Working => pc[p] \in Working
    PROVE  Stands(p)'
BY DEF Stands

\* A command starts with the id that is configured, and nothing to push.
LEMMA StartStands ==
    ASSUME TypeInv, DeviceInv, NEW p \in Proc, Start(p)
    PROVE  Stands(p)'
<1>0. Domains /\ At[p] \in Node
  BY TypedDomains, SyncAssumption
<1>1. ASSUME NEW c, NEW paths, NEW next, StartSync(p, c, paths, next)
      PROVE  Stands(p)'
  <2>1. /\ job'[p].me = deviceId[At[p]] /\ deviceId[At[p]] # 0 /\ deviceId' = deviceId
        /\ out' = out /\ pc[p] = "idle"
    BY <1>0, <1>1 DEF StartSync, CanStart, Connected, nodeVars, localVars, Domains, NoJob
  <2>2. out[p] = <<>>
    BY <2>1 DEF DeviceInv, Identified, Working
  <2> QED BY <2>1, <2>2 DEF Stands
<1>2. CASE StartUpdate(p) \/ StartPush(p) \/ StartPull(p) \/ StartCleanup(p) \/ StartRemove(p)
  BY <1>1, <1>2 DEF StartUpdate, StartPush, StartPull, StartCleanup, StartRemove
<1>3. CASE StartConnect(p) \/ Disconnect(p) \/ Unstage(p)
  BY <1>0, <1>3 DEF StartConnect, CanStart, Disconnect, Unstage, Goto, Domains, Stands, Working
<1>4. ASSUME NEW path \in Path, NEW hash \in Hash, AddObject(p, path, hash)
      PROVE  Stands(p)'
  BY <1>0, <1>4 DEF AddObject, Goto, Domains, Stands, Working
<1> QED BY <1>2, <1>3, <1>4 DEF Start

\* Whoever leaves a step with an exception has nothing left to push.
LEMMA ThrowEnds ==
    ASSUME Domains, NEW p \in Proc, Throw(p)
    PROVE  /\ out'[p] = <<>> /\ acks'[p] = <<>>
           /\ \/ pc'[p] = "idle" /\ garbage'[p] = {}
              \/ Caught(p) /\ pc'[p] = "fetch" /\ garbage' = garbage /\ job' = job
BY DEF Domains, Throw, Finish, GoOn, Goto

\* A step of a command keeps it standing.
LEMMA StepStands ==
    ASSUME TypeInv, DeviceInv, RouteInv, NEW p \in Proc, Stands(p), Step(p) \/ Abort(p)
    PROVE  Stands(p)'
<1>0. /\ Domains /\ At[p] \in Node /\ job[p] \in Job
      /\ Follows(Commands[p], pc[p], job[p], out[p], acks[p], garbage[p])
  BY TypedDomains, SyncAssumption DEF RouteInv, Routed, TypeInv, Control, ControlTypes
<1>1. CASE pc'[p] \notin Working
  BY <1>1 DEF Stands
<1>2. ASSUME deviceId' = deviceId, Throw(p)
      PROVE  Stands(p)'
  <2>1. CASE pc'[p] = "idle"
    BY <1>1, <2>1 DEF Working
  <2>2. CASE Caught(p) /\ job' = job /\ out'[p] = <<>>
    <3>1. pc[p] \in Working
      BY <2>2 DEF Caught, Working, Label
    <3> QED BY <1>2, <2>2, <3>1, StandsStays
  <2> QED BY <1>0, <1>2, <2>1, <2>2, ThrowEnds
<1>3. CASE Finish(p)
  BY <1>0, <1>1, <1>3 DEF Finish, Goto, Domains, Working
<1>4. CASE Register(p)
  <2>1. /\ pc[p] = "register" /\ \E id \in DeviceId : job' = [job EXCEPT ![p].me = id]
        /\ out' = out
    BY <1>4, RegisterDb DEF TypeInv, Register, localVars
  <2>2. job'[p].me # 0 /\ job'[p].cmd = job[p].cmd
    BY <1>0, <2>1 DEF Domains, DeviceId, Job
  <2>3. job[p].cmd = "connect"
    BY <1>0, <2>1 DEF Follows, OnCourse, Goal, Syncing
  <2>4. out[p] = <<>>
    BY <2>1 DEF DeviceInv, Identified, Working
  <2> QED BY <2>1, <2>2, <2>3, <2>4 DEF Stands
<1>5. ASSUME pc[p] \in Working, deviceId' = deviceId, job'[p].me = job[p].me,
             job'[p].cmd = job[p].cmd, out' = out
      PROVE  Stands(p)'
  BY <1>5, StandsStays
<1>6. CASE RegisterLog(p) \/ SyncRequest(p) \/ SyncApply(p) \/ PushLock(p)
  <2>1. pc[p] \in Working /\ job' = job /\ deviceId' = deviceId /\ out' = out
    BY <1>6 DEF RegisterLog, SyncRequest, SyncApply, PushLock, nodeVars, localVars, Working, Label
  <2> QED BY <1>5, <2>1
<1>7. CASE PushAppend(p) \/ PushSettle(p)
  <2>1. pc[p] \in Working /\ deviceId' = deviceId /\ out' = out
    BY <1>7 DEF PushAppend, PushSettle, nodeVars, localVars, Working, Label
  <2>2. \/ job' = job \/ \E x : job' = [job EXCEPT ![p].next = x]
        \/ \E x : job' = [job EXCEPT ![p].paths = x]
    BY <1>7 DEF PushAppend, PushSettle
  <2>3. job'[p].me = job[p].me /\ job'[p].cmd = job[p].cmd
    BY <1>0, <2>2 DEF Domains, Job
  <2> QED BY <1>5, <2>1, <2>3
<1>8. CASE Configure(p) \/ Report(p) \/ AddStage(p)
  BY <1>3, <1>8 DEF Configure, Report, AddStage
<1>9. CASE SyncRead(p)
  <2>1. pc[p] \in Working /\ deviceId' = deviceId
    BY <1>9 DEF SyncRead, nodeVars, Working, Label
  <2>2. Throw(p) \/ (job' = job /\ out' = out)
    BY <1>9 DEF SyncRead
  <2> QED BY <1>2, <1>5, <2>1, <2>2
<1>10. CASE PushOpen(p)
  <2>1. pc[p] \in Working /\ deviceId' = deviceId
    BY <1>10 DEF PushOpen, nodeVars, Working, Label
  <2>2. Finish(p) \/ (job' = job /\ out' = out)
    BY <1>10 DEF PushOpen, localVars
  <2> QED BY <1>3, <1>5, <2>1, <2>2
<1>11. CASE (PushCollect(p) \/ PullOpen(p) \/ CleanupRows(p)) /\ ~Finish(p)
  <2>1. /\ pc[p] \in Working /\ deviceId' = deviceId
        /\ job[p].cmd # "connect"
    BY <1>0, <1>11 DEF PushCollect, PullOpen, CleanupRows, nodeVars, Working, Label, Follows,
                       OnCourse, Goal, Syncing
  <2>2. deviceId[At[p]] = job[p].me /\ job[p].me # 0
    BY <2>1 DEF Stands
  <2>3. job'[p].me = deviceId[At[p]] /\ job'[p].cmd = job[p].cmd
    <3>1. CASE PushCollect(p)
      <4>1. PICK x : job' = [job EXCEPT ![p].paths = x, ![p].me = deviceId[At[p]]]
        BY <1>11, <3>1 DEF PushCollect
      <4> QED BY <1>0, <4>1 DEF Domains, Job
    <3>2. CASE PullOpen(p) \/ CleanupRows(p)
      <4>1. job' = [job EXCEPT ![p].me = deviceId[At[p]]]
        BY <1>11, <3>2 DEF PullOpen, CleanupRows
      <4> QED BY <1>0, <4>1 DEF Domains, Job
    <3> QED BY <1>11, <3>1, <3>2
  <2>4. \A i \in DOMAIN out'[p] : out'[p][i].owner = deviceId[At[p]]
    <3>1. CASE PushCollect(p)
      <4>1. PICK order : out' = [out EXCEPT ![p] = [i \in DOMAIN order |->
                  FileUpdate(order[i], staging[At[p]][order[i]], 0, deviceId[At[p]])]]
        BY <1>11, <3>1 DEF PushCollect
      <4>2. out'[p] = [i \in DOMAIN order |->
                  FileUpdate(order[i], staging[At[p]][order[i]], 0, deviceId[At[p]])]
        BY <1>0, <4>1 DEF Domains
      <4> QED BY <4>2 DEF FileUpdate
    <3>2. CASE PullOpen(p) \/ CleanupRows(p)
      <4>1. out' = out
        BY <1>11, <3>2 DEF PullOpen, CleanupRows, localVars
      <4> QED BY <2>1, <2>2, <4>1 DEF Stands
    <3> QED BY <1>11, <3>1, <3>2
  <2> QED BY <2>1, <2>2, <2>3, <2>4 DEF Stands
<1>12. CASE PullFetch(p)
  <2>1. pc[p] \in Working /\ deviceId' = deviceId
    BY <1>12 DEF PullFetch, Working, Label
  <2>2. Finish(p) \/ \E q : /\ job' = [job EXCEPT ![p].paths = @ \ {q}]
                            /\ \/ out' = out
                               \/ \E h : out' = [out EXCEPT ![p] = <<OwnerUpdate(h, job[p].me)>>]
    BY <1>12 DEF PullFetch, localVars
  <2>3. ASSUME NEW q, job' = [job EXCEPT ![p].paths = @ \ {q}]
        PROVE  job'[p].me = job[p].me /\ job'[p].cmd = job[p].cmd
    BY <1>0, <2>3 DEF Domains, Job
  <2>4. ASSUME NEW q, job' = [job EXCEPT ![p].paths = @ \ {q}],
               NEW h, out' = [out EXCEPT ![p] = <<OwnerUpdate(h, job[p].me)>>]
        PROVE  Stands(p)'
    <3>1. out'[p] = <<OwnerUpdate(h, job[p].me)>>
      BY <1>0, <2>4 DEF Domains
    <3>2. \A i \in DOMAIN out'[p] : out'[p][i].owner = job[p].me
      BY <3>1 DEF OwnerUpdate
    <3> QED BY <2>1, <2>3, <2>4, <3>2 DEF Stands
  <2> QED BY <1>3, <1>5, <2>1, <2>2, <2>3, <2>4
<1>13. CASE CleanupSelect(p)
  <2>1. pc[p] \in Working /\ deviceId' = deviceId
    BY <1>13 DEF CleanupSelect, nodeVars, Working, Label
  <2>2. \/ Finish(p)
        \/ out' = out /\ \E x, y : job' = [job EXCEPT ![p].paths = x, ![p].keep = y,
                                                      ![p].next = "clean"]
    BY <1>13 DEF CleanupSelect, localVars
  <2>3. ASSUME NEW x, NEW y,
               job' = [job EXCEPT ![p].paths = x, ![p].keep = y, ![p].next = "clean"]
        PROVE  job'[p].me = job[p].me /\ job'[p].cmd = job[p].cmd
    BY <1>0, <2>3 DEF Domains, Job
  <2> QED BY <1>3, <1>5, <2>1, <2>2, <2>3
<1>14. CASE CleanupScan(p)
  <2>1. pc[p] \in Working /\ deviceId' = deviceId /\ job' = job
    BY <1>14 DEF CleanupScan, nodeVars, Working, Label
  <2>2. PICK order :
           out' = [out EXCEPT ![p] = [i \in DOMAIN order |-> OwnerDelete(order[i], job[p].me)]]
    BY <1>14 DEF CleanupScan
  <2>3. out'[p] = [i \in DOMAIN order |-> OwnerDelete(order[i], job[p].me)]
    BY <1>0, <2>2 DEF Domains
  <2>4. \A i \in DOMAIN out'[p] : out'[p][i].owner = job[p].me
    BY <2>3 DEF OwnerDelete
  <2> QED BY <2>1, <2>4 DEF Stands
<1>15. CASE CleanupDelete(p)
  <2>1. pc[p] \in Working /\ deviceId' = deviceId
    BY <1>15 DEF CleanupDelete, Working, Label
  <2>2. Finish(p) \/ (job' = job /\ out' = out)
    BY <1>15 DEF CleanupDelete
  <2> QED BY <1>3, <1>5, <2>1, <2>2
<1>16. CASE Unreachable(p) \/ Abort(p)
  BY <1>2, <1>3, <1>16 DEF Unreachable, Abort
<1> QED BY <1>3, <1>4, <1>6, <1>7, <1>8, <1>9, <1>10, <1>11, <1>12, <1>13, <1>14, <1>15, <1>16
        DEF Step

\* A push signs what it adds to Main's log.
LEMMA StepSigned ==
    ASSUME SyncInv, JustifiedInv, TypeInv, DeviceInv, Grows, Signed, NEW p \in Proc, Stands(p),
           Start(p) \/ Step(p) \/ Abort(p)
    PROVE  Signed'
<1>1. CASE wal'[Main] = wal[Main]
  BY <1>1 DEF Signed, Grows, Names
<1>2. ASSUME NEW e \in Entry, AddWalEntry(e),
             e.op = "DeviceUpdate" \/ e.owner \in DOMAIN devices[Main]
      PROVE  Signed'
  <2> DEFINE k == Length(Main)
             v == Versioned(files[Main], e)
  <2>1. /\ k \in Nat /\ DOMAIN wal[Main] = 1 .. k /\ DOMAIN wal'[Main] = 1 .. (k + 1)
        /\ \A s \in DOMAIN wal[Main] : wal'[Main][s] = wal[Main][s]
        /\ wal'[Main][k + 1] = v
    BY <1>2, AddEffect
  <2>2. v.op # "DeviceUpdate" => v.owner \in DOMAIN devices[Main]
    BY <1>2, VersionedKeeps
  <2> HIDE DEF k, v
  <2>3. \A s \in DOMAIN wal'[Main] : s \in DOMAIN wal[Main] \/ s = k + 1
    BY <2>1
  <2> QED BY <2>1, <2>2, <2>3 DEF Signed, Grows, Names
<1>3. CASE RegisterLog(p)
  <2>1. DeviceUpdate(job[p].me, At[p]) \in Entry
    BY <1>3, RegistrationIsEntry
  <2> QED BY <1>2, <1>3, <2>1 DEF RegisterLog, DeviceUpdate
<1>4. CASE PushAppend(p)
  <2> DEFINE e == out[p][Len(acks[p]) + 1]
  <2>1. pc[p] = "append" /\ AddWalEntry(e)
    BY <1>4 DEF PushAppend
  <2>2. e \in Entry /\ Len(acks[p]) + 1 \in DOMAIN out[p] /\ pc[p] \in Working
    BY <2>1, OutIsTyped DEF Working, Label
  <2>3. e.owner = job[p].me
    BY <2>2 DEF Stands
  <2>4. job[p].me \in DOMAIN devices[Main]
    BY <2>2, WorksFor DEF Names
  <2> HIDE DEF e
  <2> QED BY <1>2, <2>1, <2>2, <2>3, <2>4
<1> QED BY <1>1, <1>3, <1>4, LogsGrow

\* Every step keeps StandInv.
LEMMA NextStands ==
    ASSUME OneTerminal
    PROVE  (/\ SyncInv /\ JustifiedInv /\ TypeInv /\ DeviceInv /\ RouteInv /\ StandInv
            /\ [Next]_vars) => StandInv'
<1> SUFFICES ASSUME SyncInv, JustifiedInv, TypeInv, DeviceInv, RouteInv, StandInv, [Next]_vars
             PROVE  StandInv'
  OBVIOUS
<1>1. ASSUME NEW p \in Proc, Start(p) \/ Step(p) \/ Abort(p)
      PROVE  StandInv'
  <2>1. Grows
    BY <1>1, IdTableKept
  <2>2. Signed'
    BY <1>1, <2>1, StepSigned DEF StandInv
  <2>3. Stands(p)'
    BY <1>1, StartStands, StepStands DEF StandInv
  <2>4. ASSUME NEW q \in Proc, q # p
        PROVE  Stands(q)'
    <3>1. SameLocals(q) /\ deviceId'[At[q]] = deviceId[At[q]]
      BY <1>1, <2>4, TypedDomains, StepIsLocal, SyncAssumption
         DEF Local, SameStore, OneTerminal
    <3> QED BY <3>1, StandsStays DEF StandInv, SameLocals
  <2> QED BY <2>2, <2>3, <2>4 DEF StandInv
<1>2. ASSUME NEW p \in Proc, Deinit(p)
      PROVE  StandInv'
  <2>1. Signed'
    BY <1>2, TypedDomains, DeinitSparesMain DEF StandInv, Signed, SameTables
  <2>2. ASSUME NEW q \in Proc
        PROVE  Stands(q)'
    <3>1. SameLocals(q)
      BY <1>2, TypedDomains, DeinitIsLocal
    <3>2. CASE At[q] = At[p]
      <4>1. pc'[q] = "idle"
        BY <1>2, <3>1, <3>2, TypedDomains, DeinitIsLocal DEF SameLocals
      <4> QED BY <4>1 DEF Stands, Working
    <3>3. CASE At[q] # At[p]
      <4>1. deviceId'[At[q]] = deviceId[At[q]]
        BY <1>2, <3>3, TypedDomains, DeinitIsLocal, SyncAssumption DEF SameStore
      <4> QED BY <3>1, <4>1, StandsStays DEF StandInv, SameLocals
    <3> QED BY <3>2, <3>3
  <2> QED BY <2>1, <2>2 DEF StandInv
<1>3. CASE UNCHANGED vars
  BY <1>3 DEF vars, dbVars, nodeVars, localVars, StandInv, Signed, Stands
<1> QED BY <1>1, <1>2, <1>3 DEF Next

\* Nothing is signed or runs at the start.
LEMMA InitStands == Init => StandInv
<1> SUFFICES ASSUME Init PROVE StandInv
  OBVIOUS
<1>1. Signed
  BY SyncAssumption DEF Init, Signed, DeviceUpdate, Empty
<1>2. \A p \in Proc : Stands(p)
  BY DEF Init, Stands, Working
<1> QED BY <1>1, <1>2 DEF StandInv

\* With one terminal per node a command works for one device, and whatever is pushed
\* is pushed by a device.
THEOREM StandInvariance ==
    ASSUME OneTerminal
    PROVE  Spec => []StandInv
BY InitStands, NextStands, SyncInvariance, JustifiedInvariance, TypeInvariance, DeviceInvariance,
   RouteInvariance, PTL DEF Spec

-----------------------------------------------------------------------------
(* The owners of an object                                                 *)

\* An entry of the log makes the device an owner and none takes that back.
Owned(w, h, d) ==
    \E s \in DOMAIN w : Adds(w[s], h, d) /\ \A t \in DOMAIN w : t > s => ~Removes(w[t], h, d)

\* A batch leaves the owners it names and those it does not remove.
LEMMA AppliedOwnersAre ==
    ASSUME NEW m \in Nat, NEW b, DOMAIN b \subseteq 0 .. m, NEW o, NEW h, NEW d
    PROVE  <<h, d>> \in ApplyToOwners(o, b) <=>
              \/ Owned(b, h, d)
              \/ <<h, d>> \in o /\ \A s \in DOMAIN b : ~Removes(b[s], h, d)
<1> DEFINE T == OwnerTouches(b, h, d)
           x == <<h, d>>
<1>0. x[1] = h /\ x[2] = d
  OBVIOUS
<1>1. x \in ApplyToOwners(o, b) <=> /\ x \in o \cup AddedOwners(b)
                                    /\ T # {} => Adds(b[Max(T)], h, d)
  BY <1>0 DEF ApplyToOwners
<1>2. x \in AddedOwners(b) <=> \E s \in DOMAIN b : Adds(b[s], h, d)
  BY DEF AddedOwners, Adds
<1>3. T \subseteq 0 .. m /\ T = {s \in DOMAIN b : Adds(b[s], h, d) \/ Removes(b[s], h, d)}
  BY DEF OwnerTouches
<1>4. \A e : ~(Adds(e, h, d) /\ Removes(e, h, d))
  BY DEF Adds, Removes
<1>5. T # {} => Max(T) \in T /\ \A t \in T : Max(T) >= t
  BY <1>3, MaxOfBounded
<1> HIDE DEF T, x
<1>6. CASE T = {}
  BY <1>1, <1>2, <1>3, <1>6 DEF Owned, x
<1>7. CASE T # {}
  <2>1. PICK u \in T : u = Max(T) /\ \A t \in T : u >= t
    BY <1>5, <1>7
  <2>2. u \in DOMAIN b /\ (Adds(b[u], h, d) \/ Removes(b[u], h, d)) /\ u \in Nat
    BY <1>3, <2>1
  <2>3. CASE Adds(b[u], h, d)
    <3>1. \A t \in DOMAIN b : t > u => ~Removes(b[t], h, d)
      BY <1>3, <2>1, <2>2
    <3>2. Owned(b, h, d)
      BY <2>2, <2>3, <3>1 DEF Owned
    <3> QED BY <1>1, <1>2, <2>1, <2>2, <2>3, <3>2 DEF x
  <2>4. CASE ~Adds(b[u], h, d)
    <3>1. Removes(b[u], h, d)
      BY <2>2, <2>4
    <3>2. ~Owned(b, h, d)
      <4> SUFFICES ASSUME NEW s \in DOMAIN b, Adds(b[s], h, d),
                          \A t \in DOMAIN b : t > s => ~Removes(b[t], h, d)
                   PROVE  FALSE
        BY DEF Owned
      <4>1. s \in T /\ s # u
        BY <1>3, <2>4
      <4>2. u >= s /\ s \in Nat
        BY <1>3, <2>1, <4>1
      <4>3. u > s
        BY <2>2, <4>1, <4>2
      <4> QED BY <2>2, <3>1, <4>3
    <3> QED BY <1>1, <1>7, <2>1, <2>2, <2>4, <3>1, <3>2 DEF x
  <2> QED BY <2>3, <2>4
<1> QED BY <1>6, <1>7

\* What the log alone says of ownership.
LEMMA OwnersOfLog ==
    ASSUME NEW k \in Nat, NEW w, DOMAIN w = 1 .. k
    PROVE  /\ \A h, d : <<h, d>> \in LogOwners(w) <=> Owned(w, h, d)
           /\ \A x \in LogOwners(w) : x = <<x[1], x[2]>>
<1>1. DOMAIN w \subseteq 0 .. k
  OBVIOUS
<1>2. \A h, d : <<h, d>> \in LogOwners(w) <=> Owned(w, h, d)
  <2> SUFFICES ASSUME NEW h, NEW d PROVE <<h, d>> \in LogOwners(w) <=> Owned(w, h, d)
    OBVIOUS
  <2>1. <<h, d>> \in ApplyToOwners({}, w) <=>
          \/ Owned(w, h, d)
          \/ <<h, d>> \in {} /\ \A s \in DOMAIN w : ~Removes(w[s], h, d)
    BY <1>1, AppliedOwnersAre
  <2> QED BY <2>1 DEF LogOwners
<1>3. \A x \in LogOwners(w) : x = <<x[1], x[2]>>
  BY DEF LogOwners, ApplyToOwners, AddedOwners
<1> QED BY <1>2, <1>3

\* One entry more at the end of a log.
LEMMA AppendedOwners ==
    ASSUME NEW k \in Nat, NEW w, DOMAIN w = 1 .. k, NEW u, DOMAIN u = 1 .. (k + 1),
           \A s \in DOMAIN w : u[s] = w[s], NEW h, NEW d
    PROVE  Owned(u, h, d) <=>
              Adds(u[k + 1], h, d) \/ (Owned(w, h, d) /\ ~Removes(u[k + 1], h, d))
<1>1. \A s \in DOMAIN u : s \in DOMAIN w \/ s = k + 1
  OBVIOUS
<1>2. \A s \in DOMAIN w : s \in DOMAIN u /\ k + 1 > s
  OBVIOUS
<1>3. k + 1 \in DOMAIN u /\ \A t \in DOMAIN u : ~(t > k + 1)
  OBVIOUS
<1>4. ASSUME Adds(u[k + 1], h, d)
      PROVE  Owned(u, h, d)
  BY <1>3, <1>4 DEF Owned
<1>5. ASSUME Owned(w, h, d), ~Removes(u[k + 1], h, d)
      PROVE  Owned(u, h, d)
  <2>1. PICK s \in DOMAIN w : /\ Adds(w[s], h, d)
                              /\ \A t \in DOMAIN w : t > s => ~Removes(w[t], h, d)
    BY <1>5 DEF Owned
  <2>2. \A t \in DOMAIN u : t > s => ~Removes(u[t], h, d)
    BY <1>1, <1>5, <2>1
  <2> QED BY <1>2, <2>1, <2>2 DEF Owned
<1>6. ASSUME Owned(u, h, d), ~Adds(u[k + 1], h, d)
      PROVE  Owned(w, h, d) /\ ~Removes(u[k + 1], h, d)
  <2>1. PICK s \in DOMAIN u : /\ Adds(u[s], h, d)
                              /\ \A t \in DOMAIN u : t > s => ~Removes(u[t], h, d)
    BY <1>6 DEF Owned
  <2>2. s \in DOMAIN w
    BY <1>1, <1>6, <2>1
  <2>3. ~Removes(u[k + 1], h, d)
    BY <1>2, <1>3, <2>1, <2>2
  <2>4. \A t \in DOMAIN w : t > s => ~Removes(w[t], h, d)
    BY <1>2, <2>1
  <2> QED BY <2>1, <2>2, <2>3, <2>4 DEF Owned
<1> QED BY <1>4, <1>5, <1>6

-----------------------------------------------------------------------------
(* The invariant                                                           *)

\* An entry of the device d.
Own(e, d) == e.op # "DeviceUpdate" /\ e.owner = d

\* The answer to a sync reaches beyond what a peer has, and on any node beyond
\* what it has of its own.
Current(p) ==
    pc[p] = "apply" =>
        \A s \in DOMAIN wal[Main] :
            (Own(wal[Main][s], job[p].me) \/ (At[p] # Main /\ s \in DOMAIN wal[At[p]]))
                => s <= last[p] \/ s \in DOMAIN batch[p]

\* After the sync of a cleanup, and until it has scanned, its node has all of its own
\* entries.
Synced == {"clean", "scan"}
UpToDate(p) ==
    pc[p] \in Synced =>
        \A s \in DOMAIN wal[Main] : Own(wal[Main][s], job[p].me) => s \in DOMAIN wal[At[p]]

\* A peer knows all owners its log names, Main those with its own id.
Sees(n) ==
    \A h, d : (n # Main \/ Names(devices[Main], d, n)) /\ Owned(wal[n], h, d)
                  => <<h, d>> \in owners[n]

\* What is garbage is released, or its release is still to be pushed.
Released(p) ==
    \A h \in garbage[p] : Owned(wal[Main], h, job[p].me) =>
        \E i \in DOMAIN out[p] : i > Len(acks[p]) /\ out[p][i] = OwnerDelete(h, job[p].me)

\* A node has the objects it pushes entries for.
Supplied(p) ==
    \A i \in DOMAIN out[p] : out[p][i].op # "OwnerDelete" => out[p][i].hash \in objects[At[p]]

\* Who the log names as an owner has the object, or has lost it to a deinit.
Kept ==
    \A n \in Node : \A h, d :
        Names(devices[Main], d, n) /\ Owned(wal[Main], h, d)
            => h \in objects[n] \/ <<h, d>> \in lost

ObjectInv ==
    /\ \A n \in Node : Sees(n)
    /\ \A p \in Proc : Current(p) /\ UpToDate(p) /\ Released(p) /\ Supplied(p)
    /\ Kept

-----------------------------------------------------------------------------
(* Whose entries a step adds                                               *)

\* The new entries of Main's log are not of the device d.
Foreign(d) ==
    \A s \in DOMAIN wal'[Main] : Own(wal'[Main][s], d) =>
        s \in DOMAIN wal[Main] /\ wal'[Main][s] = wal[Main][s]

\* The ids of two nodes differ, and those of a working command are its node's.
LEMMA IdsDiffer ==
    ASSUME DeviceInv, StandInv, OneTerminal, NEW p \in Proc, NEW q \in Proc \ {p},
           pc[p] \in Working, pc[q] \in Working
    PROVE  job[p].me # job[q].me
BY WorksFor DEF StandInv, Names, OneTerminal

\* Only a push of p adds entries of its device.
LEMMA StepIsForeign ==
    ASSUME SyncInv, JustifiedInv, TypeInv, DeviceInv, StandInv, OneTerminal,
           NEW p \in Proc, pc[p] \in Working, NEW q \in Proc, Start(q) \/ Step(q) \/ Abort(q),
           p # q \/ ~PushAppend(q)
    PROVE  Foreign(job[p].me)
<1>1. CASE wal'[Main] = wal[Main]
  BY <1>1 DEF Foreign
<1>2. ASSUME NEW e \in Entry, AddWalEntry(e), ~Own(e, job[p].me)
      PROVE  Foreign(job[p].me)
  <2> DEFINE k == Length(Main)
             v == Versioned(files[Main], e)
  <2>1. /\ k \in Nat /\ DOMAIN wal[Main] = 1 .. k /\ DOMAIN wal'[Main] = 1 .. (k + 1)
        /\ \A s \in DOMAIN wal[Main] : wal'[Main][s] = wal[Main][s]
        /\ wal'[Main][k + 1] = v
    BY <1>2, AddEffect
  <2>2. ~Own(v, job[p].me)
    BY <1>2, VersionedKeeps DEF Own
  <2> HIDE DEF k, v
  <2>3. \A s \in DOMAIN wal'[Main] : s \in DOMAIN wal[Main] \/ s = k + 1
    BY <2>1
  <2> QED BY <2>1, <2>2, <2>3 DEF Foreign
<1>3. CASE RegisterLog(q)
  <2>2. DeviceUpdate(job[q].me, At[q]) \in Entry
    BY <1>3, RegistrationIsEntry
  <2>3. ~Own(DeviceUpdate(job[q].me, At[q]), job[p].me)
    BY DEF Own, DeviceUpdate
  <2> QED BY <1>2, <1>3, <2>2, <2>3 DEF RegisterLog
<1>4. CASE PushAppend(q)
  <2> DEFINE e == out[q][Len(acks[q]) + 1]
  <2>1. pc[q] = "append" /\ AddWalEntry(e) /\ p # q
    BY <1>4 DEF PushAppend
  <2>2. e \in Entry /\ Len(acks[q]) + 1 \in DOMAIN out[q] /\ pc[q] \in Working
    BY <2>1, OutIsTyped DEF Working, Label
  <2>3. e.owner = job[q].me
    BY <2>2 DEF StandInv, Stands
  <2>4. ~Own(e, job[p].me)
    BY <2>1, <2>2, <2>3, IdsDiffer DEF Own
  <2> HIDE DEF e
  <2> QED BY <1>2, <2>1, <2>2, <2>4
<1> QED BY <1>1, <1>3, <1>4, LogsGrow

\* A step that adds nothing of a device makes it no owner.
LEMMA ForeignOwners ==
    ASSUME NEW d, Foreign(d), NEW h, Owned(wal'[Main], h, d),
           DOMAIN wal[Main] \subseteq DOMAIN wal'[Main],
           \A s \in DOMAIN wal[Main] : wal'[Main][s] = wal[Main][s]
    PROVE  Owned(wal[Main], h, d)
<1>1. PICK s \in DOMAIN wal'[Main] :
        /\ Adds(wal'[Main][s], h, d)
        /\ \A t \in DOMAIN wal'[Main] : t > s => ~Removes(wal'[Main][t], h, d)
  BY DEF Owned
<1>2. Own(wal'[Main][s], d)
  BY <1>1 DEF Adds, Own
<1>3. s \in DOMAIN wal[Main] /\ wal'[Main][s] = wal[Main][s]
  BY <1>2 DEF Foreign
<1> QED BY <1>1, <1>3 DEF Owned

\* An id that an entry of the log has used is not a new one.
LEMMA NamesBack ==
    ASSUME StandInv, Grows, NEW d, NEW n, Names(devices'[Main], d, n),
           NEW s \in DOMAIN wal[Main], Own(wal[Main][s], d)
    PROVE  Names(devices[Main], d, n)
BY DEF StandInv, Signed, Grows, Names, Own

-----------------------------------------------------------------------------
(* Where a step of a command leads                                         *)

\* A command that ends leaves no entries, ids or garbage behind.
LEMMA FinishEnds ==
    ASSUME Domains, NEW p \in Proc, Finish(p)
    PROVE  pc'[p] = "idle" /\ out'[p] = <<>> /\ acks'[p] = <<>> /\ garbage'[p] = {}
BY DEF Domains, Finish, Goto

\* A command begins far from any push.
LEMMA StartBegins ==
    ASSUME TypeInv, NEW p \in Proc, Start(p)
    PROVE  /\ pc[p] = "idle" /\ pc'[p] \in {"idle", "read", "register", "stage"}
           /\ UNCHANGED localVars
           /\ \A n \in Node : objects[n] \subseteq objects'[n]
<1>0. Domains /\ At[p] \in Node
  BY TypedDomains, SyncAssumption
<1>1. ASSUME NEW c, NEW paths, NEW next, StartSync(p, c, paths, next)
      PROVE  /\ pc[p] = "idle" /\ pc'[p] = "read" /\ UNCHANGED localVars /\ objects' = objects
  BY <1>0, <1>1 DEF StartSync, CanStart, Goto, nodeVars, Domains
<1>2. CASE StartUpdate(p) \/ StartPush(p) \/ StartPull(p) \/ StartCleanup(p) \/ StartRemove(p)
  BY <1>1, <1>2 DEF StartUpdate, StartPush, StartPull, StartCleanup, StartRemove
<1>3. CASE StartConnect(p) \/ Disconnect(p) \/ Unstage(p)
  BY <1>0, <1>3 DEF StartConnect, CanStart, Disconnect, Unstage, Goto, Domains
<1>4. ASSUME NEW path \in Path, NEW hash \in Hash, AddObject(p, path, hash)
      PROVE  /\ pc[p] = "idle" /\ pc'[p] \in {"idle", "stage"} /\ UNCHANGED localVars
             /\ \A n \in Node : objects[n] \subseteq objects'[n]
  BY <1>0, <1>4 DEF AddObject, Goto, Domains
<1> QED BY <1>2, <1>3, <1>4 DEF Start

\* How a command gets where the invariant speaks of it.
LEMMA Arrivals ==
    ASSUME TypeInv, NEW p \in Proc, Start(p) \/ Step(p) \/ Abort(p)
    PROVE  /\ pc'[p] = "apply" => SyncRequest(p)
           /\ pc'[p] \in Synced => SyncApply(p) \/ CleanupRows(p)
<1>0. Domains
  BY TypedDomains
<1>1. CASE Start(p)
  BY <1>1, StartBegins DEF Synced
<1>2. CASE SyncApply(p)
  <2>1. pc[p] = "apply" /\ pc'[p] = job[p].next
    BY <1>0, <1>2 DEF SyncApply, Goto, Domains
  <2>2. job[p].next \in Returns
    BY <2>1 DEF TypeInv, Control, Fits, Syncing
  <2> QED BY <1>2, <2>1, <2>2 DEF Returns
<1>3. CASE Register(p) \/ RegisterLog(p)
  BY <1>0, <1>3 DEF Register, RegisterLog, Registration, Goto, Domains, Synced
<1>4. CASE SyncRequest(p)
  BY <1>0, <1>4 DEF SyncRequest, Goto, Domains, Synced
<1>5. CASE SyncRead(p) \/ Unreachable(p) \/ Abort(p)
  <2>1. Throw(p) \/ Finish(p) \/ pc' = [pc EXCEPT ![p] = "request"]
    BY <1>5 DEF SyncRead, Unreachable, Abort, Goto
  <2> QED BY <1>0, <2>1, FinishEnds, ThrowEnds DEF Domains, Synced
<1>6. CASE \/ PushOpen(p) \/ PushCollect(p) \/ PullFetch(p) \/ CleanupSelect(p)
           \/ Configure(p) \/ Report(p) \/ AddStage(p)
  <2>1. Finish(p) \/ UNCHANGED pc \/ \E l \in {"collect", "lock", "read"} : Goto(p, l)
    BY <1>6 DEF PushOpen, PushCollect, PullFetch, CleanupSelect, Configure, Report, AddStage
  <2>2. pc[p] \notin Synced \cup {"apply"}
    BY <1>6 DEF PushOpen, PushCollect, PullFetch, CleanupSelect, Configure, Report, AddStage, Synced
  <2> QED BY <1>0, <2>1, <2>2, FinishEnds DEF Goto, Domains, Synced
<1>7. CASE PushLock(p) \/ PushSettle(p) \/ PullOpen(p)
  BY <1>0, <1>7 DEF PushLock, PushSettle, PullOpen, Goto, Domains, Synced
<1>8. CASE PushAppend(p)
  <2>1. pc' = pc \/ pc'[p] \in {"settle", "read"}
    BY <1>0, <1>8 DEF PushAppend, Goto, Domains
  <2>2. pc[p] = "append"
    BY <1>8 DEF PushAppend
  <2> QED BY <1>8, <2>1, <2>2 DEF Synced
<1>9. CASE CleanupRows(p)
  <2>1. pc[p] = "clean" /\ (Finish(p) \/ Goto(p, "scan"))
    BY <1>9 DEF CleanupRows
  <2> QED BY <1>0, <1>9, <2>1, FinishEnds DEF Goto, Domains
<1>10. CASE CleanupScan(p)
  BY <1>0, <1>10 DEF CleanupScan, Goto, Domains, Synced
<1>11. CASE CleanupDelete(p)
  <2>1. pc[p] = "delete" /\ (Finish(p) \/ UNCHANGED pc)
    BY <1>11 DEF CleanupDelete
  <2> QED BY <1>0, <2>1, FinishEnds DEF Synced
<1> QED BY <1>1, <1>2, <1>3, <1>4, <1>5, <1>6, <1>7, <1>8, <1>9, <1>10, <1>11 DEF Step

-----------------------------------------------------------------------------
(* Owners: the tables know what the logs say                               *)

\* Apart from entries that are applied, opening the database is all that
\* changes the owners, and it only adds some.
LEMMA OwnerKinds ==
    ASSUME TypeInv, NEW p \in Proc, Start(p) \/ Step(p) \/ Abort(p)
    PROVE  \/ wal' = wal /\ \A n \in Node : owners[n] \subseteq owners'[n]
           \/ (\E e \in Entry : AddWalEntry(e)) \/ SyncApply(p)
<1> DEFINE Keeps == wal' = wal /\ \A n \in Node : owners[n] \subseteq owners'[n]
<1>0. At[p] \in Node /\ Domains
  BY SyncAssumption, TypedDomains
<1>1. ASSUME OpenDatabase(At[p]), wal' = wal
      PROVE  Keeps
  BY <1>0, <1>1 DEF OpenDatabase, Backfill, Domains
<1> HIDE DEF Keeps
<1>2. ASSUME owners' = owners, wal' = wal
      PROVE  Keeps
  BY <1>2 DEF Keeps
<1>3. ASSUME NEW c, NEW paths, NEW next, StartSync(p, c, paths, next)
      PROVE  Keeps
  BY <1>1, <1>3 DEF StartSync
<1>4. CASE Start(p)
  <2>1. CASE \/ StartUpdate(p) \/ StartPush(p) \/ StartPull(p) \/ StartCleanup(p)
             \/ StartRemove(p)
    BY <1>3, <2>1 DEF StartUpdate, StartPush, StartPull, StartCleanup, StartRemove, Keeps
  <2>2. CASE StartConnect(p) \/ Disconnect(p) \/ Unstage(p)
    BY <1>1, <2>2 DEF StartConnect, Disconnect, Unstage, Keeps
  <2>3. ASSUME NEW path \in Path, NEW hash \in Hash, AddObject(p, path, hash)
        PROVE  Keeps
    BY <1>1, <2>3 DEF AddObject
  <2> QED BY <1>4, <2>1, <2>2, <2>3 DEF Start, Keeps
<1>5. CASE \/ Register(p) \/ Configure(p) \/ SyncRequest(p) \/ Report(p) \/ AddStage(p)
           \/ PushCollect(p) \/ PushLock(p) \/ PushSettle(p) \/ PullFetch(p) \/ CleanupRows(p)
           \/ CleanupScan(p) \/ CleanupDelete(p) \/ Unreachable(p) \/ Abort(p)
  <2>1. CASE CleanupRows(p)
    <3>1. wal' = wal /\ (OpenDatabase(At[p]) \/ owners' = owners)
      BY <2>1 DEF CleanupRows
    <3> QED BY <1>1, <1>2, <3>1 DEF Keeps
  <2>2. CASE ~CleanupRows(p)
    <3>1. wal' = wal /\ owners' = owners
      BY <1>5, <2>2
         DEF Register, Configure, SyncRequest, Report, AddStage, PushCollect, PushLock, PushSettle,
             PullFetch, CleanupScan, CleanupDelete, Unreachable, Abort, dbVars
    <3> QED BY <1>2, <3>1 DEF Keeps
  <2> QED BY <2>1, <2>2
<1>6. CASE SyncRead(p) \/ PushOpen(p) \/ PullOpen(p) \/ CleanupSelect(p)
  BY <1>1, <1>6 DEF SyncRead, PushOpen, PullOpen, CleanupSelect, Keeps
<1>7. CASE RegisterLog(p)
  BY <1>7, RegistrationIsEntry DEF RegisterLog
<1>8. CASE PushAppend(p)
  BY <1>8, OutIsTyped DEF PushAppend
<1> QED BY <1>4, <1>5, <1>6, <1>7, <1>8 DEF Step, Keeps

\* What a sync does to the log of its node.
LEMMA ApplyBatch ==
    ASSUME SyncInv, NEW p \in Proc, SyncApply(p)
    PROVE  LET n == At[p]
           IN  /\ pc[p] = "apply" /\ last[p] \in Nat /\ last[p] <= Length(n)
               /\ \E m \in Nat : DOMAIN batch[p] \subseteq 0 .. m
               /\ \A s \in DOMAIN batch[p] : /\ s \in DOMAIN wal'[n] /\ s > last[p]
                                             /\ batch[p][s] = wal'[n][s]
               /\ \A s \in DOMAIN wal'[n] : s \in DOMAIN wal[n] \/ s \in DOMAIN batch[p]
               /\ \A s \in DOMAIN wal'[n] : s \in DOMAIN wal[Main] /\ wal'[n][s] = wal[Main][s]
               /\ wal'[Main] = wal[Main]
<1> DEFINE n == At[p]
<1>0. n \in Node /\ Main \in Node /\ pc[p] = "apply"
  BY SyncAssumption DEF SyncApply
<1>1. last[p] \in Nat /\ last[p] <= Length(n)
  BY DEF SyncInv, ReadInv
<1>2. PICK to \in 0 .. Length(Main) : Stretch(batch[p], last[p], to)
  BY <1>0 DEF SyncInv, BatchInv
<1>3. Length(Main) \in Nat /\ DOMAIN wal[Main] = 1 .. Length(Main)
  BY <1>0 DEF SyncInv, LogInv
<1>4. /\ wal'[n] = InsertOrIgnore(wal[n], batch[p])
      /\ Length(n)' \in Nat /\ DOMAIN wal'[n] = 1 .. Length(n)'
      /\ Length(n)' <= Length(Main)
      /\ \A s \in DOMAIN wal'[n] : wal'[n][s] = wal[Main][s]
      /\ wal'[Main] = wal[Main]
  BY ApplyEffect
<1>5. to \in Nat /\ DOMAIN batch[p] \subseteq 0 .. to
  BY <1>2, <1>3 DEF Stretch
<1>6. DOMAIN wal'[n] = DOMAIN wal[n] \cup DOMAIN batch[p]
  BY <1>4 DEF InsertOrIgnore
<1>7. \A s \in DOMAIN batch[p] : s > last[p] /\ batch[p][s] = wal[Main][s]
  BY <1>2 DEF Stretch
<1>8. \A s \in DOMAIN wal'[n] : s \in DOMAIN wal[Main]
  BY <1>3, <1>4
<1> HIDE DEF n
<1>9. \A s \in DOMAIN batch[p] : s \in DOMAIN wal'[n] /\ batch[p][s] = wal'[n][s]
  BY <1>4, <1>6, <1>7
<1> QED BY <1>0, <1>1, <1>4, <1>5, <1>6, <1>7, <1>8, <1>9 DEF n

\* A sync brings a node up to date with the owners, too.
LEMMA SyncSees ==
    ASSUME SyncInv, TypeInv, DeviceInv, IdTable', Grows, StandInv, NEW p \in Proc, SyncApply(p),
           Current(p), Sees(At[p])
    PROVE  Sees(At[p])'
<1> DEFINE n == At[p]
           b == batch[p]
<1>0. n \in Node /\ Main \in Node /\ pc[p] = "apply"
  BY SyncAssumption DEF SyncApply
<1>1. PICK m \in Nat : DOMAIN b \subseteq 0 .. m
  BY ApplyBatch
<1>2. /\ \A s \in DOMAIN b : s \in DOMAIN wal'[n] /\ s > last[p] /\ b[s] = wal'[n][s]
      /\ \A s \in DOMAIN wal'[n] : s \in DOMAIN wal[n] \/ s \in DOMAIN b
      /\ \A s \in DOMAIN wal'[n] : s \in DOMAIN wal[Main] /\ wal'[n][s] = wal[Main][s]
      /\ last[p] \in Nat
  BY ApplyBatch
<1>3. owners'[n] = ApplyToOwners(owners[n], b)
  BY <1>0, TypedDomains DEF SyncApply, ApplyWalEntries, Domains
<1>4. \A s \in DOMAIN wal[n] : s \in Nat /\ s \in DOMAIN wal[Main] /\ wal[n][s] = wal[Main][s]
  <2>1. /\ Length(n) \in Nat /\ DOMAIN wal[n] = 1 .. Length(n)
        /\ Length(n) <= Length(Main)
        /\ \A s \in 1 .. Length(n) : wal[n][s] = wal[Main][s]
    BY <1>0 DEF SyncInv, LogInv
  <2>2. Length(Main) \in Nat /\ DOMAIN wal[Main] = 1 .. Length(Main)
    BY <1>0 DEF SyncInv, LogInv
  <2> QED BY <2>1, <2>2
<1> DEFINE w == wal'[n]
<1>5. Names(devices'[Main], job[p].me, n)
  <2>1. Names(devices[Main], job[p].me, n)
    BY <1>0, WorksFor DEF StandInv, Working, Label
  <2> QED BY <2>1 DEF Names, Grows
<1>6. ASSUME NEW h, NEW d, n # Main \/ Names(devices'[Main], d, n), Owned(w, h, d)
      PROVE  <<h, d>> \in owners'[n]
  <2>1. PICK s \in DOMAIN w : Adds(w[s], h, d) /\ \A t \in DOMAIN w : t > s => ~Removes(w[t], h, d)
    BY <1>6 DEF Owned
  <2>2. CASE s \in DOMAIN b
    <3>1. Owned(b, h, d)
      BY <1>2, <2>1, <2>2 DEF Owned
    <3> QED BY <1>1, <1>3, <3>1, AppliedOwnersAre
  <2>3. CASE s \notin DOMAIN b
    <3>1. s \in DOMAIN wal[n] /\ s \in DOMAIN wal[Main] /\ w[s] = wal[Main][s] /\ s \in Nat
      BY <1>2, <1>4, <2>3
    <3>2. Own(wal[Main][s], d)
      BY <2>1, <3>1 DEF Own, Adds
    <3>3. n = Main => Names(devices[Main], d, n) /\ d = job[p].me
      <4>1. ASSUME n = Main
            PROVE  d = job[p].me
        BY <1>5, <1>6, <4>1 DEF IdTable, Names
      <4>2. Names(devices[Main], job[p].me, n)
        BY <1>0, WorksFor DEF StandInv, Working, Label
      <4> QED BY <4>1, <4>2
    <3>4. s <= last[p]
      BY <1>0, <2>3, <3>1, <3>2, <3>3 DEF Current
    <3>5. \A t \in DOMAIN b : ~Removes(b[t], h, d)
      <4> SUFFICES ASSUME NEW t \in DOMAIN b PROVE ~Removes(b[t], h, d)
        OBVIOUS
      <4>1. t \in 0 .. m /\ t > last[p] /\ t \in DOMAIN w /\ b[t] = w[t]
        BY <1>1, <1>2
      <4>2. t > s
        BY <1>2, <3>1, <3>4, <4>1
      <4> QED BY <2>1, <4>1, <4>2
    <3>6. Owned(wal[n], h, d)
      <4>1. \A t \in DOMAIN wal[n] : t \in DOMAIN w /\ w[t] = wal[n][t]
        <5>1. wal'[n] = InsertOrIgnore(wal[n], batch[p])
          BY ApplyEffect
        <5> QED BY <1>2, <1>4, <5>1 DEF InsertOrIgnore
      <4> QED BY <2>1, <3>1, <4>1 DEF Owned
    <3>7. <<h, d>> \in owners[n]
      BY <1>6, <3>3, <3>6 DEF Sees
    <3> QED BY <1>1, <1>3, <3>5, <3>7, AppliedOwnersAre
  <2> QED BY <2>2, <2>3
<1> HIDE DEF w, n
<1> QED BY <1>6 DEF Sees, w, n

\* Main's owners follow every entry it adds.
LEMMA AddSees ==
    ASSUME SyncInv, JustifiedInv, TypeInv, StandInv, Grows, NEW e \in Entry, AddWalEntry(e),
           Sees(Main)
    PROVE  Sees(Main)'
<1> DEFINE k == Length(Main)
           v == Versioned(files[Main], e)
           b == Single(k + 1, v)
<1>0. Main \in Node
  BY SyncAssumption
<1>1. /\ k \in Nat /\ DOMAIN wal[Main] = 1 .. k /\ DOMAIN wal'[Main] = 1 .. (k + 1)
      /\ \A s \in DOMAIN wal[Main] : wal'[Main][s] = wal[Main][s]
      /\ wal'[Main][k + 1] = v
  BY AddEffect
<1>2. owners'[Main] = ApplyToOwners(owners[Main], b)
  BY <1>0, TypedDomains DEF AddWalEntry, Length, Domains
<1>3. DOMAIN b = {k + 1} /\ b[k + 1] = v
  BY DEF Single
<1> HIDE DEF k, v, b
<1>4. k + 1 \in Nat /\ DOMAIN b \subseteq 0 .. (k + 1)
  BY <1>1, <1>3
<1>5. ASSUME NEW h, NEW d, Names(devices'[Main], d, Main), Owned(wal'[Main], h, d)
      PROVE  <<h, d>> \in owners'[Main]
  <2>1. Adds(v, h, d) \/ (Owned(wal[Main], h, d) /\ ~Removes(v, h, d))
    BY <1>1, <1>5, AppendedOwners
  <2>2. CASE Adds(v, h, d)
    <3>1. Owned(b, h, d)
      BY <1>1, <1>3, <2>2 DEF Owned
    <3> QED BY <1>2, <1>4, <3>1, AppliedOwnersAre
  <2>3. CASE Owned(wal[Main], h, d) /\ ~Removes(v, h, d)
    <3>1. PICK s \in DOMAIN wal[Main] : Adds(wal[Main][s], h, d)
      BY <2>3 DEF Owned
    <3>2. Own(wal[Main][s], d)
      BY <3>1 DEF Adds, Own
    <3>3. Names(devices[Main], d, Main)
      BY <1>5, <3>2, NamesBack
    <3>4. <<h, d>> \in owners[Main]
      BY <2>3, <3>3 DEF Sees
    <3>5. \A t \in DOMAIN b : ~Removes(b[t], h, d)
      BY <1>3, <2>3
    <3> QED BY <1>2, <1>4, <3>4, <3>5, AppliedOwnersAre
  <2> QED BY <2>1, <2>2, <2>3
<1> QED BY <1>5 DEF Sees

\* A log that stays and owners that grow.
LEMMA StillSees ==
    ASSUME StandInv, Grows, NEW n \in Node, Sees(n), wal' = wal, owners[n] \subseteq owners'[n]
    PROVE  Sees(n)'
<1> SUFFICES ASSUME NEW h, NEW d, n # Main \/ Names(devices'[Main], d, n),
                    Owned(wal[n], h, d)
             PROVE  <<h, d>> \in owners'[n]
  BY DEF Sees
<1>1. PICK s \in DOMAIN wal[n] : Adds(wal[n][s], h, d)
  BY DEF Owned
<1>2. Own(wal[n][s], d)
  BY <1>1 DEF Adds, Own
<1>3. n # Main \/ Names(devices[Main], d, n)
  BY <1>2, NamesBack
<1> QED BY <1>3 DEF Sees

\* Every step keeps the owners of the log in the tables.
LEMMA StepSees ==
    ASSUME SyncInv, JustifiedInv, TypeInv, DeviceInv, IdTable', Grows, StandInv,
           \A n \in Node : Sees(n), NEW p \in Proc, Current(p), Start(p) \/ Step(p) \/ Abort(p)
    PROVE  \A n \in Node : Sees(n)'
<1>0. Domains /\ Main \in Node /\ At[p] \in Node
  BY TypedDomains, SyncAssumption
<1>1. ASSUME NEW n \in Node, n # Main, SameTables(n)
      PROVE  Sees(n)'
  BY <1>1 DEF Sees, SameTables
<1>2. CASE wal' = wal /\ \A n \in Node : owners[n] \subseteq owners'[n]
  BY <1>2, StillSees
<1>3. ASSUME NEW e \in Entry, AddWalEntry(e)
      PROVE  \A n \in Node : Sees(n)'
  <2>1. Sees(Main)'
    BY <1>0, <1>3, AddSees
  <2>2. \A n \in Node \ {Main} : SameTables(n)
    BY <1>0, <1>3, AddIsLocal
  <2> QED BY <1>1, <2>1, <2>2
<1>4. CASE SyncApply(p)
  <2>1. Sees(At[p])'
    BY <1>0, <1>4, SyncSees
  <2>2. ASSUME NEW n \in Node \ {At[p]}
        PROVE  wal'[n] = wal[n] /\ owners'[n] = owners[n] /\ devices'[n] = devices[n]
    BY <1>0, <1>4, <2>2 DEF SyncApply, ApplyWalEntries, Domains
  <2>3. ASSUME NEW n \in Node, n # At[p]
        PROVE  Sees(n)'
    <3>1. CASE n # Main
      BY <1>1, <2>2, <2>3, <3>1 DEF Sees
    <3>2. CASE n = Main
      BY <2>2, <2>3, <3>2 DEF Sees
    <3> QED BY <3>1, <3>2
  <2> QED BY <2>1, <2>3
<1> QED BY <1>2, <1>3, <1>4, OwnerKinds

-----------------------------------------------------------------------------
(* Syncs: a node has its own entries                                       *)

\* The answer to a sync stays ahead of the node: with one terminal nobody else
\* pushes for it meanwhile.
LEMMA StepCurrent ==
    ASSUME SyncInv, JustifiedInv, TypeInv, DeviceInv, StandInv, OneTerminal,
           \A q \in Proc : Current(q), NEW p \in Proc, Start(p) \/ Step(p) \/ Abort(p)
    PROVE  \A q \in Proc : Current(q)'
<1>0. Domains /\ Main \in Node /\ Local(p)
  BY TypedDomains, SyncAssumption, StepIsLocal
<1>1. Current(p)'
  <2> SUFFICES ASSUME pc'[p] = "apply" PROVE Current(p)'
    BY DEF Current
  <2>1. SyncRequest(p)
    BY Arrivals
  <2>2. /\ batch'[p] = EntriesSince(wal[Main], last[p]) /\ last'[p] = last[p]
        /\ wal' = wal /\ last[p] \in Nat
    BY <1>0, <2>1 DEF SyncRequest, Domains, dbVars, SyncInv, ReadInv
  <2>3. DOMAIN batch'[p] = {s \in DOMAIN wal[Main] : s > last[p]}
    BY <2>2 DEF EntriesSince, Restrict
  <2>4. \A s \in DOMAIN wal[Main] : s <= last[p] \/ s \in DOMAIN batch'[p]
    <3>1. Length(Main) \in Nat /\ DOMAIN wal[Main] = 1 .. Length(Main)
      BY <1>0 DEF SyncInv, LogInv
    <3> QED BY <2>2, <2>3, <3>1
  <2> QED BY <2>2, <2>4 DEF Current
<1>2. ASSUME NEW q \in Proc, q # p
      PROVE  Current(q)'
  <2> SUFFICES ASSUME pc'[q] = "apply",
                      NEW s \in DOMAIN wal'[Main],
                      \/ Own(wal'[Main][s], job'[q].me)
                      \/ At[q] # Main /\ s \in DOMAIN wal'[At[q]]
               PROVE  s <= last'[q] \/ s \in DOMAIN batch'[q]
    BY DEF Current
  <2>1. SameLocals(q) /\ At[q] \in Node
    BY <1>0, <1>2, SyncAssumption DEF Local
  <2>2. pc[q] = "apply" /\ pc[q] \in Working
    BY <2>1 DEF SameLocals, Working, Label
  <2>3. CASE Own(wal'[Main][s], job'[q].me)
    <3>1. Foreign(job[q].me)
      BY <1>2, <2>2, StepIsForeign
    <3>2. s \in DOMAIN wal[Main] /\ Own(wal[Main][s], job[q].me)
      BY <2>1, <2>3, <3>1 DEF Foreign, SameLocals
    <3> QED BY <2>1, <2>2, <3>2 DEF Current, SameLocals
  <2>4. CASE At[q] # Main /\ s \in DOMAIN wal'[At[q]]
    <3>1. wal'[At[q]] = wal[At[q]]
      BY <1>0, <1>2, <2>1, <2>4 DEF Local, SameTables, OneTerminal
    <3>2. s \in DOMAIN wal[Main]
      <4>1. /\ Length(At[q]) \in Nat /\ DOMAIN wal[At[q]] = 1 .. Length(At[q])
            /\ Length(At[q]) <= Length(Main)
        BY <2>1 DEF SyncInv, LogInv
      <4>2. Length(Main) \in Nat /\ DOMAIN wal[Main] = 1 .. Length(Main)
        BY <1>0 DEF SyncInv, LogInv
      <4> QED BY <2>4, <3>1, <4>1, <4>2
    <3> QED BY <2>1, <2>2, <2>4, <3>1, <3>2 DEF Current, SameLocals
  <2> QED BY <2>3, <2>4
<1> QED BY <1>1, <1>2

\* A command keeps the id it works with.
LEMMA MeStays ==
    ASSUME DeviceInv, DeviceInv', StandInv, StandInv', Grows, NEW p \in Proc,
           pc[p] \in Working, pc'[p] \in Working
    PROVE  job'[p].me = job[p].me
<1>1. Names(devices[Main], job[p].me, At[p])
  BY WorksFor DEF StandInv
<1>2. Names(devices'[Main], job'[p].me, At[p])
  BY DEF StandInv, Stands, DeviceInv, Identified
<1>3. Names(devices'[Main], job[p].me, At[p])
  BY <1>1 DEF Grows, Names
<1>4. IdTable'
  BY DEF DeviceInv
<1> QED BY <1>2, <1>3, <1>4 DEF IdTable, Names

\* A sync brings a node all of its entries, and it gets no others until it pushes.
LEMMA StepUpToDate ==
    ASSUME SyncInv, JustifiedInv, TypeInv, DeviceInv, DeviceInv', StandInv, StandInv', Grows,
           OneTerminal, \A q \in Proc : Current(q) /\ UpToDate(q),
           NEW p \in Proc, Start(p) \/ Step(p) \/ Abort(p)
    PROVE  \A q \in Proc : UpToDate(q)'
<1>0. Domains /\ Main \in Node /\ Local(p) /\ \A q \in Proc : At[q] \in Node
  BY TypedDomains, SyncAssumption, StepIsLocal
<1>1. ASSUME NEW q \in Proc, pc[q] \in Synced, job'[q].me = job[q].me, Foreign(job[q].me)
      PROVE  UpToDate(q)'
  <2>1. DOMAIN wal[At[q]] \subseteq DOMAIN wal'[At[q]]
    BY <1>0, LogsGrow
  <2> QED BY <1>1, <2>1 DEF UpToDate, Foreign
<1>2. UpToDate(p)'
  <2> SUFFICES ASSUME pc'[p] \in Synced PROVE UpToDate(p)'
    BY DEF UpToDate
  <2>1. SyncApply(p) \/ CleanupRows(p)
    BY Arrivals
  <2>2. CASE SyncApply(p)
    <3> SUFFICES ASSUME NEW s \in DOMAIN wal'[Main], Own(wal'[Main][s], job'[p].me)
                 PROVE  s \in DOMAIN wal'[At[p]]
      BY DEF UpToDate
    <3>1. /\ pc[p] = "apply" /\ last[p] \in Nat /\ last[p] <= Length(At[p])
          /\ \A r \in DOMAIN batch[p] : r \in DOMAIN wal'[At[p]]
          /\ wal'[Main] = wal[Main]
      BY <2>2, ApplyBatch
    <3>2. job'[p].me = job[p].me
      BY <2>2 DEF SyncApply
    <3>3. s \in DOMAIN wal[Main] /\ Own(wal[Main][s], job[p].me)
      BY <3>1, <3>2
    <3>4. s <= last[p] \/ s \in DOMAIN batch[p]
      BY <3>1, <3>3 DEF Current
    <3>5. s <= last[p] => s \in DOMAIN wal[At[p]]
      <4>1. Length(At[p]) \in Nat /\ DOMAIN wal[At[p]] = 1 .. Length(At[p])
        BY <1>0 DEF SyncInv, LogInv
      <4>2. Length(Main) \in Nat /\ DOMAIN wal[Main] = 1 .. Length(Main)
        BY <1>0 DEF SyncInv, LogInv
      <4> QED BY <3>1, <3>3, <4>1, <4>2
    <3>6. DOMAIN wal[At[p]] \subseteq DOMAIN wal'[At[p]]
      BY <1>0, LogsGrow
    <3> QED BY <3>1, <3>4, <3>5, <3>6
  <2>3. CASE CleanupRows(p)
    <3>1. pc[p] \in Synced /\ pc[p] \in Working /\ pc'[p] \in Working /\ ~PushAppend(p)
      BY <2>3 DEF CleanupRows, PushAppend, Synced, Working, Label
    <3>2. Foreign(job[p].me)
      BY <3>1, StepIsForeign
    <3>3. job'[p].me = job[p].me
      BY <3>1, MeStays
    <3> QED BY <1>1, <3>1, <3>2, <3>3
  <2> QED BY <2>1, <2>2, <2>3
<1>3. ASSUME NEW q \in Proc, q # p
      PROVE  UpToDate(q)'
  <2> SUFFICES ASSUME pc'[q] \in Synced PROVE UpToDate(q)'
    BY DEF UpToDate
  <2>1. SameLocals(q)
    BY <1>0, <1>3 DEF Local
  <2>2. pc[q] \in Synced /\ pc[q] \in Working /\ job'[q].me = job[q].me
    BY <2>1 DEF SameLocals, Synced, Working, Label
  <2>3. Foreign(job[q].me)
    BY <1>3, <2>2, StepIsForeign
  <2> QED BY <1>1, <2>2, <2>3
<1> QED BY <1>2, <1>3

-----------------------------------------------------------------------------
(* What is pushed                                                          *)

\* An order of a set leaves nothing out.
LEMMA OrdersAreComplete ==
    ASSUME NEW S, IsFiniteSet(S), NEW order \in Orders(S)
    PROVE  \A x \in S : \E i \in DOMAIN order : order[i] = x
<1>1. Cardinality(S) \in Nat
  BY FS_CardinalityType
<1>2. order \in Injection(1 .. Cardinality(S), S)
  BY DEF Orders
<1>3. Cardinality(1 .. Cardinality(S)) = Cardinality(S)
  BY <1>1, FS_Interval
<1>4. order \in Surjection(1 .. Cardinality(S), S)
  BY <1>2, <1>3, FS_Injection
<1> QED BY <1>2, <1>4 DEF Surjection, Injection

\* The owner entries a cleanup pushes release all of the node's that it found.
LEMMA ScanReleases ==
    ASSUME SyncInv, TypeInv, DeviceInv, StandInv, NEW p \in Proc, CleanupScan(p), UpToDate(p),
           Sees(At[p])
    PROVE  Released(p)'
<1> DEFINE n == At[p]
           unused == objects[n] \ Referenced(files[n], staging[n])
           owned == {h \in unused : HasObjectOwner(owners[n], h, job[p].me)}
<1>0. Domains /\ n \in Node /\ Main \in Node /\ pc[p] = "scan"
  BY TypedDomains, SyncAssumption DEF CleanupScan
<1>1. PICK order \in Orders(owned) :
        out' = [out EXCEPT ![p] = [i \in DOMAIN order |-> OwnerDelete(order[i], job[p].me)]]
  BY DEF CleanupScan
<1>2. /\ garbage'[p] = unused /\ wal' = wal /\ job' = job /\ acks' = acks
      /\ acks[p] = <<>>
  BY <1>0 DEF CleanupScan, dbVars, Domains, TypeInv, Control, Fits, Fresh
<1>3. IsFiniteSet(owned)
  <2>1. owned \subseteq Hash
    BY <1>0 DEF TypeInv, NodeTypes
  <2> QED BY <2>1, FS_Subset, DataAssumption
<1>4. ASSUME NEW h \in unused, Owned(wal[Main], h, job[p].me)
      PROVE  h \in owned
  <2>1. PICK s \in DOMAIN wal[Main] :
          /\ Adds(wal[Main][s], h, job[p].me)
          /\ \A t \in DOMAIN wal[Main] : t > s => ~Removes(wal[Main][t], h, job[p].me)
    BY <1>4 DEF Owned
  <2>2. Own(wal[Main][s], job[p].me)
    BY <2>1 DEF Adds, Own
  <2>3. s \in DOMAIN wal[n]
    BY <1>0, <2>2 DEF UpToDate, Synced
  <2>4. \A t \in DOMAIN wal[n] : t \in DOMAIN wal[Main] /\ wal[n][t] = wal[Main][t]
    <3>1. /\ Length(n) \in Nat /\ DOMAIN wal[n] = 1 .. Length(n)
          /\ Length(n) <= Length(Main)
          /\ \A t \in 1 .. Length(n) : wal[n][t] = wal[Main][t]
      BY <1>0 DEF SyncInv, LogInv
    <3>2. Length(Main) \in Nat /\ DOMAIN wal[Main] = 1 .. Length(Main)
      BY <1>0 DEF SyncInv, LogInv
    <3> QED BY <3>1, <3>2
  <2>5. Owned(wal[n], h, job[p].me)
    BY <2>1, <2>3, <2>4 DEF Owned
  <2>6. Names(devices[Main], job[p].me, n)
    BY <1>0, WorksFor DEF StandInv, Working, Label
  <2>7. <<h, job[p].me>> \in owners[n]
    BY <2>5, <2>6 DEF Sees
  <2> QED BY <2>7 DEF HasObjectOwner
<1> HIDE DEF owned, unused
<1>5. \A i \in DOMAIN order : /\ i \in DOMAIN out'[p] /\ i > 0
                              /\ out'[p][i] = OwnerDelete(order[i], job[p].me)
  <2>1. DOMAIN order = 1 .. Cardinality(owned) /\ Cardinality(owned) \in Nat
    BY <1>3, OrdersTyped
  <2>2. out'[p] = [i \in DOMAIN order |-> OwnerDelete(order[i], job[p].me)]
    BY <1>0, <1>1 DEF Domains
  <2> QED BY <2>1, <2>2
<1>6. ASSUME NEW h \in garbage'[p], Owned(wal'[Main], h, job'[p].me)
      PROVE  \E i \in DOMAIN out'[p] : i > Len(acks'[p]) /\ out'[p][i] = OwnerDelete(h, job'[p].me)
  <2>1. h \in owned
    BY <1>2, <1>4, <1>6
  <2>2. PICK i \in DOMAIN order : order[i] = h
    BY <1>1, <1>3, <2>1, OrdersAreComplete
  <2>3. Len(acks'[p]) = 0
    BY <1>2
  <2> QED BY <1>2, <1>5, <2>2, <2>3
<1> QED BY <1>6 DEF Released

\* Every entry the handler adds releases one object.
LEMMA AppendReleases ==
    ASSUME SyncInv, JustifiedInv, TypeInv, DeviceInv, RouteInv, NEW p \in Proc, PushAppend(p),
           Released(p)
    PROVE  Released(p)'
<1> DEFINE i == Len(acks[p]) + 1
           e == out[p][i]
           k == Length(Main)
           v == Versioned(files[Main], e)
<1>0. Domains /\ Main \in Node /\ pc[p] = "append" /\ acks[p] \in Seq(Nat) /\ job[p] \in Job
  BY TypedDomains, SyncAssumption DEF PushAppend, TypeInv, Control, ControlTypes
<1>1. i \in DOMAIN out[p] /\ e \in Entry
  BY <1>0, OutIsTyped
<1>2. AddWalEntry(e)
  BY DEF PushAppend
<1>3. /\ k \in Nat /\ DOMAIN wal[Main] = 1 .. k /\ DOMAIN wal'[Main] = 1 .. (k + 1)
      /\ \A s \in DOMAIN wal[Main] : wal'[Main][s] = wal[Main][s]
      /\ wal'[Main][k + 1] = v
  BY <1>1, <1>2, AddEffect
<1>4. /\ v.op = e.op /\ (e.op # "DeviceUpdate" => v.owner = e.owner)
      /\ (e.op \in {"FileUpdate", "OwnerUpdate", "OwnerDelete"} => v.hash = e.hash)
  BY <1>1, VersionedKeeps
<1>5. out' = out /\ garbage' = garbage
  BY DEF PushAppend
<1>6. Len(acks'[p]) = i /\ Len(acks[p]) \in Nat
  <2>1. acks'[p] = Append(acks[p], LastSeqId(wal[Main]) + 1)
    BY <1>0 DEF PushAppend, Domains
  <2> QED BY <1>0, <2>1
<1>7. job'[p].me = job[p].me
  BY <1>0 DEF PushAppend, Domains, Job
<1>8. garbage[p] # {} => e.op = "OwnerDelete"
  BY <1>1 DEF RouteInv, Routed, Follows, Pushes, Cleans
<1> HIDE DEF v, k, e
<1>9. ASSUME NEW h \in garbage[p], Owned(wal'[Main], h, job[p].me)
      PROVE  \E j \in DOMAIN out[p] : j > i /\ out[p][j] = OwnerDelete(h, job[p].me)
  <2>1. Adds(v, h, job[p].me) \/ (Owned(wal[Main], h, job[p].me) /\ ~Removes(v, h, job[p].me))
    BY <1>3, <1>9, AppendedOwners
  <2>2. ~Adds(v, h, job[p].me)
    BY <1>4, <1>8 DEF Adds
  <2>3. PICK j \in DOMAIN out[p] : j > Len(acks[p]) /\ out[p][j] = OwnerDelete(h, job[p].me)
    BY <2>1, <2>2 DEF Released
  <2>4. j # i
    <3> SUFFICES ASSUME e = OwnerDelete(h, job[p].me) PROVE FALSE
      BY <2>3 DEF e
    <3>1. Removes(v, h, job[p].me)
      BY <1>4 DEF OwnerDelete, Removes
    <3> QED BY <2>1, <2>2, <3>1
  <2>5. j \in Nat
    <3>1. out[p] \in Seq(Entry)
      BY DEF TypeInv, Control, ControlTypes
    <3> QED BY <3>1
  <2> QED BY <1>6, <2>3, <2>4, <2>5
<1> QED BY <1>5, <1>6, <1>7, <1>9 DEF Released

\* Where garbage comes from.
LEMMA GarbageKinds ==
    ASSUME TypeInv, RouteInv, NEW p \in Proc, Start(p) \/ Step(p) \/ Abort(p)
    PROVE  \/ garbage'[p] = {} \/ CleanupScan(p) \/ PushAppend(p)
           \/ garbage'[p] \subseteq garbage[p] /\ out'[p] = out[p] /\ acks'[p] = acks[p]
<1>0. Domains /\ Follows(Commands[p], pc[p], job[p], out[p], acks[p], garbage[p])
  BY TypedDomains DEF RouteInv, Routed
<1>1. CASE Start(p)
  BY <1>1, StartBegins DEF localVars
<1>2. CASE Finish(p)
  BY <1>0, <1>2, FinishEnds
<1>3. CASE ~Finish(p)
  <2>1. CASE \/ Register(p) \/ RegisterLog(p) \/ SyncRequest(p) \/ SyncApply(p) \/ PushOpen(p)
             \/ PushLock(p) \/ PushSettle(p) \/ PullOpen(p) \/ CleanupSelect(p)
             \/ CleanupRows(p)
    BY <1>3, <2>1 DEF Register, RegisterLog, SyncRequest, SyncApply, PushOpen, PushLock,
                      PushSettle, PullOpen, CleanupSelect, CleanupRows, localVars
  <2>2. CASE PushCollect(p) \/ PullFetch(p)
    <3>1. garbage' = garbage /\ pc[p] \in {"collect", "fetch"}
      BY <1>3, <2>2 DEF PushCollect, PullFetch, localVars
    <3> QED BY <1>0, <3>1 DEF Follows, Goal, Syncing
  <2>3. CASE CleanupDelete(p)
    BY <1>0, <1>3, <2>3 DEF CleanupDelete, Domains
  <2>4. CASE Configure(p) \/ Report(p) \/ AddStage(p)
    BY <1>3, <2>4 DEF Configure, Report, AddStage
  <2>5. CASE CleanupScan(p) \/ PushAppend(p)
    BY <2>5
  <2>6. CASE Throw(p)
    <3>1. garbage'[p] = {} \/ (Caught(p) /\ garbage' = garbage)
      BY <1>0, <2>6, ThrowEnds
    <3>2. Caught(p) => garbage[p] = {}
      BY <1>0 DEF Caught, Follows, Cleans
    <3> QED BY <3>1, <3>2
  <2>7. CASE SyncRead(p) \/ Unreachable(p) \/ Abort(p)
    <3>1. Throw(p) \/ (garbage' = garbage /\ out' = out /\ acks' = acks)
      BY <1>3, <2>7 DEF SyncRead, Unreachable, Abort
    <3> QED BY <2>6, <3>1
  <2> QED BY <1>1, <2>1, <2>2, <2>3, <2>4, <2>5, <2>7 DEF Step
<1> QED BY <1>2, <1>3

\* A command that has garbage works for its node.
LEMMA GarbageWorks ==
    ASSUME NEW l, NEW j, NEW o, NEW a, NEW g, NEW cs, Follows(cs, l, j, o, a, g), g # {}
    PROVE  l \in Working
BY DEF Follows, Goal, Syncing, Working, Label

\* What a scan finds unused and still owned, the command goes on to unregister.
LEMMA StepReleased ==
    ASSUME SyncInv, JustifiedInv, TypeInv, DeviceInv, DeviceInv', RouteInv, RouteInv', StandInv,
           StandInv', Grows, OneTerminal, \A q \in Proc : UpToDate(q) /\ Released(q), \A n \in Node : Sees(n),
           NEW p \in Proc, Start(p) \/ Step(p) \/ Abort(p)
    PROVE  \A q \in Proc : Released(q)'
<1>0. Domains /\ Main \in Node /\ Local(p) /\ \A q \in Proc : At[q] \in Node
  BY TypedDomains, SyncAssumption, StepIsLocal
<1>1. ASSUME NEW q \in Proc, garbage'[q] \subseteq garbage[q], out'[q] = out[q],
             acks'[q] = acks[q], q # p \/ ~PushAppend(p)
      PROVE  Released(q)'
  <2> SUFFICES ASSUME NEW h \in garbage'[q], Owned(wal'[Main], h, job'[q].me)
               PROVE  \E i \in DOMAIN out'[q] : /\ i > Len(acks'[q])
                                                /\ out'[q][i] = OwnerDelete(h, job'[q].me)
    BY DEF Released
  <2>1. pc[q] \in Working /\ pc'[q] \in Working
    <3>1. Routed(q) /\ Routed(q)' /\ garbage[q] # {} /\ garbage'[q] # {}
      BY <1>1 DEF RouteInv
    <3> QED BY <3>1, GarbageWorks DEF Routed
  <2>2. Foreign(job[q].me)
    BY <1>1, <2>1, StepIsForeign
  <2>3. job'[q].me = job[q].me
    BY <2>1, MeStays
  <2>4. Owned(wal[Main], h, job[q].me)
    <3>1. /\ DOMAIN wal[Main] \subseteq DOMAIN wal'[Main]
          /\ \A s \in DOMAIN wal[Main] : wal'[Main][s] = wal[Main][s]
      BY <1>0, LogsGrow
    <3> QED BY <2>2, <2>3, <3>1, ForeignOwners
  <2> QED BY <1>1, <2>3, <2>4 DEF Released
<1>2. Released(p)'
  <2>1. CASE garbage'[p] = {}
    BY <2>1 DEF Released
  <2>2. CASE CleanupScan(p)
    BY <1>0, <2>2, ScanReleases
  <2>3. CASE PushAppend(p)
    BY <2>3, AppendReleases
  <2> QED BY <1>1, <2>1, <2>2, <2>3, GarbageKinds
<1>3. ASSUME NEW q \in Proc, q # p
      PROVE  Released(q)'
  <2>1. SameLocals(q)
    BY <1>0, <1>3 DEF Local
  <2> QED BY <1>1, <1>3, <2>1 DEF SameLocals
<1> QED BY <1>2, <1>3

\* Only cleanup deletes objects, those of its node.
LEMMA ObjectKinds ==
    ASSUME TypeInv, NEW p \in Proc, Start(p) \/ Step(p) \/ Abort(p)
    PROVE  CleanupDelete(p) \/ \A n \in Node : objects[n] \subseteq objects'[n]
<1>0. Domains
  BY TypedDomains
<1>1. CASE Start(p)
  BY <1>1, StartBegins
<1>2. CASE PullFetch(p)
  <2>1. objects' = objects \/ \E x : objects' = [objects EXCEPT ![At[p]] = @ \cup {x}]
    BY <1>2 DEF PullFetch
  <2> QED BY <1>0, <2>1 DEF Domains
<1>3. CASE Step(p) /\ ~PullFetch(p) /\ ~CleanupDelete(p)
  BY <1>3
     DEF Step, Register, RegisterLog, Configure, SyncRead, SyncRequest, SyncApply, Report,
         AddStage, PushOpen, PushCollect, PushLock, PushAppend, PushSettle, PullOpen,
         CleanupSelect, CleanupRows, CleanupScan, Unreachable, nodeVars
<1>4. CASE Abort(p)
  BY <1>4 DEF Abort
<1> QED BY <1>1, <1>2, <1>3, <1>4

\* What a push sends is there when it collects it.
LEMMA CollectSupplies ==
    ASSUME TypeInv, NEW p \in Proc, PushCollect(p), ~Finish(p)
    PROVE  Supplied(p)'
<1> DEFINE n == At[p]
           ready == {q \in DOMAIN staging[n] : staging[n][q] \in objects[n]}
           sent(order) == [i \in DOMAIN order |->
                             FileUpdate(order[i], staging[n][order[i]], 0, deviceId[n])]
<1>0. Domains /\ n \in Node
  BY TypedDomains, SyncAssumption
<1>1. PICK order \in Orders(ready) : out' = [out EXCEPT ![p] = sent(order)]
  BY DEF PushCollect
<1>2. objects' = objects
  BY DEF PushCollect, nodeVars
<1>3. out'[p] = sent(order)
  BY <1>0, <1>1 DEF Domains
<1>4. \A i \in DOMAIN out'[p] : i \in DOMAIN order /\ out'[p][i].hash = staging[n][order[i]]
  BY <1>3 DEF FileUpdate
<1>5. IsFiniteSet(ready)
  <2>1. ready \subseteq Path
    BY <1>0 DEF TypeInv, NodeTypes, IsTable
  <2> QED BY <2>1, FS_Subset, DataAssumption
<1>6. \A i \in DOMAIN order : order[i] \in ready
  BY <1>5, OrdersTyped
<1> QED BY <1>2, <1>4, <1>6 DEF Supplied

\* Where the entries to push come from.
LEMMA OutKinds ==
    ASSUME TypeInv, NEW p \in Proc, Start(p) \/ Step(p) \/ Abort(p)
    PROVE  \/ out'[p] = <<>> \/ out'[p] = out[p] \/ CleanupScan(p) \/ PullFetch(p)
           \/ PushCollect(p) /\ ~Finish(p)
<1>0. Domains
  BY TypedDomains
<1>1. CASE Start(p)
  BY <1>1, StartBegins DEF localVars
<1>2. CASE Finish(p)
  BY <1>0, <1>2, FinishEnds
<1>4. CASE Throw(p)
  BY <1>0, <1>4, ThrowEnds
<1>3. CASE Step(p) /\ ~Finish(p) /\ ~Throw(p)
  BY <1>3
     DEF Step, Register, RegisterLog, Configure, SyncRead, SyncRequest, SyncApply, Report,
         AddStage, PushOpen, PushLock, PushAppend, PushSettle, PullOpen, CleanupSelect,
         CleanupRows, CleanupDelete, Unreachable, localVars
<1> QED BY <1>1, <1>2, <1>3, <1>4 DEF Abort

\* A pull registers its node for an object it has stored.
LEMMA FetchSupplies ==
    ASSUME TypeInv, Domains, NEW p \in Proc, PullFetch(p), Supplied(p)
    PROVE  Supplied(p)'
<1> DEFINE n == At[p]
           hash(q) == CurrentHash(files[n], q)
<1>0. n \in Node /\ \A m \in Node : objects[m] \subseteq objects'[m]
  <2>1. objects' = objects \/ \E x : objects' = [objects EXCEPT ![n] = @ \cup {x}]
    BY DEF PullFetch
  <2> QED BY <2>1, SyncAssumption DEF Domains
<1>1. \/ Finish(p)
      \/ out' = out
      \/ \E q : /\ objects' = [objects EXCEPT ![n] = @ \cup {hash(q)}]
                /\ out' = [out EXCEPT ![p] = <<OwnerUpdate(hash(q), job[p].me)>>]
  BY DEF PullFetch, localVars
<1>2. CASE Finish(p)
  BY <1>2, FinishEnds DEF Supplied
<1>3. CASE out' = out
  BY <1>0, <1>3 DEF Supplied
<1> HIDE DEF hash
<1>4. ASSUME NEW q, objects' = [objects EXCEPT ![n] = @ \cup {hash(q)}],
             out' = [out EXCEPT ![p] = <<OwnerUpdate(hash(q), job[p].me)>>]
      PROVE  Supplied(p)'
  <2>1. out'[p] = <<OwnerUpdate(hash(q), job[p].me)>> /\ hash(q) \in objects'[n]
    BY <1>0, <1>4 DEF Domains
  <2>2. \A i \in DOMAIN out'[p] : out'[p][i].hash = hash(q)
    BY <2>1 DEF OwnerUpdate
  <2> QED BY <2>1, <2>2 DEF Supplied
<1> QED BY <1>1, <1>2, <1>3, <1>4

\* A node loses no object between collecting its entries and pushing them.
LEMMA StepSupplied ==
    ASSUME TypeInv, RouteInv, OneTerminal, \A q \in Proc : Supplied(q),
           NEW p \in Proc, Start(p) \/ Step(p) \/ Abort(p)
    PROVE  \A q \in Proc : Supplied(q)'
<1>0. Domains /\ Local(p) /\ \A q \in Proc : At[q] \in Node
  BY TypedDomains, SyncAssumption, StepIsLocal
<1>1. Supplied(p)'
  <2>1. CASE CleanupDelete(p)
    <3>1. out'[p] = out[p] \/ out'[p] = <<>>
      BY <1>0, <2>1, FinishEnds DEF CleanupDelete
    <3>2. \A i \in DOMAIN out[p] : out[p][i].op = "OwnerDelete"
      BY <2>1 DEF CleanupDelete, RouteInv, Routed, Follows, OnCourse, Goal, Syncing, Pushes
    <3> QED BY <3>1, <3>2 DEF Supplied
  <2>2. CASE CleanupScan(p)
    <3>1. PICK order :
             out' = [out EXCEPT ![p] = [i \in DOMAIN order |-> OwnerDelete(order[i], job[p].me)]]
      BY <2>2 DEF CleanupScan
    <3>2. out'[p] = [i \in DOMAIN order |-> OwnerDelete(order[i], job[p].me)]
      BY <1>0, <3>1 DEF Domains
    <3>3. \A i \in DOMAIN out'[p] : out'[p][i].op = "OwnerDelete"
      BY <3>2 DEF OwnerDelete
    <3> QED BY <3>3 DEF Supplied
  <2>3. CASE PushCollect(p) /\ ~Finish(p)
    BY <2>3, CollectSupplies
  <2>4. CASE PullFetch(p)
    BY <1>0, <2>4, FetchSupplies
  <2>5. CASE out'[p] = <<>>
    BY <2>5 DEF Supplied
  <2>6. CASE out'[p] = out[p] /\ ~CleanupDelete(p)
    BY <1>0, <2>6, ObjectKinds DEF Supplied
  <2> QED BY <2>1, <2>2, <2>3, <2>4, <2>5, <2>6, OutKinds
<1>2. ASSUME NEW q \in Proc, q # p
      PROVE  Supplied(q)'
  <2>1. SameLocals(q) /\ objects'[At[q]] = objects[At[q]]
    BY <1>0, <1>2 DEF Local, SameStore, OneTerminal
  <2> QED BY <2>1 DEF Supplied, SameLocals
<1> QED BY <1>1, <1>2

-----------------------------------------------------------------------------
(* The objects of the owners                                               *)

\* What cleanup deletes is released.
LEMMA DeletesReleased ==
    ASSUME RouteInv, PushInv, NEW p \in Proc, Released(p), pc[p] = "delete",
           NEW h \in garbage[p]
    PROVE  ~Owned(wal[Main], h, job[p].me)
<1>1. Len(acks[p]) = Len(out[p])
  BY DEF PushInv, Pushed, Complete, Goal, Syncing, Done
<1>2. ASSUME NEW i \in DOMAIN out[p], i > Len(acks[p])
      PROVE  out[p][i] # OwnerDelete(h, job[p].me)
  BY <1>1, <1>2
<1> QED BY <1>2 DEF Released

\* Deleting released garbage takes no object from an owner.
LEMMA DeleteKeeps ==
    ASSUME TypeInv, DeviceInv, RouteInv, PushInv, StandInv, Kept, NEW p \in Proc, Released(p),
           CleanupDelete(p)
    PROVE  Kept'
<1>0. Domains /\ At[p] \in Node
  BY TypedDomains, SyncAssumption
<1>1. /\ pc[p] = "delete" /\ wal' = wal /\ devices' = devices /\ lost' = lost
      /\ \/ objects' = objects
         \/ \E h \in garbage[p] : objects' = [objects EXCEPT ![At[p]] = @ \ {h}]
  BY DEF CleanupDelete, dbVars
<1>2. Names(devices[Main], job[p].me, At[p])
  BY <1>1, WorksFor DEF StandInv, Working, Label
<1>3. CASE objects' = objects
  BY <1>1, <1>3 DEF Kept
<1>4. ASSUME NEW g \in garbage[p], objects' = [objects EXCEPT ![At[p]] = @ \ {g}]
      PROVE  Kept'
  <2> SUFFICES ASSUME NEW n \in Node, NEW h, NEW d, Names(devices[Main], d, n),
                      Owned(wal[Main], h, d), <<h, d>> \notin lost
               PROVE  h \in objects'[n]
    BY <1>1 DEF Kept
  <2>1. h \in objects[n]
    BY DEF Kept
  <2>2. CASE n # At[p]
    BY <1>0, <1>4, <2>1, <2>2 DEF Domains
  <2>3. CASE n = At[p]
    <3>1. d = job[p].me
      BY <1>2, <2>3 DEF DeviceInv, IdTable, Names
    <3>2. h # g
      BY <1>1, <3>1, DeletesReleased
    <3> QED BY <1>0, <1>4, <2>1, <2>3, <3>2 DEF Domains
  <2> QED BY <2>2, <2>3
<1> QED BY <1>1, <1>3, <1>4

\* Only deinit loses objects, and a node finds one when it has it.
LEMMA LostStays ==
    ASSUME TypeInv, NEW p \in Proc, Start(p) \/ Step(p) \/ Abort(p), NEW n \in Node, NEW h, NEW d,
           Names(devices'[Main], d, n), <<h, d>> \in lost
    PROVE  <<h, d>> \in lost' \/ h \in objects'[n]
<1>0. Domains /\ At[p] \in Node
  BY TypedDomains, SyncAssumption
<1>1. ASSUME NEW m \in Node, NEW g, lost' = Regained(m, g), devices' = devices,
             objects' = [objects EXCEPT ![m] = @ \cup {g}]
      PROVE  <<h, d>> \in lost' \/ h \in objects'[n]
  BY <1>0, <1>1 DEF Regained, Names, Domains
<1>2. ASSUME NEW path \in Path, NEW hash \in Hash, AddObject(p, path, hash)
      PROVE  <<h, d>> \in lost' \/ h \in objects'[n]
  BY <1>0, <1>1, <1>2 DEF AddObject
<1>3. CASE PullFetch(p)
  <2>1. \/ lost' = lost
        \/ \E g : lost' = Regained(At[p], g) /\ objects' = [objects EXCEPT ![At[p]] = @ \cup {g}]
    BY <1>3 DEF PullFetch
  <2> QED BY <1>0, <1>1, <1>3, <2>1 DEF PullFetch, dbVars
<1>4. CASE lost' = lost
  BY <1>4
<1>5. \/ lost' = lost \/ PullFetch(p)
      \/ \E path \in Path, hash \in Hash : AddObject(p, path, hash)
  BY DEF Start, StartConnect, StartUpdate, StartPush, StartPull, StartCleanup, StartRemove,
         StartSync, Disconnect, Unstage,
         Step, Register, RegisterLog, Configure, SyncRead, SyncRequest, SyncApply, Report,
         AddStage, PushOpen, PushCollect, PushLock, PushAppend, PushSettle, PullOpen,
         CleanupSelect, CleanupRows, CleanupScan, CleanupDelete, Unreachable, Abort
<1> QED BY <1>2, <1>3, <1>4, <1>5

\* Every step leaves the owners of Main's log their objects.
LEMMA StepKept ==
    ASSUME SyncInv, JustifiedInv, TypeInv, DeviceInv, RouteInv, PushInv,
           StandInv, Grows, Kept, NEW p \in Proc, Released(p), Supplied(p), Start(p) \/ Step(p) \/ Abort(p)
    PROVE  Kept'
<1>0. Domains /\ Main \in Node
  BY TypedDomains, SyncAssumption
<1>1. CASE CleanupDelete(p)
  BY <1>1, DeleteKeeps
<1>2. CASE ~CleanupDelete(p)
  <2> SUFFICES ASSUME NEW n \in Node, NEW h, NEW d, Names(devices'[Main], d, n),
                      Owned(wal'[Main], h, d), <<h, d>> \notin lost
               PROVE  h \in objects'[n]
    BY LostStays DEF Kept
  <2>1. objects[n] \subseteq objects'[n]
    BY <1>2, ObjectKinds
  <2>2. ASSUME Owned(wal[Main], h, d)
        PROVE  h \in objects'[n]
    <3>1. PICK s \in DOMAIN wal[Main] : Adds(wal[Main][s], h, d)
      BY <2>2 DEF Owned
    <3>2. Own(wal[Main][s], d)
      BY <3>1 DEF Adds, Own
    <3>3. Names(devices[Main], d, n)
      BY <3>2, NamesBack
    <3> QED BY <2>1, <2>2, <3>3 DEF Kept
  <2>3. ASSUME NEW e \in Entry, AddWalEntry(e), ~Adds(Versioned(files[Main], e), h, d)
        PROVE  Owned(wal[Main], h, d)
    <3> DEFINE k == Length(Main)
               v == Versioned(files[Main], e)
    <3>1. /\ k \in Nat /\ DOMAIN wal[Main] = 1 .. k /\ DOMAIN wal'[Main] = 1 .. (k + 1)
          /\ \A s \in DOMAIN wal[Main] : wal'[Main][s] = wal[Main][s]
          /\ wal'[Main][k + 1] = v
      BY <2>3, AddEffect
    <3> HIDE DEF k
    <3> QED BY <2>3, <3>1, AppendedOwners
  <2>4. CASE wal'[Main] = wal[Main]
    BY <2>2, <2>4
  <2>5. CASE RegisterLog(p)
    <3> DEFINE e == DeviceUpdate(job[p].me, At[p])
    <3>2. e \in Entry
      BY <2>5, RegistrationIsEntry
    <3>3. e.op = "DeviceUpdate" /\ AddWalEntry(e)
      BY <2>5 DEF RegisterLog, DeviceUpdate
    <3> HIDE DEF e
    <3>4. ~Adds(Versioned(files[Main], e), h, d)
      BY <3>2, <3>3, VersionedKeeps DEF Adds
    <3> QED BY <2>2, <2>3, <3>2, <3>3, <3>4
  <2>6. CASE PushAppend(p)
    <3> DEFINE i == Len(acks[p]) + 1
               e == out[p][i]
               v == Versioned(files[Main], e)
    <3>1. pc[p] = "append" /\ AddWalEntry(e)
      BY <2>6 DEF PushAppend
    <3>2. i \in DOMAIN out[p] /\ e \in Entry
      BY <3>1, OutIsTyped
    <3>3. /\ v.op = e.op /\ (e.op # "DeviceUpdate" => v.owner = e.owner)
          /\ (e.op \in {"FileUpdate", "OwnerUpdate", "OwnerDelete"} => v.hash = e.hash)
      BY <3>2, VersionedKeeps
    <3>4. e.owner = job[p].me /\ e.op # "DeviceUpdate"
      BY <3>1, <3>2 DEF DeviceInv, Identified
    <3>5. Names(devices[Main], job[p].me, At[p])
      BY <3>1, WorksFor DEF StandInv, Working, Label
    <3>6. e.op # "OwnerDelete" => e.hash \in objects[At[p]]
      BY <3>2 DEF Supplied
    <3> HIDE DEF e, v, i
    <3>7. ASSUME Adds(v, h, d)
          PROVE  h \in objects'[n]
      <4>1. d = job[p].me /\ h = e.hash /\ e.op # "OwnerDelete"
        BY <3>3, <3>4, <3>7 DEF Adds
      <4>2. n = At[p]
        BY <3>5, <4>1 DEF Grows, Names
      <4> QED BY <2>1, <3>6, <4>1, <4>2
    <3> QED BY <2>2, <2>3, <3>1, <3>2, <3>7 DEF v
  <2> QED BY <2>4, <2>5, <2>6, LogsGrow
<1> QED BY <1>1, <1>2

\* deinit takes the objects of its node along, and is not in the way of any command.
LEMMA DeinitKeepsObjects ==
    ASSUME TypeInv, DeviceInv, ObjectInv, NEW p \in Proc, Deinit(p)
    PROVE  ObjectInv'
<1> DEFINE n == At[p]
<1>0. /\ Main \in Node \ {n} /\ SameTables(Main) /\ n \in Node
      /\ \A q \in Proc : SameLocals(q)
      /\ \A q \in Proc : At[q] = n => pc[q] = "idle"
      /\ \A q \in Proc : At[q] \in Node
  BY TypedDomains, DeinitSparesMain, SyncAssumption
<1>1. \A m \in Node \ {n} : SameStore(m) /\ SameTables(m)
  BY TypedDomains, DeinitIsLocal
<1>2. \/ SameStore(n) /\ SameTables(n) /\ lost' = lost
      \/ /\ wal'[n] = Empty /\ objects'[n] = {}
         /\ lost' = lost \cup (objects[n] \X {d \in DOMAIN devices[Main] : devices[Main][d] = n})
  BY TypedDomains, DeinitIsLocal
<1> HIDE DEF n
<1>3. ASSUME NEW m \in Node
      PROVE  Sees(m)'
  <2>1. CASE wal'[m] = Empty
    BY <2>1 DEF Sees, Owned, Empty
  <2>2. CASE SameTables(m)
    BY <1>0, <2>2 DEF ObjectInv, Sees, SameTables
  <2> QED BY <1>1, <1>2, <2>1, <2>2
<1>4. ASSUME NEW q \in Proc
      PROVE  Current(q)' /\ UpToDate(q)' /\ Released(q)' /\ Supplied(q)'
  <2>1. Released(q)'
    BY <1>0 DEF ObjectInv, Released, SameTables, SameLocals
  <2>2. CASE At[q] = n
    <3>1. pc'[q] = "idle" /\ out'[q] = <<>>
      BY <1>0, <2>2 DEF SameLocals, DeviceInv, Identified, Working
    <3> QED BY <2>1, <3>1 DEF Current, UpToDate, Supplied, Synced
  <2>3. CASE At[q] # n
    <3>1. SameStore(At[q]) /\ SameTables(At[q])
      BY <1>0, <1>1, <2>3
    <3> QED BY <1>0, <2>1, <3>1
            DEF ObjectInv, Current, UpToDate, Supplied, SameStore, SameTables, SameLocals
  <2> QED BY <2>2, <2>3
<1>5. Kept'
  <2> SUFFICES ASSUME NEW m \in Node, NEW h, NEW d, Names(devices[Main], d, m),
                      Owned(wal[Main], h, d)
               PROVE  h \in objects'[m] \/ <<h, d>> \in lost'
    BY <1>0 DEF Kept, SameTables
  <2>1. h \in objects[m] \/ <<h, d>> \in lost
    BY DEF ObjectInv, Kept
  <2>2. CASE objects'[m] = objects[m]
    BY <1>2, <2>1, <2>2
  <2>3. CASE objects'[m] # objects[m]
    <3>1. m = n /\ ~SameStore(n)
      BY <1>1, <2>3 DEF SameStore
    <3>2. lost' = lost \cup (objects[n] \X {i \in DOMAIN devices[Main] : devices[Main][i] = n})
      BY <1>2, <3>1
    <3> QED BY <2>1, <3>1, <3>2 DEF Names
  <2> QED BY <2>2, <2>3
<1> QED BY <1>3, <1>4, <1>5 DEF ObjectInv

-----------------------------------------------------------------------------
(* The invariant holds                                                     *)

\* Nobody owns anything at the start.
LEMMA InitObjects == Init => ObjectInv
<1> SUFFICES ASSUME Init PROVE ObjectInv
  OBVIOUS
<1>1. /\ \A p \in Proc : pc[p] = "idle" /\ out[p] = <<>> /\ garbage[p] = {}
      /\ Main \in Node
  BY SyncAssumption DEF Init
<1>2. ASSUME NEW n \in Node, NEW h, NEW d
      PROVE  ~Owned(wal[n], h, d)
  <2>1. \A s \in DOMAIN wal[n] : wal[n][s].op = "DeviceUpdate"
    BY DEF Init, DeviceUpdate, Empty
  <2> QED BY <2>1 DEF Owned, Adds
<1>3. \A n \in Node : Sees(n)
  BY <1>2 DEF Sees
<1>4. Kept
  BY <1>1, <1>2 DEF Kept
<1>5. \A p \in Proc : Current(p) /\ UpToDate(p) /\ Released(p) /\ Supplied(p)
  BY <1>1 DEF Current, UpToDate, Released, Supplied, Synced
<1> QED BY <1>3, <1>4, <1>5 DEF ObjectInv

\* Every step keeps ObjectInv.
LEMMA NextObjects ==
    ASSUME OneTerminal
    PROVE  (/\ SyncInv /\ JustifiedInv /\ TypeInv /\ DeviceInv /\ DeviceInv'
            /\ RouteInv /\ RouteInv' /\ PushInv /\ StandInv /\ StandInv' /\ ObjectInv
            /\ [Next]_vars) => ObjectInv'
<1> SUFFICES ASSUME SyncInv, JustifiedInv, TypeInv, DeviceInv, DeviceInv', RouteInv, RouteInv',
                    PushInv, StandInv, StandInv', ObjectInv, [Next]_vars
             PROVE  ObjectInv'
  OBVIOUS
<1>1. ASSUME NEW p \in Proc, Start(p) \/ Step(p) \/ Abort(p)
      PROVE  ObjectInv'
  <2>0. /\ \A n \in Node : Sees(n)
        /\ \A q \in Proc : Current(q) /\ UpToDate(q) /\ Released(q) /\ Supplied(q)
        /\ Kept
    BY DEF ObjectInv
  <2>1. Grows /\ IdTable'
    BY <1>1, IdTableKept
  <2>2. \A n \in Node : Sees(n)'
    BY <1>1, <2>0, <2>1, StepSees
  <2>3. \A q \in Proc : Current(q)'
    BY <1>1, <2>0, StepCurrent
  <2>4. \A q \in Proc : UpToDate(q)'
    BY <1>1, <2>0, <2>1, StepUpToDate
  <2>5. \A q \in Proc : Released(q)'
    BY <1>1, <2>0, <2>1, StepReleased
  <2>6. \A q \in Proc : Supplied(q)'
    BY <1>1, <2>0, StepSupplied
  <2>8. Kept'
    BY <1>1, <2>0, <2>1, StepKept
  <2> QED BY <2>2, <2>3, <2>4, <2>5, <2>6, <2>8 DEF ObjectInv
<1>2. CASE UNCHANGED vars
  BY <1>2 DEF vars, dbVars, nodeVars, localVars, ObjectInv, Sees, Current, UpToDate, Released,
              Supplied, Kept
<1>3. ASSUME NEW p \in Proc, Deinit(p)
      PROVE  ObjectInv'
  BY <1>3, DeinitKeepsObjects
<1> QED BY <1>1, <1>2, <1>3 DEF Next

\* With one terminal per node, the objects behind the log stay where it says.
THEOREM ObjectInvariance ==
    ASSUME OneTerminal
    PROVE  Spec => []ObjectInv
BY InitObjects, NextObjects, SyncInvariance, JustifiedInvariance, TypeInvariance, DeviceInvariance,
   RouteInvariance, PushInvariance, StandInvariance, PTL DEF Spec

\* A peer knows every owner its log names: neither answers that are applied
\* late nor the backfill on every open make it forget one.
THEOREM PeerOwnersTheorem ==
    ASSUME OneTerminal
    PROVE  Spec => []PeerSeesOwners
<1>1. SyncInv /\ ObjectInv => PeerSeesOwners
  <2> SUFFICES ASSUME SyncInv, ObjectInv, NEW n \in Node \ {Main}, NEW x \in LogOwners(wal[n])
               PROVE  x \in owners[n]
    BY DEF PeerSeesOwners
  <2>1. Length(n) \in Nat
    BY DEF SyncInv, LogInv
  <2>2. DOMAIN wal[n] = 1 .. Length(n)
    BY DEF SyncInv, LogInv
  <2>3. x = <<x[1], x[2]>> /\ Owned(wal[n], x[1], x[2])
    BY <2>1, <2>2, OwnersOfLog
  <2> QED BY <2>3 DEF ObjectInv, Sees
<1> QED BY <1>1, SyncInvariance, ObjectInvariance, PTL

\* Who the log names as an owner has the object, until its cleanup has told
\* everybody otherwise or its node is gone with deinit.
THEOREM OwnersHoldTheorem ==
    ASSUME OneTerminal
    PROVE  Spec => []OwnerHasObject
<1>1. SyncInv /\ TypeInv /\ DeviceInv /\ StandInv /\ ObjectInv => OwnerHasObject
  <2> SUFFICES ASSUME SyncInv, TypeInv, DeviceInv, StandInv, ObjectInv,
                      NEW x \in LogOwners(wal[Main]), x \notin lost
               PROVE  Holds(x[2], x[1])
    BY DEF OwnerHasObject
  <2>0. Main \in Node
    BY SyncAssumption
  <2>1. Length(Main) \in Nat
    BY <2>0 DEF SyncInv, LogInv
  <2>2. DOMAIN wal[Main] = 1 .. Length(Main)
    BY <2>0 DEF SyncInv, LogInv
  <2>3. Owned(wal[Main], x[1], x[2]) /\ x = <<x[1], x[2]>>
    BY <2>1, <2>2, OwnersOfLog
  <2> DEFINE n == devices[Main][x[2]]
  <2>4. PICK s \in DOMAIN wal[Main] : Adds(wal[Main][s], x[1], x[2])
    BY <2>3 DEF Owned
  <2>5. x[2] \in DOMAIN devices[Main]
    BY <2>4 DEF StandInv, Signed, Adds
  <2>6. n \in Node /\ Names(devices[Main], x[2], n)
    BY <2>0, <2>5 DEF TypeInv, DbTypes, IsTable, Names
  <2>7. x[1] \in objects[n]
    BY <2>3, <2>6 DEF ObjectInv, Kept
  <2>8. Registered(devices[Main], n)
    BY <2>5 DEF Registered
  <2>9. DeviceOf(devices[Main], n) = x[2]
    BY <2>5 DEF DeviceOf, DeviceInv, IdTable
  <2> QED BY <2>6, <2>7, <2>8, <2>9 DEF Holds
<1> QED BY <1>1, SyncInvariance, TypeInvariance, DeviceInvariance, StandInvariance,
           ObjectInvariance, PTL

\* When cleanup deletes an object, the log no longer names the node as owner.
THEOREM ReleaseTheorem ==
    ASSUME OneTerminal
    PROVE  Spec => []ReleasedBeforeDelete
<1>1. SyncInv /\ RouteInv /\ PushInv /\ ObjectInv => ReleasedBeforeDelete
  <2> SUFFICES ASSUME SyncInv, RouteInv, PushInv, ObjectInv, NEW p \in Proc, pc[p] = "delete",
                      NEW h \in garbage[p]
               PROVE  <<h, job[p].me>> \notin LogOwners(wal[Main])
    BY DEF ReleasedBeforeDelete
  <2>0. Main \in Node
    BY SyncAssumption
  <2>1. Length(Main) \in Nat
    BY <2>0 DEF SyncInv, LogInv
  <2>2. DOMAIN wal[Main] = 1 .. Length(Main)
    BY <2>0 DEF SyncInv, LogInv
  <2>3. ~Owned(wal[Main], h, job[p].me)
    BY DeletesReleased DEF ObjectInv
  <2> QED BY <2>1, <2>2, <2>3, OwnersOfLog
<1> QED BY <1>1, SyncInvariance, RouteInvariance, PushInvariance, ObjectInvariance, PTL

-----------------------------------------------------------------------------
(* The newest version of a file stays available                            *)

\* The last entry of the log for its path.
Latest(w, s) ==
    /\ IsFileEntry(w[s])
    /\ \A t \in DOMAIN w : (IsFileEntry(w[t]) /\ w[t].path = w[s].path) => t <= s

\* The entry e takes the object of s from the device that pushed it.
Unpublishes(e, w, s) == Removes(e, RowOf(w[s]).hash, w[s].owner)

NewestOwned ==
    \A s, t \in DOMAIN wal[Main] :
        Latest(wal[Main], s) /\ t > s => ~Unpublishes(wal[Main][t], wal[Main], s)

\* No cleanup is about to.
Spares(p) ==
    \A i \in DOMAIN out[p] : \A s \in DOMAIN wal[Main] :
        Latest(wal[Main], s) => ~Unpublishes(out[p][i], wal[Main], s)

AvailableInv == NewestOwned /\ \A p \in Proc : Spares(p)

\* Where nobody removes files, versions increase and no node forgets its newest.
NobodyRemoves == \A n \in Node : NeverRemoves(n)

\* What was the last entry of its path earlier on.
LEMMA LatestBefore ==
    ASSUME NEW w, NEW u, DOMAIN w \subseteq DOMAIN u, \A s \in DOMAIN w : u[s] = w[s],
           NEW s \in DOMAIN w, Latest(u, s)
    PROVE  Latest(w, s)
BY DEF Latest

\* An entry that a node has is the newest version it knows, if it is Main's.
LEMMA LatestKnown ==
    ASSUME SyncInv, JustifiedInv, TypeInv, NEW n \in Node, Newest(n), VersionsIncrease,
           NEW s \in DOMAIN wal[Main], Latest(wal[Main], s), s \in DOMAIN wal[n]
    PROVE  \E k \in DOMAIN files[n] : files[n][k] = RowOf(wal[Main][s])
<1> DEFINE e == wal[Main][s]
<1>0. Main \in Node
  BY SyncAssumption
<1>1. \A t \in DOMAIN wal[n] : t \in Nat /\ t \in DOMAIN wal[Main] /\ wal[n][t] = wal[Main][t]
  <2>1. /\ Length(n) \in Nat /\ DOMAIN wal[n] = 1 .. Length(n)
        /\ Length(n) <= Length(Main)
        /\ \A t \in 1 .. Length(n) : wal[n][t] = wal[Main][t]
    BY DEF SyncInv, LogInv
  <2>2. Length(Main) \in Nat /\ DOMAIN wal[Main] = 1 .. Length(Main)
    BY <1>0 DEF SyncInv, LogInv
  <2> QED BY <2>1, <2>2
<1>2. IsFileEntry(e) /\ Covers(files[n], e)
  BY <1>1 DEF Latest, Newest
<1>3. PICK v \in Versions(files[n], e.path) : v >= e.version
  BY <1>2 DEF Covers
<1>4. <<e.path, v>> \in DOMAIN files[n]
  BY <1>3 DEF Versions
<1>5. PICK t \in DOMAIN wal[n] : /\ IsFileEntry(wal[n][t])
                                 /\ <<e.path, v>> = <<wal[n][t].path, wal[n][t].version>>
                                 /\ files[n][<<e.path, v>>] = RowOf(wal[n][t])
  BY <1>4 DEF JustifiedInv, Justified, RowFrom
<1>6. /\ t \in DOMAIN wal[Main] /\ wal[n][t] = wal[Main][t]
      /\ IsFileEntry(wal[Main][t]) /\ wal[Main][t].path = e.path /\ wal[Main][t].version = v
      /\ t \in Nat /\ s \in Nat
  BY <1>1, <1>5
<1>7. t <= s
  BY <1>6 DEF Latest
<1>8. ~(t < s)
  <2> SUFFICES ASSUME t < s PROVE FALSE
    OBVIOUS
  <2>1. v < e.version
    BY <1>2, <1>6 DEF VersionsIncrease
  <2>2. wal[Main][t] \in StoredEntry /\ e \in StoredEntry
    BY <1>0, <1>6 DEF TypeInv, DbTypes, IsLog, IsTable
  <2>3. v \in Nat /\ e.version \in Nat
    BY <1>2, <1>6, <2>2 DEF StoredEntry, Entry, IsFileEntry
  <2> QED BY <1>3, <2>1, <2>3
<1>9. t = s
  BY <1>6, <1>7, <1>8
<1> QED BY <1>4, <1>5, <1>6, <1>9

\* A cleanup finds what the node's newest rows name in use.
LEMMA ScanSpares ==
    ASSUME SyncInv, JustifiedInv, TypeInv, NEW p \in Proc, CleanupScan(p), UpToDate(p),
           Newest(At[p]), VersionsIncrease
    PROVE  Spares(p)'
<1> DEFINE n == At[p]
           unused == objects[n] \ Referenced(files[n], staging[n])
           owned == {h \in unused : HasObjectOwner(owners[n], h, job[p].me)}
<1>0. Domains /\ n \in Node /\ Main \in Node /\ pc[p] = "scan" /\ wal' = wal
  BY TypedDomains, SyncAssumption DEF CleanupScan, dbVars
<1>1. PICK order \in Orders(owned) :
        out' = [out EXCEPT ![p] = [i \in DOMAIN order |-> OwnerDelete(order[i], job[p].me)]]
  BY DEF CleanupScan
<1>2. out'[p] = [i \in DOMAIN order |-> OwnerDelete(order[i], job[p].me)]
  BY <1>0, <1>1 DEF Domains
<1>3. \A i \in DOMAIN order : order[i] \in unused
  <2>1. owned \subseteq Hash
    BY <1>0 DEF TypeInv, NodeTypes
  <2>2. IsFiniteSet(owned)
    BY <2>1, FS_Subset, DataAssumption
  <2> QED BY <2>2, OrdersTyped
<1>4. ASSUME NEW i \in DOMAIN out'[p], NEW s \in DOMAIN wal[Main], Latest(wal[Main], s),
             Unpublishes(out'[p][i], wal[Main], s)
      PROVE  FALSE
  <2>1. i \in DOMAIN order /\ out'[p][i] = OwnerDelete(order[i], job[p].me)
    BY <1>2, <1>4
  <2>2. order[i] = RowOf(wal[Main][s]).hash /\ job[p].me = wal[Main][s].owner
    BY <1>4, <2>1 DEF Unpublishes, Removes, OwnerDelete
  <2>3. Own(wal[Main][s], job[p].me)
    BY <1>4, <2>2 DEF Latest, IsFileEntry, Own
  <2>4. s \in DOMAIN wal[n]
    BY <1>0, <2>3 DEF UpToDate, Synced
  <2>5. PICK k \in DOMAIN files[n] : files[n][k] = RowOf(wal[Main][s])
    BY <1>0, <1>4, <2>4, LatestKnown
  <2>6. order[i] \in Referenced(files[n], staging[n])
    BY <2>2, <2>5 DEF Referenced
  <2> QED BY <1>3, <2>1, <2>6
<1> QED BY <1>0, <1>4 DEF Spares

\* The entries to push stay harmless while others push.
LEMMA StepSpares ==
    ASSUME SyncInv, JustifiedInv, TypeInv, DeviceInv, DeviceInv', RouteInv, RouteInv', StandInv,
           StandInv', Grows, OneTerminal, \A q \in Proc : UpToDate(q) /\ Spares(q),
           \A n \in Node : Newest(n), VersionsIncrease,
           NEW p \in Proc, Start(p) \/ Step(p) \/ Abort(p)
    PROVE  \A q \in Proc : Spares(q)'
<1>0. /\ Domains /\ Main \in Node /\ Local(p) /\ \A q \in Proc : At[q] \in Node
      /\ DOMAIN wal[Main] \subseteq DOMAIN wal'[Main]
      /\ \A s \in DOMAIN wal[Main] : wal'[Main][s] = wal[Main][s]
  BY TypedDomains, SyncAssumption, StepIsLocal, LogsGrow
<1>1. ASSUME NEW q \in Proc, out'[q] = out[q],
             \A s \in DOMAIN wal'[Main] :
                Own(wal'[Main][s], job[q].me) /\ IsFileEntry(wal'[Main][s]) => s \in DOMAIN wal[Main]
      PROVE  Spares(q)'
  <2> SUFFICES ASSUME NEW i \in DOMAIN out[q], NEW s \in DOMAIN wal'[Main], Latest(wal'[Main], s),
                      Unpublishes(out[q][i], wal'[Main], s)
               PROVE  FALSE
    BY <1>1 DEF Spares
  <2>1. out[q][i].owner = job[q].me
    BY DEF DeviceInv, Identified, StandInv, Stands
  <2>2. IsFileEntry(wal'[Main][s]) /\ Own(wal'[Main][s], job[q].me)
    BY <2>1 DEF Latest, Unpublishes, Removes, Own, IsFileEntry
  <2>3. s \in DOMAIN wal[Main] /\ wal'[Main][s] = wal[Main][s]
    BY <1>0, <1>1, <2>2
  <2>4. Latest(wal[Main], s)
    BY <1>0, <2>3, LatestBefore
  <2> QED BY <2>3, <2>4 DEF Spares, Unpublishes
<1>2. ASSUME NEW q \in Proc, out'[q] = out[q], pc[q] \in Working, q # p \/ ~PushAppend(p)
      PROVE  Spares(q)'
  <2>1. Foreign(job[q].me)
    BY <1>2, StepIsForeign
  <2> QED BY <1>1, <1>2, <2>1 DEF Foreign
<1>3. ASSUME NEW q \in Proc, \A i \in DOMAIN out'[q] : out'[q][i].op # "OwnerDelete"
      PROVE  Spares(q)'
  BY <1>3 DEF Spares, Unpublishes, Removes
<1>4. Spares(p)'
  <2>1. CASE CleanupScan(p)
    BY <1>0, <2>1, ScanSpares
  <2>2. CASE PushAppend(p)
    <3> DEFINE e == out[p][Len(acks[p]) + 1]
               k == Length(Main)
               v == Versioned(files[Main], e)
    <3>1. pc[p] = "append" /\ AddWalEntry(e) /\ out'[p] = out[p]
      BY <2>2 DEF PushAppend
    <3>2. Len(acks[p]) + 1 \in DOMAIN out[p] /\ e \in Entry
      BY <3>1, OutIsTyped
    <3>3. k \in Nat /\ DOMAIN wal[Main] = 1 .. k /\ DOMAIN wal'[Main] = 1 .. (k + 1)
          /\ wal'[Main][k + 1] = v
      BY <3>1, <3>2, AddEffect
    <3>4. v.op = e.op
      BY <3>2, VersionedKeeps
    <3> HIDE DEF k, v
    <3>5. CASE e.op = "OwnerDelete"
      <4>1. ~IsFileEntry(v)
        BY <3>4, <3>5 DEF IsFileEntry
      <4>2. \A s \in DOMAIN wal'[Main] : IsFileEntry(wal'[Main][s]) => s \in DOMAIN wal[Main]
        BY <3>3, <4>1
      <4> QED BY <1>1, <3>1, <4>2
    <3>6. CASE e.op # "OwnerDelete"
      <4>1. Pushes(job[p].cmd, e) /\ \A i \in DOMAIN out[p] : Pushes(job[p].cmd, out[p][i])
        BY <3>2 DEF RouteInv, Routed, Follows
      <4>2. \A i \in DOMAIN out[p] : out[p][i].op # "OwnerDelete"
        BY <3>6, <4>1 DEF Pushes, Cleans
      <4> QED BY <1>3, <3>1, <4>2
    <3> QED BY <3>5, <3>6
  <2>3. CASE out'[p] = <<>>
    BY <2>3 DEF Spares
  <2>4. CASE PullFetch(p) /\ out'[p] # <<>>
    <3>1. job[p].cmd = "pull" /\ job[p] \in Job
      BY <2>4 DEF PullFetch, RouteInv, Routed, Follows, OnCourse, Goal, Syncing, TypeInv, Control,
                  ControlTypes
    <3>2. \E q : job' = [job EXCEPT ![p].paths = @ \ {q}]
      BY <1>0, <2>4, FinishEnds DEF PullFetch
    <3>3. job'[p].cmd = "pull"
      BY <1>0, <3>1, <3>2 DEF Domains, Job
    <3>4. \A i \in DOMAIN out'[p] : Pushes("pull", out'[p][i])
      BY <3>3 DEF RouteInv, Routed, Follows
    <3> QED BY <1>3, <3>4 DEF Pushes, Cleans
  <2>5. CASE PushCollect(p) /\ ~Finish(p)
    <3>1. PICK order : out' = [out EXCEPT ![p] = [i \in DOMAIN order |->
                          FileUpdate(order[i], staging[At[p]][order[i]], 0, deviceId[At[p]])]]
      BY <2>5 DEF PushCollect
    <3>2. out'[p] = [i \in DOMAIN order |->
                          FileUpdate(order[i], staging[At[p]][order[i]], 0, deviceId[At[p]])]
      BY <1>0, <3>1 DEF Domains
    <3>3. \A i \in DOMAIN out'[p] : out'[p][i].op # "OwnerDelete"
      BY <3>2 DEF FileUpdate
    <3> QED BY <1>3, <3>3
  <2>6. CASE out'[p] = out[p] /\ out'[p] # <<>> /\ ~PushAppend(p)
    <3>1. pc[p] \in Working
      BY <2>6 DEF DeviceInv, Identified
    <3> QED BY <1>2, <2>6, <3>1
  <2> QED BY <2>1, <2>2, <2>3, <2>4, <2>5, <2>6, OutKinds
<1>5. ASSUME NEW q \in Proc, q # p
      PROVE  Spares(q)'
  <2>1. out'[q] = out[q]
    BY <1>0, <1>5 DEF Local, SameLocals
  <2>2. CASE pc[q] \in Working
    BY <1>2, <1>5, <2>1, <2>2
  <2>3. CASE pc[q] \notin Working
    <3>1. out[q] = <<>>
      BY <2>3 DEF DeviceInv, Identified
    <3> QED BY <2>1, <3>1 DEF Spares
  <2> QED BY <2>2, <2>3
<1> QED BY <1>4, <1>5

\* Nothing that is pushed unpublishes a newest version.
LEMMA StepNewestOwned ==
    ASSUME SyncInv, JustifiedInv, TypeInv, NewestOwned, NEW p \in Proc, Spares(p),
           Start(p) \/ Step(p) \/ Abort(p)
    PROVE  NewestOwned'
<1>0. /\ Main \in Node
      /\ DOMAIN wal[Main] \subseteq DOMAIN wal'[Main]
      /\ \A s \in DOMAIN wal[Main] : wal'[Main][s] = wal[Main][s]
  BY SyncAssumption, LogsGrow
<1>1. CASE wal'[Main] = wal[Main]
  BY <1>1 DEF NewestOwned, Unpublishes
<1>2. ASSUME NEW e \in Entry, AddWalEntry(e),
             \A s \in DOMAIN wal[Main] : Latest(wal[Main], s) => ~Unpublishes(e, wal[Main], s)
      PROVE  NewestOwned'
  <2> DEFINE k == Length(Main)
             v == Versioned(files[Main], e)
  <2>1. k \in Nat /\ DOMAIN wal[Main] = 1 .. k /\ DOMAIN wal'[Main] = 1 .. (k + 1)
        /\ wal'[Main][k + 1] = v
    BY <1>2, AddEffect
  <2>2. v.op = "OwnerDelete" => v.op = e.op /\ v.hash = e.hash /\ v.owner = e.owner
    BY <1>2, VersionedKeeps
  <2> HIDE DEF k, v
  <2> SUFFICES ASSUME NEW s \in DOMAIN wal'[Main], NEW t \in DOMAIN wal'[Main],
                      Latest(wal'[Main], s), t > s, Unpublishes(wal'[Main][t], wal'[Main], s)
               PROVE  FALSE
    BY DEF NewestOwned
  <2>3. s \in DOMAIN wal[Main] /\ wal'[Main][s] = wal[Main][s]
    BY <1>0, <2>1
  <2>4. Latest(wal[Main], s)
    BY <1>0, <2>3, LatestBefore
  <2>5. CASE t \in DOMAIN wal[Main]
    BY <1>0, <2>3, <2>4, <2>5 DEF NewestOwned, Unpublishes
  <2>6. CASE t \notin DOMAIN wal[Main]
    <3>1. wal'[Main][t] = v
      BY <2>1, <2>6
    <3>2. Unpublishes(e, wal[Main], s)
      BY <2>2, <2>3, <3>1 DEF Unpublishes, Removes
    <3> QED BY <1>2, <2>3, <2>4, <3>2
  <2> QED BY <2>5, <2>6
<1>3. CASE RegisterLog(p)
  <2> DEFINE e == DeviceUpdate(job[p].me, At[p])
  <2>2. e \in Entry
    BY <1>3, RegistrationIsEntry
  <2>3. e.op # "OwnerDelete" /\ AddWalEntry(e)
    BY <1>3 DEF RegisterLog, DeviceUpdate
  <2> HIDE DEF e
  <2> QED BY <1>2, <2>2, <2>3 DEF Unpublishes, Removes
<1>4. CASE PushAppend(p)
  <2> DEFINE e == out[p][Len(acks[p]) + 1]
  <2>1. pc[p] = "append" /\ AddWalEntry(e)
    BY <1>4 DEF PushAppend
  <2>2. Len(acks[p]) + 1 \in DOMAIN out[p] /\ e \in Entry
    BY <2>1, OutIsTyped
  <2>3. \A s \in DOMAIN wal[Main] : Latest(wal[Main], s) => ~Unpublishes(e, wal[Main], s)
    BY <2>2 DEF Spares
  <2> HIDE DEF e
  <2> QED BY <1>2, <2>1, <2>2, <2>3
<1> QED BY <1>1, <1>3, <1>4, LogsGrow

\* Every step keeps AvailableInv.
LEMMA NextAvailable ==
    ASSUME OneTerminal, NobodyRemoves
    PROVE  (/\ SyncInv /\ JustifiedInv /\ TypeInv /\ DeviceInv /\ DeviceInv'
            /\ RouteInv /\ RouteInv' /\ VersionInv /\ StandInv /\ StandInv' /\ ObjectInv
            /\ AvailableInv /\ [Next]_vars) => AvailableInv'
<1> SUFFICES ASSUME SyncInv, JustifiedInv, TypeInv, DeviceInv, DeviceInv', RouteInv, RouteInv',
                    VersionInv, StandInv, StandInv', ObjectInv, AvailableInv, [Next]_vars
             PROVE  AvailableInv'
  OBVIOUS
<1>1. ASSUME NEW p \in Proc, Start(p) \/ Step(p) \/ Abort(p)
      PROVE  AvailableInv'
  <2>1. VersionsIncrease /\ \A n \in Node : Newest(n)
    BY SyncAssumption DEF VersionInv, NobodyRemoves
  <2>2. Grows
    BY <1>1, IdTableKept
  <2>3. \A q \in Proc : UpToDate(q) /\ Spares(q)
    BY DEF ObjectInv, AvailableInv
  <2>4. \A q \in Proc : Spares(q)'
    BY <1>1, <2>1, <2>2, <2>3, StepSpares
  <2>5. NewestOwned'
    BY <1>1, <2>3, StepNewestOwned DEF AvailableInv
  <2> QED BY <2>4, <2>5 DEF AvailableInv
<1>2. CASE UNCHANGED vars
  BY <1>2 DEF vars, dbVars, localVars, AvailableInv, NewestOwned, Spares
<1>3. ASSUME NEW p \in Proc, Deinit(p)
      PROVE  AvailableInv'
  <2>1. wal'[Main] = wal[Main] /\ \A q \in Proc : out'[q] = out[q]
    BY <1>3, TypedDomains, DeinitSparesMain DEF SameTables, SameLocals
  <2> QED BY <2>1 DEF AvailableInv, NewestOwned, Spares, Unpublishes
<1> QED BY <1>1, <1>2, <1>3 DEF Next

\* There is no version at the start.
LEMMA InitAvailable == Init => AvailableInv
<1> SUFFICES ASSUME Init PROVE AvailableInv
  OBVIOUS
<1>1. \A s \in DOMAIN wal[Main] : wal[Main][s].op = "DeviceUpdate"
  BY SyncAssumption DEF Init, DeviceUpdate, Empty
<1>2. NewestOwned
  BY <1>1 DEF NewestOwned, Latest, IsFileEntry
<1>3. \A p \in Proc : Spares(p)
  BY DEF Spares, Init
<1> QED BY <1>2, <1>3 DEF AvailableInv

\* The owner of the newest version of a file is never unregistered, nor about to be.
THEOREM AvailableInvariance ==
    ASSUME OneTerminal, NobodyRemoves
    PROVE  Spec => []AvailableInv
BY InitAvailable, NextAvailable, SyncInvariance, JustifiedInvariance, TypeInvariance,
   DeviceInvariance, RouteInvariance, VersionInvariance, StandInvariance, ObjectInvariance, PTL
   DEF Spec

\* The newest version of every file on Main can be downloaded from somebody, or went
\* with a deinit.
THEOREM LatestTheorem ==
    ASSUME OneTerminal, NobodyRemoves
    PROVE  Spec => []LatestAvailable
<1>1. SyncInv /\ JustifiedInv /\ TypeInv /\ VersionInv /\ OwnerHasObject /\ AvailableInv
        => LatestAvailable
  <2> SUFFICES ASSUME SyncInv, JustifiedInv, TypeInv, VersionInv, OwnerHasObject, AvailableInv,
                      NEW q \in Path, CurrentHash(files[Main], q) # None
               PROVE  \E x \in LogOwners(wal[Main]) :
                        /\ x[1] = CurrentHash(files[Main], q)
                        /\ Holds(x[2], CurrentHash(files[Main], q)) \/ x \in lost
    BY DEF LatestAvailable
  <2> DEFINE V == Versions(files[Main], q)
             v == Max(V)
             h == CurrentHash(files[Main], q)
             w == wal[Main]
  <2>0. Main \in Node
    BY SyncAssumption
  <2>1. VersionsIncrease /\ Newest(Main)
    BY <2>0 DEF VersionInv, NobodyRemoves
  <2>2. V # {} /\ h = files[Main][<<q, v>>].hash
    BY DEF CurrentHash
  <2>3. PICK b \in Nat : V \subseteq 0 .. b
    BY <2>0, VersionNumbers
  <2>4. v \in V /\ \A y \in V : v >= y
    BY <2>2, <2>3, MaxOfBounded
  <2>5. <<q, v>> \in DOMAIN files[Main] /\ v \in Nat
    BY <2>3, <2>4 DEF Versions
  <2> HIDE DEF v, V
  <2>6. PICK s \in DOMAIN w : /\ IsFileEntry(w[s]) /\ <<q, v>> = <<w[s].path, w[s].version>>
                              /\ files[Main][<<q, v>>] = RowOf(w[s])
    BY <2>0, <2>5 DEF JustifiedInv, Justified, RowFrom
  <2>7. w[s].path = q /\ w[s].version = v /\ RowOf(w[s]).hash = h
    BY <2>2, <2>6
  <2>8. Length(Main) \in Nat
    BY <2>0 DEF SyncInv, LogInv
  <2>9. DOMAIN w = 1 .. Length(Main)
    BY <2>0 DEF SyncInv, LogInv
  <2>10. Latest(w, s)
    <3> SUFFICES ASSUME NEW t \in DOMAIN w, IsFileEntry(w[t]), w[t].path = q, ~(t <= s)
                 PROVE  FALSE
      BY <2>6, <2>7 DEF Latest
    <3>1. s < t
      BY <2>8, <2>9
    <3>2. v < w[t].version
      BY <2>1, <2>6, <2>7, <3>1 DEF VersionsIncrease
    <3>3. PICK y \in V : y >= w[t].version
      BY <2>1 DEF Newest, Covers, V
    <3>4. w[t] \in StoredEntry
      BY <2>0 DEF TypeInv, DbTypes, IsLog, IsTable
    <3>5. w[t].version \in Nat
      BY <3>4 DEF StoredEntry, Entry, IsFileEntry
    <3>6. v >= y /\ y \in Nat
      BY <2>3, <2>4
    <3> QED BY <2>5, <3>2, <3>3, <3>5, <3>6
  <2>11. w[s].op = "FileUpdate" /\ w[s].hash = h
    BY <2>6, <2>7 DEF RowOf, IsFileEntry
  <2>12. Owned(w, h, w[s].owner)
    <3>1. Adds(w[s], h, w[s].owner)
      BY <2>11 DEF Adds
    <3>2. \A t \in DOMAIN w : t > s => ~Removes(w[t], h, w[s].owner)
      BY <2>7, <2>10 DEF AvailableInv, NewestOwned, Unpublishes
    <3> QED BY <3>1, <3>2 DEF Owned
  <2> DEFINE x == <<h, w[s].owner>>
  <2>13. x \in LogOwners(w)
    BY <2>8, <2>9, <2>12, OwnersOfLog
  <2>14. x[1] = h /\ (Holds(x[2], h) \/ x \in lost)
    BY <2>13 DEF OwnerHasObject
  <2> QED BY <2>13, <2>14
<1> QED BY <1>1, SyncInvariance, JustifiedInvariance, TypeInvariance, VersionInvariance,
           OwnersHoldTheorem, AvailableInvariance, PTL
===============================================================================
