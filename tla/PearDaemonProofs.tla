--------------------------- MODULE PearDaemonProofs ---------------------------
(***************************************************************************)
(* Theorems about PearDaemon, for any terminals, process ids and worlds.   *)
(***************************************************************************)
EXTENDS PearDaemon, TLAPS

\* Steps the command that spawned a daemon waits for.
Waited == Starting \cup {"start", "report", "fail"}
\* Steps between writing the PID file and removing it.
Listed == Working \ {"unlink", "fail"}

OnlyTerminals == \A p \in Proc : pc[p] # "idle" => p \in world.terminals
ListedWrote == \A d \in Pid : at[d] \in Listed => mine[d]
NotYetMine == \A d \in Pid : at[d] \in Starting \cup {"off", "foreign"} => ~mine[d]
WaitedIsSilent == \A d \in Pid : at[d] \in Waited => status[d] = "none"
ReportsStand ==
    \A d \in Pid : /\ status[d] = "ok" => (mine[d] \/ at[d] \in {"off", "foreign"})
                   /\ status[d] = "fail" => at[d] \in {"unlink", "exit", "off", "foreign"}
Basics == OnlyTerminals /\ ListedWrote /\ NotYetMine /\ WaitedIsSilent /\ ReportsStand

\* What holds when commands run one at a time.
ChargeIsNamed == \A d \in Pid : InCharge(d) => pidFile = Written(d)
WaitedHasReader == \A d \in Pid : at[d] \in Waited => Read(d)
WritingIsNamed == \A d \in Pid : at[d] = "write" => pidFile = [by |-> d, written |-> FALSE]
ProbesTheFile == \A p \in Proc : pc[p] = "probe" => pidFile \in {NoFile, Written(saw[p])}
NobodyInCharge == \A d \in Pid : ~InCharge(d)
ClearsForNobody == \A p \in Proc : pc[p] \in {"remove", "erase"} => NobodyInCharge
ErasedIsBare == ~ws => pidFile = NoFile

Alone == /\ ChargeIsNamed /\ WaitedHasReader /\ WritingIsNamed
         /\ ProbesTheFile /\ ClearsForNobody /\ ErasedIsBare

DaemonInv == Basics /\ (Sequential => Alone)

-----------------------------------------------------------------------------
(* Types                                                                   *)

TermOK ==
    /\ pc \in [Proc -> TermLabel]
    /\ why \in [Proc -> Why]
    /\ saw \in [Proc -> Pid \cup {NoPid}]
    /\ child \in [Proc -> Pid \cup {NoPid}]
    /\ polls \in [Proc -> 0 .. MaxPolls - 1]
MainOK ==
    /\ at \in [Pid -> DaemonLabel]
    /\ mine \in [Pid -> BOOLEAN]
    /\ status \in [Pid -> {"none", "ok", "fail"}]
    /\ stop \in [Pid -> BOOLEAN]
    /\ server \in [Pid -> {"none", "build", "wait", "shut", "done"}]

\* A command that ends, or asks, has well-typed locals.
LEMMA DoneTypes == ASSUME TermOK, NEW p \in Proc, Done(p) PROVE TermOK'
  <1>1. 0 \in 0 .. MaxPolls - 1
    BY DaemonAssumption
  <1> QED
    BY <1>1 DEF TermOK, Done, Goto, TermLabel, Why

LEMMA AskTypes ==
    ASSUME TermOK, NEW p \in Proc, NEW w \in Why, Ask(p, w), polls' \in [Proc -> 0 .. MaxPolls - 1]
    PROVE  TermOK'
  BY DEF TermOK, Ask, Goto, TermLabel

LEMMA NotAliveTypes == ASSUME TermOK, NEW p \in Proc, NotAlive(p) PROVE TermOK'
  <1>1. CASE why[p] = "connect" /\ Goto(p, "spawn") /\ saw' = [saw EXCEPT ![p] = NoPid]
             /\ UNCHANGED <<why, child, polls>>
    BY <1>1 DEF TermOK, Goto, TermLabel
  <1>2. CASE Goto(p, "erase") /\ saw' = [saw EXCEPT ![p] = NoPid] /\ UNCHANGED <<why, child, polls>>
    BY <1>2 DEF TermOK, Goto, TermLabel
  <1>3. CASE Ask(p, "last") /\ UNCHANGED polls
    BY <1>3, AskTypes DEF Why, TermOK
  <1>4. CASE Done(p)
    BY <1>4, DoneTypes
  <1> QED
    BY <1>1, <1>2, <1>3, <1>4 DEF NotAlive

LEMMA AliveTypes == ASSUME TermOK, NEW p \in Proc, Alive(p) PROVE TermOK'
  <1>1. CASE why[p] \in {"failed", "disconnect", "deinit"} /\ Ask(p, KillFor(why[p])) /\ UNCHANGED polls
    <2>1. KillFor(why[p]) \in Why
      BY <1>1 DEF KillFor, Why
    <2> QED
      BY <1>1, <2>1, AskTypes DEF TermOK
  <1>2. CASE Goto(p, "target") /\ saw' = [saw EXCEPT ![p] = NoPid] /\ UNCHANGED <<why, child, polls>>
    BY <1>2 DEF TermOK, Goto, TermLabel
  <1>3. CASE polls[p] + 1 < MaxPolls /\ Ask(p, "poll") /\ polls' = [polls EXCEPT ![p] = @ + 1]
    <2>1. polls[p] + 1 \in 0 .. MaxPolls - 1
      BY <1>3, DaemonAssumption DEF TermOK
    <2> QED
      BY <1>3, <2>1, AskTypes DEF Why, TermOK
  <1>4. CASE Ask(p, "last") /\ UNCHANGED polls
    BY <1>4, AskTypes DEF Why, TermOK
  <1>5. CASE Done(p)
    BY <1>5, DoneTypes
  <1> QED
    BY <1>1, <1>2, <1>3, <1>4, <1>5 DEF Alive, StillAlive

\* Only these steps of a command change what belongs to processes.
LEMMA CommandTypes == ASSUME TypeOK, NEW p \in Proc, CommandStep(p) PROVE TypeOK'
  <1> USE DEF TypeOK, TermOK, MainOK
  <1>1. CASE Exists(p)
    BY <1>1, DoneTypes, NotAliveTypes DEF Exists, daemonVars, Goto, TermOK, MainOK, TermLabel
  <1>2. CASE ReadPidFile(p)
    <2>1. CASE pidFile \in {Written(d) : d \in Pid}
      <3>1. pidFile.by \in Pid
        BY <2>1 DEF Written
      <3> QED
        BY <1>2, <2>1, <3>1 DEF ReadPidFile, daemonVars, Goto, TermOK, MainOK, TermLabel
    <2>2. CASE pidFile \notin {Written(d) : d \in Pid}
      BY <1>2, <2>2 DEF ReadPidFile, daemonVars, Goto, TermOK, MainOK, TermLabel
    <2> QED
      BY <2>1, <2>2
  <1>3. CASE Probe(p)
    BY <1>3, AliveTypes DEF Probe, daemonVars, Goto, TermOK, MainOK, TermLabel
  <1>4. CASE RemovePidFile(p)
    BY <1>4, NotAliveTypes DEF RemovePidFile, daemonVars, MainOK, PidFile
  <1>5. CASE Spawn(p)
    <2>1. CASE Done(p) /\ UNCHANGED daemonVars
      BY <1>5, <2>1, DoneTypes DEF Spawn, daemonVars, MainOK
    <2>2. ASSUME NEW d \in Pid,
                 at' = [at EXCEPT ![d] = "open"], mine' = [mine EXCEPT ![d] = FALSE],
                 status' = [status EXCEPT ![d] = "none"], stop' = [stop EXCEPT ![d] = FALSE],
                 server' = [server EXCEPT ![d] = "none"], child' = [child EXCEPT ![p] = d],
                 Goto(p, "status"), UNCHANGED <<why, saw, polls>>
          PROVE  TermOK' /\ MainOK'
      BY <2>2 DEF Goto, TermOK, MainOK, TermLabel, DaemonLabel, Starting
    <2> QED
      BY <1>5, <2>1, <2>2 DEF Spawn
  <1>6. CASE ReadStatus(p)
    BY <1>6, DoneTypes DEF ReadStatus, daemonVars, Goto, TermOK, MainOK, TermLabel
  <1>7. CASE Register(p)
    BY <1>7, DoneTypes, AskTypes DEF Register, daemonVars, MainOK, TermOK, Why
  <1>8. CASE Target(p)
    <2>1. CASE pidFile \in {Written(d) : d \in Pid}
      <3>1. pidFile.by \in Pid
        BY <2>1 DEF Written
      <3> QED
        BY <1>8, <2>1, <3>1 DEF Target, daemonVars, Goto, TermOK, MainOK, TermLabel
    <2>2. CASE pidFile \notin {Written(d) : d \in Pid}
      BY <1>8, <2>2, DoneTypes DEF Target, daemonVars, MainOK
    <2> QED
      BY <2>1, <2>2
  <1>9. CASE Kill(p)
    <2>1. TermOK'
      BY <1>9, DoneTypes, AskTypes DEF Kill, TermOK, Why
    <2>2. MainOK'
      <3>1. CASE UNCHANGED daemonVars
        BY <3>1 DEF daemonVars, MainOK
      <3>2. CASE Terminate(saw[p])
        BY <3>2 DEF Terminate, MainOK, DaemonLabel, Working
      <3> QED
        BY <1>9, <3>1, <3>2 DEF Kill
    <2> QED
      BY <1>9, <2>1, <2>2 DEF Kill
  <1>10. CASE Erase(p)
    BY <1>10, DoneTypes DEF Erase, daemonVars, MainOK, PidFile
  <1> QED
    BY <1>1, <1>2, <1>3, <1>4, <1>5, <1>6, <1>7, <1>8, <1>9, <1>10 DEF CommandStep

LEMMA MainTypes == ASSUME TypeOK, NEW d \in Pid, MainStep(d) PROVE TypeOK'
  <1> USE DEF TypeOK, Step, termVars, TermOK, MainOK, DaemonLabel, Starting, Working
  <1>1. CASE Detach(d)
    BY <1>1 DEF Detach
  <1>2. CASE CreatePidFile(d)
    <2>1. pidFile' \in PidFile
      <3>1. [by |-> d, written |-> FALSE] \in PidFile
        BY DEF PidFile
      <3> QED
        BY <1>2, <3>1 DEF CreatePidFile
    <2> QED
      BY <1>2, <2>1 DEF CreatePidFile
  <1>3. CASE WritePidFile(d)
    <2>1. pidFile' \in PidFile
      <3>1. Written(d) \in PidFile /\ NoFile \in PidFile
        BY DEF PidFile, Written
      <3> QED
        BY <1>3, <3>1 DEF WritePidFile
    <2> QED
      BY <1>3, <2>1 DEF WritePidFile
  <1>4. CASE StartNode(d)
    BY <1>4 DEF StartNode
  <1>5. CASE Report(d)
    BY <1>5 DEF Report
  <1>6. CASE TestFlag(d)
    BY <1>6 DEF TestFlag
  <1>7. CASE Pause(d)
    BY <1>7 DEF Pause
  <1>8. CASE StopNode(d)
    BY <1>8 DEF StopNode
  <1>9. CASE Join(d)
    BY <1>9 DEF Join
  <1>10. CASE ReportFailure(d)
    BY <1>10 DEF ReportFailure
  <1>11. CASE Unlink(d)
    BY <1>11 DEF Unlink, PidFile
  <1>12. CASE Exit(d)
    BY <1>12 DEF Exit, End
  <1> QED
    BY <1>1, <1>2, <1>3, <1>4, <1>5, <1>6, <1>7, <1>8, <1>9, <1>10, <1>11, <1>12 DEF MainStep

LEMMA OutsideTypes ==
    ASSUME TypeOK, NEW d \in Pid,
           ServerStep(d) \/ Crash(d) \/ ForeignStart(d) \/ ForeignEnd(d)
    PROVE  TypeOK'
  <1> USE DEF TypeOK, termVars, TermOK, MainOK, DaemonLabel, Step
  <1>1. CASE End(d)
    BY <1>1 DEF End
  <1>2. CASE BuildServer(d) \/ EndServer(d)
    BY <1>1, <1>2 DEF BuildServer, EndServer
  <1>3. CASE ForeignStart(d)
    BY <1>3 DEF ForeignStart
  <1> QED
    BY <1>1, <1>2, <1>3 DEF ServerStep, Crash, ForeignEnd

\* Every variable of the model has a value the code can give it.
THEOREM DaemonTypes == Spec => []TypeOK
  <1>1. Init => TypeOK
    BY DaemonAssumption DEF Init, TypeOK, PidFile, TermLabel, Why, DaemonLabel
  <1>2. TypeOK /\ [Next]_vars => TypeOK'
    <2> SUFFICES ASSUME TypeOK, [Next]_vars PROVE TypeOK'
      OBVIOUS
    <2>1. CASE UNCHANGED vars
      BY <2>1 DEF TypeOK, vars, termVars, daemonVars
    <2>2. ASSUME NEW p \in Proc, CommandStep(p) PROVE TypeOK'
      BY <2>2, CommandTypes
    <2>3. ASSUME NEW p \in Proc, InitWorkspace(p) PROVE TypeOK'
      BY <2>3 DEF InitWorkspace, TypeOK, termVars, daemonVars
    <2>4. ASSUME NEW p \in Proc, Start(p) PROVE TypeOK'
      <3>1. PICK w \in world.commands[p] : Ask(p, w)
        BY <2>4 DEF Start
      <3>2. w \in Why
        BY <3>1, DaemonAssumption DEF TypeOK, Command, Why
      <3> QED
        BY <2>4, <3>1, <3>2, AskTypes DEF Start, TypeOK, TermOK, MainOK, daemonVars
    <2>5. ASSUME NEW p \in Proc, Abort(p) PROVE TypeOK'
      BY <2>5, DoneTypes DEF Abort, TypeOK, TermOK, MainOK, daemonVars
    <2>6. ASSUME NEW d \in Pid, MainStep(d) PROVE TypeOK'
      BY <2>6, MainTypes
    <2>7. ASSUME NEW d \in Pid, ServerStep(d) \/ Crash(d) \/ ForeignStart(d) \/ ForeignEnd(d)
          PROVE  TypeOK'
      BY <2>7, OutsideTypes
    <2> QED
      BY <2>1, <2>2, <2>3, <2>4, <2>5, <2>6, <2>7 DEF Next
  <1> QED
    BY <1>1, <1>2, PTL DEF Spec

-----------------------------------------------------------------------------
(* What one step of a command does                                         *)

\* Only the command of p goes on.
Moves(p) ==
    /\ \A q \in Proc \ {p} : pc'[q] = pc[q] /\ saw'[q] = saw[q] /\ child'[q] = child[q]
    /\ pc'[p] \in {"status", "register"} => pc[p] = "status" /\ child'[p] = child[p]

LEMMA DoneMoves == ASSUME TypeOK, NEW p \in Proc, Done(p) PROVE Moves(p) /\ pc'[p] = "idle"
  BY DEF TypeOK, Done, Goto, Moves

LEMMA AskMoves ==
    ASSUME TypeOK, NEW p \in Proc, NEW w, Ask(p, w) PROVE Moves(p) /\ pc'[p] = "exists"
  BY DEF TypeOK, Ask, Goto, Moves

\* A command that found no daemon does not read, probe or remove the PID file next.
LEMMA NotAliveMoves ==
    ASSUME TypeOK, NEW p \in Proc, NotAlive(p)
    PROVE  Moves(p) /\ pc'[p] \in {"idle", "exists", "spawn", "erase"}
  <1>1. CASE Goto(p, "spawn") /\ saw' = [saw EXCEPT ![p] = NoPid] /\ UNCHANGED <<why, child, polls>>
    BY <1>1 DEF TypeOK, Goto, Moves
  <1>2. CASE Goto(p, "erase") /\ saw' = [saw EXCEPT ![p] = NoPid] /\ UNCHANGED <<why, child, polls>>
    BY <1>2 DEF TypeOK, Goto, Moves
  <1> QED
    BY <1>1, <1>2, DoneMoves, AskMoves DEF NotAlive

LEMMA AliveMoves ==
    ASSUME TypeOK, NEW p \in Proc, Alive(p)
    PROVE  Moves(p) /\ pc'[p] \in {"idle", "exists", "target"}
  <1>1. CASE Goto(p, "target") /\ saw' = [saw EXCEPT ![p] = NoPid] /\ UNCHANGED <<why, child, polls>>
    BY <1>1 DEF TypeOK, Goto, Moves
  <1> QED
    BY <1>1, DoneMoves, AskMoves DEF Alive, StillAlive

-----------------------------------------------------------------------------
(* Files and terminals                                                     *)

LEMMA WrittenIsInjective ==
    \A d, e \in Pid : /\ Written(d) # NoFile
                      /\ Written(d) # [by |-> e, written |-> FALSE]
                      /\ [by |-> e, written |-> FALSE] # NoFile
                      /\ Written(d) = Written(e) => d = e
                      /\ [by |-> d, written |-> FALSE] = [by |-> e, written |-> FALSE] => d = e
  <1> TAKE d, e \in Pid
  <1>1. Written(d) \in [by : Pid, written : BOOLEAN] /\ [by |-> e, written |-> FALSE] \in [by : Pid, written : BOOLEAN]
    BY DEF Written
  <1>2. Written(d) # NoFile /\ [by |-> e, written |-> FALSE] # NoFile
    BY <1>1, DaemonAssumption
  <1>3. Written(d).by = d /\ Written(e).by = e /\ Written(d).written = TRUE
    BY DEF Written
  <1>4. [by |-> d, written |-> FALSE].by = d /\ [by |-> e, written |-> FALSE].by = e
        /\ [by |-> e, written |-> FALSE].written = FALSE
    OBVIOUS
  <1> QED
    BY <1>2, <1>3, <1>4

\* One command at a time: two that are under way are the same.
LEMMA OneActive ==
    ASSUME OnlyTerminals, Sequential, NEW p \in Proc, NEW q \in Proc, pc[p] # "idle", pc[q] # "idle"
    PROVE  p = q
  BY DEF OnlyTerminals, Sequential

\* While a command is busy with something else no process is waited for.
LEMMA NoneWaited ==
    ASSUME OnlyTerminals, Sequential, WaitedHasReader,
           NEW p \in Proc, pc[p] \notin {"idle", "status"}, NEW d \in Pid
    PROVE  at[d] \notin Waited
  <1> SUFFICES ASSUME at[d] \in Waited PROVE FALSE
    OBVIOUS
  <1>1. PICK q \in Proc : pc[q] = "status"
    BY DEF WaitedHasReader, Read
  <1> QED
    BY <1>1, OneActive

-----------------------------------------------------------------------------
(* What holds however many commands run                                    *)

\* A step of a command that leaves processes alone.
LEMMA QuietBasics ==
    ASSUME TypeOK, Basics, NEW p \in Proc, Moves(p), pc[p] # "idle" \/ p \in world.terminals,
           UNCHANGED <<world, daemonVars>>
    PROVE  Basics'
  <1> USE DEF daemonVars
  <1>1. OnlyTerminals'
    BY DEF Basics, OnlyTerminals, Moves
  <1>2. ListedWrote' /\ NotYetMine' /\ WaitedIsSilent'
    BY DEF Basics, ListedWrote, NotYetMine, WaitedIsSilent
  <1>3. ReportsStand'
    BY DEF Basics, ReportsStand
  <1> QED
    BY <1>1, <1>2, <1>3 DEF Basics

LEMMA SpawnBasics == ASSUME TypeOK, Basics, NEW p \in Proc, Spawn(p) PROVE Basics'
  <1>1. CASE Done(p) /\ UNCHANGED daemonVars
    BY <1>1, DoneMoves, QuietBasics DEF Spawn
  <1>2. ASSUME NEW d \in Pid,
               at[d] = "off", \A q \in Proc : child[q] # d,
               at' = [at EXCEPT ![d] = "open"], mine' = [mine EXCEPT ![d] = FALSE],
               status' = [status EXCEPT ![d] = "none"],
               child' = [child EXCEPT ![p] = d],
               Goto(p, "status"), UNCHANGED <<why, saw, polls>>
        PROVE  Basics'
    <2> USE <1>2 DEF Goto, TypeOK
    <2>1. OnlyTerminals'
      BY DEF Basics, OnlyTerminals, Spawn
    <2>2. ListedWrote' /\ NotYetMine' /\ WaitedIsSilent'
      BY DEF Basics, ListedWrote, NotYetMine, WaitedIsSilent, Listed, Waited, Starting, Working
    <2>3. ReportsStand'
      BY DEF Basics, ReportsStand
    <2> QED
      BY <2>1, <2>2, <2>3 DEF Basics
  <1> QED
    BY <1>1, <1>2 DEF Spawn

\* What SIGTERM does to the process e.
LEMMA KillCases ==
    ASSUME TypeOK, NEW p \in Proc, Kill(p)
    PROVE  /\ Moves(p) /\ pc[p] = "kill" /\ pc'[p] \in {"idle", "exists"}
           /\ UNCHANGED <<world, ws, pidFile, mine, status>>
           /\ \A d \in Pid : \/ at'[d] = at[d]
                             \/ at[d] = "pause" /\ at'[d] = "test"
                             \/ at[d] = "foreign" /\ at'[d] = "off"
  <1>1. CASE at[saw[p]] = "off"
    BY <1>1, DoneMoves DEF Kill, daemonVars
  <1>2. CASE at[saw[p]] # "off"
    <2>1. Terminate(saw[p])
      BY <1>2 DEF Kill
    <2>2. \A d \in Pid : \/ at'[d] = at[d]
                         \/ at[d] = "pause" /\ at'[d] = "test"
                         \/ at[d] = "foreign" /\ at'[d] = "off"
      BY <2>1 DEF Terminate, TypeOK
    <2>3. Moves(p) /\ pc'[p] \in {"idle", "exists"}
      BY <1>2, DoneMoves, AskMoves DEF Kill
    <2> QED
      BY <2>1, <2>2, <2>3 DEF Kill, Terminate
  <1> QED
    BY <1>1, <1>2

LEMMA KillBasics == ASSUME TypeOK, Basics, NEW p \in Proc, Kill(p) PROVE Basics'
  <1> USE KillCases
  <1>1. OnlyTerminals'
    BY DEF Basics, OnlyTerminals, Moves
  <1>2. ListedWrote' /\ NotYetMine' /\ WaitedIsSilent'
    BY DEF Basics, ListedWrote, NotYetMine, WaitedIsSilent, Listed, Waited, Starting, Working
  <1>3. ReportsStand'
    BY DEF Basics, ReportsStand
  <1> QED
    BY <1>1, <1>2, <1>3 DEF Basics

LEMMA CommandBasics == ASSUME TypeOK, Basics, NEW p \in Proc, CommandStep(p) PROVE Basics'
  <1>1. CASE Exists(p)
    <2>1. Moves(p)
      BY <1>1, DoneMoves, NotAliveMoves DEF Exists, Goto, Moves, TypeOK
    <2> QED
      BY <1>1, <2>1, QuietBasics DEF Exists
  <1>2. CASE ReadPidFile(p)
    <2>1. Moves(p)
      BY <1>2 DEF ReadPidFile, Goto, Moves, TypeOK
    <2> QED
      BY <1>2, <2>1, QuietBasics DEF ReadPidFile
  <1>3. CASE Probe(p)
    <2>1. Moves(p)
      BY <1>3, AliveMoves DEF Probe, Goto, Moves, TypeOK
    <2> QED
      BY <1>3, <2>1, QuietBasics DEF Probe
  <1>4. CASE RemovePidFile(p)
    BY <1>4, NotAliveMoves, QuietBasics DEF RemovePidFile
  <1>5. CASE ReadStatus(p)
    <2>1. Moves(p)
      BY <1>5, DoneMoves DEF ReadStatus, Goto, Moves, TypeOK
    <2> QED
      BY <1>5, <2>1, QuietBasics DEF ReadStatus
  <1>6. CASE Register(p)
    BY <1>6, DoneMoves, AskMoves, QuietBasics DEF Register
  <1>7. CASE Target(p)
    <2>1. Moves(p)
      BY <1>7, DoneMoves DEF Target, Goto, Moves, TypeOK
    <2> QED
      BY <1>7, <2>1, QuietBasics DEF Target
  <1>8. CASE Erase(p)
    BY <1>8, DoneMoves, QuietBasics DEF Erase
  <1> QED
    BY <1>1, <1>2, <1>3, <1>4, <1>5, <1>6, <1>7, <1>8, SpawnBasics, KillBasics DEF CommandStep

\* Of the process a step of a main thread belongs to nothing else changes.
Own(d) == /\ \A e \in Pid \ {d} : at'[e] = at[e] /\ mine'[e] = mine[e] /\ status'[e] = status[e]
          /\ UNCHANGED <<world, termVars>>

\* A process ends.
LEMMA EndOwn ==
    ASSUME TypeOK, NEW d \in Pid, End(d)
    PROVE  Own(d) /\ at'[d] = "off" /\ mine'[d] = FALSE /\ status'[d] \in {status[d], "none"}
           /\ UNCHANGED <<ws, pidFile>>
  BY DEF End, Own, TypeOK

LEMMA EndBasics == ASSUME TypeOK, Basics, NEW d \in Pid, End(d) PROVE Basics'
  <1>0. Own(d) /\ at'[d] = "off" /\ mine'[d] = FALSE /\ status'[d] \in {status[d], "none"}
    BY EndOwn
  <1> USE <1>0 DEF Own, termVars
  <1>1. OnlyTerminals'
    BY DEF Basics, OnlyTerminals
  <1>2. ListedWrote' /\ NotYetMine' /\ WaitedIsSilent'
    BY DEF Basics, ListedWrote, NotYetMine, WaitedIsSilent, Listed, Waited, Starting, Working
  <1>3. ReportsStand'
    BY DEF Basics, ReportsStand
  <1> QED
    BY <1>1, <1>2, <1>3 DEF Basics

\* A main thread goes on: it sets mine when it has written, and reports as it may.
LEMMA OwnBasics ==
    ASSUME TypeOK, Basics, NEW d \in Pid, Own(d),
           at'[d] \in Listed => mine'[d],
           at'[d] \in Starting \cup {"off", "foreign"} => ~mine'[d],
           at'[d] \in Waited => status'[d] = "none",
           status'[d] = "ok" => mine'[d] \/ at'[d] \in {"off", "foreign"},
           status'[d] = "fail" => at'[d] \in {"unlink", "exit", "off", "foreign"}
    PROVE  Basics'
  <1> USE DEF Own, termVars
  <1>1. OnlyTerminals'
    BY DEF Basics, OnlyTerminals
  <1>2. ListedWrote' /\ NotYetMine' /\ WaitedIsSilent'
    BY DEF Basics, ListedWrote, NotYetMine, WaitedIsSilent
  <1>3. ReportsStand'
    BY DEF Basics, ReportsStand
  <1> QED
    BY <1>1, <1>2, <1>3 DEF Basics

LEMMA MainBasics == ASSUME TypeOK, Basics, NEW d \in Pid, MainStep(d) PROVE Basics'
  <1> USE DEF Step, Listed, Waited, Starting, Working
  <1>0. /\ at[d] \in Listed => mine[d]
        /\ at[d] \in Starting \cup {"off", "foreign"} => ~mine[d]
        /\ at[d] \in Waited => status[d] = "none"
        /\ status[d] = "ok" => mine[d] \/ at[d] \in {"off", "foreign"}
        /\ status[d] = "fail" => at[d] \in {"unlink", "exit", "off", "foreign"}
    BY DEF Basics, ListedWrote, NotYetMine, WaitedIsSilent, ReportsStand
  <1>1. CASE Detach(d)
    <2>1. Own(d)
      BY <1>1 DEF Detach, Own, TypeOK
    <2> QED
      BY <1>0, <1>1, <2>1, OwnBasics DEF Detach, TypeOK
  <1>2. CASE CreatePidFile(d)
    <2>1. Own(d)
      BY <1>2 DEF CreatePidFile, Own, TypeOK
    <2> QED
      BY <1>0, <1>2, <2>1, OwnBasics DEF CreatePidFile, TypeOK
  <1>3. CASE WritePidFile(d)
    <2>1. Own(d)
      BY <1>3 DEF WritePidFile, Own, TypeOK
    <2> QED
      BY <1>0, <1>3, <2>1, OwnBasics DEF WritePidFile, TypeOK
  <1>4. CASE StartNode(d)
    <2>1. Own(d)
      BY <1>4 DEF StartNode, Own, TypeOK
    <2> QED
      BY <1>0, <1>4, <2>1, OwnBasics DEF StartNode, TypeOK
  <1>5. CASE Report(d)
    <2>1. Own(d)
      BY <1>5 DEF Report, Own, TypeOK
    <2> QED
      BY <1>0, <1>5, <2>1, OwnBasics DEF Report, TypeOK
  <1>6. CASE TestFlag(d)
    <2>1. Own(d)
      BY <1>6 DEF TestFlag, Own, TypeOK
    <2> QED
      BY <1>0, <1>6, <2>1, OwnBasics DEF TestFlag, TypeOK
  <1>7. CASE Pause(d)
    <2>1. Own(d)
      BY <1>7 DEF Pause, Own, TypeOK
    <2> QED
      BY <1>0, <1>7, <2>1, OwnBasics DEF Pause, TypeOK
  <1>8. CASE StopNode(d)
    <2>1. Own(d)
      BY <1>8 DEF StopNode, Own, TypeOK
    <2> QED
      BY <1>0, <1>8, <2>1, OwnBasics DEF StopNode, TypeOK
  <1>9. CASE Join(d)
    <2>1. Own(d)
      BY <1>9 DEF Join, Own, TypeOK
    <2> QED
      BY <1>0, <1>9, <2>1, OwnBasics DEF Join, TypeOK
  <1>10. CASE ReportFailure(d)
    <2>1. Own(d)
      BY <1>10 DEF ReportFailure, Own, TypeOK
    <2> QED
      BY <1>0, <1>10, <2>1, OwnBasics DEF ReportFailure, TypeOK
  <1>11. CASE Unlink(d)
    <2>1. Own(d)
      BY <1>11 DEF Unlink, Own, TypeOK
    <2> QED
      BY <1>0, <1>11, <2>1, OwnBasics DEF Unlink, TypeOK
  <1>12. CASE Exit(d)
    BY <1>12, EndBasics DEF Exit
  <1> QED
    BY <1>1, <1>2, <1>3, <1>4, <1>5, <1>6, <1>7, <1>8, <1>9, <1>10, <1>11, <1>12 DEF MainStep

LEMMA OutsideBasics ==
    ASSUME TypeOK, Basics, NEW d \in Pid,
           ServerStep(d) \/ Crash(d) \/ ForeignStart(d) \/ ForeignEnd(d)
    PROVE  Basics'
  <1>1. CASE UNCHANGED <<world, termVars, at, mine, status>>
    BY <1>1 DEF Basics, OnlyTerminals, ListedWrote, NotYetMine, WaitedIsSilent, ReportsStand, termVars
  <1>2. CASE ForeignStart(d)
    <2>1. Own(d) /\ at[d] = "off" /\ at'[d] = "foreign" /\ mine'[d] = mine[d] /\ status'[d] = status[d]
      BY <1>2 DEF ForeignStart, Step, Own, TypeOK
    <2>2. ~mine[d]
      BY <2>1 DEF Basics, NotYetMine
    <2> QED
      BY <2>1, <2>2, OwnBasics DEF Listed, Waited, Starting, Working, Basics, ReportsStand
  <1> QED
    BY <1>1, <1>2, EndBasics DEF ServerStep, BuildServer, EndServer, Crash, ForeignEnd

LEMMA NextBasics == ASSUME TypeOK, Basics, [Next]_vars PROVE Basics'
  <1>1. CASE UNCHANGED vars
    BY <1>1 DEF Basics, OnlyTerminals, ListedWrote, NotYetMine, WaitedIsSilent, ReportsStand,
                vars, termVars, daemonVars
  <1>2. ASSUME NEW p \in Proc, InitWorkspace(p) PROVE Basics'
    BY <1>2 DEF InitWorkspace, Basics, OnlyTerminals, ListedWrote, NotYetMine, WaitedIsSilent,
                ReportsStand, termVars, daemonVars
  <1>3. ASSUME NEW p \in Proc, Start(p) PROVE Basics'
    BY <1>3, AskMoves, QuietBasics DEF Start
  <1>4. ASSUME NEW p \in Proc, Abort(p) PROVE Basics'
    BY <1>4, DoneMoves, QuietBasics DEF Abort
  <1> QED
    BY <1>1, <1>2, <1>3, <1>4, CommandBasics, MainBasics, OutsideBasics DEF Next

-----------------------------------------------------------------------------
(* What holds when commands run one at a time                              *)

\* A step of a command that sends no signal and starts nothing: it may remove the
\* PID file when it is at the step that does, and goes on to probe or to clear only
\* with what it has seen.
LEMMA QuietAlone ==
    ASSUME TypeOK, Basics, Sequential, Alone, NEW p \in Proc, Moves(p),
           UNCHANGED daemonVars,
           pidFile' = pidFile \/ (pc[p] \in {"remove", "erase"} /\ pidFile' = NoFile),
           ~ws' => ~ws \/ pidFile' = NoFile,
           \A d \in Pid : pc[p] = "status" /\ pc'[p] # "status" /\ child[p] = d => at[d] \notin Waited,
           pc'[p] = "probe" => pidFile' \in {NoFile, Written(saw'[p])},
           pc'[p] \in {"remove", "erase"} => NobodyInCharge
    PROVE  Alone'
  <1> USE DEF daemonVars
  <1>1. pidFile' # pidFile => NobodyInCharge /\ \A d \in Pid : at[d] \notin Waited
    BY NoneWaited DEF Alone, ClearsForNobody, Basics
  <1>2. ChargeIsNamed'
    BY <1>1 DEF Alone, ChargeIsNamed, InCharge, NobodyInCharge
  <1>3. WaitedHasReader'
    <2> SUFFICES ASSUME NEW d \in Pid, at[d] \in Waited PROVE Read(d)'
      BY DEF WaitedHasReader
    <2>1. PICK q \in Proc : pc[q] = "status" /\ child[q] = d
      BY DEF Alone, WaitedHasReader, Read
    <2>2. pc'[q] = "status" /\ child'[q] = d
      BY <2>1 DEF Moves
    <2> QED
      BY <2>2 DEF Read
  <1>4. WritingIsNamed'
    BY <1>1 DEF Alone, WritingIsNamed, Waited, Starting
  <1>5. ProbesTheFile'
    <2> SUFFICES ASSUME NEW q \in Proc, pc'[q] = "probe" PROVE pidFile' \in {NoFile, Written(saw'[q])}
      BY DEF ProbesTheFile, Written
    <2>1. CASE q = p
      BY <2>1
    <2>2. CASE q # p
      BY <2>2 DEF Alone, ProbesTheFile, Moves
    <2> QED
      BY <2>1, <2>2
  <1>6. ClearsForNobody'
    <2>1. NobodyInCharge' <=> NobodyInCharge
      BY DEF NobodyInCharge, InCharge
    <2> QED
      BY <2>1 DEF Alone, ClearsForNobody, Moves
  <1>7. ErasedIsBare'
    BY DEF Alone, ErasedIsBare
  <1> QED
    BY <1>2, <1>3, <1>4, <1>5, <1>6, <1>7 DEF Alone

\* A step that brings no process into charge, and none among those waited for.
LEMMA LessAlone ==
    ASSUME TypeOK, Basics, Sequential, Alone,
           UNCHANGED <<ws, pidFile>>,
           \A d \in Pid : InCharge(d)' => InCharge(d),
           \A d \in Pid : at'[d] \in Waited => at[d] \in Waited,
           \A d \in Pid : at'[d] = "write" => at[d] = "write",
           \A q \in Proc : \/ pc'[q] = pc[q] /\ saw'[q] = saw[q] /\ child'[q] = child[q]
                           \/ pc[q] # "status" /\ pc'[q] \in {"idle", "exists"}
    PROVE  Alone'
  <1>1. ChargeIsNamed'
    BY DEF Alone, ChargeIsNamed
  <1>2. WaitedHasReader'
    BY DEF Alone, WaitedHasReader, Read
  <1>3. WritingIsNamed'
    BY DEF Alone, WritingIsNamed
  <1>4. ProbesTheFile'
    BY DEF Alone, ProbesTheFile, Written
  <1>5. ClearsForNobody'
    BY DEF Alone, ClearsForNobody, NobodyInCharge
  <1>6. ErasedIsBare'
    BY DEF Alone, ErasedIsBare
  <1> QED
    BY <1>1, <1>2, <1>3, <1>4, <1>5, <1>6 DEF Alone

LEMMA SpawnAlone ==
    ASSUME TypeOK, Basics, Sequential, Alone, NEW p \in Proc, Spawn(p)
    PROVE  Alone'
  <1>1. CASE Done(p) /\ UNCHANGED daemonVars
    BY <1>1, DoneMoves, QuietAlone DEF Spawn
  <1>2. ASSUME NEW d \in Pid, at[d] = "off",
               at' = [at EXCEPT ![d] = "open"], mine' = [mine EXCEPT ![d] = FALSE],
               child' = [child EXCEPT ![p] = d],
               Goto(p, "status"), UNCHANGED <<why, saw, polls>>
        PROVE  Alone'
    <2> USE <1>2 DEF Goto, TypeOK
    <2>1. pc[p] = "spawn" /\ UNCHANGED <<ws, pidFile>> /\ \A e \in Pid : at[e] \notin Waited
      BY NoneWaited DEF Spawn, Alone, Basics
    <2>2. \A e \in Pid : InCharge(e)' => InCharge(e)
      BY DEF InCharge, Working
    <2>3. ChargeIsNamed'
      BY <2>1, <2>2 DEF Alone, ChargeIsNamed
    <2>4. WaitedHasReader'
      <3>1. pc'[p] = "status" /\ child'[p] = d
        OBVIOUS
      <3>2. \A e \in Pid : at'[e] \in Waited => e = d
        BY <2>1
      <3> QED
        BY <3>1, <3>2 DEF WaitedHasReader, Read
    <2>5. WritingIsNamed'
      BY <2>1 DEF WritingIsNamed, Waited, Starting
    <2>6. ProbesTheFile'
      BY <2>1 DEF Alone, ProbesTheFile, Written
    <2>7. ClearsForNobody'
      BY <2>2 DEF Alone, ClearsForNobody, NobodyInCharge
    <2>8. ErasedIsBare'
      BY <2>1 DEF Alone, ErasedIsBare
    <2> QED
      BY <2>3, <2>4, <2>5, <2>6, <2>7, <2>8 DEF Alone
  <1> QED
    BY <1>1, <1>2 DEF Spawn

LEMMA KillAlone ==
    ASSUME TypeOK, Basics, Sequential, Alone, NEW p \in Proc, Kill(p)
    PROVE  Alone'
  <1>0. /\ Moves(p) /\ pc[p] = "kill" /\ pc'[p] \in {"idle", "exists"}
        /\ UNCHANGED <<world, ws, pidFile, mine, status>>
        /\ \A d \in Pid : \/ at'[d] = at[d]
                          \/ at[d] = "pause" /\ at'[d] = "test"
                          \/ at[d] = "foreign" /\ at'[d] = "off"
    BY KillCases
  <1>1. \A d \in Pid : InCharge(d)' => InCharge(d)
    BY <1>0 DEF InCharge, Working
  <1>2. \A d \in Pid : /\ at'[d] \in Waited => at[d] \in Waited
                       /\ at'[d] = "write" => at[d] = "write"
    BY <1>0 DEF Waited, Starting
  <1>3. \A q \in Proc : \/ pc'[q] = pc[q] /\ saw'[q] = saw[q] /\ child'[q] = child[q]
                        \/ pc[q] # "status" /\ pc'[q] \in {"idle", "exists"}
    BY <1>0 DEF Moves
  <1> QED
    BY <1>0, <1>1, <1>2, <1>3, LessAlone

LEMMA CommandAlone ==
    ASSUME TypeOK, Basics, Sequential, Alone, NEW p \in Proc, CommandStep(p)
    PROVE  Alone'
  <1>1. CASE Exists(p)
    <2>1. CASE NotAlive(p) /\ pidFile = NoFile
      <3>1. NobodyInCharge
        BY <2>1, WrittenIsInjective DEF Alone, ChargeIsNamed, NobodyInCharge
      <3> QED
        BY <1>1, <2>1, <3>1, NotAliveMoves, QuietAlone DEF Exists
    <2>2. CASE Goto(p, "open") /\ UNCHANGED <<why, saw, child, polls>>
      <3>1. Moves(p) /\ pc'[p] = "open"
        BY <2>2 DEF Goto, Moves, TypeOK
      <3> QED
        BY <1>1, <3>1, QuietAlone DEF Exists
    <2>3. CASE Done(p)
      BY <1>1, <2>3, DoneMoves, QuietAlone DEF Exists
    <2> QED
      BY <1>1, <2>1, <2>2, <2>3 DEF Exists
  <1>2. CASE ReadPidFile(p)
    <2>1. Moves(p) /\ pc'[p] \in {"probe", "remove"}
      BY <1>2 DEF ReadPidFile, Goto, Moves, TypeOK
    <2>2. CASE pidFile \in {Written(d) : d \in Pid}
      <3>1. pidFile = Written(pidFile.by)
        BY <2>2 DEF Written
      <3>2. pc'[p] = "probe" /\ saw'[p] = pidFile.by
        BY <1>2, <2>2 DEF ReadPidFile, Goto, TypeOK
      <3>3. pidFile' = Written(saw'[p])
        BY <1>2, <3>1, <3>2 DEF ReadPidFile
      <3> QED
        BY <1>2, <2>1, <3>2, <3>3, QuietAlone DEF ReadPidFile
    <2>3. CASE pidFile \notin {Written(d) : d \in Pid}
      <3>1. NobodyInCharge
        BY <2>3 DEF Alone, ChargeIsNamed, NobodyInCharge
      <3>2. pc'[p] = "remove"
        BY <1>2, <2>3 DEF ReadPidFile, Goto, TypeOK
      <3> QED
        BY <1>2, <2>1, <3>1, <3>2, QuietAlone DEF ReadPidFile
    <2> QED
      BY <2>2, <2>3
  <1>3. CASE Probe(p)
    <2>1. CASE Alive(p)
      BY <1>3, <2>1, AliveMoves, QuietAlone DEF Probe
    <2>2. CASE at[saw[p]] = "off" /\ Goto(p, "remove") /\ UNCHANGED <<why, saw, child, polls>>
      <3>1. Moves(p) /\ pc'[p] = "remove"
        BY <2>2 DEF Goto, Moves, TypeOK
      <3>2. NobodyInCharge
        <4> SUFFICES ASSUME NEW d \in Pid, InCharge(d) PROVE FALSE
          BY DEF NobodyInCharge
        <4>1. pidFile = Written(d) /\ pidFile \in {NoFile, Written(saw[p])}
          BY <1>3 DEF Probe, Alone, ChargeIsNamed, ProbesTheFile
        <4>2. saw[p] = d
          <5>1. Written(d) # NoFile
            BY WrittenIsInjective
          <5>2. Written(saw[p]).by = saw[p] /\ Written(d).by = d
            BY DEF Written
          <5> QED
            BY <4>1, <5>1, <5>2
        <4> QED
          BY <2>2, <4>2 DEF InCharge, Working
      <3> QED
        BY <1>3, <3>1, <3>2, QuietAlone DEF Probe
    <2> QED
      BY <1>3, <2>1, <2>2 DEF Probe
  <1>4. CASE RemovePidFile(p)
    <2>1. NobodyInCharge
      BY <1>4 DEF RemovePidFile, Alone, ClearsForNobody
    <2> QED
      BY <1>4, <2>1, NotAliveMoves, QuietAlone DEF RemovePidFile
  <1>5. CASE ReadStatus(p)
    <2>1. Moves(p) /\ pc'[p] \in {"register", "idle"}
      BY <1>5, DoneMoves DEF ReadStatus, Goto, Moves, TypeOK
    <2>2. CASE status[child[p]] = "none" /\ at[child[p]] \in {"off", "foreign"}
      BY <1>5, <2>1, <2>2, QuietAlone DEF ReadStatus, Waited, Starting
    <2>3. CASE status[child[p]] # "none"
      <3>1. \A d \in Pid : child[p] = d => at[d] \notin Waited
        BY <2>3 DEF Basics, WaitedIsSilent
      <3> QED
        BY <1>5, <2>1, <3>1, QuietAlone DEF ReadStatus
    <2> QED
      BY <1>5, <2>2, <2>3 DEF ReadStatus
  <1>6. CASE Register(p)
    BY <1>6, DoneMoves, AskMoves, QuietAlone DEF Register
  <1>7. CASE Target(p)
    <2>1. Moves(p) /\ pc'[p] \in {"kill", "idle"}
      BY <1>7, DoneMoves DEF Target, Goto, Moves, TypeOK
    <2> QED
      BY <1>7, <2>1, QuietAlone DEF Target
  <1>8. CASE Erase(p)
    BY <1>8, DoneMoves, QuietAlone DEF Erase
  <1> QED
    BY <1>1, <1>2, <1>3, <1>4, <1>5, <1>6, <1>7, <1>8, SpawnAlone, KillAlone DEF CommandStep

\* A step of a main thread that leaves the PID file alone.
LEMMA OwnAlone ==
    ASSUME TypeOK, Basics, Sequential, Alone, NEW d \in Pid, Own(d), UNCHANGED <<ws, pidFile>>,
           at'[d] \in Working /\ mine'[d] => at[d] \in Working /\ mine[d],
           at'[d] \in Waited => at[d] \in Waited,
           at'[d] = "write" => at[d] = "write"
    PROVE  Alone'
  <1>1. \A e \in Pid : /\ InCharge(e)' => InCharge(e)
                       /\ at'[e] \in Waited => at[e] \in Waited
                       /\ at'[e] = "write" => at[e] = "write"
    BY DEF Own, InCharge
  <1>2. \A q \in Proc : pc'[q] = pc[q] /\ saw'[q] = saw[q] /\ child'[q] = child[q]
    BY DEF Own, termVars
  <1> QED
    BY <1>1, <1>2, LessAlone

\* A step of a main thread that changes the PID file, in which only a process that is
\* waited for may be brought into charge.
LEMMA FileAlone ==
    ASSUME TypeOK, Basics, Sequential, Alone, NEW d \in Pid, Own(d), UNCHANGED ws,
           at[d] \in Waited \/ (pidFile' = NoFile /\ ~InCharge(d)'),
           at'[d] \in Waited => at[d] \in Waited,
           ~ws => pidFile' = NoFile,
           \A e \in Pid : InCharge(e)' => pidFile' = Written(e),
           \A e \in Pid : at'[e] = "write" => pidFile' = [by |-> e, written |-> FALSE]
    PROVE  Alone'
  <1> USE DEF Own, termVars
  <1>1. ChargeIsNamed' /\ WritingIsNamed' /\ ErasedIsBare'
    BY DEF ChargeIsNamed, WritingIsNamed, ErasedIsBare
  <1>2. WaitedHasReader'
    BY DEF Alone, WaitedHasReader, Read
  <1>3. \A p \in Proc : pc[p] \in {"probe", "remove", "erase"} => pidFile' = NoFile /\ ~InCharge(d)'
    BY NoneWaited DEF Alone, Basics
  <1>4. ProbesTheFile'
    BY <1>3 DEF ProbesTheFile
  <1>5. ClearsForNobody'
    BY <1>3 DEF Alone, ClearsForNobody, NobodyInCharge, InCharge
  <1> QED
    BY <1>1, <1>2, <1>4, <1>5 DEF Alone

LEMMA MainAlone ==
    ASSUME TypeOK, Basics, Sequential, Alone, NEW d \in Pid, MainStep(d)
    PROVE  Alone'
  <1> USE DEF Step
  <1>0. at[d] \in Starting => ~mine[d]
    BY DEF Basics, NotYetMine
  <1>1. CASE Detach(d)
    <2>1. Own(d)
      BY <1>1 DEF Detach, Own, TypeOK
    <2> QED
      BY <1>0, <1>1, <2>1, OwnAlone DEF Detach, TypeOK, Working, Waited, Starting
  <1>2. CASE CreatePidFile(d)
    <2>1. Own(d)
      BY <1>2 DEF CreatePidFile, Own, TypeOK
    <2>2. CASE at'[d] = "fail" /\ pidFile' = pidFile
      BY <1>0, <1>2, <2>1, <2>2, OwnAlone DEF CreatePidFile, Working, Waited, Starting
    <2>3. CASE ws /\ pidFile = NoFile /\ Step(d, "create", "write") /\ pidFile' = [by |-> d, written |-> FALSE]
      <3>1. \A e \in Pid : ~InCharge(e) /\ at[e] # "write"
        BY <2>3, WrittenIsInjective DEF Alone, ChargeIsNamed, WritingIsNamed
      <3>2. at'[d] = "write"
        BY <2>3 DEF TypeOK
      <3>3. \A e \in Pid : ~InCharge(e)'
        BY <2>1, <3>1, <3>2 DEF Own, InCharge, Working
      <3>4. \A e \in Pid : at'[e] = "write" => e = d
        BY <2>1, <3>1 DEF Own
      <3>5. at[d] \in Waited
        BY <2>3 DEF Waited, Starting
      <3>6. UNCHANGED ws
        BY <1>2 DEF CreatePidFile
      <3> QED
        BY <2>1, <2>3, <3>3, <3>4, <3>5, <3>6, FileAlone
    <2> QED
      BY <1>2, <2>2, <2>3 DEF CreatePidFile, TypeOK
  <1>3. CASE WritePidFile(d)
    <2>1. Own(d)
      BY <1>3 DEF WritePidFile, Own, TypeOK
    <2>2. at[d] = "write" /\ at[d] \in Waited /\ UNCHANGED ws
      BY <1>3 DEF WritePidFile, Waited, Starting
    <2>3. pidFile = [by |-> d, written |-> FALSE]
      BY <2>2 DEF Alone, WritingIsNamed
    <2>4. \A e \in Pid : ~InCharge(e) /\ (at[e] = "write" => e = d)
      BY <2>3, WrittenIsInjective DEF Alone, ChargeIsNamed, WritingIsNamed
    <2>5. ws
      BY <2>3, WrittenIsInjective DEF Alone, ErasedIsBare
    <2>6. at'[d] # "write"
      BY <1>3 DEF WritePidFile, TypeOK
    <2>7. \A e \in Pid : at'[e] # "write"
      BY <2>1, <2>4, <2>6 DEF Own
    <2>8. \A e \in Pid : InCharge(e)' => e = d
      BY <2>1, <2>4 DEF Own, InCharge
    <2>9. InCharge(d)' => pidFile' = Written(d)
      <3>1. CASE Step(d, "write", "start") /\ pidFile' = Written(d)
        BY <3>1
      <3>2. CASE mine' = mine
        BY <1>0, <2>2, <3>2 DEF InCharge, Starting
      <3> QED
        BY <1>3, <2>3, <3>1, <3>2 DEF WritePidFile
    <2>10. \A e \in Pid : InCharge(e)' => pidFile' = Written(e)
      BY <2>8, <2>9
    <2>11. \A e \in Pid : at'[e] = "write" => pidFile' = [by |-> e, written |-> FALSE]
      BY <2>7
    <2>12. /\ UNCHANGED ws
           /\ at[d] \in Waited \/ (pidFile' = NoFile /\ ~InCharge(d)')
           /\ at'[d] \in Waited => at[d] \in Waited
           /\ ~ws => pidFile' = NoFile
      BY <2>2, <2>5
    <2> QED
      BY <2>1, <2>10, <2>11, <2>12, FileAlone
  <1>4. CASE StartNode(d)
    <2>1. Own(d)
      BY <1>4 DEF StartNode, Own, TypeOK
    <2> QED
      BY <1>0, <1>4, <2>1, OwnAlone DEF StartNode, TypeOK, Working, Waited, Starting
  <1>5. CASE Report(d)
    <2>1. Own(d)
      BY <1>5 DEF Report, Own, TypeOK
    <2> QED
      BY <1>0, <1>5, <2>1, OwnAlone DEF Report, TypeOK, Working, Waited, Starting
  <1>6. CASE TestFlag(d)
    <2>1. Own(d)
      BY <1>6 DEF TestFlag, Own, TypeOK
    <2> QED
      BY <1>0, <1>6, <2>1, OwnAlone DEF TestFlag, TypeOK, Working, Waited, Starting
  <1>7. CASE Pause(d)
    <2>1. Own(d)
      BY <1>7 DEF Pause, Own, TypeOK
    <2> QED
      BY <1>0, <1>7, <2>1, OwnAlone DEF Pause, TypeOK, Working, Waited, Starting
  <1>8. CASE StopNode(d)
    <2>1. Own(d)
      BY <1>8 DEF StopNode, Own, TypeOK
    <2> QED
      BY <1>0, <1>8, <2>1, OwnAlone DEF StopNode, TypeOK, Working, Waited, Starting
  <1>9. CASE Join(d)
    <2>1. Own(d)
      BY <1>9 DEF Join, Own, TypeOK
    <2> QED
      BY <1>0, <1>9, <2>1, OwnAlone DEF Join, TypeOK, Working, Waited, Starting
  <1>10. CASE ReportFailure(d)
    <2>1. Own(d)
      BY <1>10 DEF ReportFailure, Own, TypeOK
    <2> QED
      BY <1>0, <1>10, <2>1, OwnAlone DEF ReportFailure, TypeOK, Working, Waited, Starting
  <1>11. CASE Unlink(d)
    <2>1. Own(d) /\ at'[d] = "exit" /\ UNCHANGED <<ws, mine>>
      BY <1>11 DEF Unlink, Own, TypeOK
    <2>2. CASE ~mine[d]
      BY <1>11, <2>1, <2>2, OwnAlone DEF Unlink, Working, Waited, Starting
    <2>3. CASE mine[d]
      <3>1. InCharge(d) /\ pidFile' = NoFile
        BY <1>11, <2>3 DEF Unlink, InCharge, Working
      <3>2. pidFile = Written(d)
        BY <3>1 DEF Alone, ChargeIsNamed
      <3>3. \A e \in Pid : (InCharge(e) => e = d) /\ at[e] # "write"
        BY <3>2, WrittenIsInjective DEF Alone, ChargeIsNamed, WritingIsNamed
      <3>4. \A e \in Pid : ~InCharge(e)' /\ at'[e] # "write"
        BY <2>1, <3>3 DEF Own, InCharge, Working
      <3>5. at'[d] \notin Waited
        BY <2>1 DEF Waited, Starting
      <3> QED
        BY <2>1, <3>1, <3>4, <3>5, FileAlone
    <2> QED
      BY <2>2, <2>3
  <1>12. CASE Exit(d)
    BY <1>12, EndOwn, OwnAlone DEF Exit, Working, Waited, Starting
  <1> QED
    BY <1>1, <1>2, <1>3, <1>4, <1>5, <1>6, <1>7, <1>8, <1>9, <1>10, <1>11, <1>12 DEF MainStep

LEMMA OutsideAlone ==
    ASSUME TypeOK, Basics, Sequential, Alone, NEW d \in Pid,
           ServerStep(d) \/ Crash(d) \/ ForeignStart(d) \/ ForeignEnd(d)
    PROVE  Alone'
  <1>1. CASE UNCHANGED <<ws, pidFile, termVars, at, mine>>
    BY <1>1, LessAlone DEF termVars, InCharge
  <1>2. CASE ForeignStart(d)
    <2>1. Own(d) /\ at'[d] = "foreign"
      BY <1>2 DEF ForeignStart, Step, Own, TypeOK
    <2> QED
      BY <1>2, <2>1, OwnAlone DEF ForeignStart, Working, Waited, Starting
  <1>3. CASE End(d)
    BY <1>3, EndOwn, OwnAlone DEF Working, Waited, Starting
  <1> QED
    BY <1>1, <1>2, <1>3 DEF ServerStep, BuildServer, EndServer, Crash, ForeignEnd

LEMMA NextAlone == ASSUME TypeOK, Basics, Sequential, Alone, [Next]_vars PROVE Alone'
  <1>1. CASE UNCHANGED vars
    BY <1>1, LessAlone DEF vars, termVars, daemonVars, InCharge
  <1>2. ASSUME NEW p \in Proc, InitWorkspace(p) PROVE Alone'
    <2>1. ChargeIsNamed' /\ WaitedHasReader' /\ WritingIsNamed' /\ ProbesTheFile' /\ ClearsForNobody'
      BY <1>2 DEF InitWorkspace, Alone, ChargeIsNamed, WaitedHasReader, WritingIsNamed, ProbesTheFile,
                  ClearsForNobody, NobodyInCharge, InCharge, Read, Written, termVars, daemonVars
    <2>2. ErasedIsBare'
      BY <1>2 DEF InitWorkspace, ErasedIsBare
    <2> QED
      BY <2>1, <2>2 DEF Alone
  <1>3. ASSUME NEW p \in Proc, Start(p) PROVE Alone'
    BY <1>3, AskMoves, QuietAlone DEF Start
  <1>4. ASSUME NEW p \in Proc, Abort(p) PROVE Alone'
    BY <1>4 DEF Abort, Sequential
  <1> QED
    BY <1>1, <1>2, <1>3, <1>4, CommandAlone, MainAlone, OutsideAlone DEF Next

-----------------------------------------------------------------------------
(* The invariant and what follows                                          *)

LEMMA SameWorld == ASSUME [Next]_vars PROVE world' = world
  <1>1. ASSUME NEW p \in Proc, CommandStep(p) PROVE world' = world
    BY <1>1 DEF CommandStep, Exists, ReadPidFile, Probe, RemovePidFile, Spawn, ReadStatus, Register,
                Target, Kill, Erase
  <1>2. ASSUME NEW d \in Pid, MainStep(d) PROVE world' = world
    BY <1>2 DEF MainStep, Detach, CreatePidFile, WritePidFile, StartNode, Report, TestFlag, Pause,
                StopNode, Join, ReportFailure, Unlink, Exit, End
  <1>3. ASSUME NEW d \in Pid, ServerStep(d) \/ Crash(d) \/ ForeignStart(d) \/ ForeignEnd(d)
        PROVE  world' = world
    BY <1>3 DEF ServerStep, BuildServer, EndServer, Crash, ForeignStart, ForeignEnd, End
  <1> QED
    BY <1>1, <1>2, <1>3 DEF Next, InitWorkspace, Start, Abort, vars

\* The invariant, with the types: initially true, and preserved by every step.
THEOREM DaemonInvariant == Spec => [](TypeOK /\ DaemonInv)
  <1>1. Init => DaemonInv
    BY DEF Init, DaemonInv, Basics, OnlyTerminals, ListedWrote, NotYetMine, WaitedIsSilent, ReportsStand,
           Alone, ChargeIsNamed, WaitedHasReader, WritingIsNamed, ProbesTheFile, ClearsForNobody,
           ErasedIsBare, InCharge, Listed, Waited, Starting, Working
  <1>2. TypeOK /\ DaemonInv /\ [Next]_vars => DaemonInv'
    <2> SUFFICES ASSUME TypeOK, DaemonInv, [Next]_vars PROVE DaemonInv'
      OBVIOUS
    <2>1. Basics'
      BY NextBasics DEF DaemonInv
    <2>2. Sequential' <=> Sequential
      BY SameWorld DEF Sequential
    <2>3. Sequential => Alone'
      BY NextAlone DEF DaemonInv
    <2> QED
      BY <2>1, <2>2, <2>3 DEF DaemonInv
  <1> QED
    BY <1>1, <1>2, DaemonTypes, PTL DEF Spec

\* Used one command at a time, at most one daemon is in charge, and the PID file names
\* it, whatever crashes and whoever gets the ids of dead daemons.
THEOREM OneDaemonAlways == Spec => []OneDaemon
  <1>1. DaemonInv => OneDaemon
    BY DEF DaemonInv, Alone, ChargeIsNamed, OneDaemon
  <1> QED
    BY <1>1, DaemonInvariant, PTL

\* Used one command at a time, deinit removes .peer only when no daemon works in it.
THEOREM ErasedAlways == Spec => []ErasedIsStopped
  <1>1. DaemonInv => ErasedIsStopped
    BY WrittenIsInjective DEF DaemonInv, Alone, ChargeIsNamed, ErasedIsBare, ErasedIsStopped
  <1> QED
    BY <1>1, DaemonInvariant, PTL

\* Whoever runs commands, and however many: what a command was told about its daemon
\* is so.
THEOREM ReportAlways == Spec => []ReportIsTrue
  <1>1. DaemonInv => ReportIsTrue
    BY DEF DaemonInv, Basics, ReportsStand, ReportIsTrue
  <1> QED
    BY <1>1, DaemonInvariant, PTL
===============================================================================
