------------------------------ MODULE PearDaemon ------------------------------
(***************************************************************************)
(* The background process of one workspace: how the commands of several    *)
(* terminals start it (spawn), look for it (is_alive) and stop it (kill),  *)
(* its PID file, the status pipe through which it reports to the command   *)
(* that started it, SIGTERM, and the thread that runs its gRPC server.     *)
(*                                                                         *)
(* A process is its id.  The child of spawn and the daemon that child      *)
(* forks are one process here: the child exits as soon as it has forked.   *)
(***************************************************************************)
EXTENDS Naturals

CONSTANTS Proc,      \* terminals
          Pid,       \* process ids a daemon may get
          NoFile,    \* the PID file that does not exist
          NoPid,
          MaxPolls,  \* how often deinit looks whether the daemon has gone (100)
          Worlds     \* what a behaviour may assume of users and processes

Command == {"connect", "disconnect", "deinit", "cleanup"}

ASSUME DaemonAssumption ==
    /\ MaxPolls \in Nat \ {0}
    /\ NoPid \notin Pid
    /\ Worlds \subseteq [terminals : SUBSET Proc, commands : [Proc -> SUBSET Command],
                         aborts : BOOLEAN, crashes : BOOLEAN]
    /\ NoFile \notin [by : Pid, written : BOOLEAN]

VARIABLES
    world,    \* the terminals in use, what they run, whether commands are
              \* interrupted and whether daemons are killed from outside
    ws,       \* whether the workspace has its .peer directory
    pidFile,  \* demon.pid: who created it and whether the id is in it yet
    pc,       \* what the command of a terminal does next
    why,      \* the place in the code that called is_alive or kill
    saw,      \* the process id it read
    child,    \* the process it spawned
    polls,    \* attempt in run_deinit
    at,       \* what the main thread of a process does next
    mine,     \* pid_file_written
    status,   \* what it has written to its status pipe
    stop,     \* stop_requested
    server    \* its server thread: "build" before server_ is assigned, "wait" in
              \* server_->Wait(), "shut" after Shutdown(), "done" when it has ended

termVars == <<pc, why, saw, child, polls>>
daemonVars == <<at, mine, status, stop, server>>
vars == <<world, ws, pidFile, termVars, daemonVars>>

PidFile == {NoFile} \cup [by : Pid, written : BOOLEAN]
Written(d) == [by |-> d, written |-> TRUE]

Why == {"none", "cleanup", "connect", "failed", "failed kill", "disconnect",
        "disconnect kill", "deinit", "deinit kill", "poll", "last"}
TermLabel == {"idle", "exists", "open", "probe", "remove", "spawn", "status",
              "register", "target", "kill", "erase"}
Starting == {"open", "create", "write"}
Working == {"start", "report", "test", "sleep", "pause", "stop", "join", "unlink", "fail"}
DaemonLabel == {"off", "foreign", "exit"} \cup Starting \cup Working

Init ==
    /\ world \in Worlds
    /\ ws = TRUE /\ pidFile = NoFile
    /\ pc = [p \in Proc |-> "idle"]
    /\ why = [p \in Proc |-> "none"]
    /\ saw = [p \in Proc |-> NoPid]
    /\ child = [p \in Proc |-> NoPid]
    /\ polls = [p \in Proc |-> 0]
    /\ at = [d \in Pid |-> "off"]
    /\ mine = [d \in Pid |-> FALSE]
    /\ status = [d \in Pid |-> "none"]
    /\ stop = [d \in Pid |-> FALSE]
    /\ server = [d \in Pid |-> "none"]

-----------------------------------------------------------------------------
(* is_alive, and what its callers make of the answer                       *)

Goto(p, label) == pc' = [pc EXCEPT ![p] = label]
\* Calls is_alive, from the place w of the command.
Ask(p, w) ==
    /\ Goto(p, "exists")
    /\ why' = [why EXCEPT ![p] = w]
    /\ saw' = [saw EXCEPT ![p] = NoPid]
    /\ child' = [child EXCEPT ![p] = NoPid]

\* The command returns or throws.
Done(p) ==
    /\ Goto(p, "idle")
    /\ why' = [why EXCEPT ![p] = "none"]
    /\ saw' = [saw EXCEPT ![p] = NoPid]
    /\ child' = [child EXCEPT ![p] = NoPid]
    /\ polls' = [polls EXCEPT ![p] = 0]

\* After the callers that stop a live daemon, the is_alive at the top of kill.
KillFor(w) == CASE w = "failed" -> "failed kill"
                [] w = "disconnect" -> "disconnect kill"
                [] w = "deinit" -> "deinit kill"
                [] OTHER -> "none"

\* Mutant of StillAlive: deinit goes on although the daemon is there.
StillAliveErases(p) ==
    IF why[p] = "poll" /\ polls[p] + 1 < MaxPolls
      THEN /\ Ask(p, "poll") /\ polls' = [polls EXCEPT ![p] = @ + 1]
      ELSE Goto(p, "erase") /\ UNCHANGED <<why, saw, child, polls>>

\* Mutant of StillAlive: one attempt too many.
StillAliveOnceMore(p) ==
    \/ /\ why[p] = "poll" /\ polls[p] < MaxPolls
       /\ Ask(p, "poll") /\ polls' = [polls EXCEPT ![p] = @ + 1]
    \/ /\ why[p] = "poll" /\ polls[p] = MaxPolls
       /\ Ask(p, "last") /\ UNCHANGED polls
    \/ why[p] = "last" /\ Done(p)

\* deinit waits for the daemon it has told to stop: MaxPolls attempts, numbered from
\* 0, then one last look, and it gives up.
StillAlive(p) ==
    \/ /\ why[p] = "poll" /\ polls[p] + 1 < MaxPolls
       /\ Ask(p, "poll") /\ polls' = [polls EXCEPT ![p] = @ + 1]
    \/ /\ why[p] = "poll" /\ polls[p] + 1 = MaxPolls
       /\ Ask(p, "last") /\ UNCHANGED polls
    \/ why[p] = "last" /\ Done(p)

\* is_alive returns true.
Alive(p) ==
    \/ /\ why[p] \in {"failed", "disconnect", "deinit"}
       /\ Ask(p, KillFor(why[p])) /\ UNCHANGED polls
    \/ /\ why[p] \in {"failed kill", "disconnect kill", "deinit kill"}
       /\ Goto(p, "target") /\ saw' = [saw EXCEPT ![p] = NoPid]
       /\ UNCHANGED <<why, child, polls>>
    \/ why[p] \in {"connect", "cleanup"} /\ Done(p)
    \/ StillAlive(p)

\* is_alive returns false.
NotAlive(p) ==
    \/ /\ why[p] = "connect"
       /\ Goto(p, "spawn") /\ saw' = [saw EXCEPT ![p] = NoPid]
       /\ UNCHANGED <<why, child, polls>>
    \/ /\ why[p] \in {"deinit", "last"}
       /\ Goto(p, "erase") /\ saw' = [saw EXCEPT ![p] = NoPid]
       /\ UNCHANGED <<why, child, polls>>
    \/ /\ why[p] = "poll"
       /\ Ask(p, "last") /\ UNCHANGED polls
    \/ /\ why[p] \in {"cleanup", "failed", "disconnect", "failed kill", "disconnect kill", "deinit kill"}
       /\ Done(p)

\* The workspace is looked up first: without one the command throws.
Exists(p) ==
    /\ pc[p] = "exists"
    /\ \/ ~ws /\ Done(p)
       \/ ws /\ pidFile = NoFile /\ NotAlive(p)
       \/ ws /\ pidFile # NoFile /\ Goto(p, "open") /\ UNCHANGED <<why, saw, child, polls>>
    /\ UNCHANGED <<world, ws, pidFile, daemonVars>>

\* read_pid_file: a file that is gone or has no id in it throws.
ReadPidFile(p) ==
    /\ pc[p] = "open"
    /\ IF pidFile \in {Written(d) : d \in Pid}
         THEN /\ saw' = [saw EXCEPT ![p] = pidFile.by]
              /\ Goto(p, "probe")
         ELSE Goto(p, "remove") /\ UNCHANGED saw
    /\ UNCHANGED <<world, ws, pidFile, why, child, polls, daemonVars>>

\* is_process_alive
Probe(p) ==
    /\ pc[p] = "probe"
    /\ \/ at[saw[p]] # "off" /\ Alive(p)
       \/ at[saw[p]] = "off" /\ Goto(p, "remove") /\ UNCHANGED <<why, saw, child, polls>>
    /\ UNCHANGED <<world, ws, pidFile, daemonVars>>

\* Removes whatever file is there by now.
RemovePidFile(p) ==
    /\ pc[p] = "remove"
    /\ pidFile' = NoFile
    /\ NotAlive(p)
    /\ UNCHANGED <<world, ws, daemonVars>>

-----------------------------------------------------------------------------
(* The commands                                                            *)

InitWorkspace(p) ==
    /\ pc[p] = "idle" /\ p \in world.terminals
    /\ ~ws /\ ws' = TRUE
    /\ UNCHANGED <<world, pidFile, termVars, daemonVars>>

Start(p) ==
    /\ pc[p] = "idle" /\ p \in world.terminals
    /\ ws
    /\ \E w \in world.commands[p] : Ask(p, w)
    /\ UNCHANGED <<world, ws, pidFile, polls, daemonVars>>

\* spawn forks, or fails to.  An id stays taken while its pipe is being read.
Spawn(p) ==
    /\ pc[p] = "spawn"
    /\ \/ \E d \in Pid :
            /\ at[d] = "off" /\ \A q \in Proc : child[q] # d
            /\ at' = [at EXCEPT ![d] = "open"]
            /\ mine' = [mine EXCEPT ![d] = FALSE]
            /\ status' = [status EXCEPT ![d] = "none"]
            /\ stop' = [stop EXCEPT ![d] = FALSE]
            /\ server' = [server EXCEPT ![d] = "none"]
            /\ child' = [child EXCEPT ![p] = d]
            /\ Goto(p, "status") /\ UNCHANGED <<why, saw, polls>>
       \/ Done(p) /\ UNCHANGED daemonVars
    /\ UNCHANGED <<world, ws, pidFile>>

\* Mutant of ReadStatus: the parent keeps its own end of the pipe open and never
\* sees the end of the file.
ReadStatusOpenPipe(p) ==
    /\ pc[p] = "status"
    /\ \/ status[child[p]] = "ok" /\ Goto(p, "register") /\ UNCHANGED <<why, saw, child, polls>>
       \/ status[child[p]] = "fail" /\ Done(p)
    /\ UNCHANGED <<world, ws, pidFile, daemonVars>>

\* read_status_message: a line, or the end of the file when the process is gone.
ReadStatus(p) ==
    /\ pc[p] = "status"
    /\ \/ status[child[p]] = "ok" /\ Goto(p, "register") /\ UNCHANGED <<why, saw, child, polls>>
       \/ status[child[p]] = "fail" /\ Done(p)
       \/ status[child[p]] = "none" /\ at[child[p]] \in {"off", "foreign"} /\ Done(p)
    /\ UNCHANGED <<world, ws, pidFile, daemonVars>>

\* The rest of run_connect: registering (see PearSync) succeeds, or it fails and
\* the daemon is stopped.
Register(p) ==
    /\ pc[p] = "register"
    /\ \/ Done(p)
       \/ Ask(p, "failed") /\ UNCHANGED polls
    /\ UNCHANGED <<world, ws, pidFile, daemonVars>>

\* kill reads the file once more.
Target(p) ==
    /\ pc[p] = "target"
    /\ \/ /\ pidFile \in {Written(d) : d \in Pid}
          /\ saw' = [saw EXCEPT ![p] = pidFile.by]
          /\ Goto(p, "kill") /\ UNCHANGED <<why, child, polls>>
       \/ pidFile \notin {Written(d) : d \in Pid} /\ Done(p)
    /\ UNCHANGED <<world, ws, pidFile, daemonVars>>

\* SIGTERM: the handler sets a flag, and a pause() that has begun returns.
\* Another program ends.
Terminate(d) ==
    /\ at' = [at EXCEPT ![d] = CASE @ = "pause" -> "test"
                                 [] @ = "foreign" -> "off"
                                 [] OTHER -> @]
    /\ stop' = [stop EXCEPT ![d] = at[d] \notin {"off", "foreign"}]
    /\ UNCHANGED <<mine, status, server>>

Kill(p) ==
    /\ pc[p] = "kill"
    /\ \/ at[saw[p]] = "off" /\ Done(p) /\ UNCHANGED daemonVars
       \/ /\ at[saw[p]] # "off" /\ Terminate(saw[p])
          /\ \/ why[p] # "deinit kill" /\ Done(p)
             \/ why[p] = "deinit kill" /\ Ask(p, "poll") /\ UNCHANGED polls
    /\ UNCHANGED <<world, ws, pidFile>>

\* remove_all of .peer
Erase(p) ==
    /\ pc[p] = "erase"
    /\ ws' = FALSE /\ pidFile' = NoFile
    /\ Done(p)
    /\ UNCHANGED <<world, daemonVars>>

\* The user interrupts the command.
Abort(p) ==
    /\ world.aborts /\ pc[p] # "idle"
    /\ Done(p)
    /\ UNCHANGED <<world, ws, pidFile, daemonVars>>

-----------------------------------------------------------------------------
(* The main thread of the daemon                                           *)

Step(d, from, to) == at[d] = from /\ at' = [at EXCEPT ![d] = to]

\* Mutant of Detach: success is reported as soon as the daemon is detached.
DetachReporting(d) ==
    /\ ws /\ Step(d, "open", "create")
    /\ status' = [status EXCEPT ![d] = "ok"]
    /\ UNCHANGED <<world, ws, pidFile, termVars, mine, stop, server>>

\* Signal handlers, setsid, the second fork, Workspace::discover and the database
Detach(d) ==
    /\ \/ ws /\ Step(d, "open", "create")
       \/ Step(d, "open", "fail")
    /\ UNCHANGED <<world, ws, pidFile, termVars, mine, status, stop, server>>

\* write_pid_file: O_CREAT | O_EXCL
CreatePidFile(d) ==
    /\ \/ /\ ws /\ pidFile = NoFile
          /\ Step(d, "create", "write")
          /\ pidFile' = [by |-> d, written |-> FALSE]
       \/ Step(d, "create", "fail") /\ UNCHANGED pidFile
    /\ UNCHANGED <<world, ws, termVars, mine, status, stop, server>>

\* write_pid_file: the id goes to the file it created, which may be unlinked by
\* now; after an error whatever file is there is unlinked.
WritePidFile(d) ==
    /\ \/ /\ Step(d, "write", "start")
          /\ pidFile' = IF pidFile = [by |-> d, written |-> FALSE] THEN Written(d) ELSE pidFile
          /\ mine' = [mine EXCEPT ![d] = TRUE]
       \/ /\ Step(d, "write", "fail")
          /\ pidFile' = NoFile /\ UNCHANGED mine
    /\ UNCHANGED <<world, ws, termVars, status, stop, server>>

\* Node::start
StartNode(d) ==
    /\ \/ Step(d, "start", "report") /\ server' = [server EXCEPT ![d] = "build"]
       \/ Step(d, "start", "fail") /\ UNCHANGED server
    /\ UNCHANGED <<world, ws, pidFile, termVars, mine, status, stop>>

Read(d) == \E p \in Proc : pc[p] = "status" /\ child[p] = d

\* send_ok; nobody reads the pipe when the command is gone, and ~Node runs.
Report(d) ==
    /\ \/ /\ Read(d) /\ Step(d, "report", "test")
          /\ status' = [status EXCEPT ![d] = "ok"]
       \/ ~Read(d) /\ Step(d, "report", "stop") /\ UNCHANGED status
    /\ UNCHANGED <<world, ws, pidFile, termVars, mine, stop, server>>

\* while (!stop_requested)
TestFlag(d) ==
    /\ \/ stop[d] /\ Step(d, "test", "stop")
       \/ ~stop[d] /\ Step(d, "test", "sleep")
    /\ UNCHANGED <<world, ws, pidFile, termVars, mine, status, stop, server>>

\* pause() begins
Pause(d) ==
    /\ Step(d, "sleep", "pause")
    /\ UNCHANGED <<world, ws, pidFile, termVars, mine, status, stop, server>>

\* Mutant of StopNode: the PID file is removed before the server is stopped.
StopNodeUnlisted(d) ==
    /\ Step(d, "stop", "join")
    /\ server' = [server EXCEPT ![d] = IF @ = "wait" THEN "shut" ELSE @]
    /\ pidFile' = NoFile
    /\ UNCHANGED <<world, ws, termVars, mine, status, stop>>

\* Mutant of StopNode: it only joins.
StopNodeQuietly(d) ==
    /\ Step(d, "stop", "join")
    /\ UNCHANGED <<world, ws, pidFile, termVars, mine, status, stop, server>>

\* Node::stop up to the join: without a server_ there is nothing to shut down.
StopNode(d) ==
    /\ Step(d, "stop", "join")
    /\ server' = [server EXCEPT ![d] = IF @ = "wait" THEN "shut" ELSE @]
    /\ UNCHANGED <<world, ws, pidFile, termVars, mine, status, stop>>

Join(d) ==
    /\ server[d] = "done" /\ Step(d, "join", "unlink")
    /\ UNCHANGED <<world, ws, pidFile, termVars, mine, status, stop, server>>

\* send_fail
ReportFailure(d) ==
    /\ Step(d, "fail", "unlink")
    /\ status' = [status EXCEPT ![d] = IF Read(d) THEN "fail" ELSE @]
    /\ UNCHANGED <<world, ws, pidFile, termVars, mine, stop, server>>

\* Removes whatever file is there by now.
Unlink(d) ==
    /\ Step(d, "unlink", "exit")
    /\ pidFile' = IF mine[d] THEN NoFile ELSE pidFile
    /\ UNCHANGED <<world, ws, termVars, mine, status, stop, server>>

\* The process ends, and its threads with it; what it wrote can still be read.
End(d) ==
    /\ at' = [at EXCEPT ![d] = "off"]
    /\ mine' = [mine EXCEPT ![d] = FALSE]
    /\ stop' = [stop EXCEPT ![d] = FALSE]
    /\ server' = [server EXCEPT ![d] = "none"]
    /\ status' = [status EXCEPT ![d] = IF Read(d) THEN @ ELSE "none"]
    /\ UNCHANGED <<world, ws, pidFile, termVars>>

Exit(d) == at[d] = "exit" /\ End(d)

-----------------------------------------------------------------------------
(* The server thread, and what happens to processes from outside           *)

\* BuildAndStart: the address may be taken, and then Wait() is called on no server.
BuildServer(d) ==
    /\ server[d] = "build"
    /\ \/ /\ server' = [server EXCEPT ![d] = "wait"]
          /\ UNCHANGED <<world, ws, pidFile, termVars, at, mine, status, stop>>
       \/ End(d)

\* Wait() returns after Shutdown().
EndServer(d) ==
    /\ server[d] = "shut"
    /\ server' = [server EXCEPT ![d] = "done"]
    /\ UNCHANGED <<world, ws, pidFile, termVars, at, mine, status, stop>>

Crash(d) == world.crashes /\ at[d] \notin {"off", "foreign"} /\ End(d)

\* The system gives the id in a file that was left behind to another program.
ForeignStart(d) ==
    /\ world.crashes /\ pidFile = Written(d) /\ Step(d, "off", "foreign")
    /\ UNCHANGED <<world, ws, pidFile, termVars, mine, status, stop, server>>

ForeignEnd(d) == at[d] = "foreign" /\ End(d)

-----------------------------------------------------------------------------
\* A command goes on.
CommandStep(p) ==
    \/ Exists(p) \/ ReadPidFile(p) \/ Probe(p) \/ RemovePidFile(p) \/ Spawn(p)
    \/ ReadStatus(p) \/ Register(p) \/ Target(p) \/ Kill(p) \/ Erase(p)

\* The main thread goes on.
MainStep(d) ==
    \/ Detach(d) \/ CreatePidFile(d) \/ WritePidFile(d)
    \/ StartNode(d) \/ Report(d) \/ TestFlag(d) \/ Pause(d) \/ StopNode(d)
    \/ Join(d) \/ ReportFailure(d) \/ Unlink(d) \/ Exit(d)

ServerStep(d) == BuildServer(d) \/ EndServer(d)

Next ==
    \/ \E p \in Proc : CommandStep(p) \/ InitWorkspace(p) \/ Start(p) \/ Abort(p)
    \/ \E d \in Pid : MainStep(d) \/ ServerStep(d) \/ Crash(d) \/ ForeignStart(d) \/ ForeignEnd(d)

Spec == Init /\ [][Next]_vars

\* Processes and threads are scheduled.
Fairness ==
    /\ \A p \in Proc : WF_vars(CommandStep(p))
    /\ \A d \in Pid : WF_vars(MainStep(d)) /\ WF_vars(ServerStep(d))
FairSpec == Spec /\ Fairness

-----------------------------------------------------------------------------
(* Properties                                                              *)

\* Every variable has a value the code can give it; the attempts of deinit are those
\* the loop of commands.cpp:162 makes, MaxPolls of them.
TypeOK ==
    /\ world \in Worlds
    /\ ws \in BOOLEAN
    /\ pidFile \in PidFile
    /\ pc \in [Proc -> TermLabel]
    /\ why \in [Proc -> Why]
    /\ saw \in [Proc -> Pid \cup {NoPid}]
    /\ child \in [Proc -> Pid \cup {NoPid}]
    /\ polls \in [Proc -> 0 .. MaxPolls - 1]
    /\ at \in [Pid -> DaemonLabel]
    /\ mine \in [Pid -> BOOLEAN]
    /\ status \in [Pid -> {"none", "ok", "fail"}]
    /\ stop \in [Pid -> BOOLEAN]
    /\ server \in [Pid -> {"none", "build", "wait", "shut", "done"}]

\* One command at a time, each running to its end.
Sequential == ~world.aborts /\ \A p, q \in world.terminals : p = q

\* A process is in charge from the moment it has written its PID file until it
\* has removed it.
InCharge(d) == mine[d] /\ at[d] \in Working

\* Used one command at a time, whatever crashes and whoever gets the ids of dead
\* daemons, a daemon in charge is the one the PID file names; so there is at most
\* one, and is_alive and kill find it (demon.cpp:227, 298).
OneDaemon == Sequential => \A d \in Pid : InCharge(d) => pidFile = Written(d)

\* Used one command at a time, deinit removes .peer only when no daemon works in it
\* (commands.cpp:159-181).
ErasedIsStopped == Sequential => (~ws => \A d \in Pid : ~InCharge(d))

\* Even with commands at the same time and interrupted ones: a command that was told
\* "ok" has a daemon that wrote its PID file, unless it has ended since; one that
\* was told "fail" leaves no daemon behind (demon.cpp:232, 334).
ReportIsTrue ==
    \A p \in Proc : \A d \in Pid :
        (pc[p] \in {"status", "register"} /\ child[p] = d) =>
            /\ status[d] = "ok" => (mine[d] \/ at[d] \in {"off", "foreign"})
            /\ status[d] = "fail" => at[d] \in {"unlink", "exit", "off", "foreign"}

\* A command ends, whatever becomes of the daemon it waits for (demon.cpp:325-332,
\* commands.cpp:162).
CommandsEnd == \A p \in Proc : []<>(pc[p] = "idle")

\* A SIGTERM that reaches a daemon in pause(), with its server running, ends it
\* (demon.cpp:236-247, node.cpp:24-34).  Anywhere else it may get lost.
WokenDaemonEnds ==
    \A d \in Pid : (stop[d] /\ at[d] = "test" /\ server[d] = "wait") ~> (at[d] = "off")
===============================================================================
