---------------------------- MODULE MCPearDaemon ----------------------------
(* Small instances of PearDaemon for TLC.                                  *)
EXTENDS PearDaemon, TLC

CONSTANTS p1, p2

\* One command at a time; daemons may be killed.
OneByOne == [terminals |-> {p1}, commands |-> [p \in Proc |-> Command],
             aborts |-> FALSE, crashes |-> TRUE]
\* One terminal, whose connects the user interrupts.
Interrupted == [terminals |-> {p1}, commands |-> [p \in Proc |-> {"connect"}],
                aborts |-> TRUE, crashes |-> FALSE]
\* A second terminal looks for the daemon while the first starts one.
TwoAtOnce == [terminals |-> {p1, p2}, commands |-> p1 :> {"connect"} @@ p2 :> {"cleanup"},
              aborts |-> FALSE, crashes |-> FALSE]

AnyWorld == {OneByOne, Interrupted, TwoAtOnce}
=============================================================================
