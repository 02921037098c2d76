----------------------------- MODULE MetadataLog -----------------------------
(***************************************************************************)
(* What the write-ahead log promises, without saying how: one log, kept by *)
(* Main, that only grows at its end, and on every other node a copy of a   *)
(* prefix of it that only gets longer, or starts over when the node does.  *)
(* What the entries say does not matter here.  PearSync implements it.     *)
(***************************************************************************)
EXTENDS Naturals

CONSTANTS Node, Main

VARIABLE log  \* a function from 1 .. k to entries on each node

FirstOf(l, k) == [i \in 1 .. k |-> l[i]]
HasLength(l, k) == DOMAIN l = 1 .. k

Init ==
    /\ log = [n \in Node |-> log[n]]
    /\ \E k \in {0} \cup DOMAIN log[Main] : HasLength(log[Main], k)
    /\ \A n \in Node : log[n] = log[Main] \/ HasLength(log[n], 0)

\* An entry is added at the end of Main's log.
Append ==
    /\ log' = [log EXCEPT ![Main] = log'[Main]]
    /\ \E k \in {i \in DOMAIN log'[Main] : HasLength(log'[Main], i)} :
            log[Main] = FirstOf(log'[Main], k - 1)

\* The copy of a node becomes a longer prefix of Main's log.
CatchUp(n) ==
    /\ n # Main
    /\ log' = [log EXCEPT ![n] = log'[n]]
    /\ DOMAIN log[n] \subseteq DOMAIN log'[n]
    /\ \E k \in {0} \cup DOMAIN log[Main] : log'[n] = FirstOf(log[Main], k)

\* A node starts over with an empty copy.
StartOver(n) == n # Main /\ log' = [log EXCEPT ![n] = FirstOf(log[Main], 0)]

Next == Append \/ \E n \in Node : CatchUp(n) \/ StartOver(n)

Spec == Init /\ [][Next]_log
===============================================================================
