------------------------------ MODULE MCPearSync ------------------------------
(* Small instances of PearSync for TLC.                                    *)
EXTENDS PearSync, TLC

CONSTANTS main, peer, m1, p1, p2

\* Terminals: one on Main and one on the peer, or two on the peer.
OneEach == m1 :> main @@ p1 :> peer
TwoOnPeer == p1 :> peer @@ p2 :> peer

\* Both nodes connected and up to date, or a repository nobody has joined.
BothJoined == <<main, peer>>
NobodyJoined == <<>>

\* The commands of each terminal.
Publishing == m1 :> {"push", "add"} @@ p1 :> {"push", "add"}
Cleaning == m1 :> {"pull", "cleanup"}
            @@ p1 :> {"push", "pull", "add", "cleanup", "connect", "deinit"}
Removing == m1 :> {"push", "add", "remove"} @@ p1 :> {"push", "add", "update"}
Joining == m1 :> {"connect", "disconnect", "push", "add"}
           @@ p1 :> {"connect", "disconnect", "deinit", "pull"}
Racing == p1 :> {"push", "add", "unstage", "remove"}
          @@ p2 :> {"push", "add", "cleanup", "update", "disconnect"}

HashSymmetry == Permutations(Hash)
===============================================================================
