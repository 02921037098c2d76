--------------------------- MODULE MCPearWorkspace ---------------------------
(* Small instances of PearWorkspace for TLC.                               *)
EXTENDS PearWorkspace, TLC

TempOfOther == [q \in Path |-> CHOOSE r \in Path : r # q]
Alike == Permutations(Path) \cup Permutations(Hash)

\* The user waits for commands to end and leaves read-only files alone, others publish.
Patient == [edits |-> FALSE, off |-> FALSE, careful |-> TRUE, breaks |-> FALSE,
            versions |-> 2, acts |-> 0]
\* The user acts too, and commands are broken off.
Fragile == [Patient EXCEPT !.breaks = TRUE, !.versions = 1, !.acts = 2]
\* Nobody publishes.
Alone == [Fragile EXCEPT !.versions = 0, !.acts = 3]
\* The user works on while commands run and turns read-only files back.
Hasty == [Fragile EXCEPT !.edits = TRUE, !.off = TRUE, !.acts = 1]

AnyWorld == {Patient, Fragile, Alone, Hasty}
=============================================================================
