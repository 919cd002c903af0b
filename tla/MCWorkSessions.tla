--------------------------- MODULE MCWorkSessions ---------------------------
(* Instances of WorkSessions for TLC. *)
EXTENDS WorkSessions, TLC

CONSTANTS t1, t2, m1, m2

\* Every task in one workspace, so that the user may switch between them.
OneWorkspace  == [t \in Tasks |-> m1]
\* A task in each of two workspaces.
TwoWorkspaces == [t \in Tasks |-> IF t = t1 THEN m1 ELSE m2]

Symmetry == Permutations(Sessions) \cup Permutations(Clients)
=============================================================================
