----------------------------- MODULE MCJobQueue -----------------------------
(* Instances of JobQueue for TLC. *)
EXTENDS JobQueue

CONSTANTS j1, j2, old, new

\* A worker deployed before the second job's type, and one deployed after.
Deployed == [w \in Workers |-> IF w = old THEN {j1} ELSE Jobs]
=============================================================================
