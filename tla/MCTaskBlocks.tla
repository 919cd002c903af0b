---------------------------- MODULE MCTaskBlocks ----------------------------
(* An instance of TaskBlocks for TLC. *)
EXTENDS TaskBlocks

CONSTANTS ann, bob, lead

\* ann is in lead's team; bob is in nobody's, and nobody checks bob's work.
Team       == {<<lead, ann>>}
LeadChecks == [p \in People |-> IF p = ann THEN lead ELSE Nobody]
=============================================================================
