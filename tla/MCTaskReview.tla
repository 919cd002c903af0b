---------------------------- MODULE MCTaskReview ----------------------------
(* An instance of TaskReview for TLC. *)
EXTENDS TaskReview

CONSTANTS ann, hr

\* ann is in no team with a lead: the organisation account is the fallback.
NoTeam    == {}
HrChecks  == [p \in People |-> IF p = hr THEN Nobody ELSE hr]
=============================================================================
