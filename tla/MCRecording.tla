----------------------------- MODULE MCRecording -----------------------------
(* Instances of Recording for TLC. *)
EXTENDS Recording, TLC

CONSTANTS i1, i2

AnyIncident == Permutations(Incidents)
=============================================================================
