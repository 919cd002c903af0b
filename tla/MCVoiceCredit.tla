--------------------------- MODULE MCVoiceCredit ---------------------------
(* An instance of VoiceCredit for TLC. *)
EXTENDS VoiceCredit, TLC

CONSTANTS ann, bob, acme, k1

\* Two people of one workspace.
OneWorkspace == [p \in Members |-> acme]
Allowances   == [k \in Keys |-> 4]
Alike        == Permutations(Requests) \cup Permutations(Members)
=============================================================================
