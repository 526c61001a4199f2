----------------------------- MODULE MCDoorbell -----------------------------
(* Instances of MoeDoorbell for TLC. *)
EXTENDS MoeDoorbell

CONSTANTS s1, s2

\* job 0 rings both layers, job 1 the first, job 2 the second
ThreeGraphs == [k \in 0..2 |-> CASE k = 0 -> <<s1, s2>> [] k = 1 -> <<s1>> [] k = 2 -> <<s2>>]
=============================================================================
