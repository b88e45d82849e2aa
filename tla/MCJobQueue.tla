---------------------------- MODULE MCJobQueue ----------------------------
(* JobQueue for TLC. *)
EXTENDS JobQueue, TLC

Flat == [j \in Jobs |-> 0]

Symmetric == Permutations(Workers)
===========================================================================
