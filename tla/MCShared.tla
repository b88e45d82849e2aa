------------------------------ MODULE MCShared ------------------------------
(* What processes share through a lease and through a lock file: a durable run *)
(* and a cached tool, in one run. `chosen`, picked once, is the one that moves; *)
(* the other stays in an initial state, where nothing is fair.                  *)
EXTENDS MCDurableRuns, ToolCache

VARIABLE chosen

sharedVars == <<chosen, vars, cacheVars>>

SharedInit ==
  /\ chosen \in {"run", "tool"}
  /\ Init /\ CacheInit
  /\ chosen # "tool" => tool = "tsc"

SharedNext ==
  /\ UNCHANGED chosen
  /\ \/ chosen = "run" /\ Next /\ UNCHANGED cacheVars
     \/ chosen = "tool" /\ CacheNext /\ UNCHANGED vars

SharedSpec == SharedInit /\ [][SharedNext]_sharedVars /\ Fairness /\ CacheFairness
=============================================================================
