--------------------------- MODULE JobQueueProofs ---------------------------
(***************************************************************************)
(* Safety of JobQueue for every set of jobs and workers and every          *)
(* configuration JobWorkerConfig::validate accepts.                        *)
(***************************************************************************)
EXTENDS JobQueue, TLAPS

LEMMA Constants ==
  /\ Beat \in Nat /\ Deadline \in Nat /\ Deadline > 0 /\ Deadline < Reclaim
  /\ Deadline + Stall \in Nat /\ Reclaim + 1 \in Nat /\ I32Max \in Nat
  BY ConfigAssumption DEF Beat, Deadline

\* The phases in which a worker handles a job.
Busy == {"claimed", "burying", "running", "finalizing"}

LEMMA BusyTask ==
  ASSUME TypeOK, NEW w \in Workers
  PROVE  task[w] # NoJob <=> phase[w] \in Busy
  BY DEF TypeOK, Busy

-----------------------------------------------------------------------------
(* What the shared parts of the actions preserve *)

LEMMA LeaveTypes ==
  ASSUME TypeOK, NEW w \in Workers, NEW p \in Phases \ Busy, Leave(w, p)
  PROVE  TasksOK' /\ \A v \in Workers : (task[v] # NoJob <=> phase[v] \in Busy)'
<1> USE Constants DEF TasksOK, Leave
<1>1. TasksOK'
  BY DEF TypeOK
<1>2. \A v \in Workers : (task[v] # NoJob <=> phase[v] \in Busy)'
  BY BusyTask DEF TypeOK, Busy
<1> QED
  BY <1>1, <1>2

LEMMA LeaseTypes ==
  ASSUME RowsOK, NEW w \in Workers, NEW j \in Jobs, Claimable(j), TakeLease(w, j)
  PROVE  RowsOK' /\ ChargeClaim(j) \in 0..I32Max
<1>1. ChargeClaim(j) \in 0..I32Max
  BY Constants DEF RowsOK, Claimable, ChargeClaim
<1> QED
  BY <1>1, Constants DEF RowsOK, TakeLease

LEMMA BuryTypes ==
  ASSUME RowsOK, NEW w \in Workers, NEW j \in Jobs, NEW n \in 0..I32Max, Bury(w, j, n)
  PROVE  RowsOK'
  BY Constants DEF RowsOK, Bury, DropRow, rowVars

LEMMA FinalTypes ==
  ASSUME RowsOK, TasksOK, NEW w \in Workers, task[w] \in Jobs, FinalEffect(w)
  PROVE  RowsOK'
<1>1. CASE ~failed[w]
  BY <1>1, Constants DEF RowsOK, TasksOK, FinalEffect, Complete, DropRow, rowVars
<1>2. CASE failed[w] /\ GiveUp(w)
  BY <1>2, BuryTypes, Constants DEF RowsOK, TasksOK, FinalEffect, rowVars
<1>3. CASE failed[w] /\ ~GiveUp(w)
  BY <1>3, Constants DEF RowsOK, TasksOK, FinalEffect, Requeue, rowVars
<1> QED
  BY <1>1, <1>2, <1>3 DEF TasksOK

LEMMA SameRows == RowsOK /\ UNCHANGED rowVars => RowsOK'
  BY DEF RowsOK, rowVars

LEMMA SameLoop == LoopOK /\ UNCHANGED loopVars => LoopOK'
  BY DEF LoopOK, loopVars

-----------------------------------------------------------------------------
(* Type correctness *)

LEMMA TypeStep == TypeOK /\ [Next]_vars => TypeOK'
<1> SUFFICES ASSUME TypeOK, [Next]_vars PROVE TypeOK'
  OBVIOUS
<1> DEFINE Handling == \A v \in Workers : task[v] # NoJob <=> phase[v] \in Busy
<1>a. RowsOK /\ TasksOK /\ LoopOK /\ Handling
  BY BusyTask DEF TypeOK
<1>b. SUFFICES RowsOK' /\ TasksOK' /\ LoopOK' /\ Handling'
  BY DEF TypeOK, Busy
<1> USE Constants, ConfigAssumption, IdAssumption
<1>1. ASSUME NEW j \in Jobs, Enqueue(j) PROVE RowsOK' /\ TasksOK' /\ LoopOK' /\ Handling'
  BY <1>a, <1>1 DEF Enqueue, RowsOK, TasksOK, LoopOK, taskVars, loopVars
<1>2. ASSUME NEW w \in Workers, Start(w) \/ ClaimSend(w)
      PROVE  RowsOK' /\ TasksOK' /\ LoopOK' /\ Handling'
  BY <1>a, <1>2, SameRows, SameLoop DEF Start, ClaimSend, TasksOK, taskVars, Busy, Phases
<1>3. ASSUME NEW w \in Workers, ClaimApply(w)
      PROVE  RowsOK' /\ TasksOK' /\ LoopOK' /\ Handling'
  <2> PICK j \in NextJobs :
         /\ TakeLease(w, j)
         /\ task' = [task EXCEPT ![w] = j]
         /\ seen' = [seen EXCEPT ![w] = Returned(j)]
         /\ charged' = [charged EXCEPT ![w] = lockedBy[j] # NoOne]
    BY <1>3 DEF ClaimApply
  <2>1. j \in Jobs /\ Claimable(j)
    BY DEF NextJobs
  <2>2. RowsOK' /\ Returned(j) \in 0..I32Max
    BY <1>a, <2>1, LeaseTypes DEF Returned
  <2>3. (lockedBy[j] # NoOne) \in BOOLEAN
    OBVIOUS
  <2>4. charged' \in [Workers -> BOOLEAN]
    BY <1>a, <2>3 DEF TasksOK
  <2>5. TasksOK' /\ Handling'
    BY <1>a, <1>3, <2>1, <2>2, <2>4 DEF ClaimApply, TasksOK, Busy, Phases
  <2> QED
    BY <1>a, <1>3, <2>2, <2>5, SameLoop DEF ClaimApply
<1>4. ASSUME NEW w \in Workers, ClaimEmpty(w) \/ ClaimError(w)
      PROVE  RowsOK' /\ TasksOK' /\ LoopOK' /\ Handling'
  <2>1. Leave(w, "idle") /\ UNCHANGED rowVars
    BY <1>4 DEF ClaimEmpty, ClaimError
  <2>2. LoopOK'
    BY <1>a, <1>4 DEF ClaimEmpty, ClaimError, Fault, LoopOK, loopVars
  <2> QED
    BY <1>a, <2>1, <2>2, SameRows, LeaveTypes DEF Busy, Phases
<1>5. ASSUME NEW w \in Workers, ClaimReply(w)
      PROVE  RowsOK' /\ TasksOK' /\ LoopOK' /\ Handling'
  <2>1. task[w] \in Jobs
    BY <1>a, <1>5 DEF ClaimReply, TasksOK, Busy
  <2>2. LoopOK'
    BY <1>a, <1>5, <2>1 DEF ClaimReply, LoopOK
  <2>3. RowsOK'
    BY <1>a, <1>5, <2>1 DEF ClaimReply, RowsOK, rowVars
  <2>4. CASE Leave(w, "idle")
    BY <2>2, <2>3, <2>4, LeaveTypes DEF Busy, Phases
  <2>5. CASE ~Leave(w, "idle")
    BY <1>a, <1>5, <2>2, <2>3, <2>5 DEF ClaimReply, TasksOK, taskVars, Busy, Phases
  <2> QED
    BY <2>4, <2>5
<1>6. ASSUME NEW w \in Workers, BodyEnds(w)
      PROVE  RowsOK' /\ TasksOK' /\ LoopOK' /\ Handling'
  BY <1>a, <1>6, SameRows, SameLoop DEF BodyEnds, TasksOK, Busy, Phases
<1>7. ASSUME NEW w \in Workers, Watchdog(w)
      PROVE  RowsOK' /\ TasksOK' /\ LoopOK' /\ Handling'
  <2>1. task[w] \in Jobs
    BY <1>a, <1>7 DEF Watchdog, TasksOK, Busy
  <2>2. LoopOK' /\ RowsOK'
    BY <1>a, <1>7, <2>1 DEF Watchdog, LoopOK, RowsOK
  <2> QED
    BY <1>7, <2>2, LeaveTypes DEF Watchdog, Busy, Phases
<1>8. ASSUME NEW w \in Workers, BeatSend(w) \/ BeatError(w)
      PROVE  RowsOK' /\ TasksOK' /\ LoopOK' /\ Handling'
  BY <1>a, <1>8, SameRows, SameLoop DEF BeatSend, BeatError, TasksOK
<1>9. ASSUME NEW w \in Workers, BeatApply(w)
      PROVE  RowsOK' /\ TasksOK' /\ LoopOK' /\ Handling'
  BY <1>a, <1>9, SameLoop DEF BeatApply, RowsOK, TasksOK
<1>10. ASSUME NEW w \in Workers, BeatReply(w)
       PROVE  RowsOK' /\ TasksOK' /\ LoopOK' /\ Handling'
  <2>1. RowsOK' /\ LoopOK'
    BY <1>a, <1>10, SameRows, SameLoop DEF BeatReply
  <2>2. CASE Leave(w, "idle")
    BY <2>1, <2>2, LeaveTypes DEF Busy, Phases
  <2>3. CASE ~Leave(w, "idle")
    BY <1>a, <1>10, <2>1, <2>3 DEF BeatReply, RefreshedAgo, TasksOK
  <2> QED
    BY <2>2, <2>3
<1>11. ASSUME NEW w \in Workers,
              \/ Finalize(w) \/ FinalizeError(w) \/ BuryExhausted(w) \/ BuryError(w)
              \/ DrainTimeout(w) \/ BreakLoop(w) \/ Crash(w)
       PROVE  RowsOK' /\ TasksOK' /\ LoopOK' /\ Handling'
  <2>1. phase[w] \in {"finalizing", "burying"} => task[w] \in Jobs /\ seen[w] \in 0..I32Max
    BY <1>a DEF TasksOK, Busy
  <2>2. \/ UNCHANGED rowVars
        \/ phase[w] = "finalizing" /\ FinalEffect(w)
        \/ phase[w] = "burying" /\ Bury(w, task[w], seen[w])
    BY <1>11 DEF Finalize, FinalizeError, BuryExhausted, BuryError, DrainTimeout, BreakLoop, Crash
  <2>3. RowsOK'
    BY <1>a, <2>1, <2>2, SameRows, FinalTypes, BuryTypes
  <2>4. \E p \in {"idle", "cleanup", "crashed"} : Leave(w, p)
    BY <1>11 DEF Finalize, FinalizeError, BuryExhausted, BuryError, DrainTimeout, BreakLoop, Crash
  <2>5. TasksOK' /\ Handling'
    BY <2>4, LeaveTypes DEF Busy, Phases
  <2>6. CASE BreakLoop(w) \/ Crash(w)
    <3>1. /\ late' \in [Workers -> BOOLEAN]
          /\ UNCHANGED <<abandoned, stopping, faults>>
      BY <1>a, <2>6, Zenon DEF BreakLoop, Crash, LoopOK
    <3> QED
      BY <1>a, <2>3, <2>5, <3>1 DEF LoopOK
  <2>7. CASE ~(BreakLoop(w) \/ Crash(w))
    BY <1>a, <1>11, <2>3, <2>5, <2>7
       DEF Finalize, FinalizeError, BuryExhausted, BuryError, DrainTimeout, Fault, LoopOK, loopVars
  <2> QED
    BY <2>6, <2>7
<1>12. ASSUME NEW w \in Workers, Shutdown(w)
       PROVE  RowsOK' /\ TasksOK' /\ LoopOK' /\ Handling'
  BY <1>a, <1>12, SameRows DEF Shutdown, TasksOK, LoopOK, taskVars
<1>13. ASSUME NEW w \in Workers, LateClaim(w)
       PROVE  RowsOK' /\ TasksOK' /\ LoopOK' /\ Handling'
  <2>1. RowsOK'
    BY <1>a, <1>13, SameRows, LeaseTypes DEF LateClaim, NextJobs
  <2> QED
    BY <1>a, <1>13, <2>1 DEF LateClaim, TasksOK, LoopOK, taskVars
<1>14. ASSUME NEW w \in Workers, Cleanup(w)
       PROVE  RowsOK' /\ TasksOK' /\ LoopOK' /\ Handling'
  BY <1>a, <1>14, SameLoop DEF Cleanup, RowsOK, TasksOK, taskVars, Busy, Phases
<1>15. ASSUME Tick PROVE RowsOK' /\ TasksOK' /\ LoopOK' /\ Handling'
  BY <1>a, <1>15, SameLoop DEF Tick, AtMost, RowsOK, TasksOK
<1>16. CASE UNCHANGED vars
  BY <1>a, <1>16, SameRows, SameLoop DEF vars, TasksOK, taskVars
<1> QED
  BY <1>1, <1>2, <1>3, <1>4, <1>5, <1>6, <1>7, <1>8, <1>9, <1>10, <1>11, <1>12, <1>13,
     <1>14, <1>15, <1>16
     DEF Next, WorkerStep, Failure

\* Every variable keeps its type, and a worker is attached to a job exactly while
\* it handles a claim, under every step of the queue and its workers.
THEOREM TypeCorrect == Spec => []TypeOK
<1>1. Init => TypeOK
  BY Constants, ConfigAssumption, IdAssumption DEF Init, TypeOK, RowsOK, TasksOK, LoopOK, Phases
<1> QED
  BY <1>1, TypeStep, PTL DEF Spec

-----------------------------------------------------------------------------
(* Mutual exclusion of bodies *)

(* The lease argument.  A worker measures its lease from the moment it SENT   *)
(* the claim or the heartbeat, the database from the later moment it applied  *)
(* it; so the database's age of the lease never exceeds the worker's, and the *)
(* watchdog, due half a heartbeat before the reclaim window ends, comes first.*)
LeaseOf(w) ==
  /\ sentAgo[w] <= since[w]
  /\ beat[w] # "none" => phase[w] = "running"
  /\ phase[w] = "claimed" /\ since[w] < Deadline =>
       Owns(w, task[w]) /\ age[task[w]] <= since[w]
  /\ phase[w] = "running" /\ ~Overdue(w) =>
       /\ Owns(w, task[w]) /\ age[task[w]] <= since[w]
       /\ beat[w] = "one" => age[task[w]] <= sentAgo[w]

LeaseInv == \A w \in Workers : LeaseOf(w)

\* A row another worker holds with a fresh enough lease is left alone.
Keeps(w, k) == Owns(w, k) /\ age[k] <= Reclaim => Owns(w, k)' /\ age'[k] = age[k]

LEMMA TakeKeeps ==
  ASSUME TypeOK, NEW v \in Workers, NEW j \in NextJobs, TakeLease(v, j),
         NEW w \in Workers, NEW k \in Jobs
  PROVE  Keeps(w, k)
<1>1. j \in Jobs /\ (lockedBy[j] = NoOne \/ age[j] > Reclaim)
  BY DEF NextJobs, Claimable, LeaseExpired
<1> QED
  BY <1>1, IdAssumption, ConfigAssumption DEF TypeOK, RowsOK, Keeps, Owns, TakeLease

LEMMA BuryKeeps ==
  ASSUME TypeOK, NEW v \in Workers, NEW j \in Jobs, NEW n, Bury(v, j, n),
         NEW w \in Workers, NEW k \in Jobs, v # w
  PROVE  Keeps(w, k)
  BY DEF TypeOK, RowsOK, Keeps, Owns, Bury, DropRow, rowVars

LEMMA FinalKeeps ==
  ASSUME TypeOK, NEW v \in Workers, task[v] \in Jobs, FinalEffect(v),
         NEW w \in Workers, NEW k \in Jobs, v # w
  PROVE  Keeps(w, k)
<1>1. CASE Bury(v, task[v], seen[v] + 1)
  BY <1>1, BuryKeeps
<1>2. CASE Complete(v, task[v])
  BY <1>2 DEF TypeOK, RowsOK, Keeps, Owns, Complete, DropRow, rowVars
<1>3. CASE Requeue(v, task[v])
  BY <1>3 DEF TypeOK, RowsOK, Keeps, Owns, Requeue, rowVars
<1>4. CASE UNCHANGED rowVars
  BY <1>4 DEF Keeps, Owns, rowVars
<1> QED
  BY <1>1, <1>2, <1>3, <1>4 DEF FinalEffect

\* w's place and timers do not change.
Still(w) ==
  /\ phase'[w] = phase[w] /\ task'[w] = task[w] /\ beat'[w] = beat[w]
  /\ since'[w] = since[w] /\ sentAgo'[w] = sentAgo[w]

\* The step of one worker leaves alone the row of another whose lease is fresh.
LEMMA OthersKeep ==
  ASSUME TypeOK, NEW v \in Workers, NEW w \in Workers, v # w, WorkerStep(v) \/ Failure(v)
  PROVE  Still(w) /\ \A k \in Jobs : Keeps(w, k)
<1>1. Still(w)
  BY DEF Still, WorkerStep, Failure, Start, ClaimSend, ClaimApply, ClaimEmpty, ClaimReply,
     BodyEnds, Watchdog, BeatSend, BeatApply, BeatReply, Finalize, BuryExhausted, BreakLoop,
     DrainTimeout, Cleanup, ClaimError, FinalizeError, BuryError, BeatError, Shutdown,
     LateClaim, Crash, Leave, taskVars, TypeOK, TasksOK
<1>2. \A k \in Jobs : Keeps(w, k)
  <2>1. ASSUME UNCHANGED <<queued, lockedBy, age>> PROVE \A k \in Jobs : Keeps(w, k)
    BY <2>1 DEF Keeps, Owns
  <2>2. ASSUME NEW j \in NextJobs, TakeLease(v, j) PROVE \A k \in Jobs : Keeps(w, k)
    BY <2>2, TakeKeeps
  <2>3. ASSUME phase[v] = "finalizing", FinalEffect(v) PROVE \A k \in Jobs : Keeps(w, k)
    BY <2>3, BusyTask, FinalKeeps DEF Busy, TypeOK, TasksOK
  <2>4. ASSUME phase[v] = "burying", Bury(v, task[v], seen[v]) PROVE \A k \in Jobs : Keeps(w, k)
    BY <2>4, BusyTask, BuryKeeps DEF Busy, TypeOK, TasksOK
  <2>5. ASSUME BeatApply(v) PROVE \A k \in Jobs : Keeps(w, k)
    BY <2>5 DEF BeatApply, Keeps, Owns, TypeOK, RowsOK
  <2>6. ASSUME Cleanup(v) PROVE \A k \in Jobs : Keeps(w, k)
    BY <2>6 DEF Cleanup, Released, Keeps, Owns, TypeOK, RowsOK
  <2> QED
    BY <2>1, <2>2, <2>3, <2>4, <2>5, <2>6 DEF WorkerStep, Failure, Start, ClaimSend,
       ClaimApply, ClaimEmpty, ClaimReply, BodyEnds, Watchdog, BeatSend, BeatReply, Finalize,
       BuryExhausted, BreakLoop, DrainTimeout, ClaimError, FinalizeError, BuryError, BeatError,
       Shutdown, LateClaim, Crash, rowVars
<1> QED
  BY <1>1, <1>2

\* A worker whose timers and place do not change keeps its part of the invariant
\* when its row is kept.
LEMMA Bystander ==
  ASSUME TypeOK, NEW w \in Workers, LeaseOf(w),
         \A k \in Jobs : Keeps(w, k),
         Still(w)
  PROVE  LeaseOf(w)'
<1>1. since[w] \in Nat /\ (~Overdue(w) => since[w] <= Reclaim) /\ Deadline <= Reclaim
  BY Constants, ConfigAssumption DEF TypeOK, TasksOK, Deadline, Overdue
<1>2. phase[w] \in {"claimed", "running"} => task[w] \in Jobs
  BY BusyTask DEF TypeOK, TasksOK, Busy
<1>3. \A k \in Jobs : age[k] \in Nat
  BY Constants DEF TypeOK, RowsOK
<1>4. CASE (phase[w] = "running" /\ ~Overdue(w)) \/ (phase[w] = "claimed" /\ since[w] < Deadline)
  <2>1. Owns(w, task[w]) /\ age[task[w]] <= Reclaim /\ task[w] \in Jobs
    BY <1>1, <1>2, <1>3, <1>4, Constants, ConfigAssumption DEF LeaseOf
  <2>2. Owns(w, task[w])' /\ age'[task[w]] = age[task[w]]
    BY <2>1 DEF Keeps, Owns, Still
  <2> QED
    BY <2>2 DEF LeaseOf, Still, Overdue
<1>5. CASE ~((phase[w] = "running" /\ ~Overdue(w)) \/ (phase[w] = "claimed" /\ since[w] < Deadline))
  BY <1>5 DEF LeaseOf, Still, Overdue
<1> QED
  BY <1>4, <1>5

\* A worker that left its claim has no lease to keep.
LEMMA LeftLease ==
  ASSUME TypeOK, NEW w \in Workers, NEW p \in Phases \ Busy, Leave(w, p)
  PROVE  LeaseOf(w)'
  BY DEF TypeOK, TasksOK, Leave, LeaseOf, Busy

LEMMA LeaseStep ==
  ASSUME TypeOK, TypeOK', LeaseInv, [Next]_vars
  PROVE  LeaseInv'
<1>a. \A w \in Workers : LeaseOf(w)
  BY DEF LeaseInv
<1>b. SUFFICES ASSUME NEW w \in Workers PROVE LeaseOf(w)'
  BY DEF LeaseInv
<1>c. UNCHANGED rowVars => \A k \in Jobs : Keeps(w, k)
  BY DEF Keeps, Owns, rowVars
<1>d. task[w] \in Jobs <=> phase[w] \in Busy
  BY BusyTask, IdAssumption DEF TypeOK, TasksOK
<1>e. /\ since[w] \in 0..(Deadline + Stall) /\ sentAgo[w] \in 0..(Deadline + Stall)
      /\ \A k \in Jobs : age[k] \in 0..(Reclaim + 1)
  BY DEF TypeOK, TasksOK, RowsOK
<1>f. Deadline + HalfBeat = Reclaim /\ HalfBeat \in Nat /\ Deadline \in Nat /\ Stall \in Nat /\ Reclaim \in Nat
  BY Constants, ConfigAssumption DEF Deadline
<1>1. ASSUME (\E j \in Jobs : Enqueue(j)) PROVE LeaseOf(w)'
  <2>1. Still(w)
    BY <1>1 DEF Still, Enqueue, taskVars
  <2>2. \A k \in Jobs : Keeps(w, k)
    BY <1>1 DEF Enqueue, Keeps, Owns
  <2> QED
    BY <1>a, <2>1, <2>2, Bystander
<1>2. ASSUME Tick PROVE LeaseOf(w)'
  <2>1. /\ phase' = phase /\ task' = task /\ beat' = beat /\ queued' = queued
        /\ lockedBy' = lockedBy
        /\ \A k \in Jobs : age'[k] = age[k] + 1 \/ age'[k] <= age[k]
    BY <1>2, <1>e, <1>f DEF Tick, AtMost
  <2>2. CASE Timed(w)
    <3>1. /\ since'[w] = IF since[w] < Deadline + Stall THEN since[w] + 1 ELSE since[w]
          /\ sentAgo'[w] = IF sentAgo[w] < Deadline + Stall THEN sentAgo[w] + 1 ELSE sentAgo[w]
      BY <1>2, <1>e, <1>f, <2>2 DEF Tick, AtMost
    <3>2. phase[w] = "running" => since[w] < Deadline + Stall
      BY <1>2 DEF Tick
    <3>3. /\ sentAgo'[w] <= since'[w]
          /\ since'[w] < Deadline => since'[w] = since[w] + 1
      BY <1>a, <1>e, <1>f, <3>1 DEF LeaseOf
    <3>4. Owns(w, task[w])' = Owns(w, task[w])
      BY <2>1 DEF Owns
    <3>5. age'[task[w]] \in Int \/ ~(phase[w] \in Busy)
      BY <1>d, <1>e, <2>1 DEF TypeOK, RowsOK
    <3>6. CASE phase[w] = "running"
      <4>1. task[w] \in Jobs /\ since'[w] = since[w] + 1 /\ sentAgo'[w] = sentAgo[w] + 1
        BY <1>a, <1>d, <1>e, <1>f, <3>1, <3>2, <3>6 DEF Busy, LeaseOf
      <4>2. age'[task[w]] \in Int /\ age'[task[w]] <= age[task[w]] + 1
        BY <1>e, <2>1, <4>1 DEF TypeOK, RowsOK
      <4> QED
        BY <1>a, <1>e, <1>f, <2>1, <3>3, <3>4, <3>6, <4>1, <4>2 DEF LeaseOf, Overdue
    <3>7. CASE phase[w] = "claimed"
      <4>1. task[w] \in Jobs
        BY <1>d, <3>7 DEF Busy
      <4>2. age'[task[w]] \in Int /\ age'[task[w]] <= age[task[w]] + 1
        BY <1>e, <2>1, <4>1 DEF TypeOK, RowsOK
      <4> QED
        BY <1>a, <1>e, <1>f, <2>1, <3>3, <3>4, <3>7, <4>1, <4>2 DEF LeaseOf
    <3>8. CASE phase[w] = "claiming"
      BY <1>a, <2>1, <3>3, <3>8 DEF LeaseOf
    <3> QED
      BY <2>2, <3>6, <3>7, <3>8 DEF Timed
  <2>3. CASE ~Timed(w)
    <3>1. since'[w] = 0 /\ sentAgo'[w] = 0
      BY <1>2, <2>3 DEF Tick
    <3> QED
      BY <1>a, <2>1, <2>3, <3>1 DEF LeaseOf, Timed
  <2> QED
    BY <2>2, <2>3
<1>3. ASSUME NEW v \in Workers, v # w, WorkerStep(v) \/ Failure(v) PROVE LeaseOf(w)'
  BY <1>a, <1>3, OthersKeep, Bystander
<1>4. ASSUME WorkerStep(w) \/ Failure(w) PROVE LeaseOf(w)'
  <2>1. ASSUME NEW p \in {"idle", "cleanup", "crashed"}, Leave(w, p) PROVE LeaseOf(w)'
    BY <2>1, LeftLease DEF Phases, Busy
  <2>2. ASSUME Start(w) \/ ClaimSend(w) PROVE LeaseOf(w)'
    BY <1>a, <2>2 DEF Start, ClaimSend, LeaseOf, taskVars, TypeOK, TasksOK
  <2>3. ASSUME ClaimApply(w) PROVE LeaseOf(w)'
    <3> PICK j \in NextJobs : TakeLease(w, j) /\ task' = [task EXCEPT ![w] = j]
      BY <2>3 DEF ClaimApply
    <3>1. j \in Jobs /\ j \in queued
      BY DEF NextJobs, Claimable
    <3>2. Owns(w, task[w])' /\ age'[task'[w]] = 0
      BY <3>1 DEF TakeLease, Owns, TypeOK, RowsOK, TasksOK
    <3> QED
      BY <1>a, <1>e, <2>3, <3>2 DEF ClaimApply, LeaseOf, TypeOK, TasksOK
  <2>4. ASSUME ClaimReply(w), ~Leave(w, "idle") PROVE LeaseOf(w)'
    BY <1>a, <2>4 DEF ClaimReply, LeaseOf, Owns, rowVars, taskVars, TypeOK, TasksOK
  <2>5. ASSUME BodyEnds(w) PROVE LeaseOf(w)'
    BY <2>5 DEF BodyEnds, LeaseOf, TypeOK, TasksOK
  <2>6. ASSUME BeatSend(w) \/ BeatError(w) PROVE LeaseOf(w)'
    BY <1>a, <1>e, <2>6 DEF BeatSend, BeatError, LeaseOf, Overdue, Owns, rowVars, TypeOK, TasksOK
  <2>7. ASSUME BeatApply(w) PROVE LeaseOf(w)'
    <3>1. phase[w] = "running" /\ task[w] \in Jobs
      BY <1>a, <1>d, <2>7 DEF BeatApply, LeaseOf, Busy
    <3> QED
      BY <1>a, <1>e, <2>7, <3>1 DEF BeatApply, LeaseOf, Overdue, Owns, TypeOK, RowsOK, TasksOK
  <2>8. ASSUME BeatReply(w), ~Leave(w, "idle") PROVE LeaseOf(w)'
    BY <1>a, <1>e, <1>f, <2>8 DEF BeatReply, LeaseFresh, RefreshedAgo, LeaseOf, Overdue, Owns,
       rowVars, TypeOK, TasksOK
  <2>9. ASSUME Cleanup(w) PROVE LeaseOf(w)'
    BY <1>a, <2>9 DEF Cleanup, LeaseOf, taskVars, TypeOK, TasksOK
  <2>10. ASSUME Shutdown(w) PROVE LeaseOf(w)'
    BY <1>a, <1>c, <2>10, Bystander DEF Shutdown, Still, taskVars
  <2>11. ASSUME LateClaim(w) PROVE LeaseOf(w)'
    <3>1. Still(w)
      BY <2>11 DEF LateClaim, Still, taskVars
    <3>2. \A k \in Jobs : Keeps(w, k)
      BY <1>c, <2>11, TakeKeeps DEF LateClaim
    <3> QED
      BY <1>a, <3>1, <3>2, Bystander
  <2> QED
    BY <1>4, <2>1, <2>2, <2>3, <2>4, <2>5, <2>6, <2>7, <2>8, <2>9, <2>10, <2>11
       DEF WorkerStep, Failure, ClaimEmpty, Watchdog, Finalize, BuryExhausted, BreakLoop,
       DrainTimeout, ClaimError, FinalizeError, BuryError, Crash
<1>5. CASE UNCHANGED vars
  BY <1>a, <1>5, <1>c, Bystander DEF vars, Still, taskVars
<1> QED
  BY <1>1, <1>2, <1>3, <1>4, <1>5 DEF Next

\* The lease protocol of run_next_job and fetch_next_job never runs the body of
\* one job in two workers at once, for every heartbeat interval and reclaim window
\* validate accepts and any failures, unless the watchdog of one of them is more
\* than half a heartbeat late.
THEOREM MutualExclusion == Spec => []BodyExclusion
<1>1. Init => LeaseInv
  BY Constants DEF Init, LeaseInv, LeaseOf
<1>2. LeaseInv /\ TypeOK /\ TypeOK' /\ [Next]_vars => LeaseInv'
  BY LeaseStep
<1>3. LeaseInv => BodyExclusion
  BY DEF LeaseInv, LeaseOf, BodyExclusion, Owns
<1> QED
  BY <1>1, <1>2, <1>3, TypeCorrect, PTL DEF Spec

-----------------------------------------------------------------------------
(* Accounting: rows, charges and abandoned leases *)

\* The strengthening behind the accounting invariants: a locked row exists; a
\* dropped claim belongs to a worker that handles nothing any more; a lease given
\* up is in the abandoned set of the worker that holds it, which no longer
\* handles it; an exhausted claim carries an exhausted count.
BookInv ==
  /\ \A j \in Jobs : lockedBy[j] # NoOne => j \in queued
  /\ \A w \in Workers : late[w] => phase[w] \in {"cleanup", "stopped", "crashed"}
  /\ SnapshotCurrent
  /\ \A j \in owed : lockedBy[j] # NoOne /\ j \in abandoned[lockedBy[j]]
  /\ \A w \in Workers : task[w] # NoJob /\ lockedBy[task[w]] = w => task[w] \notin owed
  /\ \A w \in Workers : phase[w] = "burying" => seen[w] > MaxRetries
  /\ NoEarlyDeadLetter
  /\ SettledOnce

LEMMA TakeBook ==
  ASSUME TypeOK, BookInv, NEW w \in Workers, NEW j \in NextJobs, TakeLease(w, j),
         \/ task' = task /\ seen' = seen /\ task[w] = NoJob
         \/ /\ task' = [task EXCEPT ![w] = j]
            /\ seen' = [seen EXCEPT ![w] = Returned(j)],
         UNCHANGED abandoned
  PROVE  /\ \A i \in Jobs : lockedBy'[i] # NoOne => i \in queued'
         /\ SnapshotCurrent'
         /\ \A i \in owed' : lockedBy'[i] # NoOne /\ i \in abandoned'[lockedBy'[i]]
         /\ \A v \in Workers : task'[v] # NoJob /\ lockedBy'[task'[v]] = v => task'[v] \notin owed'
<1>1. j \in Jobs /\ j \in queued
  BY DEF NextJobs, Claimable
<1> USE IdAssumption DEF TypeOK, RowsOK, TasksOK, LoopOK, TakeLease
<1>2. SnapshotCurrent'
  BY <1>1 DEF BookInv, SnapshotCurrent, Owns, Returned
<1>3. \A i \in Jobs : lockedBy'[i] # NoOne => i \in queued'
  BY <1>1 DEF BookInv
<1>4. \A i \in owed' : lockedBy'[i] # NoOne /\ i \in abandoned'[lockedBy'[i]]
  BY <1>1 DEF BookInv
<1>5. \A v \in Workers : task'[v] # NoJob /\ lockedBy'[task'[v]] = v => task'[v] \notin owed'
  BY <1>1 DEF BookInv
<1> QED
  BY <1>2, <1>3, <1>4, <1>5

\* A worker ends its claim with Complete, Bury, Requeue or nothing at all.
LEMMA SettleBook ==
  ASSUME TypeOK, BookInv, NEW w \in Workers, NEW j \in Jobs, NEW p \in Phases \ Busy, Leave(w, p),
         \/ UNCHANGED rowVars
         \/ Complete(w, j)
         \/ Requeue(w, j)
         \/ \E n \in Nat : n > MaxRetries /\ Bury(w, j, n),
         UNCHANGED abandoned, late'[w] => p \in {"cleanup", "crashed"},
         \A v \in Workers \ {w} : late'[v] = late[v]
  PROVE  BookInv'
<1> USE IdAssumption, ConfigAssumption
        DEF TypeOK, RowsOK, TasksOK, LoopOK, Leave, Complete, Requeue, Bury, DropRow, rowVars, Owns
<1>1. \A i \in Jobs : lockedBy'[i] # NoOne => i \in queued'
  BY DEF BookInv
<1>2. \A v \in Workers : late'[v] => phase'[v] \in {"cleanup", "stopped", "crashed"}
  BY DEF BookInv
<1>3. SnapshotCurrent'
  BY DEF BookInv, SnapshotCurrent
<1>4. \A i \in owed' : lockedBy'[i] # NoOne /\ i \in abandoned'[lockedBy'[i]]
  BY DEF BookInv
<1>5. \A v \in Workers : task'[v] # NoJob /\ lockedBy'[task'[v]] = v => task'[v] \notin owed'
  BY DEF BookInv
<1>6. \A v \in Workers : phase'[v] = "burying" => seen'[v] > MaxRetries
  BY DEF BookInv, Busy
<1>7. NoEarlyDeadLetter'
  <2> SUFFICES ASSUME NEW i \in Jobs, deadRows'[i] > 0 PROVE deadErrors'[i] > MaxRetries
    BY DEF NoEarlyDeadLetter
  <2>1. CASE UNCHANGED <<deadRows, deadErrors>>
    BY <2>1 DEF BookInv, NoEarlyDeadLetter
  <2>2. CASE ~UNCHANGED <<deadRows, deadErrors>>
    BY <2>2 DEF BookInv, NoEarlyDeadLetter
  <2> QED
    BY <2>1, <2>2
<1>8. SettledOnce'
  <2> SUFFICES ASSUME NEW i \in Jobs
               PROVE  (Settled(i) = 0 \/ (Settled(i) = 1 /\ i \notin queued))'
    BY DEF SettledOnce
  <2>1. Settled(i) = 0 \/ (Settled(i) = 1 /\ i \notin queued)
    BY DEF BookInv, SettledOnce
  <2>2. CASE acks'[i] = acks[i] /\ deadRows'[i] = deadRows[i]
    BY <2>1, <2>2 DEF Settled
  <2>3. CASE ~(acks'[i] = acks[i] /\ deadRows'[i] = deadRows[i])
    <3>1. i = j /\ i \in queued /\ i \notin queued'
      BY <2>3
    <3>2. \/ acks'[i] = acks[i] + 1 /\ deadRows'[i] = deadRows[i]
          \/ acks'[i] = acks[i] /\ deadRows'[i] = deadRows[i] + 1
      BY <2>3
    <3>3. acks[i] = 0 /\ deadRows[i] = 0
      BY <2>1, <3>1 DEF Settled
    <3> QED
      BY <3>1, <3>2, <3>3 DEF Settled
  <2> QED
    BY <2>2, <2>3
<1> QED
  BY <1>1, <1>2, <1>3, <1>4, <1>5, <1>6, <1>7, <1>8 DEF BookInv

\* A worker lets go of its claim and, if the lease is still its own, of the lease.
LEMMA AbandonBook ==
  ASSUME TypeOK, BookInv, NEW w \in Workers, task[w] \in Jobs, NEW p \in Phases \ Busy, Leave(w, p),
         abandoned' = [abandoned EXCEPT ![w] = @ \cup {task[w]}],
         owed' = IF lockedBy[task[w]] = w THEN owed \cup {task[w]} ELSE owed,
         UNCHANGED <<queued, lockedBy, age, errors, due, deadRows, deadErrors, acks, late>>,
         ~late[w]
  PROVE  BookInv'
<1> USE IdAssumption, ConfigAssumption
        DEF TypeOK, RowsOK, TasksOK, LoopOK, Leave, Owns
<1>3. SnapshotCurrent'
  BY DEF BookInv, SnapshotCurrent
<1>4. \A i \in owed' : lockedBy'[i] # NoOne /\ i \in abandoned'[lockedBy'[i]]
  BY DEF BookInv
<1>5. \A v \in Workers : task'[v] # NoJob /\ lockedBy'[task'[v]] = v => task'[v] \notin owed'
  BY DEF BookInv
<1>6. \A v \in Workers : phase'[v] = "burying" => seen'[v] > MaxRetries
  BY DEF BookInv, Busy
<1>7. NoEarlyDeadLetter' /\ SettledOnce'
  BY DEF BookInv, NoEarlyDeadLetter, SettledOnce, Settled
<1> QED
  BY <1>3, <1>4, <1>5, <1>6, <1>7 DEF BookInv

LEMMA BookStep ==
  ASSUME TypeOK, BookInv, [Next]_vars PROVE BookInv'
<1> USE IdAssumption, ConfigAssumption
<1>a. ASSUME NEW w \in Workers
      PROVE  /\ phase[w] \in Busy => task[w] \in Jobs /\ seen[w] \in Nat /\ ~late[w]
             /\ phase[w] \notin Busy => task[w] = NoJob
  BY <1>a, BusyTask DEF TypeOK, TasksOK, Busy, BookInv
<1>1. ASSUME NEW j \in Jobs, Enqueue(j) PROVE BookInv'
  BY <1>1 DEF Enqueue, BookInv, SnapshotCurrent, NoEarlyDeadLetter, SettledOnce, Settled, Owns,
     TypeOK, RowsOK, taskVars, loopVars
<1>2. ASSUME NEW w \in Workers, Start(w) \/ ClaimSend(w) PROVE BookInv'
  BY <1>2 DEF Start, ClaimSend, BookInv, SnapshotCurrent, NoEarlyDeadLetter, SettledOnce, Settled,
     Owns, TypeOK, TasksOK, rowVars, taskVars, loopVars
<1>3. ASSUME NEW w \in Workers, ClaimApply(w) PROVE BookInv'
  <2> PICK j \in NextJobs : /\ TakeLease(w, j)
                            /\ task' = [task EXCEPT ![w] = j]
                            /\ seen' = [seen EXCEPT ![w] = Returned(j)]
    BY <1>3 DEF ClaimApply
  <2>1. abandoned' = abandoned /\ late' = late
    BY <1>3 DEF ClaimApply, loopVars
  <2>2. ~late[w]
    BY <1>3 DEF ClaimApply, BookInv
  <2>3. NoEarlyDeadLetter' /\ SettledOnce'
    BY DEF TakeLease, BookInv, NoEarlyDeadLetter, SettledOnce, Settled
  <2>4. \A v \in Workers : phase'[v] = "burying" => seen'[v] > MaxRetries
    BY <1>3 DEF ClaimApply, BookInv, TypeOK, TasksOK
  <2> QED
    BY <1>3, <2>1, <2>2, <2>3, <2>4, TakeBook DEF ClaimApply, BookInv, TypeOK, TasksOK
<1>4. ASSUME NEW w \in Workers, ClaimReply(w), ~Exhausted(w), since[w] >= Deadline PROVE BookInv'
  <2>1. since[w] \in Int /\ ~(since[w] < Deadline)
    BY <1>4, Constants DEF TypeOK, TasksOK
  <2>2. phase[w] \in Busy /\ "idle" \in Phases \ Busy
    BY <1>4 DEF ClaimReply, Busy, Phases
  <2> QED
    BY <1>a, <1>4, <2>1, <2>2, AbandonBook DEF ClaimReply
<1>5. ASSUME NEW w \in Workers, ClaimReply(w), ~(~Exhausted(w) /\ since[w] >= Deadline) PROVE BookInv'
  <2>1. /\ UNCHANGED <<rowVars, taskVars, late>>
        /\ abandoned' = [abandoned EXCEPT ![w] = @ \ {task[w]}]
        /\ \E q \in {"burying", "running"} : phase' = [phase EXCEPT ![w] = q]
        /\ phase'[w] = "burying" => Exhausted(w)
    BY <1>5 DEF ClaimReply, TypeOK, TasksOK
  <2>2. \A v \in Workers : phase'[v] = "burying" => seen'[v] > MaxRetries
    BY <1>a, <1>5, <2>1 DEF BookInv, Exhausted, TypeOK, TasksOK, taskVars, ClaimReply, Busy
  <2>3. \A v \in Workers : late'[v] => phase'[v] \in {"cleanup", "stopped", "crashed"}
    BY <1>a, <1>5, <2>1 DEF BookInv, TypeOK, TasksOK, ClaimReply, Busy
  <2>4. \A i \in owed' : lockedBy'[i] # NoOne /\ i \in abandoned'[lockedBy'[i]]
    BY <1>a, <1>5, <2>1 DEF BookInv, TypeOK, RowsOK, LoopOK, rowVars, ClaimReply, Busy
  <2> QED
    BY <2>1, <2>2, <2>3, <2>4 DEF BookInv, SnapshotCurrent, NoEarlyDeadLetter, SettledOnce, Settled,
       Owns, rowVars, taskVars
<1>6. ASSUME NEW w \in Workers, BodyEnds(w) \/ BeatSend(w) \/ BeatApply(w) \/ BeatError(w) PROVE BookInv'
  <2>1. /\ UNCHANGED <<queued, lockedBy, errors, deadRows, deadErrors, acks, owed, task, seen>>
        /\ UNCHANGED <<late, abandoned>>
        /\ phase' = phase \/ (~late[w] /\ phase' = [phase EXCEPT ![w] = "finalizing"])
    BY <1>a, <1>6 DEF BodyEnds, BeatSend, BeatApply, BeatError, rowVars, loopVars, Busy
  <2> QED
    BY <2>1 DEF BookInv, SnapshotCurrent, NoEarlyDeadLetter, SettledOnce, Settled, Owns,
       TypeOK, TasksOK
<1>7. ASSUME NEW w \in Workers, Watchdog(w) PROVE BookInv'
  BY <1>a, <1>7, AbandonBook DEF Watchdog, Busy, Phases
<1>8. ASSUME NEW w \in Workers, BeatReply(w), ~Leave(w, "idle") PROVE BookInv'
  BY <1>8 DEF BeatReply, BookInv, SnapshotCurrent, NoEarlyDeadLetter, SettledOnce, Settled, Owns,
     rowVars, loopVars
<1>9. ASSUME NEW w \in Workers,
             \/ Finalize(w) \/ FinalizeError(w) \/ BuryExhausted(w) \/ BuryError(w)
             \/ DrainTimeout(w) \/ (Crash(w) /\ phase[w] \in Busy)
             \/ (BreakLoop(w) /\ phase[w] \in Busy)
             \/ (ClaimError(w) /\ phase[w] \in Busy)
             \/ (BeatReply(w) /\ Leave(w, "idle"))
      PROVE  BookInv'
  <2>1. phase[w] \in Busy /\ task[w] \in Jobs /\ seen[w] \in Nat /\ ~late[w]
    BY <1>a, <1>9 DEF Finalize, FinalizeError, BuryExhausted, BuryError, DrainTimeout, BeatReply, Busy
  <2>2. \/ UNCHANGED rowVars
        \/ phase[w] = "finalizing" /\ FinalEffect(w)
        \/ phase[w] = "burying" /\ Bury(w, task[w], seen[w])
    BY <1>9 DEF Finalize, FinalizeError, BuryExhausted, BuryError, DrainTimeout, BreakLoop, Crash,
       ClaimError, BeatReply
  <2>3. \/ UNCHANGED rowVars
        \/ Complete(w, task[w])
        \/ Requeue(w, task[w])
        \/ \E n \in Nat : n > MaxRetries /\ Bury(w, task[w], n)
    <3>1. CASE phase[w] = "burying" /\ Bury(w, task[w], seen[w])
      BY <2>1, <3>1 DEF BookInv
    <3>2. CASE FinalEffect(w)
      <4>1. seen[w] + 1 \in Nat /\ (GiveUp(w) => seen[w] + 1 > MaxRetries)
        BY <2>1 DEF GiveUp
      <4> QED
        BY <3>2, <4>1 DEF FinalEffect
    <3> QED
      BY <2>2, <3>1, <3>2
  <2>4. \E p \in {"idle", "cleanup", "crashed"} :
           Leave(w, p) /\ (late'[w] => p \in {"cleanup", "crashed"})
    BY <1>9, <2>1 DEF Finalize, FinalizeError, BuryExhausted, BuryError, DrainTimeout, BreakLoop,
       Crash, ClaimError, BeatReply, loopVars, TypeOK, LoopOK
  <2>5. UNCHANGED abandoned /\ \A v \in Workers \ {w} : late'[v] = late[v]
    BY <1>9 DEF Finalize, FinalizeError, BuryExhausted, BuryError, DrainTimeout, BreakLoop,
       Crash, ClaimError, BeatReply, loopVars, TypeOK, LoopOK
  <2> QED
    BY <2>1, <2>3, <2>4, <2>5, SettleBook DEF Phases, Busy
<1>10. ASSUME NEW w \in Workers, phase[w] \notin Busy,
              ClaimEmpty(w) \/ ClaimError(w) \/ BreakLoop(w) \/ Crash(w)
       PROVE  BookInv'
  <2>1. UNCHANGED rowVars /\ UNCHANGED abandoned
    BY <1>10 DEF ClaimEmpty, ClaimError, BreakLoop, Crash, loopVars, Busy
  <2>2. \A v \in Workers : late'[v] => phase'[v] \in {"cleanup", "stopped", "crashed"}
    BY <1>10 DEF ClaimEmpty, ClaimError, BreakLoop, Crash, loopVars, Leave, BookInv,
       TypeOK, TasksOK, LoopOK
  <2>3. \E p \in Phases \ Busy : Leave(w, p)
    BY <1>10 DEF ClaimEmpty, ClaimError, BreakLoop, Crash, Phases, Busy
  <2> QED
    BY <2>1, <2>2, <2>3 DEF Leave, BookInv, SnapshotCurrent, NoEarlyDeadLetter, SettledOnce, Settled,
       Owns, TypeOK, TasksOK, Busy, rowVars
<1>11. ASSUME NEW w \in Workers, Shutdown(w) PROVE BookInv'
  BY <1>11 DEF Shutdown, BookInv, SnapshotCurrent, NoEarlyDeadLetter, SettledOnce, Settled,
     Owns, rowVars, taskVars
<1>12. ASSUME NEW w \in Workers, LateClaim(w) PROVE BookInv'
  <2>1. UNCHANGED <<phase, task, seen, abandoned>>
    BY <1>12 DEF LateClaim, taskVars
  <2>2. \A v \in Workers : late'[v] => phase'[v] \in {"cleanup", "stopped", "crashed"}
    BY <1>12 DEF LateClaim, BookInv, TypeOK, LoopOK
  <2>3. CASE UNCHANGED rowVars
    BY <2>1, <2>2, <2>3 DEF BookInv, SnapshotCurrent, NoEarlyDeadLetter, SettledOnce, Settled,
       Owns, rowVars
  <2>4. ASSUME NEW j \in NextJobs, TakeLease(w, j) PROVE BookInv'
    <3>1. task[w] = NoJob
      BY <1>a, <1>12 DEF LateClaim, BookInv, Busy
    <3>2. NoEarlyDeadLetter' /\ SettledOnce'
      BY <2>4 DEF TakeLease, BookInv, NoEarlyDeadLetter, SettledOnce, Settled
    <3> QED
      BY <2>1, <2>2, <2>4, <3>1, <3>2, TakeBook DEF BookInv
  <2> QED
    BY <1>12, <2>3, <2>4 DEF LateClaim
<1>13. ASSUME NEW w \in Workers, Cleanup(w) PROVE BookInv'
  BY <1>13 DEF Cleanup, Released, BookInv, SnapshotCurrent, NoEarlyDeadLetter, SettledOnce, Settled,
     Owns, TypeOK, RowsOK, TasksOK, taskVars, loopVars
<1>14. ASSUME Tick PROVE BookInv'
  BY <1>14 DEF Tick, BookInv, SnapshotCurrent, NoEarlyDeadLetter, SettledOnce, Settled,
     Owns, loopVars
<1>15. CASE UNCHANGED vars
  BY <1>15 DEF vars, BookInv, SnapshotCurrent, NoEarlyDeadLetter, SettledOnce, Settled,
     Owns, rowVars, taskVars, loopVars
<1> QED
  BY <1>1, <1>2, <1>3, <1>4, <1>5, <1>6, <1>7, <1>8, <1>9, <1>10, <1>11, <1>12, <1>13, <1>14, <1>15
     DEF Next, WorkerStep, Failure, ClaimEmpty, Busy

LEMMA BookAlways == Spec => []BookInv
<1>1. Init => BookInv
  BY IdAssumption, ConfigAssumption
     DEF Init, BookInv, SnapshotCurrent, NoEarlyDeadLetter, SettledOnce, Settled
<1> QED
  BY <1>1, BookStep, TypeCorrect, PTL DEF Spec

\* However claims, heartbeats, reclaims, crashes and half-failed finalizations
\* interleave, a job is completed at most once, dead-lettered at most once, never
\* both, and never while its row is still in the table.
THEOREM JobsSettledOnce == Spec => []SettledOnce
  BY BookAlways, PTL DEF BookInv

\* A lease the watchdog gave up stays locked until it is charged, also across the
\* graceful shutdown of the worker that gave it up (cleanup_worker_locks).
THEOREM AbandonedLeasesCharged == Spec => []AbandonmentIsCharged
<1>1. BookInv /\ TypeOK => AbandonmentIsCharged
  BY DEF BookInv, AbandonmentIsCharged, TypeOK, RowsOK
<1> QED
  BY <1>1, BookAlways, TypeCorrect, PTL

\* dead_letter_jobs never receives a job with fewer than max_retries + 1 charged
\* failures.
THEOREM DeadLettersExhausted == Spec => []NoEarlyDeadLetter
  BY BookAlways, PTL DEF BookInv

\* The error_count a worker decides on is the row's own while it holds the lease.
THEOREM SnapshotsAreCurrent == Spec => []SnapshotCurrent
  BY BookAlways, PTL DEF BookInv
-----------------------------------------------------------------------------
(* Action properties *)

\* A row that leaves the table is settled by the statement that removes it.
RowsSettle == \A j \in Jobs : j \in queued /\ j \notin queued' => Settled(j)' = Settled(j) + 1

LEMMA BurySettles ==
  ASSUME TypeOK, NEW w \in Workers, NEW j \in Jobs, NEW n, Bury(w, j, n)
  PROVE  RowsSettle
  BY DEF RowsSettle, Settled, Bury, DropRow, rowVars, TypeOK, RowsOK

LEMMA FinalSettles ==
  ASSUME TypeOK, NEW w \in Workers, task[w] \in Jobs, FinalEffect(w)
  PROVE  RowsSettle
<1>1. CASE Bury(w, task[w], seen[w] + 1)
  BY <1>1, BurySettles
<1>2. CASE Complete(w, task[w])
  BY <1>2 DEF RowsSettle, Settled, Complete, DropRow, rowVars, TypeOK, RowsOK
<1>3. CASE queued' = queued
  BY <1>3 DEF RowsSettle
<1> QED
  BY <1>1, <1>2, <1>3 DEF FinalEffect, Requeue, rowVars

\* An accepted job leaves the jobs table only through the DELETE of a successful
\* body or through dead_letter_owned, under every interleaving and failure.
THEOREM AcceptedNeverLost == Spec => NeverLost
<1>1. ASSUME TypeOK, [Next]_vars PROVE RowsSettle
  <2>1. ASSUME queued \subseteq queued' PROVE RowsSettle
    BY <2>1 DEF RowsSettle
  <2>2. ASSUME NEW w \in Workers, WorkerStep(w) \/ Failure(w) PROVE RowsSettle
    <3>1. ASSUME phase[w] = "finalizing", FinalEffect(w) PROVE RowsSettle
      BY <1>1, <3>1, BusyTask, FinalSettles DEF Busy, TypeOK, TasksOK
    <3>2. ASSUME phase[w] = "burying", Bury(w, task[w], seen[w]) PROVE RowsSettle
      BY <1>1, <3>2, BusyTask, BurySettles DEF Busy, TypeOK, TasksOK
    <3> QED
      BY <2>1, <2>2, <3>1, <3>2 DEF WorkerStep, Failure, Start, ClaimSend, ClaimApply, ClaimEmpty,
         ClaimReply, BodyEnds, Watchdog, BeatSend, BeatApply, BeatReply, Finalize, BuryExhausted,
         BreakLoop, DrainTimeout, Cleanup, ClaimError, FinalizeError, BuryError, BeatError,
         Shutdown, LateClaim, Crash, TakeLease, rowVars
  <2>3. ASSUME (\E j \in Jobs : Enqueue(j)) \/ Tick \/ UNCHANGED vars PROVE RowsSettle
    BY <2>1, <2>3 DEF Enqueue, Tick, vars, rowVars
  <2> QED
    BY <1>1, <2>2, <2>3 DEF Next
<1>2. TypeOK /\ [Next]_vars => [\A j \in Jobs : j \in queued /\ j \notin queued' =>
                                   Settled(j)' = Settled(j) + 1]_vars
  BY <1>1 DEF RowsSettle
<1> QED
  BY <1>2, TypeCorrect, PTL DEF Spec, NeverLost

\* While a body runs and its lease is not past the reclaim window, no step of any
\* worker, however late its own finalization is, takes the row from it.
THEOREM LeasesHonoured == Spec => LeaseHonoured
<1>1. ASSUME TypeOK, [Next]_vars, NEW w \in Workers, phase[w] = "running", phase'[w] = "running",
             Owns(w, task[w]), age[task[w]] <= Reclaim
      PROVE  Owns(w, task[w])'
  <2>1. task[w] \in Jobs
    BY <1>1, BusyTask DEF Busy, TypeOK, TasksOK
  <2>2. ASSUME NEW v \in Workers, v # w, WorkerStep(v) \/ Failure(v) PROVE Owns(w, task[w])'
    BY <1>1, <2>1, <2>2, OthersKeep DEF Keeps, Still, Owns
  <2>3. ASSUME WorkerStep(w) \/ Failure(w) PROVE Owns(w, task[w])'
    <3>1. ASSUME NEW p \in {"idle", "cleanup", "crashed"}, Leave(w, p) PROVE FALSE
      BY <1>1, <3>1 DEF Leave, TypeOK, TasksOK
    <3>2. ASSUME BeatSend(w) \/ BeatApply(w) \/ BeatError(w) \/ Shutdown(w) PROVE Owns(w, task[w])'
      BY <1>1, <3>2 DEF BeatSend, BeatApply, BeatError, Shutdown, Owns, rowVars, taskVars
    <3>3. ASSUME BeatReply(w) PROVE Owns(w, task[w])'
      BY <1>1, <3>1, <3>3 DEF BeatReply, Owns, rowVars
    <3>4. ASSUME LateClaim(w) PROVE Owns(w, task[w])'
      <4>1. \A k \in Jobs : Keeps(w, k)
        BY <1>1, <3>4, TakeKeeps DEF LateClaim, Keeps, Owns, rowVars
      <4> QED
        BY <1>1, <2>1, <3>4, <4>1 DEF LateClaim, taskVars, Keeps, Owns
    <3> QED
      BY <1>1, <2>3, <3>1, <3>2, <3>3, <3>4 DEF WorkerStep, Failure, Start, ClaimSend, ClaimApply,
         ClaimEmpty, ClaimReply, BodyEnds, Watchdog, Finalize, BuryExhausted, BreakLoop,
         DrainTimeout, Cleanup, ClaimError, FinalizeError, BuryError, Crash, TypeOK, TasksOK
  <2>4. ASSUME (\E j \in Jobs : Enqueue(j)) \/ Tick \/ UNCHANGED vars PROVE Owns(w, task[w])'
    BY <1>1, <2>4 DEF Enqueue, Tick, vars, rowVars, taskVars, Owns
  <2> QED
    BY <1>1, <2>2, <2>3, <2>4 DEF Next
<1>2. TypeOK /\ [Next]_vars =>
        [\A w \in Workers :
           phase[w] = "running" /\ phase'[w] = "running" /\ Owns(w, task[w]) /\ age[task[w]] <= Reclaim
             => Owns(w, task[w])']_vars
  BY <1>1
<1> QED
  BY <1>2, TypeCorrect, PTL DEF Spec, LeaseHonoured
-----------------------------------------------------------------------------
(* The tables keep QueuePromise *)

LEMMA PromiseStart == Init => Promise!PromiseInit
<1> SUFFICES ASSUME Init PROVE Promise!PromiseInit
  OBVIOUS
<1>1. \A j \in Jobs : JobState(j) = "new" /\ Failures(j) = 0
  BY DEF Init, JobState, Failures
<1> QED
  BY <1>1 DEF Init, Promise!PromiseInit

\* What a step leaves alone.
SameJob(j) ==
  /\ (j \in queued' <=> j \in queued) /\ acks'[j] = acks[j] /\ deadRows'[j] = deadRows[j]
  /\ deadErrors'[j] = deadErrors[j] /\ errors'[j] = errors[j]

LEMMA SameState ==
  ASSUME NEW j, SameJob(j)
  PROVE  JobState(j)' = JobState(j) /\ Failures(j)' = Failures(j)
  BY DEF SameJob, JobState, Failures

\* Where a job stands, by the invariants.
LEMMA Standing ==
  ASSUME TypeOK, BookInv, NEW j \in Jobs
  PROVE  /\ j \in queued => JobState(j) = "queued" /\ Failures(j) = errors[j]
         /\ (j \notin queued /\ acks[j] = 0 /\ deadRows[j] = 0) => JobState(j) = "new"
         /\ acks[j] \in Nat /\ deadRows[j] \in Nat /\ errors[j] \in Nat
  BY DEF BookInv, SettledOnce, Settled, TypeOK, RowsOK, JobState, Failures

LEMMA StatesFixed ==
  ASSUME \A j \in Jobs : SameJob(j)
  PROVE  /\ [j \in Jobs |-> JobState(j)]' = [j \in Jobs |-> JobState(j)]
         /\ [j \in Jobs |-> Failures(j)]' = [j \in Jobs |-> Failures(j)]
<1>1. \A j \in Jobs : JobState(j)' = JobState(j) /\ Failures(j)' = Failures(j)
  BY SameState
<1> QED
  BY <1>1

LEMMA PromiseClaim ==
  ASSUME TypeOK, BookInv, NEW w \in Workers, NEW j \in NextJobs, TakeLease(w, j)
  PROVE  Promise!PromiseNext
<1>1. j \in Jobs /\ j \in queued
  BY DEF NextJobs, Claimable
<1>2. JobState(j) = "queued" /\ Failures(j) = errors[j]
  BY <1>1, Standing
<1>3. \A i \in Jobs : JobState(i)' = JobState(i)
  BY DEF TakeLease, JobState
<1>4. /\ lockedBy' = [lockedBy EXCEPT ![j] = w] /\ owed' = owed \ {j}
      /\ errors' = [errors EXCEPT ![j] = ChargeClaim(j)] /\ UNCHANGED <<queued, deadRows, deadErrors>>
  BY DEF TakeLease
<1>5. deadRows[j] = 0
  BY <1>1 DEF BookInv, SettledOnce, Settled, TypeOK, RowsOK
<1>6. \A i \in Jobs : Failures(i)' = IF i = j THEN ChargeClaim(j) ELSE Failures(i)
  BY <1>1, <1>4, <1>5 DEF Failures, TypeOK, RowsOK
<1>7. CASE lockedBy[j] = NoOne
  <2>1. \A i \in Jobs : Failures(i)' = Failures(i)
    BY <1>2, <1>6, <1>7 DEF ChargeClaim
  <2>2. j \notin owed
    BY <1>7 DEF BookInv
  <2>3. Promise!Give(j, w)
    BY <1>1, <1>2, <1>3, <1>4, <1>7, <2>1, <2>2 DEF Promise!Give
  <2> QED
    BY <1>1, <2>3 DEF Promise!PromiseNext
<1>8. CASE lockedBy[j] # NoOne
  <2>1. \A i \in Jobs : Failures(i)' = IF i = j THEN Failures(j) + 1 ELSE Failures(i)
    BY <1>2, <1>6, <1>8 DEF ChargeClaim
  <2>2. Promise!TakeOver(j, w)
    BY <1>1, <1>2, <1>3, <1>4, <1>8, <2>1 DEF Promise!TakeOver, Promise!Held
  <2> QED
    BY <1>1, <2>2 DEF Promise!PromiseNext
<1> QED
  BY <1>7, <1>8

\* A worker that still owns the row of its claim has the job.
LEMMA HasInHand ==
  ASSUME TypeOK, BookInv, NEW w \in Workers, NEW j \in Jobs, task[w] = j, Owns(w, j)
  PROVE  /\ Promise!InHand(j) /\ lockedBy[j] = w
         /\ Failures(j) = seen[w] /\ JobState(j) = "queued"
         /\ acks[j] = 0 /\ deadRows[j] = 0
<1>1. j \in queued /\ lockedBy[j] = w /\ w # NoOne /\ j # NoJob
  BY IdAssumption DEF Owns
<1>2. JobState(j) = "queued" /\ Failures(j) = errors[j]
  BY <1>1, Standing
<1>3. j \notin owed /\ seen[w] = errors[j]
  BY <1>1 DEF BookInv, SnapshotCurrent, Owns
<1>4. acks[j] = 0 /\ deadRows[j] = 0
  BY <1>1 DEF BookInv, SettledOnce, Settled, TypeOK, RowsOK
<1> QED
  BY <1>1, <1>2, <1>3, <1>4 DEF Promise!InHand, Promise!Held

\* The row of j goes, and only j's state changes.
LEMMA PromiseSettles ==
  ASSUME TypeOK, BookInv, NEW w \in Workers, NEW j \in Jobs, task[w] = j, Owns(w, j), DropRow(j),
         \A i \in Jobs \ {j} :
           acks'[i] = acks[i] /\ deadRows'[i] = deadRows[i] /\ deadErrors'[i] = deadErrors[i],
         NEW CONSTANT end, JobState(j)' = end
  PROVE  Promise!Settle(j, end) /\ \A i \in Jobs \ {j} : Failures(i)' = Failures(i)
<1>1. Promise!InHand(j) /\ j \notin owed
  BY HasInHand DEF Promise!InHand
<1>2. /\ queued' = queued \ {j} /\ lockedBy' = [lockedBy EXCEPT ![j] = NoOne]
      /\ owed' = owed /\ errors' = errors
  BY <1>1 DEF DropRow
<1>3. \A i \in Jobs \ {j} : SameJob(i)
  BY <1>2 DEF SameJob
<1>4. \A i \in Jobs \ {j} : JobState(i)' = JobState(i) /\ Failures(i)' = Failures(i)
  BY <1>3, SameState
<1>5. [i \in Jobs |-> JobState(i)]' = [[i \in Jobs |-> JobState(i)] EXCEPT ![j] = end]
  BY <1>4
<1> QED
  BY <1>1, <1>2, <1>4, <1>5 DEF Promise!Settle

LEMMA PromiseBuries ==
  ASSUME TypeOK, BookInv, NEW w \in Workers, NEW j \in Jobs, task[w] = j,
         NEW n, n = seen[w] \/ n = seen[w] + 1, n > MaxRetries, Bury(w, j, n)
  PROVE  Promise!PromiseNext \/ UNCHANGED Promise!promiseVars
<1>1. CASE Owns(w, j)
  <2>1. /\ DropRow(j) /\ UNCHANGED acks
        /\ deadRows' = [deadRows EXCEPT ![j] = @ + 1] /\ deadErrors' = [deadErrors EXCEPT ![j] = n]
    BY <1>1 DEF Bury
  <2>2. acks[j] = 0 /\ deadRows[j] = 0 /\ Failures(j) = seen[w]
    BY <1>1, HasInHand
  <2>3. deadRows'[j] = 1 /\ deadErrors'[j] = n /\ acks'[j] = 0
    BY <2>1, <2>2 DEF TypeOK, RowsOK
  <2>4. JobState(j)' = "dead" /\ Failures(j)' = n
    BY <2>3 DEF JobState, Failures
  <2>5. \A i \in Jobs \ {j} :
          acks'[i] = acks[i] /\ deadRows'[i] = deadRows[i] /\ deadErrors'[i] = deadErrors[i]
    BY <2>1 DEF TypeOK, RowsOK
  <2>6. Promise!Settle(j, "dead") /\ \A i \in Jobs \ {j} : Failures(i)' = Failures(i)
    BY <1>1, <2>1, <2>4, <2>5, PromiseSettles
  <2>7. [i \in Jobs |-> Failures(i)]' = [[i \in Jobs |-> Failures(i)] EXCEPT ![j] = n]
    BY <2>4, <2>6
  <2>8. n \in {[i \in Jobs |-> Failures(i)][j], [i \in Jobs |-> Failures(i)][j] + 1}
    BY <2>2
  <2>9. Promise!Die(j)
    BY <2>6, <2>7, <2>8 DEF Promise!Die
  <2> QED
    BY <2>9 DEF Promise!PromiseNext
<1>2. CASE ~Owns(w, j)
  <2>1. UNCHANGED rowVars
    BY <1>2 DEF Bury
  <2>2. \A i \in Jobs : SameJob(i)
    BY <2>1 DEF rowVars, SameJob
  <2> QED
    BY <2>1, <2>2, StatesFixed DEF rowVars, Promise!promiseVars
<1> QED
  BY <1>1, <1>2

LEMMA PromiseRows ==
  ASSUME UNCHANGED <<queued, lockedBy, errors, deadRows, deadErrors, acks, owed>>
  PROVE  UNCHANGED Promise!promiseVars
<1>1. \A i \in Jobs : SameJob(i)
  BY DEF SameJob
<1> QED
  BY <1>1, StatesFixed DEF Promise!promiseVars

LEMMA PromiseFinal ==
  ASSUME TypeOK, BookInv, NEW w \in Workers, task[w] \in Jobs, FinalEffect(w)
  PROVE  Promise!PromiseNext \/ UNCHANGED Promise!promiseVars
<1> PICK j \in Jobs : task[w] = j
  OBVIOUS
<1>0. seen[w] \in Nat /\ MaxRetries \in Nat
  BY ConfigAssumption, Constants DEF TypeOK, TasksOK
<1>1. ASSUME UNCHANGED rowVars PROVE UNCHANGED Promise!promiseVars
  BY <1>1, PromiseRows DEF rowVars
<1>2. CASE ~failed[w] /\ Owns(w, j)
  <2>1. DropRow(j) /\ acks' = [acks EXCEPT ![j] = @ + 1] /\ UNCHANGED <<deadRows, deadErrors>>
    BY <1>2 DEF FinalEffect, Complete
  <2>2. acks[j] = 0 /\ deadRows[j] = 0 /\ errors'[j] = errors[j] /\ Failures(j) = errors[j]
    BY <1>2, <2>1, HasInHand DEF DropRow, Failures
  <2>3. acks'[j] = 1 /\ deadRows'[j] = 0
    BY <2>1, <2>2 DEF TypeOK, RowsOK
  <2>4. JobState(j)' = "done" /\ Failures(j)' = Failures(j)
    BY <2>2, <2>3 DEF JobState, Failures
  <2>5. \A i \in Jobs \ {j} :
          acks'[i] = acks[i] /\ deadRows'[i] = deadRows[i] /\ deadErrors'[i] = deadErrors[i]
    BY <2>1 DEF TypeOK, RowsOK
  <2>6. Promise!Settle(j, "done") /\ \A i \in Jobs \ {j} : Failures(i)' = Failures(i)
    BY <1>2, <2>1, <2>4, <2>5, PromiseSettles
  <2>7. [i \in Jobs |-> Failures(i)]' = [i \in Jobs |-> Failures(i)]
    BY <2>4, <2>6
  <2>8. Promise!Succeed(j)
    BY <2>6, <2>7 DEF Promise!Succeed
  <2> QED
    BY <2>8 DEF Promise!PromiseNext
<1>3. CASE failed[w] /\ GiveUp(w) /\ seen[w] < I32Max
  <2>1. seen[w] + 1 > MaxRetries /\ Bury(w, j, seen[w] + 1)
    BY <1>0, <1>3 DEF FinalEffect, GiveUp
  <2> QED
    BY <2>1, PromiseBuries
<1>4. CASE failed[w] /\ ~GiveUp(w) /\ Owns(w, j) /\ errors[j] < I32Max
  <2>1. /\ lockedBy' = [lockedBy EXCEPT ![j] = NoOne] /\ errors' = [errors EXCEPT ![j] = @ + 1]
        /\ owed' = owed \ {j} /\ UNCHANGED <<queued, deadRows, deadErrors, acks>>
    BY <1>4 DEF FinalEffect, Requeue
  <2>2. Promise!InHand(j) /\ Failures(j) = seen[w] /\ deadRows[j] = 0 /\ Failures(j) = errors[j]
    BY <1>4, HasInHand DEF Failures
  <2>3. seen[w] < MaxRetries
    BY <1>0, <1>4 DEF GiveUp
  <2>4. \A i \in Jobs : JobState(i)' = JobState(i)
    BY <2>1 DEF JobState
  <2>5. \A i \in Jobs : Failures(i)' = IF i = j THEN Failures(j) + 1 ELSE Failures(i)
    BY <2>1, <2>2 DEF Failures, TypeOK, RowsOK
  <2>6. owed' = owed
    BY <2>1, <2>2 DEF Promise!InHand
  <2>7. [i \in Jobs |-> JobState(i)]' = [i \in Jobs |-> JobState(i)]
    BY <2>4
  <2>8. [i \in Jobs |-> Failures(i)]' = [[i \in Jobs |-> Failures(i)] EXCEPT ![j] = @ + 1]
    BY <2>5
  <2>9. Promise!Retry(j)
    BY <2>1, <2>2, <2>3, <2>6, <2>7, <2>8 DEF Promise!Retry
  <2> QED
    BY <2>9 DEF Promise!PromiseNext
<1>5. CASE /\ ~(~failed[w] /\ Owns(w, j))
           /\ ~(failed[w] /\ GiveUp(w) /\ seen[w] < I32Max)
           /\ ~(failed[w] /\ ~GiveUp(w) /\ Owns(w, j) /\ errors[j] < I32Max)
  BY <1>1, <1>5 DEF FinalEffect, Complete, Requeue
<1> QED
  BY <1>2, <1>3, <1>4, <1>5

\* The watchdog, or a late answer to a claim, gives the lease up.
LEMMA PromiseGivesUp ==
  ASSUME TypeOK, BookInv, NEW w \in Workers, task[w] \in Jobs,
         owed' = IF lockedBy[task[w]] = w THEN owed \cup {task[w]} ELSE owed,
         UNCHANGED <<queued, lockedBy, errors, deadRows, deadErrors, acks>>
  PROVE  Promise!PromiseNext \/ UNCHANGED Promise!promiseVars
<1> PICK j \in Jobs : task[w] = j
  OBVIOUS
<1>1. CASE lockedBy[j] = w
  <2>1. Owns(w, j)
    BY <1>1, IdAssumption DEF Owns, BookInv
  <2>2. Promise!InHand(j) /\ owed' = owed \cup {j}
    BY <1>1, <2>1, HasInHand
  <2>3. \A i \in Jobs : SameJob(i)
    BY DEF SameJob
  <2>4. Promise!GiveUp(j)
    BY <2>2, <2>3, StatesFixed DEF Promise!GiveUp
  <2> QED
    BY <2>4 DEF Promise!PromiseNext
<1>2. CASE lockedBy[j] # w
  BY <1>2, PromiseRows
<1> QED
  BY <1>1, <1>2

\* What cleanup_worker_locks unlocks nobody has given up.
LEMMA PromiseHandsBack ==
  ASSUME TypeOK, BookInv, NEW w \in Workers, Cleanup(w)
  PROVE  Promise!PromiseNext
<1>1. /\ lockedBy' = [j \in Jobs |-> IF j \in Released(w) THEN NoOne ELSE lockedBy[j]]
      /\ UNCHANGED <<queued, errors, deadRows, deadErrors, acks, owed>>
  BY DEF Cleanup
<1>2. \A i \in Jobs : SameJob(i)
  BY <1>1 DEF SameJob
<1>3. ASSUME NEW j \in Released(w) PROVE j \in Jobs /\ Promise!InHand(j) /\ lockedBy[j] = w
  <2>1. j \in Jobs /\ j \in queued /\ lockedBy[j] = w /\ j \notin abandoned[w] /\ w # NoOne
    BY IdAssumption DEF Released, TypeOK, RowsOK
  <2>2. JobState(j) = "queued" /\ j \notin owed
    BY <2>1, Standing DEF BookInv
  <2> QED
    BY <2>1, <2>2 DEF Promise!InHand, Promise!Held
<1>4. Released(w) \in SUBSET {j \in Jobs : Promise!InHand(j) /\ lockedBy[j] = w}
  BY <1>3
<1>5. Promise!HandBack(w)
  BY <1>1, <1>2, <1>4, StatesFixed DEF Promise!HandBack
<1> QED
  BY <1>5 DEF Promise!PromiseNext

LEMMA PromiseStep ==
  ASSUME TypeOK, BookInv, [Next]_vars
  PROVE  Promise!PromiseNext \/ UNCHANGED Promise!promiseVars
<1>1. ASSUME NEW j \in Jobs, Enqueue(j) PROVE Promise!PromiseNext
  <2>1. /\ j \notin queued /\ acks[j] = 0 /\ deadRows[j] = 0 /\ queued' = queued \cup {j}
        /\ UNCHANGED <<lockedBy, errors, deadRows, deadErrors, acks, owed>>
    BY <1>1 DEF Enqueue
  <2>2. JobState(j) = "new" /\ JobState(j)' = "queued"
    BY <2>1, Standing DEF JobState
  <2>3. \A i \in Jobs \ {j} : JobState(i)' = JobState(i)
    BY <2>1 DEF JobState
  <2>4. \A i \in Jobs : Failures(i)' = Failures(i)
    BY <2>1 DEF Failures
  <2>5. [i \in Jobs |-> JobState(i)]' = [[i \in Jobs |-> JobState(i)] EXCEPT ![j] = "queued"]
    BY <2>2, <2>3
  <2>6. Promise!Accept(j)
    BY <2>1, <2>2, <2>4, <2>5 DEF Promise!Accept
  <2> QED
    BY <2>6 DEF Promise!PromiseNext
<1>2. ASSUME NEW w \in Workers, WorkerStep(w) \/ Failure(w)
      PROVE  Promise!PromiseNext \/ UNCHANGED Promise!promiseVars
  <2>1. phase[w] \in Busy => task[w] \in Jobs
    BY BusyTask DEF TypeOK, TasksOK
  <2>2. ASSUME UNCHANGED rowVars PROVE UNCHANGED Promise!promiseVars
    BY <2>2, PromiseRows DEF rowVars
  <2>3. ASSUME NEW j \in NextJobs, TakeLease(w, j) PROVE Promise!PromiseNext
    BY <2>3, PromiseClaim
  <2>4. CASE ClaimApply(w) \/ LateClaim(w)
    BY <2>2, <2>3, <2>4 DEF ClaimApply, LateClaim
  <2>5. CASE ClaimReply(w) \/ Watchdog(w)
    BY <2>1, <2>2, <2>5, PromiseGivesUp DEF ClaimReply, Watchdog, Busy
  <2>6. CASE BeatApply(w)
    BY <2>6, PromiseRows DEF BeatApply
  <2>7. CASE Cleanup(w)
    BY <2>7, PromiseHandsBack
  <2>8. CASE \/ Finalize(w) \/ FinalizeError(w) \/ BuryExhausted(w) \/ BuryError(w)
             \/ DrainTimeout(w) \/ Crash(w)
    <3>1. \/ UNCHANGED rowVars
          \/ phase[w] = "finalizing" /\ FinalEffect(w)
          \/ phase[w] = "burying" /\ Bury(w, task[w], seen[w])
      BY <2>8 DEF Finalize, FinalizeError, BuryExhausted, BuryError, DrainTimeout, Crash
    <3>2. CASE phase[w] = "burying" /\ Bury(w, task[w], seen[w])
      <4>1. task[w] \in Jobs /\ seen[w] > MaxRetries
        BY <2>1, <3>2 DEF Busy, BookInv
      <4> QED
        BY <3>2, <4>1, PromiseBuries
    <3> QED
      BY <2>1, <2>2, <3>1, <3>2, PromiseFinal DEF Busy
  <2>9. CASE \/ Start(w) \/ ClaimSend(w) \/ ClaimEmpty(w) \/ ClaimError(w) \/ BodyEnds(w)
             \/ BeatSend(w) \/ BeatReply(w) \/ BeatError(w) \/ BreakLoop(w) \/ Shutdown(w)
    BY <2>2, <2>9 DEF Start, ClaimSend, ClaimEmpty, ClaimError, BodyEnds, BeatSend, BeatReply,
       BeatError, BreakLoop, Shutdown
  <2> QED
    BY <1>2, <2>4, <2>5, <2>6, <2>7, <2>8, <2>9 DEF WorkerStep, Failure
<1>3. CASE Tick
  BY <1>3, PromiseRows DEF Tick
<1>4. CASE UNCHANGED vars
  BY <1>4, PromiseRows DEF vars, rowVars
<1> QED
  BY <1>1, <1>2, <1>3, <1>4 DEF Next

\* The statements of worker.rs keep QueuePromise for any sets of jobs and workers, any
\* accepted configuration and every failure: claims, reclaims, retries, completions,
\* dead letters, watchdogs and cleanups, answered or not, and the claims of workers that
\* are gone, are together one life for each job. It has at most one holder, never changes
\* hands without a charge while somebody has it, is settled by its holder alone, and
\* dies only after more than max_retries charged failures.
THEOREM TablesKeepPromise == Spec => KeepsQueuePromise
<1>1. TypeOK /\ BookInv /\ [Next]_vars => [Promise!PromiseNext]_(Promise!promiseVars)
  BY PromiseStep
<1> QED
  BY <1>1, PromiseStart, TypeCorrect, BookAlways, PTL
     DEF Spec, KeepsQueuePromise, Promise!PromiseSpec
=============================================================================
