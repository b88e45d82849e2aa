------------------------------ MODULE JobQueue ------------------------------
(***************************************************************************)
(* The Postgres-backed job queue of crates/cja/src/jobs: the rows of the   *)
(* tables jobs and dead_letter_jobs, and the workers that lease, run and   *)
(* finalize them (worker.rs).                                              *)
(*                                                                         *)
(* Time is relative: every timestamp the code compares with "now" is kept  *)
(* as the number of ticks that separate it from now, so Tick moves all of  *)
(* them at once and no absolute clock is needed.  A worker's own timers    *)
(* (tokio Instants) and the database's NOW() advance at the same rate.     *)
(* One SQL statement or transaction is one atomic step; sending it,        *)
(* its effect and its reply are three.                                     *)
(***************************************************************************)
EXTENDS Integers, FiniteSets

CONSTANTS
  Jobs,        \* job ids that may be enqueued
  Workers,     \* owner tokens: one per Worker::new, never reused
  NoOne,       \* locked_by IS NULL
  NoJob,       \* a worker that handles no job
  Priority,    \* Jobs -> Int, the priority bound at enqueue
  MaxRetries,  \* max_retries
  HalfBeat,    \* heartbeat_interval / 2, in ticks
  Reclaim,     \* reclaim_window, in ticks
  Stall,       \* ticks the runtime may fire a watchdog late
  Prompt,      \* the database answers before the lease it granted runs out
  I32Max,      \* the largest error_count the column holds
  LateCap,     \* bound: overdue rows older than this are not told apart
  MaxFaults    \* bound: failed claim and dead-letter exchanges

Beat == 2 * HalfBeat

\* LeaseTracker::deadline, as a distance from last_refresh_sent.
Deadline == Reclaim - HalfBeat

\* JobWorkerConfig::validate and the max_retries check of job_worker.
ASSUME ConfigAssumption ==
  /\ HalfBeat \in Nat \ {0}
  /\ Reclaim \in Nat
  /\ Reclaim >= 3 * Beat
  /\ I32Max \in Nat
  /\ MaxRetries \in 0..I32Max
  /\ Stall \in Nat
  /\ Prompt \in BOOLEAN
  /\ LateCap \in Nat
  /\ MaxFaults \in Nat

ASSUME IdAssumption ==
  /\ NoOne \notin Workers
  /\ NoJob \notin Jobs
  /\ Priority \in [Jobs -> Int]

VARIABLES
  \* the tables
  queued,      \* ids with a row in jobs
  lockedBy,    \* jobs.locked_by
  age,         \* ticks since jobs.locked_at, up to Reclaim + 1
  errors,      \* jobs.error_count
  due,         \* ticks until jobs.run_at, down to -LateCap
  deadRows,    \* how many dead_letter_jobs rows carry the id
  deadErrors,  \* error_count of that row
  \* the workers
  phase,       \* where job_worker stands
  task,        \* the job of the claim being handled
  seen,        \* JobFromDB.error_count, as the claim returned it
  charged,     \* previous_locked_by.is_some() of the claim
  failed,      \* the body returned Err or panicked
  since,       \* ticks since tracker.last_refresh_sent
  sentAgo,     \* ticks since the last heartbeat (or the claim) was sent
  beat,        \* the heartbeat statement: none, sent, or applied
  abandoned,   \* Worker.abandoned_jobs
  stopping,    \* the shutdown token is cancelled
  late,        \* a dropped claim statement is still with the server
  faults,      \* failed exchanges so far
  \* history
  acks,        \* how often a successful body's DELETE removed the row
  owed         \* jobs a watchdog gave up and no claim has charged yet

rowVars == <<queued, lockedBy, age, errors, due, deadRows, deadErrors, acks, owed>>
taskVars == <<task, seen, charged, failed, since, sentAgo, beat>>
loopVars == <<abandoned, stopping, late, faults>>
vars == <<rowVars, phase, taskVars, loopVars>>

Phases == {"new", "idle", "claiming", "claimed", "burying", "running",
           "finalizing", "cleanup", "stopped", "crashed"}

Init ==
  /\ queued = {}
  /\ lockedBy = [j \in Jobs |-> NoOne]
  /\ age = [j \in Jobs |-> 0]
  /\ errors = [j \in Jobs |-> 0]
  /\ due = [j \in Jobs |-> 0]
  /\ deadRows = [j \in Jobs |-> 0]
  /\ deadErrors = [j \in Jobs |-> 0]
  /\ phase = [w \in Workers |-> "new"]
  /\ task = [w \in Workers |-> NoJob]
  /\ seen = [w \in Workers |-> 0]
  /\ charged = [w \in Workers |-> FALSE]
  /\ failed = [w \in Workers |-> FALSE]
  /\ since = [w \in Workers |-> 0]
  /\ sentAgo = [w \in Workers |-> 0]
  /\ beat = [w \in Workers |-> "none"]
  /\ abandoned = [w \in Workers |-> {}]
  /\ stopping = [w \in Workers |-> FALSE]
  /\ late = [w \in Workers |-> FALSE]
  /\ faults = 0
  /\ acks = [j \in Jobs |-> 0]
  /\ owed = {}
-----------------------------------------------------------------------------
(* Enqueueing *)

\* enqueue_on_connection: run_at and created_at are both the enqueue time.
Enqueue(j) ==
  /\ j \notin queued /\ acks[j] = 0 /\ deadRows[j] = 0
  /\ queued' = queued \cup {j}
  /\ due' = [due EXCEPT ![j] = 0]
  /\ UNCHANGED <<lockedBy, age, errors, deadRows, deadErrors, acks, owed,
                 phase, taskVars, loopVars>>

(* The worker's local state *)

\* The claim is over: back to the top of job_worker's loop (or its exit).
Leave(w, p) ==
  /\ phase' = [phase EXCEPT ![w] = p]
  /\ task' = [task EXCEPT ![w] = NoJob]
  /\ seen' = [seen EXCEPT ![w] = 0]
  /\ charged' = [charged EXCEPT ![w] = FALSE]
  /\ failed' = [failed EXCEPT ![w] = FALSE]
  /\ since' = [since EXCEPT ![w] = 0]
  /\ sentAgo' = [sentAgo EXCEPT ![w] = 0]
  /\ beat' = [beat EXCEPT ![w] = "none"]

\* job_worker passes its checks and enters the loop.
Start(w) ==
  /\ phase[w] = "new"
  /\ phase' = [phase EXCEPT ![w] = "idle"]
  /\ UNCHANGED <<rowVars, taskVars, loopVars>>

(* Claiming: fetch_next_job *)

\* claim_sent_at is read before the statement is sent.
ClaimSend(w) ==
  /\ phase[w] = "idle"
  /\ phase' = [phase EXCEPT ![w] = "claiming"]
  /\ UNCHANGED <<rowVars, taskVars, loopVars>>

LeaseExpired_Never(j) == FALSE

\* locked_at < NOW() - reclaim_window
LeaseExpired(j) == lockedBy[j] # NoOne /\ age[j] > Reclaim

Claimable_Unbounded(j) ==
  /\ j \in queued
  /\ due[j] <= 0
  /\ lockedBy[j] = NoOne \/ LeaseExpired(j)

\* The WHERE clause of the claim.
Claimable(j) ==
  /\ j \in queued
  /\ due[j] <= 0
  /\ lockedBy[j] = NoOne \/ (LeaseExpired(j) /\ errors[j] < I32Max)

\* ORDER BY priority DESC, run_at ASC; equal rows come in any order.
Precedes(j, k) ==
  \/ Priority[j] > Priority[k]
  \/ Priority[j] = Priority[k] /\ due[j] <= due[k]

NextJobs == {j \in Jobs : Claimable(j) /\ \A k \in Jobs : Claimable(k) => Precedes(j, k)}

ChargeClaim_Free(j) == errors[j]

\* error_count after the claim: an expired lease is one more failure.
ChargeClaim(j) == IF lockedBy[j] = NoOne THEN errors[j] ELSE errors[j] + 1

\* RETURNING j.error_count
Returned(j) == ChargeClaim(j)

\* The row changes of the claim statement.
TakeLease(w, j) ==
  /\ lockedBy' = [lockedBy EXCEPT ![j] = w]
  /\ age' = [age EXCEPT ![j] = 0]
  /\ errors' = [errors EXCEPT ![j] = ChargeClaim(j)]
  /\ owed' = owed \ {j}
  /\ UNCHANGED <<queued, due, deadRows, deadErrors, acks>>

ClaimApply(w) ==
  /\ phase[w] = "claiming"
  /\ \E j \in NextJobs :
       /\ TakeLease(w, j)
       /\ task' = [task EXCEPT ![w] = j]
       /\ seen' = [seen EXCEPT ![w] = Returned(j)]
       /\ charged' = [charged EXCEPT ![w] = lockedBy[j] # NoOne]
  /\ phase' = [phase EXCEPT ![w] = "claimed"]
  /\ UNCHANGED <<failed, since, sentAgo, beat, loopVars>>

ClaimEmpty(w) ==
  /\ phase[w] = "claiming"
  /\ NextJobs = {}
  /\ Leave(w, "idle")
  /\ UNCHANGED <<rowVars, loopVars>>

Fault == faults < MaxFaults /\ faults' = faults + 1

\* The exchange failed before or after the statement took effect.
ClaimError(w) ==
  /\ phase[w] \in {"claiming", "claimed"}
  /\ Fault
  /\ Leave(w, "idle")
  /\ UNCHANGED <<rowVars, abandoned, stopping, late>>

\* previous_locked_by.is_some() && previous_error_count >= max_retries
Exhausted(w) == charged[w] /\ seen[w] - 1 >= MaxRetries

\* fetch_next_job forgets an abandonment once the row is claimed again; an
\* exhausted row goes to dead_letter_owned; run_next_job refuses a claim whose
\* answer is later than the lease deadline.
ClaimReply(w) ==
  /\ phase[w] = "claimed"
  /\ \/ /\ Exhausted(w)
        /\ phase' = [phase EXCEPT ![w] = "burying"]
        /\ abandoned' = [abandoned EXCEPT ![w] = @ \ {task[w]}]
        /\ UNCHANGED <<rowVars, taskVars>>
     \/ /\ ~Exhausted(w) /\ since[w] >= Deadline
        /\ Leave(w, "idle")
        /\ abandoned' = [abandoned EXCEPT ![w] = @ \cup {task[w]}]
        /\ owed' = IF lockedBy[task[w]] = w THEN owed \cup {task[w]} ELSE owed
        /\ UNCHANGED <<queued, lockedBy, age, errors, due, deadRows, deadErrors, acks>>
     \/ /\ ~Exhausted(w) /\ since[w] < Deadline
        /\ phase' = [phase EXCEPT ![w] = "running"]
        /\ abandoned' = [abandoned EXCEPT ![w] = @ \ {task[w]}]
        /\ UNCHANGED <<rowVars, taskVars>>
  /\ UNCHANGED <<stopping, late, faults>>
-----------------------------------------------------------------------------
(* Finalization statements.  Every one is guarded by locked_by = owner.     *)

Owns(w, j) == j \in queued /\ lockedBy[j] = w

\* The row of j is deleted.
DropRow(j) ==
  /\ queued' = queued \ {j}
  /\ lockedBy' = [lockedBy EXCEPT ![j] = NoOne]
  /\ age' = [age EXCEPT ![j] = 0]
  /\ owed' = owed \ {j}
  /\ UNCHANGED <<errors, due>>

Bury_Unowned(w, j, count) ==
  /\ deadRows' = [deadRows EXCEPT ![j] = @ + 1]
  /\ deadErrors' = [deadErrors EXCEPT ![j] = count]
  /\ IF Owns(w, j) THEN DropRow(j) ELSE UNCHANGED <<queued, lockedBy, age, errors, due, owed>>
  /\ UNCHANGED acks

Bury_NoInsert(w, j, count) ==
  /\ IF Owns(w, j) THEN DropRow(j) ELSE UNCHANGED <<queued, lockedBy, age, errors, due, owed>>
  /\ UNCHANGED <<deadRows, deadErrors, acks>>

\* dead_letter_owned: one transaction, the row is locked from its first
\* statement on.
Bury(w, j, count) ==
  IF Owns(w, j)
  THEN /\ DropRow(j)
       /\ deadRows' = [deadRows EXCEPT ![j] = @ + 1]
       /\ deadErrors' = [deadErrors EXCEPT ![j] = count]
       /\ UNCHANGED acks
  ELSE UNCHANGED rowVars

\* DELETE FROM jobs WHERE job_id AND locked_by
Complete(w, j) ==
  IF Owns(w, j)
  THEN DropRow(j) /\ acks' = [acks EXCEPT ![j] = @ + 1] /\ UNCHANGED <<deadRows, deadErrors>>
  ELSE UNCHANGED rowVars

\* The retry UPDATE: run_at = NOW() + 2^(error_count + 1) seconds.
Requeue(w, j) ==
  IF Owns(w, j) /\ errors[j] < I32Max
  THEN /\ lockedBy' = [lockedBy EXCEPT ![j] = NoOne]
       /\ age' = [age EXCEPT ![j] = 0]
       /\ errors' = [errors EXCEPT ![j] = @ + 1]
       /\ due' = [due EXCEPT ![j] = 2 ^ (errors[j] + 1)]
       /\ owed' = owed \ {j}
       /\ UNCHANGED <<queued, deadRows, deadErrors, acks>>
  ELSE UNCHANGED rowVars

GiveUp(w) == seen[w] >= MaxRetries

\* The statement run_next_job ends with.
FinalEffect(w) ==
  LET j == task[w] IN
  IF ~failed[w] THEN Complete(w, j)
  ELSE IF GiveUp(w) THEN IF seen[w] < I32Max THEN Bury(w, j, seen[w] + 1) ELSE UNCHANGED rowVars
  ELSE Requeue(w, j)

\* The statement succeeds, on one row or (lease lost) on none.
Finalize(w) ==
  /\ phase[w] = "finalizing"
  /\ FinalEffect(w)
  /\ Leave(w, "idle")
  /\ UNCHANGED loopVars

\* The exchange fails and the statement has, or has not, taken effect: the
\* row is then still locked, and its lease runs out.
FinalizeError(w) ==
  /\ phase[w] = "finalizing"
  /\ Fault
  /\ FinalEffect(w) \/ UNCHANGED rowVars
  /\ Leave(w, "idle")
  /\ UNCHANGED <<abandoned, stopping, late>>

\* dead_letter_owned for the exhausted lease; fetch_next_job returns None.
BuryExhausted(w) ==
  /\ phase[w] = "burying"
  /\ Bury(w, task[w], seen[w])
  /\ Leave(w, "idle")
  /\ UNCHANGED loopVars

BuryError(w) ==
  /\ phase[w] = "burying"
  /\ Fault
  /\ Bury(w, task[w], seen[w]) \/ UNCHANGED rowVars
  /\ Leave(w, "idle")
  /\ UNCHANGED <<abandoned, stopping, late>>
-----------------------------------------------------------------------------
(* The body and its lease: the select! loop of run_next_job                *)

\* The biased select! polls the body first, then the watchdog, then the
\* heartbeat.
LeaseFresh(w) == since[w] < Deadline

BodyEnds(w) ==
  /\ phase[w] = "running"
  /\ phase' = [phase EXCEPT ![w] = "finalizing"]
  /\ \E r \in BOOLEAN : failed' = [failed EXCEPT ![w] = r]
  /\ beat' = [beat EXCEPT ![w] = "none"]
  /\ since' = [since EXCEPT ![w] = 0]
  /\ sentAgo' = [sentAgo EXCEPT ![w] = 0]
  /\ UNCHANGED <<rowVars, task, seen, charged, loopVars>>

Watchdog(w) ==
  /\ phase[w] = "running"
  /\ since[w] >= Deadline
  /\ abandoned' = [abandoned EXCEPT ![w] = @ \cup {task[w]}]
  /\ owed' = IF lockedBy[task[w]] = w THEN owed \cup {task[w]} ELSE owed
  /\ Leave(w, "idle")
  /\ UNCHANGED <<queued, lockedBy, age, errors, due, deadRows, deadErrors, acks,
                 stopping, late, faults>>

BeatSend(w) ==
  /\ phase[w] = "running"
  /\ LeaseFresh(w)
  /\ beat[w] = "none" /\ sentAgo[w] >= Beat
  /\ beat' = [beat EXCEPT ![w] = "sent"]
  /\ sentAgo' = [sentAgo EXCEPT ![w] = 0]
  /\ UNCHANGED <<rowVars, phase, task, seen, charged, failed, since, loopVars>>

\* UPDATE jobs SET locked_at = NOW() WHERE job_id AND locked_by
BeatApply(w) ==
  /\ beat[w] = "sent"
  /\ \/ /\ Owns(w, task[w])
        /\ age' = [age EXCEPT ![task[w]] = 0]
        /\ beat' = [beat EXCEPT ![w] = "one"]
     \/ /\ ~Owns(w, task[w])
        /\ beat' = [beat EXCEPT ![w] = "zero"]
        /\ UNCHANGED age
  /\ UNCHANGED <<queued, lockedBy, errors, due, deadRows, deadErrors, acks, owed,
                 phase, task, seen, charged, failed, since, sentAgo, loopVars>>

RefreshedAgo_Reply(w) == 0

\* tracker.last_refresh_sent = heartbeat_sent_at
RefreshedAgo(w) == sentAgo[w]

BeatReply(w) ==
  /\ phase[w] = "running"
  /\ LeaseFresh(w)
  /\ \/ /\ beat[w] = "one"
        /\ since' = [since EXCEPT ![w] = RefreshedAgo(w)]
        /\ beat' = [beat EXCEPT ![w] = "none"]
        /\ UNCHANGED <<phase, task, seen, charged, failed, sentAgo>>
     \/ /\ beat[w] = "zero"
        /\ Leave(w, "idle")
  /\ UNCHANGED <<rowVars, loopVars>>

\* A failed or timed out heartbeat leaves the tracker alone.
BeatError(w) ==
  /\ phase[w] = "running"
  /\ LeaseFresh(w)
  /\ beat[w] # "none"
  /\ beat' = [beat EXCEPT ![w] = "none"]
  /\ UNCHANGED <<rowVars, phase, task, seen, charged, failed, since, sentAgo, loopVars>>
-----------------------------------------------------------------------------
(* Shutdown, cleanup and crashes *)

Shutdown(w) ==
  /\ phase[w] \notin {"new", "stopped", "crashed"}
  /\ ~stopping[w]
  /\ stopping' = [stopping EXCEPT ![w] = TRUE]
  /\ UNCHANGED <<rowVars, phase, taskVars, abandoned, late, faults>>

\* The loop breaks: a fetch in flight is dropped, and with it the answer to a
\* claim the server may still execute; a sleep just ends.
BreakLoop(w) ==
  /\ stopping[w]
  /\ phase[w] \in {"idle", "claiming", "claimed", "burying"}
  /\ late' = [late EXCEPT ![w] = phase[w] = "claiming"]
  /\ Leave(w, "cleanup")
  /\ UNCHANGED <<rowVars, abandoned, stopping, faults>>

\* shutdown_drain_timeout ends: run_claimed_job drops the body, or the
\* finalization that was in flight.
DrainTimeout(w) ==
  /\ stopping[w]
  /\ \/ phase[w] = "running" /\ UNCHANGED rowVars
     \/ phase[w] = "finalizing" /\ (FinalEffect(w) \/ UNCHANGED rowVars)
  /\ Leave(w, "cleanup")
  /\ UNCHANGED loopVars

\* A claim statement whose sender no longer waits for it.
LateClaim(w) ==
  /\ late[w]
  /\ \/ \E j \in NextJobs : TakeLease(w, j)
     \/ UNCHANGED rowVars
  /\ late' = [late EXCEPT ![w] = FALSE]
  /\ UNCHANGED <<phase, taskVars, abandoned, stopping, faults>>

Released_All(w) == {j \in queued : lockedBy[j] = w}

Released(w) == {j \in queued : lockedBy[j] = w /\ j \notin abandoned[w]}

\* cleanup_worker_locks: owned rows are unlocked and not charged.
Cleanup(w) ==
  /\ phase[w] = "cleanup"
  /\ lockedBy' = [j \in Jobs |-> IF j \in Released(w) THEN NoOne ELSE lockedBy[j]]
  /\ age' = [j \in Jobs |-> IF j \in Released(w) THEN 0 ELSE age[j]]
  /\ phase' = [phase EXCEPT ![w] = "stopped"]
  /\ UNCHANGED <<queued, errors, due, deadRows, deadErrors, acks, owed, taskVars, loopVars>>

\* The process dies, or cleanup_worker_locks fails: what was sent may still
\* take effect, nothing else is done.
Crash(w) ==
  /\ phase[w] \notin {"new", "stopped", "crashed"}
  /\ late' = [late EXCEPT ![w] = @ \/ phase[w] = "claiming"]
  /\ \/ phase[w] = "finalizing" /\ FinalEffect(w)
     \/ phase[w] = "burying" /\ Bury(w, task[w], seen[w])
     \/ UNCHANGED rowVars
  /\ Leave(w, "crashed")
  /\ UNCHANGED <<abandoned, stopping, faults>>
-----------------------------------------------------------------------------
AtMost(n, cap) == IF n > cap THEN cap ELSE n

\* Workers whose lease timer matters: from claim_sent_at to the end of the body.
Timed(w) == phase[w] \in {"claiming", "claimed", "running"}

\* A worker waits for an answer on which its lease of the row depends.
Outstanding(w) == phase[w] \in {"claimed", "burying", "finalizing"} /\ Owns(w, task[w])

\* One tick of time.  The runtime fires a watchdog at most Stall ticks late.
Tick ==
  /\ Prompt => \A w \in Workers : Outstanding(w) => age[task[w]] < Reclaim
  /\ \A w \in Workers : phase[w] = "running" => since[w] < Deadline + Stall
  /\ age' = [j \in Jobs |-> IF lockedBy[j] = NoOne THEN 0 ELSE AtMost(age[j] + 1, Reclaim + 1)]
  /\ due' = [j \in Jobs |-> IF due[j] > -LateCap /\ j \in queued THEN due[j] - 1 ELSE due[j]]
  /\ since' = [w \in Workers |-> IF Timed(w) THEN AtMost(since[w] + 1, Deadline + Stall) ELSE 0]
  /\ sentAgo' = [w \in Workers |-> IF Timed(w) THEN AtMost(sentAgo[w] + 1, Deadline + Stall) ELSE 0]
  /\ UNCHANGED <<queued, lockedBy, errors, deadRows, deadErrors, acks, owed,
                 phase, task, seen, charged, failed, beat, loopVars>>

WorkerStep(w) ==
  \/ Start(w) \/ ClaimSend(w) \/ ClaimApply(w) \/ ClaimEmpty(w) \/ ClaimReply(w)
  \/ BodyEnds(w) \/ Watchdog(w) \/ BeatSend(w) \/ BeatApply(w) \/ BeatReply(w)
  \/ Finalize(w) \/ BuryExhausted(w) \/ BreakLoop(w) \/ DrainTimeout(w) \/ Cleanup(w)

Failure(w) ==
  \/ ClaimError(w) \/ FinalizeError(w) \/ BuryError(w) \/ BeatError(w)
  \/ Shutdown(w) \/ LateClaim(w) \/ Crash(w)

Next ==
  \/ \E j \in Jobs : Enqueue(j)
  \/ \E w \in Workers : WorkerStep(w) \/ Failure(w)
  \/ Tick

Spec == Init /\ [][Next]_vars

(* Every step a live process and its database keep taking: time passes, the  *)
(* loop goes on, a statement that was sent is answered, a body returns.      *)
(* Failures are not fair, and MaxFaults bounds the exchanges that fail.      *)
LoopStep(w) ==
  \/ Start(w) \/ ClaimSend(w) \/ ClaimApply(w) \/ ClaimEmpty(w) \/ ClaimReply(w)
  \/ Watchdog(w) \/ Finalize(w) \/ BuryExhausted(w)

Fairness ==
  /\ WF_vars(Tick)
  /\ \A w \in Workers : WF_vars(LoopStep(w)) /\ WF_vars(BodyEnds(w))

FairSpec == Spec /\ Fairness
-----------------------------------------------------------------------------
(* Properties *)

RowsOK ==
  /\ queued \in SUBSET Jobs
  /\ lockedBy \in [Jobs -> Workers \cup {NoOne}]
  /\ age \in [Jobs -> 0..(Reclaim + 1)]
  /\ errors \in [Jobs -> 0..I32Max]
  /\ due \in [Jobs -> Int]
  /\ deadRows \in [Jobs -> Nat]
  /\ deadErrors \in [Jobs -> 0..I32Max]
  /\ acks \in [Jobs -> Nat]
  /\ owed \in SUBSET Jobs

TasksOK ==
  /\ phase \in [Workers -> Phases]
  /\ task \in [Workers -> Jobs \cup {NoJob}]
  /\ seen \in [Workers -> 0..I32Max]
  /\ charged \in [Workers -> BOOLEAN]
  /\ failed \in [Workers -> BOOLEAN]
  /\ since \in [Workers -> 0..(Deadline + Stall)]
  /\ sentAgo \in [Workers -> 0..(Deadline + Stall)]
  /\ beat \in [Workers -> {"none", "sent", "one", "zero"}]

LoopOK ==
  /\ abandoned \in [Workers -> SUBSET Jobs]
  /\ stopping \in [Workers -> BOOLEAN]
  /\ late \in [Workers -> BOOLEAN]
  /\ faults \in 0..MaxFaults

\* Every variable has its type: no reclaim, retry or dead letter computes an
\* error_count that the i32 column cannot hold.  A worker handles a job
\* exactly from the moment its claim took effect to the end of the finalization.
TypeOK ==
  /\ RowsOK /\ TasksOK /\ LoopOK
  /\ \A w \in Workers :
       task[w] # NoJob <=> phase[w] \in {"claimed", "burying", "running", "finalizing"}

\* The runtime has not fired w's watchdog half a heartbeat after its deadline.
Overdue(w) == since[w] > Deadline + HalfBeat

\* The lease protocol (claim_sent_at, heartbeat, watchdog, reclaim window) never
\* lets two workers run the body of one job at the same time, unless the runtime
\* of one of them is more than half a heartbeat late with its watchdog.
BodyExclusion ==
  \A v, w \in Workers :
    phase[v] = "running" /\ phase[w] = "running" /\ task[v] = task[w] /\ v # w
      => Overdue(v) \/ Overdue(w)

\* How often j was completed or dead-lettered.
Settled(j) == acks[j] + deadRows[j]

\* A job the queue accepted is never settled twice: it is a row of jobs, or was
\* completed once, or is one row of dead_letter_jobs, whichever of several
\* finalizations, reclaims and half-failed exchanges came first.
SettledOnce ==
  \A j \in Jobs : Settled(j) = 0 \/ (Settled(j) = 1 /\ j \notin queued)

\* Once accepted, a job leaves the jobs table only by being settled.
NeverLost ==
  [][\A j \in Jobs : j \in queued /\ j \notin queued' => Settled(j)' = Settled(j) + 1]_vars

\* A lease its watchdog gave up stays locked until a claim charges it, also when
\* the worker that gave it up then shuts down gracefully (abandoned_jobs).
AbandonmentIsCharged == \A j \in owed : j \in queued /\ lockedBy[j] # NoOne

\* A job reaches dead_letter_jobs only after max_retries + 1 charged failures.
NoEarlyDeadLetter == \A j \in Jobs : deadRows[j] > 0 => deadErrors[j] > MaxRetries

\* The error_count a worker decides retry or dead letter on is the row's own, as
\* long as it holds the lease: nobody else charges the row meanwhile.
SnapshotCurrent ==
  \A w \in Workers :
    task[w] # NoJob /\ Owns(w, task[w]) => seen[w] = errors[task[w]]

\* While a body runs, its row stays locked for it until the reclaim window has
\* passed: no claim, cleanup or late finalization of another worker (one whose
\* own lease was reclaimed while it stalled) touches the row.
LeaseHonoured ==
  [][\A w \in Workers :
       phase[w] = "running" /\ phase'[w] = "running" /\ Owns(w, task[w]) /\ age[task[w]] <= Reclaim
         => Owns(w, task[w])']_vars

\* What a row of jobs, or of dead_letter_jobs, says about its job.
JobState(j) ==
  IF acks[j] > 0 THEN "done" ELSE IF deadRows[j] > 0 THEN "dead"
  ELSE IF j \in queued THEN "queued" ELSE "new"

Failures(j) == IF deadRows[j] > 0 THEN deadErrors[j] ELSE errors[j]

Promise == INSTANCE QueuePromise WITH
  state <- [j \in Jobs |-> JobState(j)], holder <- lockedBy, givenUp <- owed,
  failures <- [j \in Jobs |-> Failures(j)]

\* The tables and their statements keep QueuePromise for every job: it never changes
\* hands without a charge while somebody has it, a charge is one failure and is never
\* lost, only a worker that has the job and has not given it up retries or settles
\* it, and a job that is done or dead stays so.
KeepsQueuePromise == Promise!PromiseSpec

\* With max_retries = N a job whose N + 1 failures are charged is not run again.
NoRunAfterExhaustion ==
  \A w \in Workers : phase[w] = "running" => seen[w] <= MaxRetries

SomeWorker == \E w \in Workers : phase[w] \notin {"stopped", "crashed"} /\ ~stopping[w]

\* Every accepted job is completed or dead-lettered while some worker lives:
\* crashes, failed exchanges, abandoned leases and retries only delay it.
EventuallySettled == \A j \in Jobs : (j \in queued) ~> (j \notin queued \/ ~SomeWorker)
=============================================================================
