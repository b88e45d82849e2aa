---------------------------- MODULE DurableRuns -----------------------------
(***************************************************************************)
(* One durable agent run of crates/cja-llm/src/durable: its row in         *)
(* agent_runs, its transcript in agent_messages, the AdvanceRunJob rows    *)
(* that advance it, and the attempts that execute those jobs.              *)
(*                                                                         *)
(* The queue is the one of module JobQueue, reduced to what an attempt     *)
(* relies on: a row is handed to one attempt at a time (BodyExclusion), a  *)
(* lease that runs out is charged (AbandonmentIsCharged), a row leaves the *)
(* table completed or dead-lettered (NeverLost).  A statement or           *)
(* transaction is one step, and so is what an attempt does between two.    *)
(* rig's AgentRun is external: what next_step, model_response and answer   *)
(* do to it is modelled as far as the engine depends on it.                *)
(***************************************************************************)
EXTENDS Integers, Sequences

CONSTANTS
  Attempts,    \* lease ids: `me` of advance_run
  NoOne,       \* locked_by IS NULL
  JobIds,      \* ids of AdvanceRunJob rows
  Responses,   \* what the model may answer
  Calls,       \* Responses -> sequences of calls; <<>> is a final answer
  Prompt,      \* the run's first message
  Result,      \* the message that carries the results of a batch of calls
  NoMsg, NoCall, NoJob,
  MaxTurns,    \* RunLimits.max_turns
  MaxRetries,  \* max_retries of the job workers
  MaxFaults    \* bound: failed exchanges, deaths, stalls and shutdowns

CallKinds == {"tool", "ask", "malformed", "bad_ask"}

ASSUME RunAssumption ==
  /\ NoOne \notin Attempts /\ NoJob \notin JobIds
  /\ Calls \in [Responses -> Seq(CallKinds)]
  /\ Prompt \notin Responses /\ Result \notin Responses /\ Prompt # Result
  /\ NoMsg \notin Responses \cup {Prompt, Result}
  /\ NoCall \notin Nat \X Nat
  /\ MaxTurns \in Nat \ {0} /\ MaxRetries \in Nat /\ MaxFaults \in Nat

VARIABLES
  \* the row of agent_runs, and agent_messages
  status,     \* "none" before start
  lockedBy,
  stale,      \* locked_at is older than lease_takeover
  cancelReq,  \* cancel_requested
  pending,    \* pending_call_id
  state,      \* run_state
  rows,       \* agent_messages in the order of seq
  \* the rows of jobs that carry the run's id
  queue, jobBy, jobErr,
  lettered,   \* some row of the run was dead-lettered
  \* an attempt
  pc,
  goal,       \* the write it is about to make
  run,        \* its AgentRun
  tainted,    \* the AgentRun holds content PostgreSQL cannot store
  written,    \* next_message_seq, as read before the write
  progress,   \* Attempt.progress
  job,        \* the job it executes
  stop,       \* the worker's shutdown token is cancelled
  late,       \* attempts whose claim is still with the server after its timeout
  faults,
  executed    \* history: calls that were handed to a tool

rowVars == <<status, lockedBy, stale, cancelReq, pending, state, rows>>
jobVars == <<queue, jobBy, jobErr, lettered>>
localVars == <<goal, run, tainted, written, progress, job, stop>>
vars == <<rowVars, jobVars, pc, localVars, late, faults, executed>>

Live == {"queued", "running"}
Terminal == {"succeeded", "failed", "cancelled"}
Persists == {"checkpoint", "response", "result", "correction", "final"}
Finishes == {"succeeded", "failed", "overrun", "cancelled", "row_cancelled", "row_failed"}
Goals == Persists \cup Finishes \cup {"park"}
Labels == {"off", "claim", "status", "loop", "calling", "budget", "tools", "executing",
           "project", "write", "unstorable", "let_go", "requeue", "release", "ok", "err"}
-----------------------------------------------------------------------------
(* rig's AgentRun (external) *)

Parts == {"idle", "call", "reply", "tools", "over"}

NewRun == [msgs |-> <<>>, held |-> NoMsg, open |-> <<>>, part |-> "idle", turn |-> 0]

\* AgentRun::next_step where it succeeds: it starts a turn, re-issues one that has no
\* response, commits a response, or re-emits the calls that are still open.
NextStep(r) ==
  CASE r.part = "idle"  -> [r EXCEPT !.msgs = IF r.turn = 0 THEN <<Prompt>> ELSE @,
                                     !.turn = @ + 1, !.part = "call"]
    [] r.part = "reply" -> [r EXCEPT !.msgs = Append(@, r.held), !.held = NoMsg,
                                     !.open = Calls[r.held],
                                     !.part = IF Calls[r.held] = <<>> THEN "over" ELSE "tools"]
    [] OTHER            -> r

\* next_step fails: PromptError::MaxTurns.
OutOfTurns(r) == r.part = "idle" /\ r.turn >= MaxTurns

\* AgentRun::model_response
ModelResponse(r, m) == [r EXCEPT !.held = m, !.part = "reply"]

\* AgentRun::answer for the first open call; the last answer commits the results.
Answered(r) ==
  IF Len(r.open) > 1
  THEN [r EXCEPT !.open = Tail(@)]
  ELSE [r EXCEPT !.open = <<>>, !.msgs = Append(@, Result), !.part = "idle"]

\* The wire id of the first open call: its message and its place in it.
CallId(r) == <<Len(r.msgs), Len(r.open)>>

\* Everything the run has on record, a response not yet committed included.
History(r) == IF r.held = NoMsg THEN r.msgs ELSE Append(r.msgs, r.held)
-----------------------------------------------------------------------------
Init ==
  /\ status = "none" /\ lockedBy = NoOne /\ stale = FALSE /\ cancelReq = FALSE
  /\ pending = NoCall /\ state = NewRun /\ rows = <<>>
  /\ queue = {} /\ jobBy = [j \in JobIds |-> NoOne] /\ jobErr = [j \in JobIds |-> 0]
  /\ lettered = FALSE
  /\ pc = [a \in Attempts |-> "off"]
  /\ goal = [a \in Attempts |-> "checkpoint"]
  /\ run = [a \in Attempts |-> NewRun]
  /\ tainted = [a \in Attempts |-> FALSE]
  /\ written = [a \in Attempts |-> 0]
  /\ progress = [a \in Attempts |-> FALSE]
  /\ job = [a \in Attempts |-> NoJob]
  /\ stop = [a \in Attempts |-> FALSE]
  /\ late = {} /\ faults = 0 /\ executed = {}

Fault == faults < MaxFaults /\ faults' = faults + 1

(* The job queue, as the run sees it *)

FreshJobs == {j \in JobIds : j \notin queue /\ \A a \in Attempts : job[a] # j}

\* enqueue_on_tx
EnqueueJob(j) ==
  /\ queue' = queue \cup {j}
  /\ jobBy' = [jobBy EXCEPT ![j] = NoOne]
  /\ jobErr' = [jobErr EXCEPT ![j] = 0]
  /\ UNCHANGED lettered

DropJob(j) == queue' = queue \ {j} /\ jobBy' = [jobBy EXCEPT ![j] = NoOne] /\ UNCHANGED jobErr

ChargeJob_Late(j) ==
  IF jobErr[j] > MaxRetries
  THEN DropJob(j) /\ lettered' = TRUE
  ELSE /\ jobBy' = [jobBy EXCEPT ![j] = NoOne]
       /\ jobErr' = [jobErr EXCEPT ![j] = @ + 1]
       /\ UNCHANGED <<queue, lettered>>

\* A charge: one more failure, or the dead letter.
ChargeJob(j) ==
  IF jobErr[j] >= MaxRetries
  THEN DropJob(j) /\ lettered' = TRUE
  ELSE /\ jobBy' = [jobBy EXCEPT ![j] = NoOne]
       /\ jobErr' = [jobErr EXCEPT ![j] = @ + 1]
       /\ UNCHANGED <<queue, lettered>>

\* The attempt ends and its locals are forgotten.
Clear(a) ==
  /\ goal' = [goal EXCEPT ![a] = "checkpoint"]
  /\ run' = [run EXCEPT ![a] = NewRun]
  /\ tainted' = [tainted EXCEPT ![a] = FALSE]
  /\ written' = [written EXCEPT ![a] = 0]
  /\ progress' = [progress EXCEPT ![a] = FALSE]
  /\ job' = [job EXCEPT ![a] = NoJob]
  /\ stop' = [stop EXCEPT ![a] = FALSE]

Go(a, l) == pc' = [pc EXCEPT ![a] = l]

\* A job worker leases a row and calls advance_run, with an id no row and no
\* statement carries.
TakeJob(a) ==
  /\ pc[a] = "off"
  /\ lockedBy # a /\ a \notin late /\ \A j \in queue : jobBy[j] # a
  /\ \E j \in queue :
       /\ jobBy[j] = NoOne
       /\ jobBy' = [jobBy EXCEPT ![j] = a]
       /\ job' = [job EXCEPT ![a] = j]
  /\ Go(a, "claim")
  /\ UNCHANGED <<rowVars, queue, jobErr, lettered, goal, run, tainted, written, progress, stop,
                 late, faults, executed>>

\* The lease of the job runs out: its worker is gone, or its finalization is late.
ReclaimJob(j) ==
  /\ j \in queue /\ jobBy[j] # NoOne
  /\ pc[jobBy[j]] = "off" \/ (pc[jobBy[j]] \in {"ok", "err"} /\ faults < MaxFaults)
  /\ faults' = IF pc[jobBy[j]] = "off" THEN faults ELSE faults + 1
  /\ ChargeJob(j)
  /\ UNCHANGED <<rowVars, pc, localVars, late, executed>>

\* The worker deletes the row on Ok, and charges it on Err.
EndJob(a) ==
  /\ \/ /\ pc[a] = "ok"
        /\ IF jobBy[job[a]] = a THEN DropJob(job[a]) /\ UNCHANGED lettered ELSE UNCHANGED jobVars
     \/ /\ pc[a] = "err"
        /\ IF jobBy[job[a]] = a THEN ChargeJob(job[a]) ELSE UNCHANGED jobVars
  /\ Go(a, "off") /\ Clear(a)
  /\ UNCHANGED <<rowVars, late, faults, executed>>
-----------------------------------------------------------------------------
(* The app's operations: start, answer, cancel *)

Start ==
  /\ status = "none"
  /\ \E j \in FreshJobs : EnqueueJob(j)
  /\ status' = "queued"
  /\ UNCHANGED <<lockedBy, stale, cancelReq, pending, state, rows, pc, localVars, late,
                 faults, executed>>

\* insert_messages: the messages from seq on; a seq that has a row keeps it.
InsertMessages(seq, msgs) ==
  rows \o SubSeq(msgs, (IF Len(rows) > seq THEN Len(rows) ELSE seq) + 1, Len(msgs))

Answer_NoRows ==
  /\ status = "waiting" /\ pending = CallId(state)
  /\ state' = Answered(state)
  /\ status' = "running" /\ pending' = NoCall /\ lockedBy' = NoOne /\ stale' = FALSE
  /\ \E j \in FreshJobs : EnqueueJob(j)
  /\ UNCHANGED <<rows, cancelReq, pc, localVars, late, faults, executed>>

\* One transaction under the row's lock.  A pending call that is not open in the
\* run is RunError::Corrupt and changes nothing.
Answer ==
  /\ status = "waiting" /\ pending = CallId(state)
  /\ state' = Answered(state)
  /\ rows' = InsertMessages(Len(rows), Answered(state).msgs)
  /\ status' = "running" /\ pending' = NoCall /\ lockedBy' = NoOne /\ stale' = FALSE
  /\ \E j \in FreshJobs : EnqueueJob(j)
  /\ UNCHANGED <<cancelReq, pc, localVars, late, faults, executed>>

CancelsNow_Any == status \notin {"none", "running"} \/ (status = "running" /\ (lockedBy = NoOne \/ stale))

\* cancel_run's decision: nobody can be at work on the run.
CancelsNow ==
  \/ status \in {"queued", "waiting"}
  \/ status = "running" /\ (lockedBy = NoOne \/ stale)

Cancel ==
  /\ \/ /\ CancelsNow
        /\ status' = "cancelled" /\ pending' = NoCall /\ lockedBy' = NoOne /\ stale' = FALSE
        /\ UNCHANGED cancelReq
     \/ /\ ~CancelsNow /\ status = "running"
        /\ cancelReq' = TRUE
        /\ UNCHANGED <<status, pending, lockedBy, stale>>
  /\ UNCHANGED <<state, rows, jobVars, pc, localVars, late, faults, executed>>

\* Time passes: a lease nobody refreshes gets older than lease_takeover.
Expire ==
  /\ status = "running" /\ lockedBy # NoOne /\ ~stale
  /\ stale' = TRUE
  /\ \/ pc[lockedBy] = "off" /\ UNCHANGED faults
     \/ pc[lockedBy] # "off" /\ Fault
  /\ UNCHANGED <<status, lockedBy, cancelReq, pending, state, rows, jobVars, pc, localVars,
                 late, executed>>
-----------------------------------------------------------------------------
(* claim_and_validate *)

\* The WHERE clause of try_claim.
RunClaimable ==
  \/ status = "queued"
  \/ status = "running" /\ (lockedBy = NoOne \/ stale)

Lease(a) ==
  /\ status' = "running" /\ lockedBy' = a /\ stale' = FALSE
  /\ UNCHANGED <<cancelReq, pending, state, rows>>

\* try_claim finds the run claimable.  A cancelled run, an unknown kind or a state
\* that does not deserialize is finished with what the row holds.
TryClaim(a) ==
  /\ pc[a] = "claim" /\ RunClaimable
  /\ Lease(a)
  /\ run' = [run EXCEPT ![a] = state]
  /\ written' = [written EXCEPT ![a] = Len(state.msgs)]
  /\ \/ ~cancelReq /\ Go(a, "loop") /\ UNCHANGED goal
     \/ cancelReq /\ Go(a, "write") /\ goal' = [goal EXCEPT ![a] = "row_cancelled"]
     \/ ~cancelReq /\ Go(a, "write") /\ goal' = [goal EXCEPT ![a] = "row_failed"]
  /\ UNCHANGED <<jobVars, tainted, progress, job, stop, late, faults, executed>>

NotClaimed(a) ==
  /\ pc[a] = "claim" /\ ~RunClaimable
  /\ Go(a, "status")
  /\ UNCHANGED <<rowVars, jobVars, localVars, late, faults, executed>>

\* leased_by_other is an error, so that this job stays; anything else is done.
ClaimOutcome == IF status = "running" THEN "err" ELSE "ok"

CurrentStatus(a) ==
  /\ pc[a] = "status"
  /\ Go(a, ClaimOutcome)
  /\ UNCHANGED <<rowVars, jobVars, localVars, late, faults, executed>>

\* The claim fails or times out: with or without its effect, or with the effect
\* still to come.  current_status fails the same way.
ClaimError(a) ==
  /\ Fault
  /\ \/ pc[a] = "claim" /\ RunClaimable /\ Lease(a) /\ UNCHANGED late
     \/ pc[a] = "claim" /\ late' = late \cup {a} /\ UNCHANGED rowVars
     \/ pc[a] = "status" /\ UNCHANGED <<rowVars, late>>
  /\ Go(a, "release")
  /\ UNCHANGED <<jobVars, localVars, executed>>

\* A claim whose sender no longer waits for it, held up at the row's lock.  Its
\* NOW() is the time it reached the server: no lease has become stale since.
LateClaim(a) ==
  /\ a \in late
  /\ late' = late \ {a}
  /\ IF RunClaimable /\ ~stale THEN Lease(a) ELSE UNCHANGED rowVars
  /\ UNCHANGED <<jobVars, pc, localVars, faults, executed>>
-----------------------------------------------------------------------------
(* advance_run *)

\* finish_run and persist read the high-water mark before they write.
Begin(a, g) == Go(a, "project") /\ goal' = [goal EXCEPT ![a] = g]

\* retry_or_requeue: a fresh job after progress, else release and Err.
Retry(a) == Go(a, IF progress[a] THEN "requeue" ELSE "release")

\* The top of the loop and the dispatch on next_step.
Loop(a) ==
  /\ pc[a] = "loop" /\ ~stop[a]
  /\ \/ /\ OutOfTurns(run[a])
        /\ Begin(a, "overrun")
        /\ UNCHANGED run
     \/ /\ ~OutOfTurns(run[a])
        /\ run' = [run EXCEPT ![a] = NextStep(@)]
        /\ \/ NextStep(run[a]).part = "call" /\ Begin(a, "checkpoint")
           \/ NextStep(run[a]).part = "call" /\ Begin(a, "failed")
           \/ NextStep(run[a]).part = "tools" /\ Go(a, "tools") /\ UNCHANGED goal
           \/ NextStep(run[a]).part = "over" /\ Begin(a, "final")
  /\ UNCHANGED <<rowVars, jobVars, tainted, written, progress, job, stop, late, faults, executed>>

LoopShutdown(a) ==
  /\ pc[a] = "loop" /\ stop[a]
  /\ Retry(a)
  /\ UNCHANGED <<rowVars, jobVars, localVars, late, faults, executed>>

\* The model call ends: with a response, with an error that is retried, or with
\* one (of the gateway, or a response the run rejects) that fails the run.
CallModel(a) ==
  /\ pc[a] = "calling"
  /\ \/ \E m \in Responses, bad \in BOOLEAN :
          /\ run' = [run EXCEPT ![a] = ModelResponse(@, m)]
          /\ tainted' = [tainted EXCEPT ![a] = bad]
          /\ Begin(a, "response")
     \/ Retry(a) /\ UNCHANGED <<goal, run, tainted>>
     \/ Begin(a, "failed") /\ UNCHANGED <<run, tainted>>
  /\ UNCHANGED <<rowVars, jobVars, written, progress, job, stop, late, faults, executed>>

\* max_total_tokens, once the response is on record.
Budget(a) ==
  /\ pc[a] = "budget"
  /\ \/ Go(a, "loop") /\ UNCHANGED goal
     \/ Begin(a, "failed")
  /\ UNCHANGED <<rowVars, jobVars, run, tainted, written, progress, job, stop, late, faults, executed>>

\* call_tools_step: the next call of the batch, or the end of the batch.
CallTools(a) ==
  /\ pc[a] = "tools"
  /\ LET r == run[a] IN
     \/ /\ r.part # "tools"
        /\ Go(a, "loop")
        /\ UNCHANGED <<goal, run, executed>>
     \/ /\ r.part = "tools" /\ Head(r.open) = "tool"
        /\ Go(a, "executing")
        /\ executed' = executed \cup {[id |-> CallId(r), message |-> r.msgs[Len(r.msgs)]]}
        /\ UNCHANGED <<goal, run>>
     \/ /\ r.part = "tools" /\ Head(r.open) = "ask"
        /\ Begin(a, "park")
        /\ UNCHANGED <<run, executed>>
     \/ /\ r.part = "tools" /\ Head(r.open) \in {"malformed", "bad_ask"}
        /\ run' = [run EXCEPT ![a] = Answered(@)]
        /\ Begin(a, IF Head(r.open) = "malformed" THEN "result" ELSE "correction")
        /\ UNCHANGED executed
     \/ /\ r.part = "tools" /\ Head(r.open) \in {"malformed", "bad_ask"}
        /\ Begin(a, "failed")
        /\ UNCHANGED <<run, executed>>
  /\ UNCHANGED <<rowVars, jobVars, tainted, written, progress, job, stop, late, faults>>

\* The tool returns; the result may hold content the sanitizer leaves alone, or be
\* one the run rejects.
ToolReturns(a) ==
  /\ pc[a] = "executing"
  /\ \/ /\ run' = [run EXCEPT ![a] = Answered(@)]
        /\ \E bad \in BOOLEAN : tainted' = [tainted EXCEPT ![a] = bad]
        /\ Begin(a, "result")
     \/ Begin(a, "failed") /\ UNCHANGED <<run, tainted>>
  /\ UNCHANGED <<rowVars, jobVars, written, progress, job, stop, late, faults, executed>>
-----------------------------------------------------------------------------
(* with_lease_guards, around the model call and the tool *)

OwnsRun_Any(a) == status = "running"

\* WHERE locked_by = me AND status = running
OwnsRun(a) == lockedBy = a /\ status = "running"

Guarded(a) == pc[a] \in {"calling", "executing"}

Heartbeat(a) ==
  /\ Guarded(a)
  /\ \/ /\ ~OwnsRun(a)
        /\ Go(a, "ok") /\ UNCHANGED <<stale, goal>>
     \/ /\ OwnsRun(a) /\ cancelReq
        /\ stale' = FALSE /\ Begin(a, "cancelled")
     \/ /\ OwnsRun(a) /\ ~cancelReq
        /\ stale' = FALSE /\ UNCHANGED <<pc, goal>>
  /\ UNCHANGED <<status, lockedBy, cancelReq, pending, state, rows, jobVars, run, tainted,
                 written, progress, job, stop, late, faults, executed>>

GuardError_Stop(a) == Go(a, "ok")

\* A heartbeat that failed or timed out proves nothing: the attempt is an error.
GuardError(a) == Retry(a)

HeartbeatError(a) ==
  /\ Guarded(a) /\ Fault
  /\ \/ OwnsRun(a) /\ stale' = FALSE
     \/ UNCHANGED stale
  /\ GuardError(a)
  /\ UNCHANGED <<status, lockedBy, cancelReq, pending, state, rows, jobVars, localVars, late, executed>>

GuardShutdown(a) ==
  /\ Guarded(a) /\ stop[a]
  /\ Go(a, "let_go")
  /\ UNCHANGED <<rowVars, jobVars, localVars, late, faults, executed>>
-----------------------------------------------------------------------------
(* Writes of an attempt *)

Project(a) ==
  /\ pc[a] = "project"
  /\ written' = [written EXCEPT ![a] = Len(rows)]
  /\ Go(a, "write")
  /\ UNCHANGED <<rowVars, jobVars, goal, run, tainted, progress, job, stop, late, faults, executed>>

Store(a) == state' = run[a] /\ rows' = InsertMessages(written[a], run[a].msgs)

\* persist_step
PersistStep(a) ==
  /\ Store(a) /\ stale' = FALSE
  /\ UNCHANGED <<status, lockedBy, cancelReq, pending>>

FinalStatus(g) ==
  CASE g = "succeeded" -> "succeeded"
    [] g \in {"cancelled", "row_cancelled"} -> "cancelled"
    [] OTHER -> "failed"

\* db::finish
Finish(a) ==
  /\ Store(a)
  /\ status' = FinalStatus(goal[a])
  /\ lockedBy' = NoOne /\ stale' = FALSE
  /\ UNCHANGED <<cancelReq, pending>>

SetWaiting_NoState(a) ==
  /\ status' = IF cancelReq THEN "cancelled" ELSE "waiting"
  /\ pending' = IF cancelReq THEN NoCall ELSE CallId(run[a])
  /\ lockedBy' = NoOne /\ stale' = FALSE
  /\ UNCHANGED <<cancelReq, state, rows>>

\* set_waiting: a cancel that came first wins, under the same row lock.
SetWaiting(a) ==
  /\ Store(a)
  /\ status' = IF cancelReq THEN "cancelled" ELSE "waiting"
  /\ pending' = IF cancelReq THEN NoCall ELSE CallId(run[a])
  /\ lockedBy' = NoOne /\ stale' = FALSE
  /\ UNCHANGED cancelReq

\* What the transaction of the goal does; it does nothing without the lease.
WriteEffect(a) ==
  IF ~OwnsRun(a) THEN UNCHANGED rowVars
  ELSE \/ goal[a] \in Persists /\ PersistStep(a)
       \/ goal[a] \in Finishes /\ Finish(a)
       \/ goal[a] = "park" /\ SetWaiting(a)

Advances_Any(g) == TRUE

\* `advanced`: a response or an answer, not the checkpoint or the last projection.
Advances(g) == g \in {"response", "result", "correction"}

\* Where a persist that succeeded leads.
After(g) ==
  CASE g = "checkpoint" -> "calling"
    [] g = "response"   -> "budget"
    [] g = "result"     -> "tools"
    [] g = "correction" -> "loop"
    [] OTHER            -> "project"

\* The write commits, or finds the lease lost; then the attempt stops silently.
Write(a) ==
  /\ pc[a] = "write" /\ ~tainted[a]
  /\ WriteEffect(a)
  /\ IF OwnsRun(a) /\ goal[a] \in Persists
     THEN /\ progress' = [progress EXCEPT ![a] = @ \/ Advances(goal[a])]
          /\ \/ cancelReq /\ Begin(a, "cancelled")
             \/ /\ ~cancelReq
                /\ Go(a, After(goal[a]))
                /\ goal' = [goal EXCEPT ![a] = IF @ = "final" THEN "succeeded" ELSE @]
     ELSE Go(a, "ok") /\ UNCHANGED <<progress, goal>>
  /\ UNCHANGED <<jobVars, run, tainted, written, job, stop, late, faults, executed>>

\* PostgreSQL rejects the content, whoever holds the lease.
Rejected(a) ==
  /\ pc[a] = "write" /\ tainted[a]
  /\ Go(a, "unstorable")
  /\ UNCHANGED <<rowVars, jobVars, localVars, late, faults, executed>>

UnstorableEffect(a) ==
  IF OwnsRun(a)
  THEN /\ status' = "failed" /\ lockedBy' = NoOne /\ stale' = FALSE
       /\ UNCHANGED <<cancelReq, pending, state, rows>>
  ELSE UNCHANGED rowVars

FailUnstorable(a) ==
  /\ pc[a] = "unstorable"
  /\ UnstorableEffect(a)
  /\ Go(a, "ok")
  /\ UNCHANGED <<jobVars, localVars, late, faults, executed>>

\* Where an attempt goes when a write failed: the write for a next_step error is
\* not followed by a requeue.
WriteFailed(a) == IF goal[a] = "overrun" THEN Go(a, "release") ELSE Retry(a)

\* A read or write fails or times out, before or after its effect.
WriteError(a) ==
  /\ Fault
  /\ \/ pc[a] = "project" /\ UNCHANGED rowVars
     \/ pc[a] = "write" /\ ~tainted[a] /\ (WriteEffect(a) \/ UNCHANGED rowVars)
     \/ pc[a] = "unstorable" /\ (UnstorableEffect(a) \/ UNCHANGED rowVars)
  /\ WriteFailed(a)
  /\ UNCHANGED <<jobVars, localVars, late, executed>>
-----------------------------------------------------------------------------
(* The end of an attempt *)

\* release_lease
ReleaseLease(a) ==
  IF OwnsRun(a)
  THEN lockedBy' = NoOne /\ stale' = FALSE /\ UNCHANGED <<status, cancelReq, pending, state, rows>>
  ELSE UNCHANGED rowVars

\* fail_retryable, and the release of a guard at shutdown; errors are ignored.
Release(a) ==
  /\ \/ ReleaseLease(a) /\ UNCHANGED faults
     \/ Fault /\ UNCHANGED rowVars
  /\ \/ pc[a] = "release" /\ Go(a, "err")
     \/ pc[a] = "let_go" /\ Retry(a)
  /\ UNCHANGED <<jobVars, localVars, late, executed>>

\* requeue_with_fresh_job: one transaction.
Requeue(a) ==
  /\ pc[a] = "requeue"
  /\ ReleaseLease(a)
  /\ \E j \in FreshJobs : EnqueueJob(j)
  /\ Go(a, "ok")
  /\ UNCHANGED <<localVars, late, faults, executed>>

RequeueError(a) ==
  /\ pc[a] = "requeue" /\ Fault
  /\ \/ ReleaseLease(a) /\ \E j \in FreshJobs : EnqueueJob(j)
     \/ UNCHANGED <<rowVars, jobVars>>
  /\ Go(a, "release")
  /\ UNCHANGED <<localVars, late, executed>>

Shutdown(a) ==
  /\ pc[a] # "off" /\ ~stop[a] /\ Fault
  /\ stop' = [stop EXCEPT ![a] = TRUE]
  /\ UNCHANGED <<rowVars, jobVars, pc, goal, run, tainted, written, progress, job, late, executed>>

\* What the server may still do for an attempt that is no longer there.
InFlight(a) ==
  \/ UNCHANGED <<rowVars, late>>
  \/ pc[a] = "claim" /\ late' = late \cup {a} /\ UNCHANGED rowVars
  \/ pc[a] = "claim" /\ RunClaimable /\ Lease(a) /\ UNCHANGED late
  \/ pc[a] = "write" /\ ~tainted[a] /\ WriteEffect(a) /\ UNCHANGED late
  \/ pc[a] = "unstorable" /\ UnstorableEffect(a) /\ UNCHANGED late

\* The process dies, or the worker's watchdog drops the attempt: the job stays
\* leased until it is reclaimed.
Die(a) ==
  /\ pc[a] # "off" /\ Fault
  /\ InFlight(a)
  /\ Go(a, "off") /\ Clear(a)
  /\ UNCHANGED <<jobVars, executed>>

\* The drain of a shutdown ends: the attempt is dropped and cleanup_worker_locks
\* unlocks its job without a charge.
Drain(a) ==
  /\ pc[a] # "off" /\ stop[a]
  /\ InFlight(a)
  /\ jobBy' = IF jobBy[job[a]] = a THEN [jobBy EXCEPT ![job[a]] = NoOne] ELSE jobBy
  /\ Go(a, "off") /\ Clear(a)
  /\ UNCHANGED <<queue, jobErr, lettered, faults, executed>>
-----------------------------------------------------------------------------
AttemptStep(a) ==
  \/ TakeJob(a) \/ EndJob(a)
  \/ TryClaim(a) \/ NotClaimed(a) \/ CurrentStatus(a)
  \/ Loop(a) \/ LoopShutdown(a) \/ CallModel(a) \/ Budget(a) \/ CallTools(a) \/ ToolReturns(a)
  \/ GuardShutdown(a) \/ Project(a) \/ Write(a) \/ Rejected(a) \/ FailUnstorable(a)
  \/ Release(a) \/ Requeue(a)

Failure(a) ==
  \/ ClaimError(a) \/ LateClaim(a) \/ HeartbeatError(a) \/ WriteError(a) \/ RequeueError(a)
  \/ Shutdown(a) \/ Die(a) \/ Drain(a)

Next ==
  \/ Start \/ Answer \/ Cancel \/ Expire
  \/ \E j \in JobIds : ReclaimJob(j)
  \/ \E a \in Attempts : AttemptStep(a) \/ Heartbeat(a) \/ Failure(a)

Spec == Init /\ [][Next]_vars

(* An attempt goes on, its calls return, leases that nobody refreshes and   *)
(* jobs nobody works on are noticed, a claim the server has is executed.    *)
Fairness ==
  /\ \A a \in Attempts : WF_vars(AttemptStep(a)) /\ WF_vars(LateClaim(a))
  /\ WF_vars(Expire)
  /\ \A j \in JobIds : WF_vars(ReclaimJob(j))

FairSpec == Spec /\ Fairness
-----------------------------------------------------------------------------
(* Properties *)

Messages == Responses \cup {Prompt, Result}

Runs == [msgs : Seq(Messages), held : Responses \cup {NoMsg}, open : Seq(CallKinds),
         part : Parts, turn : 0..MaxTurns]

\* In which shapes rig's state machine can be.
Wellformed(r) ==
  /\ r.part = "reply" <=> r.held # NoMsg
  /\ r.part = "tools" <=> r.open # <<>>

RowOK ==
  /\ status \in {"none", "waiting"} \cup Live \cup Terminal
  /\ lockedBy \in Attempts \cup {NoOne}
  /\ stale \in BOOLEAN /\ cancelReq \in BOOLEAN
  /\ pending \in (Nat \X Nat) \cup {NoCall}
  /\ state \in Runs /\ Wellformed(state)
  /\ rows \in Seq(Messages)

JobsOK ==
  /\ queue \subseteq JobIds
  /\ jobBy \in [JobIds -> Attempts \cup {NoOne}]
  /\ jobErr \in [JobIds -> 0..MaxRetries]
  /\ lettered \in BOOLEAN

AttemptsOK ==
  /\ pc \in [Attempts -> Labels]
  /\ goal \in [Attempts -> Goals]
  /\ run \in [Attempts -> Runs] /\ \A a \in Attempts : Wellformed(run[a])
  /\ tainted \in [Attempts -> BOOLEAN]
  /\ written \in [Attempts -> Nat]
  /\ progress \in [Attempts -> BOOLEAN]
  /\ job \in [Attempts -> JobIds \cup {NoJob}]
  /\ \A a \in Attempts : job[a] = NoJob <=> pc[a] = "off"
  /\ stop \in [Attempts -> BOOLEAN]
  /\ late \subseteq Attempts
  /\ faults \in 0..MaxFaults
  /\ executed \subseteq [id : Nat \X Nat, message : Messages]

\* Every variable has its type, and no turn is started beyond max_turns however
\* often a run is resumed.
TypeOK == RowOK /\ JobsOK /\ AttemptsOK

\* As long as a run is to be advanced, some job row will advance it, unless the
\* queue gave one up as a dead letter: no attempt that ends Ok, no lost lease, no
\* requeue and no duplicate job deletes the last row.
NeverOrphaned == status \in Live => queue # {} \/ lettered

\* The transcript rows are exactly the messages of the stored run: no attempt
\* overwrites, duplicates, skips or forks them.
TranscriptFaithful == rows = state.msgs

\* A run waits exactly for the ask that is the first open call of its stored
\* state, so that an answer finds its call, and a cancel that was accepted is never
\* parked behind a question.
WaitsForOpenAsk ==
  /\ status = "waiting" <=> pending # NoCall
  /\ status = "waiting" =>
       /\ state.part = "tools" /\ Head(state.open) = "ask"
       /\ pending = CallId(state)
  /\ cancelReq => status # "waiting"

\* A tool is only ever called for a call whose message is on the stored record,
\* and the record keeps it: a resumed run makes the same call with the same key.
ToolsOnRecord ==
  \A c \in executed :
    /\ c.id[1] <= Len(History(state))
    /\ History(state)[c.id[1]] = c.message

\* What a run has been through: history, then answered calls, then the turn.
Extends(r, s) ==
  /\ Len(History(s)) >= Len(History(r))
  /\ SubSeq(History(s), 1, Len(History(r))) = History(r)
  /\ s.turn >= r.turn
  /\ r.part = "tools" /\ Len(History(s)) = Len(History(r)) => Len(s.open) <= Len(r.open)

\* A stored run only moves forward: an attempt that lost its lease, or a late
\* write, never takes it back or replaces what is on record, and a run that ended
\* stays as it is.
RecordExtends ==
  [][/\ Extends(state, state')
     /\ status \in Terminal => UNCHANGED <<status, state, rows, pending, lockedBy>>]_vars

\* A run to be advanced ends, suspends or is given up as a dead letter: retries,
\* requeues and takeovers do not go on for ever.
RunSettles == (status \in Live) ~> (status \notin Live \/ lettered)

\* A cancel that was accepted for a live run ends it as cancelled, not as a success.
CancelHonoured == cancelReq => status # "succeeded"
=============================================================================
