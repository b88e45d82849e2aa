------------------------- MODULE DurableRunsProofs --------------------------
(***************************************************************************)
(* What holds of a durable run for any number of attempts and job rows,    *)
(* any model, any limits and any number of failures.                       *)
(***************************************************************************)
EXTENDS DurableRuns, SequenceTheorems, TLAPS

-----------------------------------------------------------------------------
(* The inductive invariant *)

\* Sequence s begins sequence t.
Begins(s, t) == Len(s) <= Len(t) /\ \A i \in 1..Len(s) : s[i] = t[i]

\* A run rig's state machine can be in; its first message comes with its first turn.
Good(r) ==
  /\ r \in Runs /\ Wellformed(r)
  /\ r.turn = 0 => r.part = "idle" /\ r.msgs = <<>>
  /\ r.turn # 0 => r.msgs # <<>>

\* r is s some steps later. Extends, closed under composition.
Ahead(s, r) ==
  /\ Begins(s.msgs, r.msgs)
  /\ Begins(History(s), History(r))
  /\ r.turn >= s.turn
  /\ s.part = "tools" /\ Len(History(s)) = Len(History(r)) =>
       r.part = "tools" /\ Len(r.open) <= Len(s.open)

Engaged == {"loop", "calling", "budget", "tools", "executing", "project", "write"}
Settled == {"loop", "budget", "tools", "executing"}

RunsGood == Good(state) /\ \A a \in Attempts : Good(run[a])

\* Where an attempt is, its AgentRun is in the part the code expects there; a
\* claim that is still with the server belongs to an attempt that gave it up.
PartFits(a) ==
  /\ pc[a] = "calling" => run[a].part = "call"
  /\ pc[a] = "executing" => run[a].part = "tools"
  /\ pc[a] \in {"project", "write"} =>
       /\ goal[a] = "checkpoint" => run[a].part = "call"
       /\ goal[a] = "park" => run[a].part = "tools" /\ Head(run[a].open) = "ask"
  /\ a \in late => pc[a] \in {"off", "release", "err"}

InStep == \A a \in Attempts : PartFits(a)

\* The holder of the lease is ahead of the stored run by what it is about to
\* write; what any attempt hands to a tool is on record.
RecordFits(a) ==
  /\ OwnsRun(a) /\ pc[a] \in Engaged => Ahead(state, run[a])
  /\ pc[a] \in Settled => Begins(History(run[a]), History(state))
  /\ written[a] <= Len(rows)

OwnerAhead == \A a \in Attempts : RecordFits(a)

ExecutedOnRecord ==
  \A c \in executed : /\ c.id[1] \in 1..Len(History(state))
                      /\ History(state)[c.id[1]] = c.message

\* A row is leased to the attempt that executes it, for as long as it is at work.
JobsLeased ==
  /\ \A j \in JobIds : jobBy[j] # NoOne => j \in queue
  /\ \A a \in Attempts : pc[a] \notin {"off", "ok", "err"} => jobBy[job[a]] = a
  /\ \A a \in Attempts, j \in JobIds : jobBy[j] = a /\ pc[a] # "off" => job[a] = j
  /\ status = "none" => queue = {}
  /\ \A a \in Attempts : pc[a] = "status" => status # "queued"

\* The attempt will delete its row: it has nothing to add to the run.
Doomed(a) ==
  \/ pc[a] = "ok"
  \/ pc[a] \in Engaged \cup {"unstorable"} /\ ~OwnsRun(a)

\* One row stays for a live run whatever the attempts that lost the lease do.
Anchored ==
  status \in Live => lettered \/ \E j \in queue : jobBy[j] = NoOne \/ ~Doomed(jobBy[j])

DurableInv ==
  /\ TypeOK /\ RunsGood /\ InStep
  /\ TranscriptFaithful /\ WaitsForOpenAsk /\ OwnerAhead /\ ExecutedOnRecord
  /\ JobsLeased /\ Anchored
-----------------------------------------------------------------------------
(* Lemmas about sequences and about rig's AgentRun *)

\* What begins a sequence that begins another begins that one too.
LEMMA BeginsTrans ==
  ASSUME NEW r \in Seq(Messages), NEW s \in Seq(Messages), NEW t \in Seq(Messages),
         Begins(r, s), Begins(s, t)
  PROVE  Begins(r, t)
  BY DEF Begins

\* A sequence begins itself and whatever one more message makes of it.
LEMMA BeginsAppend ==
  ASSUME NEW s \in Seq(Messages), NEW m \in Messages
  PROVE  /\ Begins(s, s) /\ Begins(s, Append(s, m))
         /\ Append(s, m) \in Seq(Messages) /\ Len(Append(s, m)) = Len(s) + 1
  BY DEF Begins

\* What a run has on record is a sequence of messages that its committed ones begin.
LEMMA HistoryType ==
  ASSUME NEW r, Good(r)
  PROVE  /\ History(r) \in Seq(Messages) /\ Begins(r.msgs, History(r))
         /\ r.msgs \in Seq(Messages)
  BY BeginsAppend DEF Good, Runs, Wellformed, History, Messages

\* The AgentRun a run starts with.
LEMMA NewRunGood == Good(NewRun)
  BY RunAssumption DEF Good, NewRun, Runs, Wellformed, Parts, Messages

\* Being ahead composes.
LEMMA AheadTrans ==
  ASSUME NEW r, NEW s, NEW t, Good(r), Good(s), Good(t), Ahead(r, s), Ahead(s, t)
  PROVE  Ahead(r, t)
  <1>1. /\ r.msgs \in Seq(Messages) /\ s.msgs \in Seq(Messages) /\ t.msgs \in Seq(Messages)
        /\ History(r) \in Seq(Messages) /\ History(s) \in Seq(Messages)
        /\ History(t) \in Seq(Messages)
    BY HistoryType
  <1>2. Begins(r.msgs, t.msgs) /\ Begins(History(r), History(t))
    BY <1>1, BeginsTrans DEF Ahead
  <1>3. t.turn >= r.turn
    BY DEF Ahead, Good, Runs
  <1>4. ASSUME r.part = "tools", Len(History(r)) = Len(History(t))
        PROVE  t.part = "tools" /\ Len(t.open) <= Len(r.open)
    <2>1. Len(History(r)) = Len(History(s)) /\ Len(History(s)) = Len(History(t))
      BY <1>1, <1>4 DEF Ahead, Begins
    <2>2. Len(r.open) \in Nat /\ Len(s.open) \in Nat /\ Len(t.open) \in Nat
      BY DEF Good, Runs
    <2> QED BY <2>1, <2>2, <1>4 DEF Ahead
  <1> QED BY <1>2, <1>3, <1>4 DEF Ahead

\* Every run is ahead of itself.
LEMMA AheadRefl ==
  ASSUME NEW r, Good(r)
  PROVE  Ahead(r, r)
  BY HistoryType, BeginsAppend DEF Ahead, Begins, Good, Runs

\* AgentRun::next_step keeps a run in shape, goes forward, and commits exactly
\* what the record holds.
LEMMA NextStepAhead ==
  ASSUME NEW r, Good(r), ~OutOfTurns(r)
  PROVE  /\ Good(NextStep(r)) /\ Ahead(r, NextStep(r))
         /\ NextStep(r).part = "tools" => History(NextStep(r)) = History(r)
  <1> DEFINE n == NextStep(r)
  <1>1. CASE r.part = "idle"
    <2>1. n = [r EXCEPT !.msgs = IF r.turn = 0 THEN <<Prompt>> ELSE @,
                        !.turn = @ + 1, !.part = "call"]
      BY <1>1 DEF NextStep
    <2>2. /\ n.msgs = IF r.turn = 0 THEN <<Prompt>> ELSE r.msgs
          /\ n.turn = r.turn + 1 /\ n.part = "call" /\ n.held = r.held /\ n.open = r.open
      BY <2>1 DEF Good, Runs
    <2>3. r.turn < MaxTurns
      BY <1>1, RunAssumption DEF OutOfTurns, Good, Runs
    <2>4. r.held = NoMsg /\ r.open = <<>>
      BY <1>1 DEF Good, Wellformed
    <2>a. <<Prompt>> \in Seq(Messages) /\ <<Prompt>> # <<>>
      BY DEF Messages
    <2>b. n.msgs \in Seq(Messages) /\ n.msgs # <<>>
      BY <2>a, <2>2 DEF Good, Runs
    <2>c. n.turn \in 0..MaxTurns /\ n.turn # 0
      BY <2>2, <2>3, RunAssumption DEF Good, Runs
    <2>d. n \in Runs
      BY <2>1, <2>2, <2>b, <2>c DEF Good, Runs, Parts
    <2>5. Good(n)
      BY <2>2, <2>4, <2>b, <2>c, <2>d DEF Good, Wellformed
    <2>6. History(n) = n.msgs /\ History(r) = r.msgs
      BY <2>2, <2>4 DEF History
    <2>7. Begins(r.msgs, n.msgs)
      BY <2>2, <2>5, BeginsAppend DEF Good, Runs, Begins
    <2>8. n.turn >= r.turn
      BY <2>2 DEF Good, Runs
    <2> QED BY <1>1, <2>2, <2>5, <2>6, <2>7, <2>8 DEF Ahead
  <1>2. CASE r.part = "reply"
    <2>1. n = [r EXCEPT !.msgs = Append(@, r.held), !.held = NoMsg, !.open = Calls[r.held],
                        !.part = IF Calls[r.held] = <<>> THEN "over" ELSE "tools"]
      BY <1>2 DEF NextStep
    <2>2. /\ n.msgs = Append(r.msgs, r.held) /\ n.held = NoMsg /\ n.open = Calls[r.held]
          /\ n.part = (IF Calls[r.held] = <<>> THEN "over" ELSE "tools") /\ n.turn = r.turn
      BY <2>1 DEF Good, Runs
    <2>3. r.held \in Responses /\ r.held # NoMsg /\ Calls[r.held] \in Seq(CallKinds)
      BY <1>2, RunAssumption DEF Good, Runs, Wellformed
    <2>4. n.msgs \in Seq(Messages) /\ n.msgs # <<>> /\ Begins(r.msgs, n.msgs)
      <3>1. r.msgs \in Seq(Messages) /\ r.held \in Messages
        BY <2>3 DEF Good, Runs, Messages
      <3> QED BY <3>1, <2>2, BeginsAppend, EmptySeq
    <2>5. r.turn # 0 /\ r.turn \in 0..MaxTurns
      BY <1>2 DEF Good, Runs
    <2>6. Good(n)
      BY <2>1, <2>2, <2>3, <2>4, <2>5 DEF Good, Runs, Wellformed, Parts
    <2>7. History(n) = n.msgs /\ History(r) = n.msgs
      BY <2>2, <2>3 DEF History
    <2>8. Begins(n.msgs, n.msgs)
      BY <2>4, BeginsAppend DEF Begins
    <2> QED BY <1>2, <2>2, <2>4, <2>5, <2>6, <2>7, <2>8 DEF Ahead
  <1>3. CASE r.part \notin {"idle", "reply"}
    BY <1>3, AheadRefl DEF NextStep
  <1> QED BY <1>1, <1>2, <1>3

\* AgentRun::model_response on a run that called the model.
LEMMA ModelResponseAhead ==
  ASSUME NEW r, Good(r), r.part = "call", NEW m \in Responses
  PROVE  Good(ModelResponse(r, m)) /\ Ahead(r, ModelResponse(r, m))
  <1> DEFINE n == ModelResponse(r, m)
  <1>1. n.msgs = r.msgs /\ n.held = m /\ n.open = r.open /\ n.part = "reply" /\ n.turn = r.turn
    BY DEF ModelResponse, Good, Runs
  <1>2. Good(n)
    BY <1>1, RunAssumption DEF ModelResponse, Good, Runs, Wellformed, Parts
  <1>3. History(r) = r.msgs /\ History(n) = Append(r.msgs, m)
    BY <1>1, RunAssumption DEF History, Good, Wellformed
  <1>4. r.msgs \in Seq(Messages) /\ m \in Messages /\ r.turn \in Nat
    BY DEF Good, Runs, Messages
  <1> QED BY <1>1, <1>2, <1>3, <1>4, BeginsAppend DEF Ahead

\* The tail of a sequence of two or more.
LEMMA TailProperties ==
  ASSUME NEW S, NEW s \in Seq(S), Len(s) > 1
  PROVE  Tail(s) \in Seq(S) /\ Tail(s) # <<>> /\ Len(Tail(s)) <= Len(s)
  <1>1. s # <<>>
    BY EmptySeq
  <1>2. Tail(s) \in Seq(S) /\ Len(Tail(s)) = Len(s) - 1
    BY <1>1, HeadTailProperties
  <1>3. Len(Tail(s)) # 0
    BY <1>2
  <1> QED BY <1>2, <1>3, EmptySeq

\* AgentRun::answer for the first of the open calls.
LEMMA AnsweredAhead ==
  ASSUME NEW r, Good(r), r.part = "tools"
  PROVE  Good(Answered(r)) /\ Ahead(r, Answered(r))
  <1> DEFINE n == Answered(r)
  <1>1. /\ r.msgs \in Seq(Messages) /\ r.open \in Seq(CallKinds) /\ r.turn \in 0..MaxTurns
        /\ r.open # <<>> /\ r.held = NoMsg /\ r.turn # 0 /\ r.msgs # <<>> /\ Result \in Messages
    BY DEF Good, Runs, Wellformed, Messages
  <1>2. CASE Len(r.open) > 1
    <2>1. /\ n.msgs = r.msgs /\ n.held = r.held /\ n.open = Tail(r.open) /\ n.part = "tools"
          /\ n.turn = r.turn
      BY <1>2 DEF Answered, Good, Runs
    <2>2. Tail(r.open) \in Seq(CallKinds) /\ Tail(r.open) # <<>>
          /\ Len(Tail(r.open)) <= Len(r.open)
      BY <1>1, <1>2, TailProperties
    <2>3. Good(n)
      BY <1>1, <1>2, <2>1, <2>2 DEF Good, Answered, Runs, Wellformed, Parts
    <2>4. History(n) = History(r) /\ History(r) = r.msgs
      BY <1>1, <2>1 DEF History
    <2> QED BY <1>1, <2>1, <2>2, <2>3, <2>4, BeginsAppend DEF Ahead
  <1>3. CASE ~(Len(r.open) > 1)
    <2>1. /\ n.msgs = Append(r.msgs, Result) /\ n.held = r.held /\ n.open = <<>>
          /\ n.part = "idle" /\ n.turn = r.turn
      BY <1>3 DEF Answered, Good, Runs
    <2>2. n.msgs \in Seq(Messages) /\ n.msgs # <<>> /\ Len(n.msgs) = Len(r.msgs) + 1
      BY <1>1, <2>1
    <2>a. n \in Runs
      <3>1. <<>> \in Seq(CallKinds) /\ r \in Runs
        BY EmptySeq DEF Good
      <3>2. n = [r EXCEPT !.open = <<>>, !.msgs = Append(@, Result), !.part = "idle"]
        BY <1>3 DEF Answered
      <3>3. n = [msgs |-> n.msgs, held |-> n.held, open |-> n.open, part |-> n.part, turn |-> n.turn]
        BY <3>1, <3>2 DEF Runs
      <3> QED BY <1>1, <2>1, <2>2, <3>1, <3>3 DEF Runs, Parts
    <2>3. Good(n)
      BY <1>1, <2>1, <2>2, <2>a DEF Good, Wellformed
    <2>4. History(n) = n.msgs /\ History(r) = r.msgs
      BY <1>1, <2>1 DEF History
    <2> QED BY <1>1, <2>1, <2>2, <2>3, <2>4, BeginsAppend DEF Ahead
  <1> QED BY <1>2, <1>3

\* insert_messages completes rows that begin the messages of a run: nothing is
\* repeated and nothing is left out.
LEMMA InsertCompletes ==
  ASSUME NEW s \in Seq(Messages), rows \in Seq(Messages), Begins(rows, s),
         NEW n \in Nat, n <= Len(rows)
  PROVE  InsertMessages(n, s) = s
  <1> DEFINE k == Len(rows)
             t == SubSeq(s, k + 1, Len(s))
  <1>1. InsertMessages(n, s) = rows \o t
    <2>1. (IF Len(rows) > n THEN Len(rows) ELSE n) = k
      OBVIOUS
    <2> QED BY <2>1 DEF InsertMessages
  <1>2. t \in Seq(Messages) /\ Len(t) = Len(s) - k /\ \A i \in 1..Len(t) : t[i] = s[k + i]
    BY DEF Begins
  <1>3. rows \o t \in Seq(Messages) /\ Len(rows \o t) = Len(s)
    BY <1>2
  <1>4. \A i \in 1..Len(s) : (rows \o t)[i] = s[i]
    <2> TAKE i \in 1..Len(s)
    <2>1. CASE i <= k
      BY <2>1, <1>2, <1>3 DEF Begins
    <2>2. CASE i > k
      BY <2>2, <1>2, <1>3 DEF Begins
    <2> QED BY <2>1, <2>2
  <1> QED BY <1>1, <1>3, <1>4, SeqEqual
-----------------------------------------------------------------------------
(* What a step does to the row of agent_runs and to the transcript *)

StepOf(a) == AttemptStep(a) \/ Heartbeat(a) \/ Failure(a)

Stores(a) ==
  /\ OwnsRun(a) /\ state' = run[a] /\ rows' = run[a].msgs /\ Ahead(state, run[a])
  /\ stale' = FALSE /\ UNCHANGED cancelReq
  /\ \/ UNCHANGED <<status, lockedBy, pending>>
     \/ status' \in Terminal /\ lockedBy' = NoOne /\ UNCHANGED pending
     \/ /\ ~cancelReq /\ status' = "waiting" /\ lockedBy' = NoOne
        /\ run[a].part = "tools" /\ Head(run[a].open) = "ask" /\ pending' = CallId(run[a])

RowStep(a) ==
  \/ UNCHANGED rowVars
  \/ RunClaimable /\ Lease(a)
  \/ Stores(a)
  \/ OwnsRun(a) /\ stale' = FALSE /\ UNCHANGED <<status, lockedBy, cancelReq, pending, state, rows>>
  \/ /\ OwnsRun(a) /\ status' \in {"running", "failed"} /\ lockedBy' = NoOne /\ stale' = FALSE
     /\ UNCHANGED <<cancelReq, pending, state, rows>>

\* A transaction that writes the run does so under the lease, and then the stored
\* run goes forward to the attempt's and the transcript is its messages.
LEMMA WriteStores ==
  ASSUME DurableInv, NEW a \in Attempts, pc[a] = "write", WriteEffect(a)
  PROVE  UNCHANGED rowVars \/ Stores(a)
  <1>1. CASE ~OwnsRun(a)
    BY <1>1 DEF WriteEffect
  <1>2. CASE OwnsRun(a)
    <2>1. Good(run[a]) /\ Ahead(state, run[a]) /\ rows = state.msgs /\ rows \in Seq(Messages)
          /\ written[a] \in Nat /\ written[a] <= Len(rows)
      BY <1>2 DEF DurableInv, RunsGood, OwnerAhead, RecordFits, Engaged, TranscriptFaithful,
                  TypeOK, RowOK, AttemptsOK
    <2>2. InsertMessages(written[a], run[a].msgs) = run[a].msgs
      BY <2>1, InsertCompletes, HistoryType DEF Ahead
    <2>3. status = "running" /\ pending = NoCall
      BY <1>2 DEF OwnsRun, DurableInv, WaitsForOpenAsk
    <2>4. CASE goal[a] \in Persists /\ PersistStep(a)
      BY <1>2, <2>1, <2>2, <2>4 DEF PersistStep, Store, Stores
    <2>5. CASE goal[a] \in Finishes /\ Finish(a)
      BY <1>2, <2>1, <2>2, <2>5 DEF Finish, Store, Stores, FinalStatus, Terminal
    <2>6. CASE goal[a] = "park" /\ SetWaiting(a)
      <3>1. run[a].part = "tools" /\ Head(run[a].open) = "ask"
        BY <2>6 DEF DurableInv, InStep, PartFits
      <3> QED BY <1>2, <2>1, <2>2, <2>3, <2>6, <3>1 DEF SetWaiting, Store, Stores, Terminal
    <2> QED BY <1>2, <2>4, <2>5, <2>6 DEF WriteEffect
  <1> QED BY <1>1, <1>2

\* What an attempt does to the row, in any of its steps.
LEMMA AttemptRow ==
  ASSUME DurableInv, NEW a \in Attempts, StepOf(a)
  PROVE  RowStep(a)
  <1>1. ASSUME UnstorableEffect(a)
        PROVE  RowStep(a)
    BY <1>1 DEF UnstorableEffect, RowStep
  <1>2. ASSUME ReleaseLease(a)
        PROVE  RowStep(a)
    BY <1>2 DEF ReleaseLease, RowStep, OwnsRun
  <1>3. ASSUME InFlight(a)
        PROVE  RowStep(a)
    BY <1>1, <1>3, WriteStores DEF InFlight, RowStep
  <1>4. CASE TryClaim(a) \/ ClaimError(a) \/ LateClaim(a)
    BY <1>4 DEF TryClaim, ClaimError, LateClaim, RowStep
  <1>5. CASE Write(a) \/ WriteError(a)
    BY <1>1, <1>5, WriteStores DEF Write, WriteError, RowStep
  <1>6. CASE Release(a) \/ Requeue(a) \/ RequeueError(a)
    BY <1>2, <1>6 DEF Release, Requeue, RequeueError, RowStep
  <1>7. CASE Die(a) \/ Drain(a)
    BY <1>3, <1>7 DEF Die, Drain
  <1>8. CASE FailUnstorable(a)
    BY <1>1, <1>8 DEF FailUnstorable
  <1>9. CASE Heartbeat(a) \/ HeartbeatError(a)
    BY <1>9 DEF Heartbeat, HeartbeatError, RowStep, rowVars
  <1>10. CASE TakeJob(a) \/ EndJob(a) \/ NotClaimed(a) \/ CurrentStatus(a) \/ Loop(a)
              \/ LoopShutdown(a) \/ CallModel(a) \/ Budget(a) \/ CallTools(a) \/ ToolReturns(a)
              \/ GuardShutdown(a) \/ Project(a) \/ Rejected(a) \/ Shutdown(a)
    BY <1>10 DEF TakeJob, EndJob, NotClaimed, CurrentStatus, Loop, LoopShutdown, CallModel,
                 Budget, CallTools, ToolReturns, GuardShutdown, Project, Rejected, Shutdown, RowStep
  <1> QED BY <1>4, <1>5, <1>6, <1>7, <1>8, <1>9, <1>10 DEF StepOf, AttemptStep, Failure

\* The row's own invariants, and what a step may do to what is stored.
RowInv ==
  /\ RowOK /\ Good(state) /\ TranscriptFaithful /\ WaitsForOpenAsk

Forward ==
  /\ Ahead(state, state')
  /\ status \in Terminal => UNCHANGED <<status, state, rows, pending, lockedBy>>

\* The id of an open call is not NoCall.
LEMMA CallIdType ==
  ASSUME NEW r, Good(r)
  PROVE  CallId(r) \in Nat \X Nat /\ CallId(r) # NoCall
  BY RunAssumption DEF CallId, Good, Runs

\* No step of an attempt breaks the row: the transcript stays the messages of the
\* stored run, the stored run goes forward, and a run that ended is left alone.
LEMMA AttemptKeepsRow ==
  ASSUME DurableInv, NEW a \in Attempts, RowStep(a)
  PROVE  RowInv' /\ Forward
  <1> USE DEF RowInv, Forward
  <1>1. /\ RowOK /\ Good(state) /\ TranscriptFaithful /\ WaitsForOpenAsk /\ Good(run[a])
        /\ Ahead(state, state)
    BY AheadRefl DEF DurableInv, TypeOK, RunsGood
  <1>2. CASE UNCHANGED rowVars
    BY <1>1, <1>2 DEF rowVars, RowOK, TranscriptFaithful, WaitsForOpenAsk
  <1>3. CASE RunClaimable /\ Lease(a)
    BY <1>1, <1>3 DEF RunClaimable, Lease, RowOK, TranscriptFaithful, WaitsForOpenAsk, Live, Terminal
  <1>4. CASE Stores(a)
    <2>1. state' = run[a] /\ Good(state') /\ state' \in Runs /\ Wellformed(state')
      BY <1>1, <1>4 DEF Stores, Good
    <2>2. rows' = state'.msgs /\ rows' \in Seq(Messages)
      BY <1>1, <1>4, HistoryType DEF Stores
    <2>3. status = "running" /\ pending = NoCall
      BY <1>1, <1>4 DEF Stores, OwnsRun, WaitsForOpenAsk
    <2>4. CallId(run[a]) \in Nat \X Nat /\ CallId(run[a]) # NoCall
      BY <1>1, CallIdType
    <2>5. RowOK'
      BY <1>1, <1>4, <2>1, <2>2, <2>3, <2>4 DEF Stores, RowOK, Live, Terminal
    <2>6. WaitsForOpenAsk'
      BY <1>1, <1>4, <2>1, <2>3, <2>4 DEF Stores, WaitsForOpenAsk, Terminal, CallId
    <2>7. Forward
      BY <1>4, <2>1, <2>3 DEF Stores, Terminal
    <2> QED BY <2>1, <2>2, <2>5, <2>6, <2>7 DEF TranscriptFaithful
  <1>5. CASE OwnsRun(a) /\ stale' = FALSE
             /\ UNCHANGED <<status, lockedBy, cancelReq, pending, state, rows>>
    BY <1>1, <1>5 DEF RowOK, TranscriptFaithful, WaitsForOpenAsk
  <1>6. CASE /\ OwnsRun(a) /\ status' \in {"running", "failed"} /\ lockedBy' = NoOne /\ stale' = FALSE
             /\ UNCHANGED <<cancelReq, pending, state, rows>>
    BY <1>1, <1>6 DEF OwnsRun, RowOK, TranscriptFaithful, WaitsForOpenAsk, Live, Terminal
  <1> QED BY <1>2, <1>3, <1>4, <1>5, <1>6 DEF RowStep

AppStep == Start \/ Answer \/ Cancel \/ Expire \/ \E j \in JobIds : ReclaimJob(j)

\* Nor does the app or the queue: an answer goes to a call that is open.
LEMMA AppKeepsRow ==
  ASSUME DurableInv, AppStep
  PROVE  RowInv' /\ Forward
  <1> USE DEF RowInv, Forward
  <1>1. /\ RowOK /\ Good(state) /\ TranscriptFaithful /\ WaitsForOpenAsk /\ Ahead(state, state)
    BY AheadRefl DEF DurableInv, TypeOK, RunsGood
  <1>2. CASE Start
    BY <1>1, <1>2 DEF Start, RowOK, TranscriptFaithful, WaitsForOpenAsk, Live, Terminal
  <1>3. CASE Answer
    <2>1. state.part = "tools" /\ status = "waiting"
      BY <1>1, <1>3 DEF Answer, WaitsForOpenAsk
    <2>2. state' = Answered(state) /\ Good(state') /\ Ahead(state, state')
      BY <1>1, <1>3, <2>1, AnsweredAhead DEF Answer
    <2>3. Begins(rows, state'.msgs) /\ state'.msgs \in Seq(Messages) /\ rows \in Seq(Messages)
      BY <1>1, <2>2, HistoryType DEF Ahead, TranscriptFaithful, RowOK
    <2>4. Len(rows) \in Nat /\ Len(rows) <= Len(rows)
      BY <2>3
    <2>5. rows' = state'.msgs
      BY <1>3, <2>2, <2>3, <2>4, InsertCompletes DEF Answer
    <2>6. RowOK'
      BY <1>1, <1>3, <2>2, <2>3, <2>5 DEF Answer, RowOK, Live, Good
    <2>7. WaitsForOpenAsk'
      BY <1>3 DEF Answer, WaitsForOpenAsk
    <2> QED BY <2>1, <2>2, <2>5, <2>6, <2>7 DEF TranscriptFaithful, Terminal
  <1>4. CASE Cancel
    BY <1>1, <1>4 DEF Cancel, CancelsNow, RowOK, TranscriptFaithful, WaitsForOpenAsk, Live, Terminal
  <1>5. CASE Expire
    BY <1>1, <1>5 DEF Expire, RowOK, TranscriptFaithful, WaitsForOpenAsk
  <1>6. CASE \E j \in JobIds : ReclaimJob(j)
    BY <1>1, <1>6 DEF ReclaimJob, rowVars, RowOK, TranscriptFaithful, WaitsForOpenAsk
  <1> QED BY <1>2, <1>3, <1>4, <1>5, <1>6 DEF AppStep

\* Every step.
LEMMA RowStepInv ==
  ASSUME DurableInv, [Next]_vars
  PROVE  RowInv' /\ Forward
  <1>1. CASE UNCHANGED vars
    BY <1>1, AheadRefl DEF vars, rowVars, RowInv, Forward, DurableInv, TypeOK, RunsGood, RowOK,
                           TranscriptFaithful, WaitsForOpenAsk
  <1>2. CASE AppStep
    BY <1>2, AppKeepsRow
  <1>3. ASSUME NEW a \in Attempts, StepOf(a)
        PROVE  RowInv' /\ Forward
    BY <1>3, AttemptRow, AttemptKeepsRow
  <1> QED BY <1>1, <1>2, <1>3 DEF Next, AppStep, StepOf

\* What was on record stays on record, and the transcript never gets shorter.
LEMMA RecordStays ==
  ASSUME DurableInv, RowInv', Forward
  PROVE  /\ ExecutedOnRecord /\ UNCHANGED executed => ExecutedOnRecord'
         /\ Len(rows) \in Nat /\ Len(rows') \in Nat /\ Len(rows) <= Len(rows')
         /\ \A a \in Attempts : Begins(History(run[a]), History(state)) =>
                                  Begins(History(run[a]), History(state'))
  <1>1. /\ Begins(History(state), History(state')) /\ Begins(state.msgs, state'.msgs)
        /\ History(state) \in Seq(Messages) /\ History(state') \in Seq(Messages)
        /\ \A a \in Attempts : History(run[a]) \in Seq(Messages)
    BY HistoryType DEF Forward, Ahead, RowInv, DurableInv, RunsGood
  <1>2. ASSUME ExecutedOnRecord, UNCHANGED executed
        PROVE  ExecutedOnRecord'
    <2>1. History(state') = History(state)'
      BY DEF History
    <2>2. ASSUME NEW c \in executed
          PROVE  /\ c.id[1] \in 1..Len(History(state'))
                 /\ History(state')[c.id[1]] = c.message
      <3>1. c.id[1] \in 1..Len(History(state)) /\ History(state)[c.id[1]] = c.message
        BY <1>2 DEF ExecutedOnRecord
      <3> QED BY <1>1, <3>1 DEF Begins
    <2> QED BY <1>2, <2>1, <2>2 DEF ExecutedOnRecord
  <1>3. Len(rows) \in Nat /\ Len(rows') \in Nat /\ Len(rows) <= Len(rows')
    BY <1>1 DEF RowInv, RowOK, TranscriptFaithful, DurableInv, TypeOK, Begins
  <1> QED BY <1>1, <1>2, <1>3, BeginsTrans
-----------------------------------------------------------------------------
(* What a step does to the attempts *)

\* The other attempts: they keep their locals, and one of them that holds the lease
\* after the step held it before, with the same run on record.
LEMMA Bystanders ==
  ASSUME DurableInv, NEW a \in Attempts, StepOf(a), NEW b \in Attempts, b # a
  PROVE  /\ pc'[b] = pc[b] /\ goal'[b] = goal[b] /\ run'[b] = run[b]
         /\ written'[b] = written[b] /\ job'[b] = job[b]
         /\ b \in late' => b \in late
         /\ OwnsRun(b)' => OwnsRun(b) /\ state' = state
  <1>1. OwnsRun(b)' => OwnsRun(b) /\ state' = state
    BY AttemptRow, RunAssumption DEF RowStep, Stores, Lease, OwnsRun, rowVars
  <1>2. CASE AttemptStep(a) \/ Heartbeat(a)
    BY <1>2, <1>1 DEF AttemptStep, Heartbeat, TakeJob, EndJob, TryClaim, NotClaimed, CurrentStatus,
         Loop, LoopShutdown, CallModel, Budget, CallTools, ToolReturns, GuardShutdown, Project,
         Write, Rejected, FailUnstorable, Release, Requeue, Retry, Begin, Go, Clear, localVars,
         DurableInv, TypeOK, AttemptsOK
  <1>3. CASE Failure(a)
    BY <1>3, <1>1 DEF Failure, ClaimError, LateClaim, HeartbeatError, WriteError, RequeueError,
         Shutdown, Die, Drain, InFlight, GuardError, WriteFailed, Retry, Begin, Go, Clear,
         localVars, DurableInv, TypeOK, AttemptsOK
  <1> QED BY <1>2, <1>3 DEF StepOf

Fits(a) == Good(run[a]) /\ PartFits(a) /\ RecordFits(a)

\* What the lemmas on the attempt itself start from.
LEMMA OwnFacts ==
  ASSUME DurableInv, NEW a \in Attempts, StepOf(a)
  PROVE  /\ Good(state) /\ Good(run[a]) /\ Fits(a) /\ RowInv' /\ Forward
         /\ pc \in [Attempts -> Labels] /\ goal \in [Attempts -> Goals]
         /\ run \in [Attempts -> Runs] /\ written \in [Attempts -> Nat]
         /\ Len(rows) \in Nat /\ Len(rows') \in Nat /\ Len(rows) <= Len(rows')
  BY AttemptRow, AttemptKeepsRow, RecordStays
  DEF DurableInv, TypeOK, AttemptsOK, RunsGood, InStep, OwnerAhead, Fits

\* The steps after which the attempt is not at work on the run.
LEMMA StepAside ==
  ASSUME DurableInv, NEW a \in Attempts, StepOf(a),
         \/ TakeJob(a) \/ EndJob(a) \/ NotClaimed(a) \/ CurrentStatus(a) \/ ClaimError(a)
         \/ LoopShutdown(a) \/ GuardShutdown(a) \/ Rejected(a) \/ FailUnstorable(a) \/ Release(a)
         \/ Requeue(a) \/ HeartbeatError(a) \/ WriteError(a) \/ RequeueError(a) \/ Die(a) \/ Drain(a)
  PROVE  Fits(a)'
  <1>1. pc'[a] \notin Engaged /\ pc'[a] \notin Settled /\ (a \in late' => pc'[a] \in {"off", "release", "err"})
    BY OwnFacts DEF Engaged, Settled, Fits, PartFits, TakeJob, EndJob, NotClaimed, CurrentStatus,
       ClaimOutcome, ClaimError, LoopShutdown, GuardShutdown, Rejected, FailUnstorable, Release,
       Requeue, HeartbeatError, GuardError, WriteError, WriteFailed, RequeueError, Die, Drain,
       InFlight, Guarded, Retry, Go
  <1>2. run'[a] \in {run[a], NewRun} /\ written'[a] \in {written[a], 0}
    BY OwnFacts DEF TakeJob, EndJob, NotClaimed, CurrentStatus, ClaimError, LoopShutdown,
       GuardShutdown, Rejected, FailUnstorable, Release, Requeue, HeartbeatError, WriteError,
       RequeueError, Die, Drain, Clear, localVars
  <1>3. Good(run'[a]) /\ written'[a] <= Len(rows')
    BY <1>2, OwnFacts, NewRunGood DEF Fits, RecordFits
  <1> QED BY <1>1, <1>3 DEF Fits, PartFits, RecordFits, Engaged, Settled

\* The steps that leave the attempt where it is.
LEMMA StandStill ==
  ASSUME DurableInv, NEW a \in Attempts, StepOf(a), LateClaim(a) \/ Shutdown(a)
  PROVE  Fits(a)'
  <1>1. UNCHANGED <<pc, goal, run, written>> /\ late' \subseteq late
    BY DEF LateClaim, Shutdown, localVars
  <1>2. CASE LateClaim(a)
    BY <1>1, <1>2, OwnFacts DEF LateClaim, Fits, PartFits, RecordFits, Engaged, Settled
  <1>3. CASE Shutdown(a)
    BY <1>1, <1>3, OwnFacts DEF Shutdown, rowVars, Fits, PartFits, RecordFits, OwnsRun, Engaged, Settled
  <1> QED BY <1>2, <1>3

\* The claim, and the mark that is read before a write.
LEMMA StepIn ==
  ASSUME DurableInv, NEW a \in Attempts, StepOf(a), TryClaim(a) \/ Project(a)
  PROVE  Fits(a)'
  <1>1. CASE TryClaim(a)
    <2>a. a \notin late
      BY <1>1, OwnFacts DEF TryClaim, Fits, PartFits
    <2>b. pc'[a] = "loop" \/ (pc'[a] = "write" /\ goal'[a] \in {"row_cancelled", "row_failed"})
      BY <1>1, OwnFacts DEF TryClaim, Go
    <2>1. /\ run'[a] = state /\ state' = state /\ rows' = rows /\ written'[a] = Len(state.msgs)
          /\ late' = late
      BY <1>1, OwnFacts DEF TryClaim, Lease
    <2>2. Ahead(state, state) /\ Begins(History(state), History(state)) /\ rows = state.msgs
      BY OwnFacts, AheadRefl DEF Ahead, DurableInv, TranscriptFaithful
    <2> QED BY <2>a, <2>b, <2>1, <2>2, OwnFacts DEF Fits, PartFits, RecordFits
  <1>2. CASE Project(a)
    <2>1. /\ run' = run /\ goal' = goal /\ late' = late /\ UNCHANGED rowVars
          /\ pc[a] = "project" /\ pc'[a] = "write" /\ written'[a] = Len(rows)
      BY <1>2, OwnFacts DEF Project, Go
    <2> QED BY <2>1, OwnFacts DEF Fits, PartFits, RecordFits, OwnsRun, rowVars, Engaged, Settled
  <1> QED BY <1>1, <1>2

\* The top of the loop: next_step, and what it leads to.
LEMMA LoopFits ==
  ASSUME DurableInv, NEW a \in Attempts, StepOf(a), Loop(a)
  PROVE  Fits(a)'
  <1> DEFINE r == run[a]
             n == NextStep(run[a])
  <1>1. /\ UNCHANGED <<rowVars, written, late>> /\ pc[a] = "loop" /\ a \notin late
        /\ (OwnsRun(a) => Ahead(state, r)) /\ Begins(History(r), History(state))
        /\ written[a] <= Len(rows)
    BY OwnFacts DEF Loop, Fits, PartFits, RecordFits, Engaged, Settled
  <1>2. OwnsRun(a)' <=> OwnsRun(a)
    BY <1>1 DEF OwnsRun, rowVars
  <1>3. CASE OutOfTurns(r)
    <2>1. run' = run /\ pc'[a] = "project" /\ goal'[a] = "overrun"
      BY <1>3, OwnFacts DEF Loop, Begin, Go
    <2> QED BY <1>1, <1>2, <2>1, OwnFacts DEF Fits, PartFits, RecordFits, rowVars, Settled
  <1>4. CASE ~OutOfTurns(r)
    <2>1. /\ run'[a] = n
          /\ \/ n.part = "call" /\ pc'[a] = "project" /\ goal'[a] \in {"checkpoint", "failed"}
             \/ n.part = "tools" /\ pc'[a] = "tools"
             \/ n.part = "over" /\ pc'[a] = "project" /\ goal'[a] = "final"
      BY <1>4, OwnFacts DEF Loop, Begin, Go
    <2>2. Good(n) /\ Ahead(r, n) /\ (n.part = "tools" => History(n) = History(r))
      BY <1>4, OwnFacts, NextStepAhead
    <2>3. OwnsRun(a) => Ahead(state, n)
      BY <1>1, <2>2, OwnFacts, AheadTrans
    <2> QED BY <1>1, <1>2, <2>1, <2>2, <2>3, OwnFacts DEF Fits, PartFits, RecordFits, rowVars, Settled
  <1> QED BY <1>3, <1>4

\* The model call and its guards.
LEMMA CallFits ==
  ASSUME DurableInv, NEW a \in Attempts, StepOf(a), CallModel(a) \/ Budget(a) \/ Heartbeat(a)
  PROVE  Fits(a)'
  <1> DEFINE r == run[a]
  <1>1. CASE CallModel(a)
    <2>1. /\ UNCHANGED <<rowVars, written, late>> /\ pc[a] = "calling" /\ a \notin late
          /\ (OwnsRun(a) => Ahead(state, r)) /\ r.part = "call" /\ written[a] <= Len(rows)
      BY <1>1, OwnFacts DEF CallModel, Fits, PartFits, RecordFits, Engaged
    <2>2. OwnsRun(a)' <=> OwnsRun(a)
      BY <2>1 DEF OwnsRun, rowVars
    <2>3. \/ run'[a] = r /\ pc'[a] \in {"requeue", "release"}
          \/ run'[a] = r /\ pc'[a] = "project" /\ goal'[a] = "failed"
          \/ \E m \in Responses : run'[a] = ModelResponse(r, m) /\ pc'[a] = "project" /\ goal'[a] = "response"
      BY <1>1, OwnFacts DEF CallModel, Retry, Begin, Go
    <2>4. ASSUME NEW m \in Responses
          PROVE  Good(ModelResponse(r, m)) /\ (OwnsRun(a) => Ahead(state, ModelResponse(r, m)))
      BY <2>1, OwnFacts, ModelResponseAhead, AheadTrans
    <2> QED BY <2>1, <2>2, <2>3, <2>4, OwnFacts DEF Fits, PartFits, RecordFits, rowVars, Settled, Engaged
  <1>2. CASE Budget(a)
    <2>1. /\ UNCHANGED <<rowVars, written, late, run>> /\ pc[a] = "budget"
          /\ pc'[a] = "loop" \/ (pc'[a] = "project" /\ goal'[a] = "failed")
      BY <1>2, OwnFacts DEF Budget, Begin, Go
    <2> QED BY <2>1, OwnFacts DEF Fits, PartFits, RecordFits, OwnsRun, rowVars, Settled, Engaged
  <1>3. CASE Heartbeat(a)
    <2>1. /\ UNCHANGED <<status, lockedBy, state, rows, written, late, run>>
          /\ pc[a] \in {"calling", "executing"}
          /\ \/ pc'[a] = "ok"
             \/ pc'[a] = "project" /\ goal'[a] = "cancelled"
             \/ UNCHANGED <<pc, goal>>
      BY <1>3, OwnFacts DEF Heartbeat, Guarded, Begin, Go
    <2> QED BY <2>1, OwnFacts DEF Fits, PartFits, RecordFits, OwnsRun, Settled, Engaged
  <1> QED BY <1>1, <1>2, <1>3

\* The calls of a batch.
LEMMA ToolsFits ==
  ASSUME DurableInv, NEW a \in Attempts, StepOf(a), CallTools(a) \/ ToolReturns(a)
  PROVE  Fits(a)'
  <1> DEFINE r == run[a]
  <1>1. /\ UNCHANGED <<rowVars, written, late>> /\ pc[a] \in {"tools", "executing"} /\ a \notin late
        /\ (OwnsRun(a) => Ahead(state, r)) /\ Begins(History(r), History(state))
        /\ written[a] <= Len(rows) /\ (pc[a] = "executing" => r.part = "tools")
    BY OwnFacts DEF CallTools, ToolReturns, Fits, PartFits, RecordFits, Engaged, Settled
  <1>2. OwnsRun(a)' <=> OwnsRun(a)
    BY <1>1 DEF OwnsRun, rowVars
  <1>3. \/ run'[a] = r /\ pc'[a] = "loop"
        \/ run'[a] = r /\ r.part = "tools" /\ pc'[a] = "executing"
        \/ run'[a] = r /\ r.part = "tools" /\ Head(r.open) = "ask" /\ pc'[a] = "project" /\ goal'[a] = "park"
        \/ run'[a] = r /\ pc'[a] = "project" /\ goal'[a] = "failed"
        \/ /\ run'[a] = Answered(r) /\ r.part = "tools" /\ pc'[a] = "project"
           /\ goal'[a] \in {"result", "correction"}
    <2>1. CASE CallTools(a)
      BY <1>1, <2>1, OwnFacts DEF CallTools, Begin, Go
    <2>2. CASE ToolReturns(a)
      BY <1>1, <2>2, OwnFacts DEF ToolReturns, Begin, Go
    <2> QED BY <2>1, <2>2
  <1>4. r.part = "tools" => Good(Answered(r)) /\ (OwnsRun(a) => Ahead(state, Answered(r)))
    BY <1>1, OwnFacts, AnsweredAhead, AheadTrans
  <1> QED BY <1>1, <1>2, <1>3, <1>4, OwnFacts DEF Fits, PartFits, RecordFits, rowVars, Settled

\* A write: after it the stored run is the attempt's, or the attempt stops.
LEMMA WriteFits ==
  ASSUME DurableInv, NEW a \in Attempts, StepOf(a), Write(a)
  PROVE  Fits(a)'
  <1>a. /\ pc[a] = "write" /\ WriteEffect(a) /\ run' = run /\ late' = late /\ written' = written
        /\ a \notin late /\ written[a] <= Len(rows)
    BY OwnFacts DEF Write, Fits, PartFits, RecordFits
  <1>b. written[a] <= Len(rows')
    BY <1>a, OwnFacts
  <1>1. /\ pc[a] = "write" /\ WriteEffect(a) /\ run' = run /\ late' = late
        /\ a \notin late /\ written'[a] <= Len(rows')
    BY <1>a, <1>b
  <1>2. CASE OwnsRun(a) /\ goal[a] \in Persists
    <2>1. state' = run[a]
      BY <1>1, <1>2 DEF WriteEffect, PersistStep, Finish, SetWaiting, Store
    <2>2. Ahead(run[a], run[a]) /\ Begins(History(run[a]), History(run[a]))
      BY OwnFacts, AheadRefl DEF Ahead
    <2>3. \/ pc'[a] = "project" /\ goal'[a] = "cancelled"
          \/ pc'[a] = "calling" /\ goal[a] = "checkpoint"
          \/ pc'[a] \in {"budget", "tools", "loop"}
          \/ pc'[a] = "project" /\ goal'[a] = "succeeded"
      BY <1>2, OwnFacts DEF Write, After, Begin, Go, Persists
    <2>4. goal[a] = "checkpoint" => run[a].part = "call"
      BY <1>1, OwnFacts DEF Fits, PartFits
    <2> QED BY <1>1, <2>1, <2>2, <2>3, <2>4, OwnFacts DEF Fits, PartFits, RecordFits
  <1>3. CASE ~(OwnsRun(a) /\ goal[a] \in Persists)
    <2>1. pc'[a] = "ok"
      BY <1>3, OwnFacts DEF Write, Go
    <2> QED BY <1>1, <2>1, OwnFacts DEF Fits, PartFits, RecordFits, Engaged, Settled
  <1> QED BY <1>2, <1>3

\* The attempt itself, in any of its steps.
LEMMA OwnStep ==
  ASSUME DurableInv, NEW a \in Attempts, StepOf(a)
  PROVE  Fits(a)'
  BY StepAside, StandStill, StepIn, LoopFits, CallFits, ToolsFits, WriteFits
  DEF StepOf, AttemptStep, Failure

\* Every attempt, in every step.
LEMMA AttemptsFit ==
  ASSUME DurableInv, [Next]_vars
  PROVE  RunsGood' /\ InStep' /\ OwnerAhead'
  <1>1. RowInv' /\ Forward
    BY RowStepInv
  <1>2. SUFFICES ASSUME NEW b \in Attempts
                 PROVE  Fits(b)'
    BY <1>1, <1>2 DEF RunsGood, InStep, OwnerAhead, Fits, RowInv
  <1>3. Fits(b) /\ written[b] \in Nat
    BY DEF DurableInv, RunsGood, InStep, OwnerAhead, Fits, TypeOK, AttemptsOK
  <1>4. /\ Len(rows) \in Nat /\ Len(rows') \in Nat /\ Len(rows) <= Len(rows')
        /\ Begins(History(run[b]), History(state)) => Begins(History(run[b]), History(state'))
    BY <1>1, RecordStays
  <1>5. ASSUME /\ pc'[b] = pc[b] /\ goal'[b] = goal[b] /\ run'[b] = run[b]
               /\ written'[b] = written[b] /\ (b \in late' => b \in late)
               /\ OwnsRun(b)' => OwnsRun(b) /\ state' = state
        PROVE  Fits(b)'
    BY <1>3, <1>4, <1>5 DEF Fits, PartFits, RecordFits
  <1>6. CASE UNCHANGED vars
    BY <1>5, <1>6 DEF vars, localVars, rowVars, OwnsRun
  <1>7. CASE AppStep
    <2>1. UNCHANGED <<pc, localVars, late>>
      BY <1>7 DEF AppStep, Start, Answer, Cancel, Expire, ReclaimJob
    <2>2. OwnsRun(b)' => OwnsRun(b) /\ state' = state
      BY <1>7, RunAssumption
      DEF AppStep, Start, Answer, Cancel, Expire, ReclaimJob, OwnsRun, rowVars
    <2> QED BY <1>5, <2>1, <2>2 DEF localVars
  <1>8. ASSUME NEW a \in Attempts, StepOf(a)
        PROVE  Fits(b)'
    <2>1. CASE a = b
      BY <1>8, <2>1, OwnStep
    <2>2. CASE a # b
      BY <1>5, <1>8, <2>2, Bystanders
    <2> QED BY <2>1, <2>2
  <1> QED BY <1>6, <1>7, <1>8 DEF Next, AppStep, StepOf

\* A tool is handed a call of a message that is on record.
LEMMA ExecutedStep ==
  ASSUME DurableInv, [Next]_vars
  PROVE  ExecutedOnRecord' /\ executed' \subseteq [id : Nat \X Nat, message : Messages]
  <1>1. /\ RowInv' /\ Forward /\ ExecutedOnRecord
        /\ executed \subseteq [id : Nat \X Nat, message : Messages]
    BY RowStepInv DEF DurableInv, TypeOK, AttemptsOK
  <1>2. CASE UNCHANGED executed
    BY <1>1, <1>2, RecordStays
  <1>3. ASSUME NEW a \in Attempts, CallTools(a)
        PROVE  ExecutedOnRecord' /\ executed' \subseteq [id : Nat \X Nat, message : Messages]
    <2> DEFINE r == run[a]
               c == [id |-> CallId(r), message |-> r.msgs[Len(r.msgs)]]
    <2>1. CASE executed' = executed \cup {c} /\ r.part = "tools"
      <3>1. /\ Good(r) /\ Good(state) /\ Begins(History(r), History(state)) /\ state' = state
        BY <1>3 DEF CallTools, DurableInv, RunsGood, OwnerAhead, RecordFits, Settled, rowVars
      <3>2. /\ r.held = NoMsg /\ r.msgs # <<>> /\ r.msgs \in Seq(Messages) /\ r.open \in Seq(CallKinds)
        BY <2>1, <3>1 DEF Good, Wellformed, Runs
      <3>3. History(r) = r.msgs /\ Len(r.msgs) \in Nat /\ Len(r.msgs) # 0
        BY <3>2, EmptySeq DEF History
      <3>4. CallId(r) \in Nat \X Nat /\ CallId(r)[1] = Len(r.msgs) /\ r.msgs[Len(r.msgs)] \in Messages
        BY <3>2, <3>3 DEF CallId
      <3>5. History(state) \in Seq(Messages)
        BY <3>1, HistoryType
      <3>6. Len(r.msgs) \in 1..Len(History(state)) /\ History(state)[Len(r.msgs)] = r.msgs[Len(r.msgs)]
        BY <3>1, <3>3, <3>5 DEF Begins
      <3>7. History(state)' = History(state)
        BY <3>1 DEF History
      <3> HIDE DEF r
      <3> QED BY <1>1, <2>1, <3>4, <3>6, <3>7 DEF ExecutedOnRecord
    <2>2. CASE UNCHANGED executed
      BY <1>2, <2>2
    <2> QED BY <1>3, <2>1, <2>2 DEF CallTools
  <1>4. CASE AppStep \/ UNCHANGED vars
    BY <1>2, <1>4 DEF AppStep, Start, Answer, Cancel, Expire, ReclaimJob, vars
  <1>5. ASSUME NEW a \in Attempts, StepOf(a), ~CallTools(a)
        PROVE  UNCHANGED executed
    BY <1>5 DEF StepOf, AttemptStep, Failure, Heartbeat, TakeJob, EndJob, TryClaim, NotClaimed,
       CurrentStatus, Loop, LoopShutdown, CallModel, Budget, ToolReturns, GuardShutdown, Project,
       Write, Rejected, FailUnstorable, Release, Requeue, ClaimError, LateClaim, HeartbeatError,
       WriteError, RequeueError, Shutdown, Die, Drain
  <1> QED BY <1>2, <1>3, <1>4, <1>5 DEF Next, AppStep, StepOf

-----------------------------------------------------------------------------
(* Types of the attempts' locals *)

\* All of AttemptsOK but the AgentRuns and the history.
LocalsOK ==
  /\ pc \in [Attempts -> Labels] /\ goal \in [Attempts -> Goals]
  /\ tainted \in [Attempts -> BOOLEAN] /\ written \in [Attempts -> Nat]
  /\ progress \in [Attempts -> BOOLEAN] /\ job \in [Attempts -> JobIds \cup {NoJob}]
  /\ \A a \in Attempts : job[a] = NoJob <=> pc[a] = "off"
  /\ stop \in [Attempts -> BOOLEAN] /\ late \subseteq Attempts /\ faults \in 0..MaxFaults

\* The bound on failures is kept.
LEMMA FaultType ==
  ASSUME faults \in 0..MaxFaults, UNCHANGED faults \/ Fault
  PROVE  faults' \in 0..MaxFaults
  BY RunAssumption DEF Fault

\* A step of an attempt keeps every local in its type, and only its own AgentRun
\* changes.
LEMMA LocalsStep ==
  ASSUME DurableInv, NEW a \in Attempts, StepOf(a)
  PROVE  LocalsOK' /\ \E r : run' = [run EXCEPT ![a] = r]
  <1> USE DEF LocalsOK, Go, Begin
  <1>1. /\ LocalsOK /\ run \in [Attempts -> Runs] /\ NoJob \notin JobIds
        /\ queue \subseteq JobIds /\ run = [run EXCEPT ![a] = run[a]]
    BY RunAssumption DEF DurableInv, TypeOK, AttemptsOK, JobsOK
  <1>2. CASE TakeJob(a)
    BY <1>1, <1>2 DEF TakeJob, Labels
  <1>3. CASE EndJob(a) \/ Die(a) \/ Drain(a)
    <2>1. Clear(a) /\ pc' = [pc EXCEPT ![a] = "off"] /\ (UNCHANGED faults \/ Fault) /\ late' \subseteq late \cup {a}
      BY <1>3 DEF EndJob, Die, Drain, InFlight
    <2>2. run' = [run EXCEPT ![a] = NewRun] /\ LocalsOK'
      BY <1>1, <2>1, FaultType DEF Clear, Labels, Goals, Persists
    <2> QED BY <2>2
  <1>4. CASE TryClaim(a)
    <2>1. Len(state.msgs) \in Nat
      BY HistoryType DEF DurableInv, RunsGood
    <2> QED BY <1>1, <1>4, <2>1 DEF TryClaim, Labels, Goals, Finishes
  <1>5. CASE NotClaimed(a) \/ CurrentStatus(a) \/ LoopShutdown(a) \/ GuardShutdown(a) \/ Rejected(a)
             \/ FailUnstorable(a) \/ Requeue(a)
    BY <1>1, <1>5 DEF NotClaimed, CurrentStatus, ClaimOutcome, LoopShutdown, GuardShutdown, Guarded,
                      Rejected, FailUnstorable, Requeue, Retry, localVars, Labels
  <1>6. CASE ClaimError(a) \/ HeartbeatError(a) \/ WriteError(a) \/ RequeueError(a) \/ Release(a)
             \/ LateClaim(a)
    BY <1>1, <1>6, FaultType DEF ClaimError, HeartbeatError, GuardError, Guarded, WriteError,
                      WriteFailed, RequeueError, Release, LateClaim, Retry, localVars, Labels
  <1>7. CASE Loop(a)
    BY <1>1, <1>7 DEF Loop, Labels, Goals, Finishes, Persists
  <1>8. CASE CallModel(a) \/ Budget(a)
    BY <1>1, <1>8 DEF CallModel, Budget, Retry, Labels, Goals, Finishes, Persists
  <1>9. CASE CallTools(a) \/ ToolReturns(a)
    <2>1. CASE CallTools(a)
      <3>1. run' = run \/ run' = [run EXCEPT ![a] = Answered(@)]
        BY <2>1 DEF CallTools
      <3>2. LocalsOK'
        BY <1>1, <2>1 DEF CallTools, Labels, Goals, Finishes, Persists
      <3> QED BY <1>1, <3>1, <3>2
    <2>2. CASE ToolReturns(a)
      BY <1>1, <2>2 DEF ToolReturns, Labels, Goals, Finishes, Persists
    <2> QED BY <1>9, <2>1, <2>2
  <1>10. CASE Heartbeat(a) \/ Shutdown(a)
    BY <1>1, <1>10, FaultType DEF Heartbeat, Guarded, Shutdown, Labels, Goals, Finishes
  <1>11. CASE Project(a)
    BY <1>1, <1>11, OwnFacts DEF Project, Labels
  <1>12. CASE Write(a)
    <2>1. /\ run' = run /\ UNCHANGED <<tainted, written, job, stop, late, faults>> /\ pc[a] = "write"
          /\ \/ UNCHANGED <<progress, goal>> /\ pc' = [pc EXCEPT ![a] = "ok"]
             \/ /\ progress' = [progress EXCEPT ![a] = @ \/ Advances(goal[a])]
                /\ \/ pc' = [pc EXCEPT ![a] = "project"] /\ goal' = [goal EXCEPT ![a] = "cancelled"]
                   \/ /\ pc' = [pc EXCEPT ![a] = After(goal[a])]
                      /\ goal' = [goal EXCEPT ![a] = IF @ = "final" THEN "succeeded" ELSE @]
      BY <1>12 DEF Write
    <2>2. After(goal[a]) \in Labels \ {"off"}
      BY DEF After, Labels
    <2>3. goal' \in [Attempts -> Goals]
      BY <1>1, <2>1 DEF Goals, Finishes
    <2>4. pc' \in [Attempts -> Labels] /\ \A b \in Attempts : pc'[b] = "off" <=> pc[b] = "off"
      BY <1>1, <2>1, <2>2 DEF Labels
    <2>5. progress' \in [Attempts -> BOOLEAN]
      BY <1>1, <2>1 DEF Advances
    <2> QED BY <1>1, <2>1, <2>3, <2>4, <2>5
  <1> QED BY <1>2, <1>3, <1>4, <1>5, <1>6, <1>7, <1>8, <1>9, <1>10, <1>11, <1>12
          DEF StepOf, AttemptStep, Failure

\* AttemptsOK is kept.
LEMMA AttemptsOKStep ==
  ASSUME DurableInv, [Next]_vars
  PROVE  AttemptsOK'
  <1>1. /\ RunsGood' /\ executed' \subseteq [id : Nat \X Nat, message : Messages]
        /\ LocalsOK /\ run \in [Attempts -> Runs]
    BY AttemptsFit, ExecutedStep DEF DurableInv, TypeOK, AttemptsOK, LocalsOK
  <1>2. ASSUME LocalsOK', run' = run \/ \E a \in Attempts : \E r : run' = [run EXCEPT ![a] = r]
        PROVE  AttemptsOK'
    <2>1. run' = [b \in Attempts |-> run'[b]]
      BY <1>1, <1>2
    <2>2. \A b \in Attempts : run'[b] \in Runs /\ Wellformed(run'[b])
      BY <1>1 DEF RunsGood, Good
    <2>3. run' \in [Attempts -> Runs]
      BY <2>1, <2>2
    <2> QED BY <1>1, <1>2, <2>2, <2>3 DEF AttemptsOK, LocalsOK
  <1>3. CASE UNCHANGED vars
    BY <1>1, <1>2, <1>3 DEF vars, localVars, LocalsOK
  <1>4. CASE AppStep
    <2>1. UNCHANGED <<pc, localVars, late>> /\ faults' \in 0..MaxFaults
      BY <1>1, <1>4, RunAssumption DEF AppStep, Start, Answer, Cancel, Expire, ReclaimJob, Fault, LocalsOK
    <2> QED BY <1>1, <1>2, <2>1 DEF localVars, LocalsOK
  <1>5. ASSUME NEW a \in Attempts, StepOf(a)
        PROVE  AttemptsOK'
    BY <1>2, <1>5, LocalsStep
  <1> QED BY <1>3, <1>4, <1>5 DEF Next, AppStep, StepOf

-----------------------------------------------------------------------------
(* The job rows of the run *)

AtWork == Labels \ {"off", "ok", "err"}

\* What a step of an attempt does to the rows and to its hold on its own row.
QuietMove(a) ==
  /\ UNCHANGED <<jobVars, job>>
  /\ pc' = pc \/ (pc[a] \in AtWork /\ \E l \in Labels \ {"off"} : pc' = [pc EXCEPT ![a] = l])

EnqueueMove(a) ==
  /\ pc[a] = "requeue" /\ \E j \in FreshJobs : EnqueueJob(j)
  /\ \E l \in {"ok", "release"} : pc' = [pc EXCEPT ![a] = l]
  /\ job' = job

LeaveMove(a) ==
  /\ pc[a] # "off" /\ pc' = [pc EXCEPT ![a] = "off"] /\ job' = [job EXCEPT ![a] = NoJob]
  /\ \/ UNCHANGED jobVars
     \/ jobBy[job[a]] = a /\ pc[a] = "ok" /\ DropJob(job[a]) /\ UNCHANGED lettered
     \/ jobBy[job[a]] = a /\ pc[a] = "err" /\ ChargeJob(job[a])
     \/ jobBy[job[a]] = a /\ jobBy' = [jobBy EXCEPT ![job[a]] = NoOne] /\ UNCHANGED <<queue, jobErr, lettered>>

\* There is nothing else an attempt does to the job rows.
LEMMA JobMoves ==
  ASSUME DurableInv, NEW a \in Attempts, StepOf(a)
  PROVE  QuietMove(a) \/ EnqueueMove(a) \/ LeaveMove(a) \/ TakeJob(a)
  <1> USE DEF Go, Begin
  <1>1. CASE EndJob(a) \/ Die(a) \/ Drain(a)
    BY <1>1 DEF EndJob, Die, Drain, Clear, LeaveMove, jobVars
  <1>2. CASE Requeue(a)
    BY <1>2 DEF Requeue, EnqueueMove, localVars
  <1>3. CASE RequeueError(a)
    BY <1>3 DEF RequeueError, EnqueueMove, QuietMove, AtWork, Labels, localVars
  <1>4. CASE TryClaim(a) \/ NotClaimed(a) \/ CurrentStatus(a) \/ ClaimError(a)
    BY <1>4 DEF TryClaim, NotClaimed, CurrentStatus, ClaimOutcome, ClaimError, QuietMove, AtWork, Labels,
                localVars
  <1>5. CASE LateClaim(a) \/ Shutdown(a)
    BY <1>5 DEF LateClaim, Shutdown, QuietMove, localVars
  <1>6. CASE Loop(a) \/ LoopShutdown(a) \/ CallModel(a) \/ Budget(a)
    BY <1>6 DEF Loop, LoopShutdown, CallModel, Budget, Retry, QuietMove, AtWork, Labels, localVars
  <1>7. CASE CallTools(a) \/ ToolReturns(a)
    BY <1>7 DEF CallTools, ToolReturns, QuietMove, AtWork, Labels
  <1>8. CASE Heartbeat(a) \/ HeartbeatError(a) \/ GuardShutdown(a)
    BY <1>8 DEF Heartbeat, HeartbeatError, GuardError, GuardShutdown, Guarded, Retry, QuietMove,
                AtWork, Labels, localVars
  <1>9. CASE Project(a) \/ Rejected(a) \/ FailUnstorable(a) \/ WriteError(a)
    BY <1>9 DEF Project, Rejected, FailUnstorable, WriteError, WriteFailed, Retry, QuietMove, AtWork,
                Labels, localVars
  <1>10. CASE Write(a)
    BY <1>10 DEF Write, After, QuietMove, AtWork, Labels
  <1>11. CASE Release(a)
    BY <1>11 DEF Release, Retry, QuietMove, AtWork, Labels, localVars
  <1> QED BY <1>1, <1>2, <1>3, <1>4, <1>5, <1>6, <1>7, <1>8, <1>9, <1>10, <1>11
          DEF StepOf, AttemptStep, Failure

\* A charge stays within max_retries.
LEMMA ChargeType ==
  ASSUME JobsOK, NEW j \in JobIds, ChargeJob(j)
  PROVE  JobsOK'
  <1>1. MaxRetries \in Nat /\ jobErr[j] \in 0..MaxRetries
    BY RunAssumption DEF JobsOK
  <1>2. CASE jobErr[j] >= MaxRetries
    BY <1>2 DEF JobsOK, ChargeJob, DropJob
  <1>3. CASE ~(jobErr[j] >= MaxRetries)
    <2>1. jobErr[j] + 1 \in 0..MaxRetries
      BY <1>1, <1>3
    <2> QED BY <1>3, <2>1 DEF JobsOK, ChargeJob
  <1> QED BY <1>2, <1>3

\* Only start makes a run queued, and no step makes it unknown again.
LEMMA StatusMoves ==
  ASSUME DurableInv, NEW a \in Attempts, StepOf(a)
  PROVE  status' \in {"none", "queued"} => status' = status
  BY AttemptRow DEF RowStep, Stores, Lease, Terminal, rowVars

\* An attempt keeps the lease of its row for as long as it is at work.
LEMMA JobsStep ==
  ASSUME DurableInv, [Next]_vars
  PROVE  JobsOK' /\ JobsLeased'
  <1>1. /\ JobsOK /\ JobsLeased /\ pc \in [Attempts -> Labels] /\ job \in [Attempts -> JobIds \cup {NoJob}]
        /\ \A a \in Attempts : job[a] = NoJob <=> pc[a] = "off"
        /\ NoOne \notin Attempts /\ NoJob \notin JobIds
    BY RunAssumption DEF DurableInv, TypeOK, AttemptsOK
  <1>2. CASE UNCHANGED vars
    BY <1>1, <1>2 DEF vars, jobVars, rowVars, localVars, JobsOK, JobsLeased
  <1>3. CASE Start \/ Answer
    <2>1. PICK j \in FreshJobs : EnqueueJob(j)
      BY <1>3 DEF Start, Answer
    <2>2. /\ j \in JobIds /\ j \notin queue /\ UNCHANGED <<pc, job>> /\ status \in {"none", "waiting"}
          /\ status' # "none" /\ (status' = "queued" => status = "none")
      BY <1>3 DEF Start, Answer, FreshJobs, localVars
    <2>3. JobsOK'
      BY <1>1, <2>1, <2>2, RunAssumption DEF EnqueueJob, JobsOK
    <2>4. \A a \in Attempts : pc[a] = "status" => job[a] \in queue
      BY <1>1 DEF JobsLeased
    <2> QED BY <1>1, <2>1, <2>2, <2>3, <2>4 DEF EnqueueJob, JobsLeased, JobsOK
  <1>4. CASE Cancel \/ Expire
    BY <1>1, <1>4 DEF Cancel, Expire, CancelsNow, jobVars, localVars, JobsOK, JobsLeased
  <1>5. ASSUME NEW j \in JobIds, ReclaimJob(j)
        PROVE  JobsOK' /\ JobsLeased'
    <2>1. /\ j \in queue /\ ChargeJob(j) /\ UNCHANGED <<pc, job, status>>
          /\ pc[jobBy[j]] \in {"off", "ok", "err"} /\ jobBy[j] \in Attempts
      BY <1>1, <1>5 DEF ReclaimJob, localVars, rowVars, JobsOK
    <2>2. JobsOK'
      BY <1>1, <2>1, ChargeType
    <2> QED BY <1>1, <2>1, <2>2 DEF ChargeJob, DropJob, JobsLeased, JobsOK
  <1>6. ASSUME NEW a \in Attempts, StepOf(a)
        PROVE  JobsOK' /\ JobsLeased'
    <2>0. /\ status' \in {"none", "queued"} => status' = status
          /\ \A b \in Attempts : pc[b] = "status" => status # "queued"
          /\ pc'[a] = "status" => status' # "queued"
      <3>1. status' \in {"none", "queued"} => status' = status
        BY <1>6, StatusMoves
      <3>2. \A b \in Attempts : pc[b] = "status" => status # "queued"
        BY <1>1 DEF JobsLeased
      <3>3. pc'[a] = "status" => pc[a] = "status" \/ NotClaimed(a)
        BY <1>1, <1>6 DEF StepOf, AttemptStep, Failure, Heartbeat, TakeJob, EndJob, TryClaim,
           CurrentStatus, ClaimOutcome, Loop, LoopShutdown, CallModel, Budget, CallTools, ToolReturns,
           GuardShutdown, Project, Write, After, Rejected, FailUnstorable, Release, Requeue,
           ClaimError, LateClaim, HeartbeatError, GuardError, WriteError, WriteFailed,
           RequeueError, Shutdown, Die, Drain, Retry, Begin, Go, localVars
      <3> QED BY <3>1, <3>2, <3>3 DEF NotClaimed, RunClaimable, rowVars
    <2>1. CASE QuietMove(a)
      BY <1>1, <2>0, <2>1 DEF QuietMove, AtWork, jobVars, JobsOK, JobsLeased
    <2>2. CASE EnqueueMove(a)
      <3>1. PICK j \in FreshJobs : EnqueueJob(j)
        BY <2>2 DEF EnqueueMove
      <3>2. j \in JobIds /\ j \notin queue /\ (\A b \in Attempts : job[b] # j) /\ job[a] \in queue
        BY <1>1, <2>2, <3>1 DEF FreshJobs, EnqueueMove, JobsLeased
      <3>3. JobsOK'
        BY <1>1, <3>1, <3>2, RunAssumption DEF EnqueueJob, JobsOK
      <3> QED BY <1>1, <2>0, <2>2, <3>1, <3>2, <3>3 DEF EnqueueMove, EnqueueJob, JobsLeased, JobsOK
    <2>3. CASE LeaveMove(a)
      <3>1. job[a] \in JobIds
        BY <1>1, <2>3 DEF LeaveMove
      <3>2. JobsOK'
        BY <1>1, <2>3, <3>1, ChargeType DEF LeaveMove, DropJob, JobsOK, jobVars
      <3>3. /\ queue' \subseteq queue
            /\ \A k \in JobIds : k # job[a] => jobBy'[k] = jobBy[k] /\ (k \in queue <=> k \in queue')
            /\ jobBy'[job[a]] # NoOne => jobBy'[job[a]] = jobBy[job[a]] /\ queue' = queue
        BY <1>1, <2>3, <3>1 DEF LeaveMove, DropJob, ChargeJob, JobsOK, jobVars
      <3>4. /\ \A b \in Attempts : b # a => pc'[b] = pc[b] /\ job'[b] = job[b]
            /\ pc'[a] = "off"
        BY <1>1, <2>3 DEF LeaveMove
      <3>5. jobBy'[job[a]] = jobBy[job[a]] \/ jobBy[job[a]] = a
        BY <2>3 DEF LeaveMove, jobVars
      <3> QED BY <1>1, <2>0, <3>1, <3>2, <3>3, <3>4, <3>5 DEF JobsLeased, JobsOK
    <2>4. CASE TakeJob(a)
      <3>1. PICK j \in queue : jobBy[j] = NoOne /\ jobBy' = [jobBy EXCEPT ![j] = a]
                               /\ job' = [job EXCEPT ![a] = j]
        BY <2>4 DEF TakeJob
      <3>2. /\ UNCHANGED <<queue, jobErr, lettered>> /\ pc' = [pc EXCEPT ![a] = "claim"]
            /\ \A k \in queue : jobBy[k] # a
        BY <2>4 DEF TakeJob, Go
      <3> QED BY <1>1, <2>0, <3>1, <3>2 DEF JobsOK, JobsLeased
    <2> QED BY <1>6, JobMoves, <2>1, <2>2, <2>3, <2>4
  <1> QED BY <1>2, <1>3, <1>4, <1>5, <1>6 DEF Next, StepOf

\* As long as the run is live, an attempt that keeps its row goes on keeping it,
\* but for the requeue, which leaves a fresh one.
LEMMA StaysUndoomed ==
  ASSUME DurableInv, NEW a \in Attempts, StepOf(a), ~Requeue(a), ~Doomed(a), status \in Live, status' \in Live
  PROVE  ~Doomed(a)'
  <1>1. pc \in [Attempts -> Labels] /\ (pc[a] = "status" => status # "queued") /\ status \in {"queued", "running"}
    BY DEF DurableInv, TypeOK, AttemptsOK, JobsLeased, Live
  <1> USE DEF Doomed, Engaged, Go, Begin, Retry
  <1>2. CASE TakeJob(a) \/ EndJob(a) \/ NotClaimed(a) \/ ClaimError(a) \/ LoopShutdown(a)
             \/ GuardShutdown(a) \/ Release(a) \/ HeartbeatError(a) \/ WriteError(a)
             \/ RequeueError(a) \/ Die(a) \/ Drain(a)
    BY <1>1, <1>2 DEF TakeJob, EndJob, NotClaimed, ClaimError, LoopShutdown, GuardShutdown, Release,
       HeartbeatError, GuardError, WriteError, WriteFailed, RequeueError, Die, Drain
  <1>3. CASE TryClaim(a)
    BY <1>1, <1>3 DEF TryClaim, Lease, OwnsRun
  <1>4. CASE CurrentStatus(a)
    BY <1>1, <1>4 DEF CurrentStatus, ClaimOutcome
  <1>5. CASE Loop(a) \/ CallModel(a) \/ Budget(a) \/ Project(a) \/ Rejected(a)
    BY <1>1, <1>5 DEF Loop, CallModel, Budget, Project, Rejected, OwnsRun, rowVars
  <1>6. CASE CallTools(a) \/ ToolReturns(a) \/ Shutdown(a)
    BY <1>1, <1>6 DEF CallTools, ToolReturns, Shutdown, OwnsRun, rowVars
  <1>7. CASE Heartbeat(a)
    BY <1>1, <1>7 DEF Heartbeat, Guarded, OwnsRun
  <1>8. CASE FailUnstorable(a)
    BY <1>1, <1>8 DEF FailUnstorable, UnstorableEffect, Live
  <1>9. CASE LateClaim(a)
    <2>1. pc[a] \in {"off", "release", "err"} /\ pc' = pc
      BY <1>9 DEF LateClaim, DurableInv, InStep, PartFits
    <2> QED BY <2>1
  <1>10. CASE Write(a)
    <2>1. OwnsRun(a) /\ pc[a] = "write" /\ goal[a] \in Goals
      BY <1>10 DEF Write, DurableInv, TypeOK, AttemptsOK
    <2>2. CASE goal[a] \in Persists
      <3>1. status' = status /\ lockedBy' = lockedBy
        BY <1>10, <2>1, <2>2 DEF Write, WriteEffect, PersistStep, Persists, Finishes
      <3>2. pc'[a] # "ok"
        BY <1>1, <1>10, <2>1, <2>2 DEF Write, After
      <3> QED BY <2>1, <3>1, <3>2 DEF OwnsRun
    <2>3. CASE goal[a] \notin Persists
      <3>1. status' \notin Live
        BY <1>10, <2>1, <2>3 DEF Write, WriteEffect, Finish, FinalStatus, SetWaiting, Live
      <3> QED BY <3>1
    <2> QED BY <2>2, <2>3
  <1> QED BY <1>2, <1>3, <1>4, <1>5, <1>6, <1>7, <1>8, <1>9, <1>10 DEF StepOf, AttemptStep, Failure

\* Some row stays for a live run, in every step.
LEMMA AnchoredStep ==
  ASSUME DurableInv, [Next]_vars
  PROVE  Anchored'
  <1>1. SUFFICES ASSUME status' \in Live, ~lettered'
                 PROVE  \E j \in queue' : jobBy'[j] = NoOne \/ ~Doomed(jobBy[j])'
    BY DEF Anchored
  <1>2. /\ JobsOK /\ JobsLeased /\ Anchored /\ pc \in [Attempts -> Labels]
        /\ job \in [Attempts -> JobIds \cup {NoJob}]
        /\ \A a \in Attempts : job[a] = NoJob <=> pc[a] = "off"
        /\ NoOne \notin Attempts /\ JobsOK'
    BY RunAssumption, JobsStep DEF DurableInv, TypeOK, AttemptsOK
  <1>3. CASE Start \/ Answer
    <2>1. PICK j \in FreshJobs : EnqueueJob(j)
      BY <1>3 DEF Start, Answer
    <2> QED BY <1>2, <2>1 DEF EnqueueJob, FreshJobs, JobsOK
  <1>4. CASE UNCHANGED vars \/ Cancel \/ Expire
    <2>1. UNCHANGED <<pc, jobVars>> /\ status' = status /\ lockedBy' = lockedBy
      BY <1>1, <1>4 DEF vars, Cancel, Expire, rowVars, Live
    <2> QED BY <1>1, <1>2, <2>1 DEF Anchored, jobVars, Doomed, OwnsRun
  <1>5. ASSUME NEW k \in JobIds, ReclaimJob(k)
        PROVE  \E j \in queue' : jobBy'[j] = NoOne \/ ~Doomed(jobBy[j])'
    <2>1. k \in queue /\ queue' = queue /\ jobBy'[k] = NoOne
      BY <1>1, <1>2, <1>5 DEF ReclaimJob, ChargeJob, DropJob, JobsOK
    <2> QED BY <2>1
  <1>6. ASSUME NEW a \in Attempts, StepOf(a)
        PROVE  \E j \in queue' : jobBy'[j] = NoOne \/ ~Doomed(jobBy[j])'
    <2>1. status \in Live /\ ~lettered
      <3>1. status \in Live
        BY <1>1, <1>6, AttemptRow DEF RowStep, RunClaimable, Lease, Stores, OwnsRun, rowVars, Live, Terminal
      <3>2. ~lettered
        BY <1>1, <1>2, <1>6, JobMoves DEF QuietMove, EnqueueMove, EnqueueJob, LeaveMove, DropJob,
           ChargeJob, TakeJob, jobVars, JobsOK
      <3> QED BY <3>1, <3>2
    <2>2. PICK j \in queue : jobBy[j] = NoOne \/ ~Doomed(jobBy[j])
      BY <1>2, <2>1 DEF Anchored
    <2>3. j \in JobIds /\ jobBy[j] \in Attempts \cup {NoOne}
      BY <1>2 DEF JobsOK
    <2>4. CASE EnqueueMove(a)
      <3>1. PICK k \in FreshJobs : EnqueueJob(k)
        BY <2>4 DEF EnqueueMove
      <3> QED BY <1>2, <3>1 DEF EnqueueJob, FreshJobs, JobsOK
    <2>5. CASE pc[a] = "claim" /\ ~EnqueueMove(a) /\ ~TakeJob(a)
      <3>1. job[a] \in queue /\ jobBy[job[a]] = a /\ job[a] \in JobIds /\ ~Doomed(a) /\ ~Requeue(a)
        BY <1>2, <2>5 DEF JobsLeased, Doomed, Engaged, Requeue
      <3>2. ~Doomed(a)'
        BY <1>1, <1>6, <2>1, <3>1, StaysUndoomed
      <3>3. job[a] \in queue' /\ jobBy'[job[a]] \in {a, NoOne}
        BY <1>2, <1>6, <2>5, <3>1, JobMoves DEF QuietMove, LeaveMove, jobVars, JobsOK
      <3> QED BY <3>2, <3>3 DEF Doomed, OwnsRun
    <2>6. CASE pc[a] # "claim" /\ ~EnqueueMove(a)
      <3>1. ASSUME NEW b \in Attempts, b # a, ~Doomed(b)
            PROVE  ~Doomed(b)'
        <4>1. pc'[b] = pc[b]
          BY <1>6, <3>1, Bystanders
        <4>2. OwnsRun(b) => OwnsRun(b)'
          <5>1. SUFFICES ASSUME OwnsRun(b)
                         PROVE  status' = status /\ lockedBy' = lockedBy
            BY DEF OwnsRun
          <5>2. ~OwnsRun(a)
            BY <3>1, <5>1 DEF OwnsRun
          <5>3. CASE RunClaimable /\ Lease(a)
            <6>1. LateClaim(a) \/ UNCHANGED <<status, lockedBy>>
              BY <1>6, <2>6, <5>2, AttemptRow DEF StepOf, AttemptStep, Failure, Heartbeat, TakeJob,
                 EndJob, TryClaim, NotClaimed, CurrentStatus, Loop, LoopShutdown, CallModel, Budget,
                 CallTools, ToolReturns, GuardShutdown, Project, Write, WriteEffect, Rejected,
                 FailUnstorable, UnstorableEffect, Release, ReleaseLease, Requeue, ClaimError,
                 HeartbeatError, WriteError, RequeueError, Shutdown, Die, Drain, InFlight, rowVars
            <6>2. CASE LateClaim(a)
              BY <5>1, <6>2, <1>2 DEF LateClaim, RunClaimable, OwnsRun, rowVars
            <6> QED BY <6>1, <6>2
          <5> QED BY <1>6, <5>2, <5>3, AttemptRow DEF RowStep, Stores, rowVars
        <4> QED BY <3>1, <4>1, <4>2 DEF Doomed
      <3>2. CASE TakeJob(a)
        <4>1. /\ jobBy' = [jobBy EXCEPT ![job'[a]] = a] /\ job'[a] \in queue /\ queue' = queue /\ pc'[a] = "claim"
          BY <1>2, <3>2 DEF TakeJob, Go
        <4> QED BY <1>2, <4>1 DEF Doomed, OwnsRun, Engaged, JobsOK
      <3>3. CASE ~TakeJob(a) /\ jobBy[j] # a
        <4>1. j \in queue' /\ jobBy'[j] \in {jobBy[j], NoOne}
          BY <1>2, <1>6, <2>3, <2>6, <3>3, JobMoves
          DEF QuietMove, LeaveMove, DropJob, ChargeJob, jobVars, JobsOK
        <4> QED BY <2>2, <2>3, <3>1, <3>3, <4>1 DEF Doomed, OwnsRun
      <3>4. CASE ~TakeJob(a) /\ jobBy[j] = a
        <4>1. ~Doomed(a) /\ ~Requeue(a)
          BY <1>2, <2>2, <2>6, <3>4 DEF Requeue, EnqueueMove, localVars, Go
        <4>2. ~Doomed(a)'
          BY <1>1, <1>6, <2>1, <4>1, StaysUndoomed
        <4>3. pc[a] # "ok" /\ (pc[a] # "off" => job[a] = j)
          BY <1>2, <2>3, <3>4, <4>1 DEF Doomed, JobsLeased
        <4>4. j \in queue' /\ jobBy'[j] \in {a, NoOne}
          BY <1>1, <1>2, <1>6, <2>3, <2>6, <3>4, <4>3, JobMoves
          DEF QuietMove, LeaveMove, DropJob, ChargeJob, jobVars, JobsOK
        <4> QED BY <4>2, <4>4 DEF Doomed, OwnsRun
      <3> QED BY <3>2, <3>3, <3>4
    <2> QED BY <2>4, <2>5, <2>6 DEF TakeJob
  <1> QED BY <1>3, <1>4, <1>5, <1>6 DEF Next, StepOf

-----------------------------------------------------------------------------
(* Theorems *)

\* The invariant holds before start.
LEMMA InvInit == Init => DurableInv
  <1> SUFFICES ASSUME Init PROVE DurableInv
    OBVIOUS
  <1>1. /\ Good(NewRun) /\ NewRun \in Runs /\ Wellformed(NewRun) /\ NewRun.msgs = <<>>
        /\ <<>> \in Seq(Messages) /\ Len(<<>>) = 0
    BY NewRunGood, EmptySeq DEF Good, NewRun
  <1>2. TypeOK
    <2>1. RowOK
      BY <1>1 DEF Init, RowOK
    <2>2. JobsOK
      <3>1. 0 \in 0..MaxRetries
        BY RunAssumption
      <3> QED BY <3>1 DEF Init, JobsOK
    <2>3. AttemptsOK
      <3>1. run \in [Attempts -> Runs] /\ \A a \in Attempts : Wellformed(run[a])
        BY <1>1 DEF Init
      <3>2. "off" \in Labels /\ "checkpoint" \in Goals
        BY DEF Labels, Goals, Persists
      <3>3. faults \in 0..MaxFaults /\ written \in [Attempts -> Nat]
        BY RunAssumption DEF Init
      <3> QED BY <3>1, <3>2, <3>3 DEF Init, AttemptsOK
    <2> QED BY <2>1, <2>2, <2>3 DEF TypeOK
  <1>3. RunsGood /\ InStep /\ TranscriptFaithful /\ WaitsForOpenAsk /\ ExecutedOnRecord
    BY <1>1 DEF Init, RunsGood, InStep, PartFits, TranscriptFaithful, WaitsForOpenAsk, ExecutedOnRecord
  <1>4. OwnerAhead
    <2>1. ASSUME NEW a \in Attempts
          PROVE  pc[a] = "off" /\ written[a] <= Len(rows)
      <3>1. pc[a] = "off" /\ written[a] = 0 /\ Len(rows) = 0
        BY <1>1 DEF Init
      <3> QED BY <3>1
    <2> QED BY <2>1 DEF OwnerAhead, RecordFits, Engaged, Settled
  <1>5. JobsLeased /\ Anchored
    BY DEF Init, JobsLeased, Anchored, Live
  <1> QED BY <1>2, <1>3, <1>4, <1>5 DEF DurableInv

\* Every step keeps the invariant.
LEMMA InvStep == DurableInv /\ [Next]_vars => DurableInv'
  BY RowStepInv, AttemptsFit, ExecutedStep, AttemptsOKStep, JobsStep, AnchoredStep
  DEF DurableInv, TypeOK, RowInv

\* So it holds throughout.
LEMMA InvHolds == Spec => []DurableInv
  BY InvInit, InvStep, PTL DEF Spec

\* Every variable keeps its type and no run starts a turn beyond max_turns,
\* however often attempts die, lose their leases and take the run over.
THEOREM RunTypeCorrect == Spec => []TypeOK
  <1>1. DurableInv => TypeOK
    BY DEF DurableInv
  <1> QED BY <1>1, InvHolds, PTL

\* persist_step, finish and set_waiting are guarded by the lease and insert_messages
\* starts at a mark read earlier; still the transcript is the stored run's messages.
THEOREM TranscriptIsTheRun == Spec => []TranscriptFaithful
  <1>1. DurableInv => TranscriptFaithful
    BY DEF DurableInv
  <1> QED BY <1>1, InvHolds, PTL

\* A run that set_waiting suspended waits for the open ask of its stored state, so
\* that answer_run finds its call, and cancel_run is not parked behind it.
THEOREM AnswerFindsItsCall == Spec => []WaitsForOpenAsk
  <1>1. DurableInv => WaitsForOpenAsk
    BY DEF DurableInv
  <1> QED BY <1>1, InvHolds, PTL

\* call_tools_step hands a tool only calls whose message is on the stored record,
\* even in an attempt that lost the lease without noticing.
THEOREM ToolCallsOnRecord == Spec => []ToolsOnRecord
  <1>1. DurableInv => ToolsOnRecord
    <2> SUFFICES ASSUME DurableInv, NEW c \in executed
                 PROVE  /\ c.id[1] <= Len(History(state))
                        /\ History(state)[c.id[1]] = c.message
      BY DEF ToolsOnRecord
    <2> QED BY DEF DurableInv, ExecutedOnRecord
  <1> QED BY <1>1, InvHolds, PTL

\* A live run has a job row that will advance it, unless one was dead-lettered: no
\* Ok of an attempt that lost the lease, and no requeue, deletes the last one.
THEOREM RunNeverOrphaned == Spec => []NeverOrphaned
  <1>1. DurableInv => NeverOrphaned
    BY DEF DurableInv, Anchored, NeverOrphaned
  <1> QED BY <1>1, InvHolds, PTL

\* The stored run only moves forward, and a run that ended stays as it is: a late
\* write, a lost lease or a second answer never takes anything back.
THEOREM StoredRunMovesForward == Spec => RecordExtends
  <1>1. DurableInv /\ [Next]_vars =>
          [/\ Extends(state, state')
           /\ status \in Terminal => UNCHANGED <<status, state, rows, pending, lockedBy>>]_vars
    <2> SUFFICES ASSUME DurableInv, [Next]_vars
                 PROVE  /\ Extends(state, state')
                        /\ status \in Terminal => UNCHANGED <<status, state, rows, pending, lockedBy>>
      OBVIOUS
    <2>1. Forward /\ Good(state) /\ Good(state')
      BY RowStepInv DEF RowInv, DurableInv, RunsGood
    <2> DEFINE h == History(state)
               k == History(state')
    <2>2. h \in Seq(Messages) /\ k \in Seq(Messages) /\ Begins(h, k)
      BY <2>1, HistoryType DEF Forward, Ahead
    <2>3. SubSeq(k, 1, Len(h)) = h
      <3> HIDE DEF h, k
      <3>1. /\ SubSeq(k, 1, Len(h)) \in Seq(Messages) /\ Len(SubSeq(k, 1, Len(h))) = Len(h)
            /\ \A i \in 1..Len(h) : SubSeq(k, 1, Len(h))[i] = k[i]
        BY <2>2 DEF Begins
      <3> QED BY <2>2, <3>1, SeqEqual DEF Begins
    <2>4. Len(k) >= Len(h)
      <3> HIDE DEF h, k
      <3> QED BY <2>2 DEF Begins
    <2>5. Extends(state, state')
      BY <2>1, <2>3, <2>4 DEF Extends, Forward, Ahead
    <2> QED BY <2>1, <2>5 DEF Forward
  <1> QED BY <1>1, InvHolds, PTL DEF Spec, RecordExtends
=============================================================================
