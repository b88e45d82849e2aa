-------------------------------- MODULE Cron --------------------------------
(***************************************************************************)
(* The cron schedulers of crates/cja/src/cron (worker.rs, registry.rs) on  *)
(* one database: each reads all last_run_at values, filters with its own   *)
(* clock, and claims a due cron in a transaction that locks its row, asks  *)
(* again with the database's clock, and stamps the row when it commits.    *)
(***************************************************************************)
EXTENDS CronSchedule

CONSTANTS
  Schedulers,  \* processes that run a cron Worker
  Free,        \* nobody holds the row
  Ghost,       \* a connection whose process is gone still holds it
  NoCron,      \* a scheduler between two crons
  Skew,        \* Schedulers -> Int: Utc::now() minus the database's clock
  Registries,  \* the sets of crons an app may register
  Recorded,    \* last_run_at values a row may hold from earlier
  MaxBoots,    \* bound: worker starts
  MaxFaults,   \* bound: failed statements and transactions the server ends
  MaxBacks     \* bound: backward steps of the database clock

ASSUME CronAssumption ==
  /\ Skew \in [Schedulers -> Int]
  /\ Registries \subseteq SUBSET Crons
  /\ Recorded \subseteq Int
  /\ Free # Ghost /\ Free \notin Schedulers /\ Ghost \notin Schedulers
  /\ NoCron \notin Crons
  /\ MaxBoots \in Nat /\ MaxFaults \in Nat /\ MaxBacks \in Nat

VARIABLES
  registry,  \* the crons of this app: the same in every process
  now,       \* clock_timestamp()
  lastRun,   \* crons.last_run_at, Never without a committed row
  holder,    \* who holds the row's lock, or has an uncommitted row of that name
  pc,        \* where the scheduler stands
  started,   \* Worker.started_at
  map,       \* last_enqueue_map
  todo,      \* crons the tick has still to visit
  cur,       \* the cron being claimed
  last,      \* Claim.last_run: last_run_at as read under the lock
  at,        \* Claim.at
  live,      \* the server has not ended the claim's transaction
  stop,      \* the shutdown token is cancelled
  fired, rows, ran,      \* see CronPromise
  boots, faults, backs   \* bounded counters

claimVars == <<cur, last, at, live>>
rowVars == <<lastRun, holder, fired, rows>>
counters == <<boots, faults, backs>>
vars == <<registry, now, rowVars, pc, started, map, todo, claimVars, stop, ran, counters>>

Promise == INSTANCE CronPromise WITH fired <- fired, rows <- rows, ran <- ran

Labels == {"off", "top", "scan", "select", "insert", "reselect", "clock", "fire",
           "calling", "asleep"}

Init ==
  /\ registry \in Registries
  /\ now = 0
  /\ lastRun \in [Crons -> Recorded \cup {Never}]
  /\ holder = [c \in Crons |-> Free]
  /\ pc = [s \in Schedulers |-> "off"]
  /\ started = [s \in Schedulers |-> 0]
  /\ map = [s \in Schedulers |-> [c \in Crons |-> Never]]
  /\ todo = [s \in Schedulers |-> {}]
  /\ cur = [s \in Schedulers |-> NoCron]
  /\ last = [s \in Schedulers |-> Never]
  /\ at = [s \in Schedulers |-> 0]
  /\ live = [s \in Schedulers |-> FALSE]
  /\ stop = [s \in Schedulers |-> FALSE]
  /\ fired = [c \in Crons |-> {lastRun[c]} \ {Never}]
  /\ rows = [c \in Crons |-> 0]
  /\ ran = fired
  /\ boots = 0 /\ faults = 0 /\ backs = 0

LocalNow(s) == now + Skew[s]
-----------------------------------------------------------------------------
(* The worker's loop: Worker::run and Worker::tick *)

\* Worker::new_with_timezone in a new process.
Boot(s) ==
  /\ pc[s] = "off" /\ boots < MaxBoots
  /\ pc' = [pc EXCEPT ![s] = "top"]
  /\ started' = [started EXCEPT ![s] = LocalNow(s)]
  /\ stop' = [stop EXCEPT ![s] = FALSE]
  /\ boots' = boots + 1
  /\ UNCHANGED <<registry, now, rowVars, map, todo, claimVars, ran, faults, backs>>

\* No claim is open any more.
Forget(s) ==
  /\ cur' = [cur EXCEPT ![s] = NoCron]
  /\ last' = [last EXCEPT ![s] = Never]
  /\ at' = [at EXCEPT ![s] = 0]
  /\ live' = [live EXCEPT ![s] = FALSE]

\* Worker::run has returned or the process is gone; what it read is forgotten.
Gone(s) ==
  /\ pc' = [pc EXCEPT ![s] = "off"]
  /\ started' = [started EXCEPT ![s] = 0]
  /\ map' = [map EXCEPT ![s] = [c \in Crons |-> Never]]
  /\ todo' = [todo EXCEPT ![s] = {}]
  /\ stop' = [stop EXCEPT ![s] = FALSE]
  /\ Forget(s)

\* last_enqueue_map, at the start of a tick.
ReadMap(s) ==
  /\ pc[s] = "top" /\ ~stop[s]
  /\ map' = [map EXCEPT ![s] = lastRun]
  /\ todo' = [todo EXCEPT ![s] = registry]
  /\ pc' = [pc EXCEPT ![s] = "scan"]
  /\ UNCHANGED <<registry, now, rowVars, started, claimVars, stop, ran, counters>>

\* CronJob::tick: the pre-filter with the snapshot and the process's clock.
Visit(s, c) ==
  /\ pc[s] = "scan" /\ c \in todo[s]
  /\ todo' = [todo EXCEPT ![s] = @ \ {c}]
  /\ map' = [map EXCEPT ![s][c] = Never]
  /\ IF ShouldRun(c, map[s][c], LocalNow(s), started[s])
     THEN /\ pc' = [pc EXCEPT ![s] = "select"]
          /\ cur' = [cur EXCEPT ![s] = c]
          /\ live' = [live EXCEPT ![s] = TRUE]
     ELSE UNCHANGED <<pc, cur, live>>
  /\ UNCHANGED <<registry, now, rowVars, started, last, at, stop, ran, counters>>

EndTick(s) ==
  /\ pc[s] = "scan" /\ todo[s] = {}
  /\ pc' = [pc EXCEPT ![s] = "asleep"]
  /\ UNCHANGED <<registry, now, rowVars, started, map, todo, claimVars, stop, ran, counters>>

Wake(s) ==
  /\ pc[s] = "asleep"
  /\ pc' = [pc EXCEPT ![s] = "top"]
  /\ UNCHANGED <<registry, now, rowVars, started, map, todo, claimVars, stop, ran, counters>>

\* Cancellation is seen between ticks and during the sleep only.
Stop(s) ==
  /\ pc[s] \in {"top", "asleep"} /\ stop[s]
  /\ Gone(s)
  /\ UNCHANGED <<registry, now, rowVars, ran, counters>>

Shutdown(s) ==
  /\ pc[s] # "off" /\ ~stop[s]
  /\ stop' = [stop EXCEPT ![s] = TRUE]
  /\ UNCHANGED <<registry, now, rowVars, pc, started, map, todo, claimVars, ran, counters>>
-----------------------------------------------------------------------------
(* The claim: CronJob::claim_due *)

RolledBack_Leaked(s) == holder

\* The scheduler drops its transaction: the server rolls it back.
RolledBack(s) == [c \in Crons |-> IF holder[c] = s THEN Free ELSE holder[c]]

\* Back to the tick's loop, with nothing claimed.
NotClaimed(s) ==
  /\ pc' = [pc EXCEPT ![s] = "scan"]
  /\ Forget(s)
  /\ holder' = RolledBack(s)
  /\ UNCHANGED <<lastRun, fired, rows>>

\* The row (or the name, for an uncommitted row) now belongs to s.
Lock(s) ==
  /\ holder' = [holder EXCEPT ![cur[s]] = s]
  /\ last' = [last EXCEPT ![s] = lastRun[cur[s]]]
  /\ pc' = [pc EXCEPT ![s] = "clock"]
  /\ UNCHANGED <<lastRun, fired, rows, cur, at, live>>

\* SELECT ... FOR UPDATE NOWAIT: an uncommitted row is not seen, a locked one
\* is an error (55P03) that skips the cron.
Select(s) ==
  /\ pc[s] \in {"select", "reselect"}
  /\ live[s]
  /\ \/ /\ lastRun[cur[s]] # Never /\ holder[cur[s]] = Free
        /\ Lock(s)
     \/ /\ lastRun[cur[s]] # Never /\ holder[cur[s]] # Free
        /\ NotClaimed(s)
     \/ /\ lastRun[cur[s]] = Never /\ pc[s] = "select"
        /\ pc' = [pc EXCEPT ![s] = "insert"]
        /\ UNCHANGED <<rowVars, claimVars>>
  /\ UNCHANGED <<registry, now, started, map, todo, stop, ran, counters>>

\* INSERT ... ON CONFLICT (name) DO NOTHING waits for another transaction's
\* uncommitted row, at most for lock_timeout.
Insert(s) ==
  /\ pc[s] = "insert"
  /\ live[s]
  /\ \/ /\ lastRun[cur[s]] = Never /\ holder[cur[s]] = Free
        /\ Lock(s)
     \/ /\ lastRun[cur[s]] = Never /\ holder[cur[s]] # Free
        /\ NotClaimed(s)
     \/ /\ lastRun[cur[s]] # Never
        /\ pc' = [pc EXCEPT ![s] = "reselect"]
        /\ UNCHANGED <<rowVars, claimVars>>
  /\ UNCHANGED <<registry, now, started, map, todo, stop, ran, counters>>

StillDue_Snapshot(s, t) == ShouldRun(cur[s], Never, t, started[s])

\* The question is asked again, with the row's value and the database's time.
StillDue(s, t) == ShouldRun(cur[s], last[s], t, started[s])

\* SELECT clock_timestamp()
ClaimTime(s) == now

ReadClock(s) ==
  /\ pc[s] = "clock"
  /\ live[s]
  /\ \/ /\ StillDue(s, ClaimTime(s))
        /\ at' = [at EXCEPT ![s] = ClaimTime(s)]
        /\ pc' = [pc EXCEPT ![s] = "fire"]
        /\ UNCHANGED <<rowVars, cur, last, live>>
     \/ ~StillDue(s, ClaimTime(s)) /\ NotClaimed(s)
  /\ UNCHANGED <<registry, now, started, map, todo, stop, ran, counters>>
-----------------------------------------------------------------------------
(* Firing: tick_claimed, fire, commit_claim *)

\* The commit: queue row (job crons) and last_run_at at once.
Stamp(s) ==
  /\ lastRun' = [lastRun EXCEPT ![cur[s]] = at[s]]
  /\ holder' = [holder EXCEPT ![cur[s]] = Free]
  /\ fired' = [fired EXCEPT ![cur[s]] = @ \cup {at[s]}]
  /\ rows' = IF cur[s] \in Callbacks THEN rows ELSE [rows EXCEPT ![cur[s]] = @ + 1]

Commit(s) ==
  /\ pc[s] = "fire"
  /\ live[s]
  /\ Stamp(s)
  /\ IF cur[s] \in Callbacks
     THEN pc' = [pc EXCEPT ![s] = "calling"] /\ UNCHANGED claimVars
     ELSE pc' = [pc EXCEPT ![s] = "scan"] /\ Forget(s)
  /\ UNCHANGED <<registry, now, started, map, todo, stop, ran, counters>>

\* The callback is invoked after the commit; an error of it leaves the tick
\* and Worker::run with it.
RunCallback(s) ==
  /\ pc[s] = "calling"
  /\ ran' = [ran EXCEPT ![cur[s]] = @ \cup {at[s]}]
  /\ \/ /\ pc' = [pc EXCEPT ![s] = "scan"]
        /\ Forget(s)
        /\ UNCHANGED <<started, map, todo, stop>>
     \/ Gone(s)
  /\ UNCHANGED <<registry, now, rowVars, counters>>
-----------------------------------------------------------------------------
(* Failures *)

InClaim(s) == pc[s] \in {"select", "insert", "reselect", "clock", "fire"}

\* The server ends the transaction: idle_in_transaction_session_timeout, an
\* administrator, a lost connection.
EndTransaction(s) ==
  /\ InClaim(s) /\ live[s]
  /\ faults < MaxFaults /\ faults' = faults + 1
  /\ live' = [live EXCEPT ![s] = FALSE]
  /\ holder' = RolledBack(s)
  /\ UNCHANGED <<registry, now, lastRun, fired, rows, pc, started, map, todo, cur, last, at,
                 stop, ran, boots, backs>>

\* A statement in an ended transaction fails with a recoverable error.
Skip(s) ==
  /\ InClaim(s) /\ ~live[s]
  /\ NotClaimed(s)
  /\ UNCHANGED <<registry, now, started, map, todo, stop, ran, counters>>

\* A statement (or last_enqueue_map) fails with an error that is not
\* recoverable: it leaves Worker::run.
Fatal(s) ==
  /\ InClaim(s) \/ pc[s] = "top"
  /\ faults < MaxFaults /\ faults' = faults + 1
  /\ Gone(s)
  /\ holder' = RolledBack(s)
  /\ UNCHANGED <<registry, now, lastRun, fired, rows, ran, boots, backs>>

\* The commit takes effect and its answer is lost: the claim counts as skipped,
\* or the error leaves Worker::run; a callback is not invoked.
CommitUnanswered(s) ==
  /\ pc[s] = "fire" /\ live[s]
  /\ faults < MaxFaults /\ faults' = faults + 1
  /\ Stamp(s)
  /\ \/ /\ pc' = [pc EXCEPT ![s] = "scan"]
        /\ Forget(s)
        /\ UNCHANGED <<started, map, todo, stop>>
     \/ Gone(s)
  /\ UNCHANGED <<registry, now, ran, boots, backs>>

\* The process dies; the server still has its connection.
Crash(s) ==
  /\ pc[s] # "off"
  /\ Gone(s)
  /\ holder' = [c \in Crons |-> IF holder[c] = s THEN Ghost ELSE holder[c]]
  /\ UNCHANGED <<registry, now, lastRun, fired, rows, ran, counters>>

\* The server notices and rolls back (at the latest after the idle timeout).
Reap(c) ==
  /\ holder[c] = Ghost
  /\ holder' = [holder EXCEPT ![c] = Free]
  /\ UNCHANGED <<registry, now, lastRun, fired, rows, pc, started, map, todo, claimVars, stop, ran,
                 counters>>

Tick ==
  /\ now < MaxTime
  /\ now' = now + 1
  /\ UNCHANGED <<registry, rowVars, pc, started, map, todo, claimVars, stop, ran, counters>>

\* The database's wall clock is set back.
StepBack ==
  /\ backs < MaxBacks /\ now > 0
  /\ now' = now - 1
  /\ backs' = backs + 1
  /\ UNCHANGED <<registry, rowVars, pc, started, map, todo, claimVars, stop, ran, boots, faults>>

Work(s) ==
  \/ ReadMap(s) \/ (\E c \in Crons : Visit(s, c)) \/ EndTick(s) \/ Wake(s) \/ Stop(s)
  \/ Select(s) \/ Insert(s) \/ ReadClock(s) \/ Commit(s) \/ RunCallback(s) \/ Skip(s)

Next ==
  \/ \E s \in Schedulers :
       \/ Work(s) \/ Boot(s) \/ Shutdown(s)
       \/ EndTransaction(s) \/ Fatal(s) \/ CommitUnanswered(s) \/ Crash(s)
  \/ \E c \in Crons : Reap(c)
  \/ Tick \/ StepBack

Spec == Init /\ [][Next]_vars

(* A process goes on, the server notices a dead connection, time passes.   *)
Fairness ==
  /\ \A s \in Schedulers : WF_vars(Work(s))
  /\ \A c \in Crons : WF_vars(Reap(c))
  /\ WF_vars(Tick)

FairSpec == Spec /\ Fairness

(* The same without anything that stops a process from outside: no crash,  *)
(* no shutdown, no error of the database.                                  *)
SteadyNext ==
  \/ \E s \in Schedulers : Work(s) \/ Boot(s)
  \/ Tick

SteadySpec == Init /\ [][SteadyNext]_vars /\ Fairness
-----------------------------------------------------------------------------
(* Properties *)

RowsOK ==
  /\ now \in Times
  /\ lastRun \in [Crons -> Int \cup {Never}]
  /\ holder \in [Crons -> Schedulers \cup {Free, Ghost}]
  /\ fired \in [Crons -> SUBSET Int]
  /\ rows \in [Crons -> Nat]
  /\ ran \in [Crons -> SUBSET Int]

LoopOK ==
  /\ pc \in [Schedulers -> Labels]
  /\ started \in [Schedulers -> Int]
  /\ map \in [Schedulers -> [Crons -> Int \cup {Never}]]
  /\ todo \in [Schedulers -> SUBSET Crons]
  /\ stop \in [Schedulers -> BOOLEAN]

ClaimOK ==
  /\ cur \in [Schedulers -> Crons \cup {NoCron}]
  /\ last \in [Schedulers -> Int \cup {Never}]
  /\ at \in [Schedulers -> Times]
  /\ live \in [Schedulers -> BOOLEAN]
  /\ \A s \in Schedulers : (cur[s] # NoCron) <=> (InClaim(s) \/ pc[s] = "calling")

ConfigOK ==
  /\ registry \subseteq Crons
  /\ boots \in 0..MaxBoots /\ faults \in 0..MaxFaults /\ backs \in 0..MaxBacks

\* Every variable has its type, and a scheduler is at some cron exactly from the
\* pre-filter to the end of the claim or of the callback; a claim time is always
\* one the database's clock has shown.
TypeOK == RowsOK /\ LoopOK /\ ClaimOK /\ ConfigOK

\* A claim that can still commit rests on the row's present last_run_at, whatever
\* other schedulers, lost transactions and clock steps did since it was read.
ClaimCurrent ==
  \A s \in Schedulers :
    pc[s] \in {"clock", "fire"} /\ live[s] =>
      last[s] = lastRun[cur[s]]

\* All schedulers together keep the promise of CronPromise: no two fires in one
\* interval or slot, one queue row per fire of a job cron, a callback at most
\* once per fire.
KeepsPromise == Promise!PromiseSpec

\* c is due by the database's clock and by the clock of every process.
DueEverywhere(c) ==
  \A s \in Schedulers : \A t \in {now, LocalNow(s)} : ShouldRun(c, lastRun[c], t, started[s])

SomeScheduler == \E s \in Schedulers : pc[s] # "off" /\ ~stop[s]

\* A due cron is fired while some scheduler lives: skipped claims, contended
\* rows, rolled-back transactions and dead connections only delay it.
EventuallyFires ==
  \A c \in Crons : (c \in registry /\ DueEverywhere(c)) ~> (~DueEverywhere(c) \/ ~SomeScheduler)

\* With a process that nobody stops, every due interval of a cron fires, also
\* the one after a callback error.
NextIntervalFires ==
  \A c \in Crons : (c \in registry /\ boots = MaxBoots /\ DueEverywhere(c)) ~> ~DueEverywhere(c)
=============================================================================
