# A TLA+ model of cja

cja is a set of Rust crates for web services that keep their background work in
PostgreSQL. This directory holds TLA+ modules of the parts whose correctness depends
on the order in which processes, statements and failures happen, TLC configurations
that check them on small instances, and TLAPS proofs for all instances.

Paths below are relative to `src/crates/`.

## 1. Inventory

| Component | State | Operations | What is hard | Module |
|---|---|---|---|---|
| Job queue and job workers, `cja/src/jobs` | rows of `jobs` and `dead_letter_jobs`; per worker the claim, its lease tracker and `abandoned_jobs` | enqueue, claim or reclaim, heartbeat, watchdog, complete, retry, dead-letter, cleanup at shutdown | leases measured on both sides of a connection, answers that come late or never, shutdown in the middle of anything | `JobQueue`, `QueuePromise` |
| Idle poll gate, `cja/src/jobs/worker.rs` | a semaphore of periodic permits, a notifier | `admit_claim`, the loop of `job_worker`, `wake_one` | a permit or wake lost between two workers makes jobs wait, or wait for ever | `IdlePollGate` |
| Cron schedulers, `cja/src/cron` | rows of `crons`; per scheduler the snapshot of one tick and the claim transaction | tick, claim, commit, callback | several processes with their own clocks, transactions the server ends, commits without an answer | `CronSchedule`, `Cron`, `CronPromise` |
| Durable agent runs, `cja-llm/src/durable` | rows of `agent_runs` and `agent_messages`, the job that advances a run | start, claim, step, persist, ask, answer, cancel, requeue, finish | takeover of a stalled attempt, cancel racing every write, a run that loses its job | `DurableRuns` |
| Task supervisor and server, `cja/src/tasks.rs`, `cja/src/server/mod.rs` | the set of tasks, the shutdown token, the budget | spawn, run, drain, abort | a signal racing a task's exit, tasks that ignore the token, the platform's kill | `Supervisor` |
| Website boot, `cja.app/src/main.rs` | one advisory lock, a pool per instance | lock, migrate, unlock | lock and unlock on different connections | `BootLock` |
| Gateway client, `cja-llm/src/transport.rs`, `error.rs`, `config.rs`, `lib.rs` | attempts of one call, its connection, its stream | connect, send, read, retry, give up, cancel | which failures may be retried, cut-off bodies, streams that are dropped | `GatewayErrors`, `Gateway`, `CallPromise` |
| Secrets, `cja-secret`, `cja-secret-macros`, `setec` | value and version of each secret, the boot's fetches | load, refresh, loop | all or nothing at boot, refreshes at the same time, versions that do not parse | `SecretStore` |
| Tailnet, `cja-tailnet` | the embedded node and its lock | join, dial, leave | clients that dial while the node is taken away | `Tailnet` |
| Passkeys and sessions, `cja-passkey`, `cja/src/server/session.rs` | sessions with a challenge, users, credentials | start and finish registration or authentication | ceremonies of one browser that overlap, state kept between two requests | `SignIn` |
| Mock OAuth provider, `cja/src/testing/mock_oauth` | users, codes, tokens | authorize, exchange, get user | flows side by side | `MockOAuth` |
| Tool cache, `cja-build/src/tool_cache.rs` | files and a lock file | install, reuse | two builds that install at once, a build that dies half way | `ToolCache` |
| Front-end build, `cja-build/src/lib.rs`, `bundler.rs` | outputs, the manifest, the paths cargo watches | static files, type check, bundle, Tailwind, publish | edits while it runs, runs that are killed, what is not watched | `AssetsBuild` |
| Style sheet scanner, `cja-build/src/tailwind.rs` | two nesting counters and a stack of closers | one step per token | counters that lie about the nesting | `CssScan` |
| Test databases, `cja/src/testing/test_db.rs` | databases, reaped prefixes, advisory locks | create, clean up, reap | dropping the database of a live test by an old list and another clock | `TestDatabases` |
| Command line, `cli/src/main.rs` | the files of a project | new, init, sync-migrations | commands cut short in a directory somebody works in | `Scaffold` |
| Job registry, setup, static assets, database pool, eyes manifest, pages, traces, app host, LLM fakes | none that outlives a call | dispatch, formatting, I/O | nothing of their own | not modelled |

How they interact: a cron job and a durable run insert rows into `jobs`; job workers
lease rows and run a body, which for a durable run is one attempt of that run. Workers,
schedulers and servers of one process are tasks of the supervisor, which cancels one
shutdown token for all of them; the refresher of secrets is one of them and takes the
tailnet node, which the gateway client may borrow, away when it ends. Everything shared
between processes is in PostgreSQL, in the tool cache's directory or in a project's files.

## 2. Plan

Built in this order: `JobQueue` with the abstract `QueuePromise` (everything else rests on
it), `IdlePollGate`, `Cron` with the abstract `CronPromise`, `DurableRuns`, which takes the
promises of `JobQueue` as its environment, `ToolCache`; then `Supervisor`, `Gateway` with the abstract `CallPromise`,
`SecretStore` over `Tailnet`, `BootLock`, `SignIn`, `MockOAuth`, `CssScan`, `AssetsBuild`,
`TestDatabases` and `Scaffold`.

The theorems followed in the same order (section 5). Every invariant and every action
property of a passing run, and all three refinements, are now theorems; what a further
step could add is a promise of a durable run to its application, as `QueuePromise` is one of
the job queue to whoever enqueues.

## 3. Modules and code

Conventions of all modules: one SQL statement or transaction is one atomic step, and
sending it, its effect and its answer are separate wherever something may happen in
between. Rows are locked by the statement that changes them, so `SKIP LOCKED` never
skips in `JobQueue`; in `Cron` the claim is several statements and its lock is state.
Data is abstracted to what the properties distinguish: payloads, names, error texts and
logging are left out.

**`JobQueue`** (`jobs/worker.rs`, `jobs/mod.rs`). Timestamps are distances from now
(`age` of a lock, `due` until `run_at`, `since` the tracker's last refresh), which `Tick`
moves together. `ClaimSend`, `ClaimApply`, `ClaimReply` are `fetch_next_job` and the
first part of `run_next_job`; `BeatSend`, `BeatApply`, `BeatReply`, `BeatError`,
`Watchdog` and `BodyEnds` are the arms of its `select!`; `Finalize` the statement it ends
with; `BreakLoop`, `DrainTimeout` and `Cleanup` the shutdown of `job_worker`. Every
exchange may fail before or after its effect, any process may die anywhere, and a claim
dropped at shutdown may still be executed later (`LateClaim`). A heartbeat that is
executed after its own timeout is not modelled: it can only make a lease younger than
its owner believes. An unknown job name or a panic is a failing body. **`QueuePromise`** is
what whoever enqueues a job may rely on: the job has a holder or none; it is given, taken
over from a holder as one more failure, handed back, retried, settled or buried; a holder
that has given it up does none of these. `Promise` in `JobQueue` maps `holder` to
`locked_by`, `failures` to the count of the row or of the dead letter, `givenUp` to the leases
that were abandoned and not yet charged, and the state of a job to its row, its dead letter
and the effect of its completion (`JobState`); phases, leases, clocks and exchanges are
hidden.

**`IdlePollGate`** (`jobs/worker.rs`, 37-65 and 762-901). tokio's semaphore and notifier
are modelled as queues served in order; `AdmitDirectly`, `AdmitPoll` and `Unpark` are the
ways through `admit_claim`.

**`CronSchedule`** has the schedules as predicates on instants, **`CronPromise`** what
all schedulers together promise, **`Cron`** the schedulers: `ReadMap` and `Visit` (the
snapshot and the pre-filter with the process's own clock), `Select`, `Insert`, the second
`Select`, `ReadClock` (the statements of `claim_due`), `Commit`, `RunCallback`. The server may
end any open transaction, a commit may succeed without an answer, a dead process holds
its locks until `Reap`, and the database's clock may step back.

**`DurableRuns`** (`cja-llm/src/durable`) is one run. `status` to `state` are the row of
`agent_runs`, `rows` the transcript, `queue`, `jobBy`, `jobErr` the `AdvanceRunJob` rows
that carry the run's id, the rest the attempts, each with the `me` of one `advance_run`.
`Start`, `Answer`, `Cancel` are the operations of the application. `TryClaim`,
`NotClaimed`, `CurrentStatus` are `claim_and_validate`; `Loop` the dispatch on
`next_step`; `CallModel`, `Budget`, `CallTools`, `ToolReturns` the steps; `Heartbeat`,
`HeartbeatError`, `GuardShutdown` the arms of `with_lease_guards`; `Project` and `Write`
every write, which reads the high-water mark of the transcript first and whose
transaction (`PersistStep`, `Finish`, `SetWaiting`) does nothing without the lease;
`Rejected` and `FailUnstorable` content PostgreSQL refuses; `Release` and `Requeue` the
ends of an attempt. `EndJob` is the worker's finalization, `ReclaimJob` an expired job
lease. rig's `AgentRun` is external: `NextStep`, `ModelResponse`, `Answered` say what the
engine relies on, with messages, open calls and turns. Every exchange may fail before or
after its effect; a claim may be executed after its timeout (`LateClaim`); an attempt may
stall past `lease_takeover` (`Expire`), be told to stop (`Shutdown`), be dropped at the
end of the drain (`Drain`) or die (`Die`), its last write executed or not.
A job row is reclaimed only when its attempt is gone or is finalizing: that is
`BodyExclusion` of `JobQueue` for a punctual watchdog.

**`ToolCache`** (`cja-build/src/tool_cache.rs`): builds of several processes resolve one
tool, an archive (`tsc`) or a single file (`tailwind`). `Resolve` and `Lock` are `resolve`;
`CheckArchive`, `CheckFile`, `Hash`, `Mark`, `Marked` are `valid_cache`; `MoveAside` and
`Clean` what `resolve_locked` does around `install`, which is `Fetch`, `Verify`, `Unpack`,
`WriteDigest` and the two `Install` actions. Every file operation may fail, a build may die
anywhere, and `Outside` replaces or removes the entry without the lock. A file's stamp is
its mtime, and every write has its own: a write that keeps size and mtime is trusted by
design (the test `file_cache_marker_trusts_original_mtime_and_size`). A loss of power,
which could undo writes the kernel has not flushed, is not modelled.

**`Supervisor`** (`tasks.rs`, `server/mod.rs`): one process. `Spawn`, the branches of the
`select!` in `run_until`, the drain with its deadline, the abort and `run_until_first_error`;
the server task stops when its connections are done, the worker task hands its lock back or
strands it. Tasks end well, with an error or in a panic, and may ignore the token; signals
come again; the platform kills when its own window is over.

**`BootLock`** (`cja.app/src/main.rs`): each statement of the boot takes any free connection of
the instance's pool, which is what `execute(&pool)` does; a session may lock again what it
holds; the pool closes idle connections; processes die and start again.

**`GatewayErrors`** has the classifications of `error.rs` and what of an error is printable,
**`Gateway`** one call (`run_loop`, `run_attempt`, the body, `into_boxed_stream` and the drop of a
stream), with its deadline, backoff and `Retry-After`, and **`CallPromise`** what a caller may rely
on: a request is *open* while it is sent and nothing is heard of it, *refused* while the head of
a refusal has come and its body is not over, and closed (none) by a complete success, by being
given back unsent, or by the end of the refusal's body, complete, capped or broken off
(`read_capped` does not tell these apart). The next request is sent only when there is none, and a
verdict other than `Timeout` or `Rig` leaves none open or refused. A stream's scanner reads lines that may come
in parts and loses a part that grows past 64 KiB (`Overflows`). hyper's queue-reject is the
external fact the retry rule rests on.

**`Tailnet`** (`cja-tailnet`): the node behind a lock that dialling reads and leaving writes.
**`SecretStore`** extends it: `connect`, `load` with one fetch per secret, its backoff and the
common time limit, `refresh` secret by secret (ask, apply, which is two assignments, mark),
the loop and its end. Administrators change versions and grants at any moment.

**`SignIn`** (`cja-passkey`, `server/session.rs`): requests of browsers as handlers of several
statements; `Register` is the transaction that makes a user and its credential. webauthn-rs is
external: a finish is right when the answer matches the challenge the handler has read.
**`MockOAuth`** is the provider for tests, with one action per lock that is taken.

**`CssScan`** (`tailwind.rs`, `directives`) reads one token at a time; `nest`, the true stack of
braces and parentheses, is history that only the property reads. It leaves out square brackets and
all brackets inside a custom property's value (`tailwind.rs:209-222`), which the scanner matches on a
stack of its own, so an accepted sheet is shown to be balanced outside those. **`AssetsBuild`** (`lib.rs`, `bundler.rs`) is
the build script, one action per step that reads or writes files, between edits of the
sources; `dirty` is what cargo compares (files edited since the script began). The front end is
fixed by constants: static files, an entry and a module, a config that extends another, style
sheets and an environment variable, and three files that are there only sometimes and are not
watched while they are missing: `Legacy`, a `tailwind.config.*` beside the input, which `ValidateCss`
refuses and never watches (`tailwind.rs:628-640`); `Ignore`, an ignore file above the `@source`
directory, of which `existing_ignore_files` gives the present ones (746-804; `docs/development.md:39-41`
says so); and `Stray`, a declaration that only an include pattern of an extended config selects
(`lib.rs:749` watches the patterns of the first config). The `.git` and `commondir` files that lead to an
exclude file are read and not watched either; they are part of `Ignore`. `Visit` is one call of `visit`, which refuses directives
that are not in their place (`InPlace`); the sheets Tailwind itself reads are `Reach`, the least set
with the root that is closed under imports, and what a clean build would accept and list is
`Acceptable` and `Expected`. `NeverStale` states both of the present files `AsNoticed`: a `Legacy` or
`Stray` that is not watched counts as absent, an `Ignore` that is not watched as some version.

**`TestDatabases`** (`testing/test_db.rs`): every test creates one database, in processes with
their own clocks; the reaper is its five statements for every name; the server refuses to drop
what is in use, and the pool may be between two connections (`Recycle`).
**`Scaffold`** (`cli/src/main.rs`): a command is the list of its file operations, of which each may
fail and a write may be cut short; between commands somebody edits files.

**`MCService`**, **`MCParts`** and **`MCShared`** put parts that share no state into one run each:
one part is chosen and moves, the others rest. `MCService` and `MCShared` (`DurableRuns` and
`ToolCache`) have parts with liveness properties.

**Proofs** are in modules of their own: `JobQueueProofs`, `CronProofs`, `ToolCacheProofs`,
`DurableRunsProofs`, `GateProofs` and `GatewayProofs` extend the module they are about,
`ServiceProofs` extends `MCService` and `GateProofs`, and `PartsProofs` extends `MCParts`,
`GateProofs` and `GatewayProofs`. A part that is proved about uses no recursive operator.

## 4. Runs

| Run | Instance | Shows |
|---|---|---|
| `job_lease` | 1 job, 2 workers, 1 retry, `error_count` up to 2, watchdog up to 3 ticks late, 1 failed exchange | type, exclusion of bodies, single settlement, no loss, charges; `QueuePromise` implemented, so no early dead letter |
| `job_live` | the same, prompt database | every accepted job is settled while a worker lives |
| `job_exhausted` | no retries | *violated*: see findings |
| `cron` | 2 schedulers, one ahead; an interval callback or a cron with 2 slots; crashes, restarts, a fault, a clock step back | `CronPromise` implemented; a due cron fires while a scheduler lives |
| `cron_callback_error` | 1 scheduler, no outside failure | *violated*: see findings |
| `runs` | 2 attempts, 3 job rows, 3 responses (an answer; a tool, then an ask; an ask, then one that does not parse), 2 turns, 1 retry, 2 faults | type, no orphaned run, transcript faithful, waits only for an open ask and never when cancelled, tools on record, record only extended and terminal runs frozen |
| `runs_cancel` | a final answer only, no fault | *violated*: see findings |
| `shared` | runs: 2 attempts, 2 job rows, 2 responses, 1 fault; tool cache: 2 builds, 3 calls, 1 change from outside, both kinds of tool | a live run ends, suspends or is dead-lettered; handed-out paths stay sound, installs whole, previous entry preserved, every call returns |
| `service` | supervisor: server with a websocket and a worker, drain 1, grace 2 of which the cleanup takes 1, kill window 4; boot: 2 instances, 2 connections, 2 restarts; gate: 2 workers, 1 permit, 2 rows; secrets: a required and an optional one, 3 versions of which one does not parse, 2 changes, a borrower | no task outlives `run` and the verdict is right, locks handed back, migrations one at a time, permits conserved, loading all or nothing; a stop ends, boots finish, due rows are found, handles catch up, the node leaves |
| `parts` | gateway: 3 attempts, both modes; gate: 3 workers, 1 permit, 2 rows; sign-in: 2 browsers, 2 requests at once, 1 name; OAuth: 2 calls, 2 flows; style sheets of 7 tokens; assets: 11 files and 3 that may come, 2 edits, 3 runs; test databases: 2 processes, 3 tests; command line: 2 commands, 1 edit | `CallPromise` implemented, no connection left behind, attempts and streams reported once, wakes not lost, accounts whole and challenges spent, flows apart, counters true, manifest whole and not stale but for three kinds of unwatched files, databases in use kept, user files kept but for two exceptions and reports complete |
| `secret_race` | 1 secret, the loop and one more caller, 3 versions | *violated*: see findings |
| `cli_no_jobs` | 2 commands, 1 edit | *violated*: see findings |

Why the bounds are enough. Two workers are needed for a lease to change hands and a
worker can take its own expired lease; the lease arithmetic is exercised with the
smallest configuration `JobWorkerConfig::validate` accepts (reclaim = 3 heartbeats,
half a heartbeat = 1 tick) and a watchdog that may fire after the reclaim window
(`Stall` = 3). `I32Max` = 2 puts the end of the counter within reach. With one job the order
of claims (priority, `run_at`) is modelled but no property depends on it. For the gate,
three workers and one permit allow a holder, a waiter and a woken worker at once. For
cron, two instants after the start give two slots and an interval that is, and one that
is not, over. For runs, two
attempts are the owner and the one that takes over, and ids are used again once nothing
carries them; three job rows are the owner's, a duplicate and a fresh one; two faults
allow a failure while another is being handled (three, with two responses, were also
explored). For the tool cache, three calls are two that race and one that follows a death
or a failure. The supervisor's kill window is one tick longer than the budget
and begins at the signal instead of the cancellation, so either may come first. Two
connections are the one that locks and another that unlocks. The gateway's request timeout
admits all three attempts, a `Retry-After` that fits and one that does not. Two requests of one
browser and a name both want are the least that overlaps. Seven tokens nest two braces and a
parenthesis with directives around and inside. Two edits hit a source before and after it
was read; three runs are one that is cut short, one that follows and the check that no more
is needed. In the test databases one clock is ahead by less than the age that makes a name
stale, so a name may be from the future. Attempts and job ids are symmetric in `runs`, not
in `shared`, which has liveness properties.
`CHECK_DEADLOCK FALSE` stands where all processes may have exited.

Fairness. `job_live`: a live worker's loop goes on, a body returns, statements are
answered, time passes; failures are not fair and are bounded. `Prompt` says the database
answers before the lease it granted runs out; without it a worker may lose every lease
to its own slow answers. `cron`: a process goes
on, the server notices dead connections, time passes. `shared`: an attempt
goes on, model and tool calls return, abandoned leases and jobs are noticed, and a claim
the server holds is executed; errors of the gateway are not bounded, and it is the
charges of the job row that end a run without progress, `max_turns` one with; a build
goes on once it has the lock, and the lock goes to somebody who waits. `service`: the
supervisor is polled, time passes and the platform kills in the end; of the tasks only the job
worker obeys the token (its drain drops the job and hands the lock back), the others may never
look at it, so the deadline has to do it. A boot goes on, however often other boots get the
lock before it (strong fairness: PostgreSQL queues lock requests), and pools close idle
connections. Every worker task is polled. The refresher's loop, its exchanges and dials go on,
and its `select!`, which picks among ready branches at random, does not overlook the token for
ever. In all of
them stopping is not
fair and the property asks only for a worker that stays.

### Findings

* `job_exhausted`: `jobs/mod.rs:74-76` says a job "can execute N+1 times"; a shutdown
  between the claim that charges the last failure and its dead letter unlocks the row
  without the mark that it was reclaimed, and the next claim runs the body again.
* `cron_callback_error`: `cja/README.md:342-345` says that after a callback error "the
  next interval fires normally"; the error ends `Worker::run`.
* `runs_cancel`: `durable/mod.rs:687-690` says a live run "is flagged and its owner marks
  it `cancelled` at the next step boundary"; the last step is a persist, which reads the
  flag, and a finish, which does not (`durable/worker.rs:722`): a cancel accepted between
  the two is followed by `succeeded`.
* `secret_race`: `cja-secret/src/lib.rs:676` says `current` is "the value of the active version
  as of the last refresh"; `Entry::apply` (724) replaces the value and then the version, and two
  refreshes at once can leave the older value under the newer version. setec is asked by
  version, so the value stays until the next one is activated.
* `cli_no_jobs`: `cli/src/main.rs:44` and 457 say that `--no-jobs` disables cron; `--no-jobs` without
  `--no-cron` spawns `cron::run_cron` (1290-1296) and leaves the module out (1402).

Observations without a run.

* Jobs: a claim dropped at shutdown may be executed after `cleanup_worker_locks` and leave its
  row locked until the reclaim window ends (`jobs/worker.rs:802`; the documentation at 690-691
  says locks are released before exit).
* Cron: several slots that pass between two ticks give one enqueue (`cron/registry.rs:108`;
  `cja/README.md:336-337` says one per slot).
* Runs: the argument that a lost lease may end in `Ok` (`durable/worker.rs:1190`) needs job leases
  to be honoured: an attempt that stalls before `try_claim` until its job row was given to
  another, and whose statement then takes over a stale run lease, makes the holder of the
  row stop with `Ok` and delete it, while its own row is no longer its own.
* Gateway: `transport.rs:1064-1065` says the completion event "must fire exactly once per logical
  call, when its outcome is final"; `run_loop` sends it for every attempt that is not a stream,
  before it decides on a retry (733), so `ReportedOnce` counts events per attempt and a call that
  is retried has several. `DeadlineElapsed` (341-342) and `run_attempt` (833-836) keep an incomplete
  refusal from being taken as a status when the deadline cuts it short; one whose body breaks off
  or goes on past the cap is classified by its head and a 429 or 5xx is retried, as `read_capped`
  says (376-380). `KeepsCallPromise` therefore promises a status whose body is over, not a
  complete reply.
* Gateway: after the last attempt a retryable error still sleeps its backoff
  (747-753); a zero request timeout reports a timeout after sending although nothing was
  sent (761).
* Boot: an unlock on another connection fails, which is only logged, and the lock is kept until
  the pool closes the connection that has it (`main.rs:70`).
* Sessions: `clear_challenge_state` clears whatever challenge is there, a newer one too; the
  counter of a credential is read and written in two steps; any error of `from_db` makes a new
  session, and two first requests at once make two.
* Assets: an ignore file created later above a `@source` is not watched, as documented
  (`docs/architecture.md:32-33`); neither are the include patterns of an extended config nor, which
  makes the next clean build fail, a `tailwind.config.*` that appears beside the input.
* Test databases: the reaper reports a name as dropped (`test_db.rs:112-113`) also when `IF EXISTS`
  found it gone; a database older than `CJA_TEST_DB_MAX_AGE_SECS` by another process's clock can be
  dropped while its pool is between two connections.
* Command line: `init` rewrites `Cargo.toml` in place, overwrites migrations of
  its own names, and cannot be repeated once it has added the `[[bin]]` section; a migration
  that was cut short is skipped by later synchronisations.

## 5. Proofs

`JobQueueProofs` proves, for any sets of jobs and workers and any configuration
`ConfigAssumption` admits, all safety properties of `job_lease`, and besides them that an
owner's snapshot is current (`SnapshotCurrent`), that leases are honoured (`LeaseHonoured`)
and that nothing is dead-lettered early (`NoEarlyDeadLetter`). The argument rests on two
inductive invariants. `LeaseInv` ties a worker's tracker to the row: while a worker owns
the row it handles, the row is no older than the tracker says, and an unanswered
heartbeat is no younger than the row; then a row is reclaimed only when the former
owner's watchdog is more than half a heartbeat overdue. `BookInv` is the bookkeeping: an
owner's snapshot equals the row's count, a given-up lease stays locked and remembered
until a claim charges it, and a settled job has no row. Both need `TypeOK`.
From them follows that `JobQueue` implements `QueuePromise` (`TablesKeepPromise`): with `BookInv`,
the worker whose name is on the row it is handling has the job in hand (`HasInHand`), with a
current count, so each of its statements is a `Retry`, a `Succeed`, a `Die` or a `HandBack`
of the promise, a claim is a `Give` or a `TakeOver` of the row it locks, and every other
step stutters.

`CronProofs` proves that `Cron` implements `CronPromise` for any schedules, clocks and
failures. `CronInv` adds to the type invariant that only the holder of a row's lock has a
claim that can commit (`Held`), that such a claim has read the row's present value
(`Working`), that the row holds the latest fire (`Latest`) and that a callback about to run
belongs to its own, unused fire (`OwnFire`). Separation from the latest fire gives
separation from all earlier ones because fires are ordered.

`ToolCacheProofs` proves the safety properties of the tool cache, and that the verified marker is
sound (`MarkerSound`), for any set of builds and any
number of calls and changes. What a call with the lock knows of the entry holds as long as
nobody interferes (`Knows`); a call that returned without interference and the present
holder of the lock agree on that (`Untouched`), so the holder finds the entry sound and
does not move it. The marker needs that stamps are from the past (`Past`) and that a stamp
about to be written was earned by the content it will match (`StampEarned`).

`DurableRunsProofs` proves all safety properties of `runs` for any attempts, job rows, model,
limits and failures that `RunAssumption` admits (the markers for "none" are not attempts, jobs or
messages, and a response has a sequence of calls). Each of them alone is far from inductive, so
there is one invariant, `DurableInv`. What attempts hold in memory is compared with the stored
run: `OwnerAhead` says that the owner of the lease is some steps ahead of it (`Ahead`, the
transitive form of what `RecordExtends` allows), that an attempt which is about to run a tool
has a history that begins the stored one, and that no mark is beyond the transcript. From
this a write with the lease extends the record and one without it changes nothing. `RunsGood` and
`InStep` are what rig's state machine and the place in the code imply about a run. For
`NeverOrphaned`, `JobsLeased` ties a row to the attempt that executes it, and `Anchored` says that
a live run has a row that is free or whose attempt is not `Doomed`, that is, is not bound to
end `Ok` without the lease; a takeover dooms the former owner and saves the new one, and a
requeue adds the new row before the old one goes.

`GateProofs` proves that permits are conserved for any number of workers and permits, which
needs that those in line are the parked workers, each once (`Lined`); and `WakesNotLost`. That a
worker is awake is not enough to carry on, as it may be about to park, so `Covered` says that
somebody will claim before it waits again, or somebody at the top of its loop will find a
permit or the stored wake. It needs more workers than permits:
otherwise every worker may be asleep with a permit, where no wake reaches it.

`ServiceProofs`. *Supervisor*, for any tasks and any times with `Cleanup < ExitGrace` and the budget
below the platform's window (`SupervisorAssumption`; the defaults in `tasks.rs` are chosen so):
`Joined` (who runs is still to be joined, and nobody is told before the drain), `Judged` (the
verdict is made once, from what began the stop), `JobsHeld` and `OnTime` (a worker that listens is
gone before the deadline, and only the deadline aborts). *Boot*: `LockKept` says that whoever
migrates holds the lock, whoever holds it is past its wait for it, and its depth is zero exactly
when nobody holds it; so `MigratesAlone` for any number of instances and connections. *Secrets*:
`Fetches` says that a fetched secret has a value that parses and an absent one is optional,
`Applied` that a refresh applies only an answer. `SecretAssumption` fixes what the code's types do:
optional names are names, the loop is a refresher, version 1 exists and waits are ordered.
`ServiceKeepsInvariant` joins them with the gate's: a step moves one part and leaves the others.

`GatewayProofs` proves that `Gateway` implements `CallPromise`, and the two invariants about
connections, wires, errors and events, for every policy, timeout and `Retry-After`. The refinement
maps the promise's request to the requests queued and not closed (`Request`: none, refused while an
error body is read, open otherwise) and needs `Accounts`: before a request is sent and while the
call waits to retry, every request queued is closed; after that all but the present one are, and
that one is refused exactly while its error body is read.
`Scanning` and `Unreported` tie the stream's flags to its result, to the way it ended and to the
events, from which `ReportedOnce` follows; `ResultWhenOver` forbids a result while the call goes on. That `GatewayErrors` classifies no error with an open request as anything but
`Timeout` or `Rig` is a lemma over all its error values.

`PartsProofs` has a section for each of the others.
*OAuth*: a flow's code is at one place, on its way into the map, in it or on its way to a token
(`CodeOnce`). *Test databases*: a reap is at a database that was stale by a clock at most `Ahead` in
front (`ReapsStale`), and no database is made twice (`MadeOnce`); what is in use is then kept because
the server refuses, what is young because of the clock. *Sign-in*: a challenge belongs to one
session (`ChallengeHome`), what a handler carries from one statement to the next still holds when
it is used (`HandlersSound`), and accounts and credentials are paired (`Paired`). *Style sheets*:
the true stack is the `Pile` of as many braces as `cssDepth` says with as many parentheses as
`parens` says on top, which holds because a custom property cannot begin inside a parenthesis
(`Flagged`); sheets of any length. *Assets*: the outputs gathered so far are whole, `OUT_DIR` holds
the first of them while they are written and all of them before the list is renamed
(`OutDirAt`), and there is no list while a run is between its first and its last step (`ListedAt`).
For `NeverStale`, `FreshInv` says of every step of the script: either a path that is
watched by now has been edited since the run began, or all that the run has found out so far
holds of the present files (`Kept`, one conjunct for each kind of file, under the condition that
the step which found it is over; it depends only on files that are watched by then, so it also holds of the
files `AsNoticed`, and `Watchable` says that a Tailwind config never is one of them). For the style sheets, what was seen and what is still to visit
lies in every set that is closed under imports (`SeenReached`), and every import of a seen
sheet is still to be visited or was the one visit of its target (`SeenCounted`), so that once
nothing is left to visit the sheets that were seen are `Reach`, each imported once. Names are accepted because the records
of a list have different names (`OneRecordPerName`). `AssetsAssumption` says that static files are finitely many, that the three files that come and go are none
of the others, that configs extend configs and that sheets import sheets. *Command line*: `SafePlan` says that each write still planned is of a migration, of
a file that is not the user's, or is preceded by the check that ends the command if it is there;
`InOrder` that each operation of a command is done or still planned. `PartsKeepInvariant` joins all
of them, with the types, the gate and the gateway.

Other assumptions on constants are that bounds are natural numbers and that processes do not
share tests; TLC evaluates each of them in the runs.

Only model-checked: `EventuallySettled`, `EventuallyFires`, `RunSettles`, `ResolveReturns`,
`StopsInTheEnd`, `BootsFinish`, `DueJobsFound`, `CatchesUp`, `LeavesTailnet`: liveness under
fairness is out of the prover's reach.

## 6. Not modelled

The job registry is a macro that dispatches a name (an unknown one is a failing body of
`JobQueue`). Process setup, static file serving, the database pool's options, the eyes
manifest, pages, traces and the dispatch by host are straight-line code around libraries, and
the fakes and the fixture of cja-llm only serve tests. The texts of generated projects,
templates, command lines and log lines are data no property reads. A loss of power that undoes
unflushed writes, and collisions of the 32-bit asset hash, are left out.
