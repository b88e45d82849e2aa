----------------------------- MODULE Supervisor -----------------------------
(* A cja process from Supervisor::new to its exit (tasks.rs), with the tasks *)
(* an app hands it: the HTTP server (server/mod.rs), a job worker and others. *)
(* One tick is a second or so. axum, tokio and the platform are external.    *)
EXTENDS Naturals, FiniteSets

CONSTANTS
  Tasks, Server, Worker,    \* the tasks an app may spawn; two have a known inside
  Connections,              \* clients of the server
  JobDrain, ExitGrace,      \* ShutdownBudget
  Cleanup,                  \* ticks a worker takes to release a dropped job's lock
  KillWindow                \* ticks from a signal to the platform's SIGKILL

ASSUME SupervisorAssumption ==
  /\ Server \in Tasks /\ Worker \in Tasks /\ Server # Worker
  /\ {JobDrain, ExitGrace, Cleanup, KillWindow} \subseteq Nat
  /\ Cleanup < ExitGrace /\ JobDrain + ExitGrace < KillWindow

VARIABLES
  sup,          \* where Supervisor::run is
  entry,        \* the app awaits Supervisor::run or wait_for_first_error
  tstate,       \* each task: not spawned, running or how it ended
  names,        \* spawned tasks that were not joined yet
  token,        \* the shutdown token is cancelled
  came,         \* the signals that arrived
  sinceSignal, sinceCancel,
  sresult,      \* what run returns
  conns,        \* the server's open connections
  job           \* the worker's job in flight and its lock

clocks == <<sinceSignal, sinceCancel>>
taskVars == <<tstate, conns, job>>
supervisorVars == <<sup, entry, names, token, came, clocks, sresult, taskVars>>

Signals == {"SIGTERM", "SIGINT"}
OwnEnds == {"ok", "err", "panic"}
Over == {"exited", "killed"}
NoResult == [kind |-> "none", task |-> "none"]
Ok == [kind |-> "ok", task |-> "none"]
Failed(t) == [kind |-> "failed", task |-> t]

SupervisorInit ==
  /\ sup = "starting" /\ entry \in {"run", "first error"}
  /\ tstate = [t \in Tasks |-> "unspawned"]
  /\ names = {} /\ token = FALSE /\ came = {}
  /\ sinceSignal = 0 /\ sinceCancel = 0
  /\ sresult = NoResult
  /\ conns = {} /\ job = "none"
-----------------------------------------------------------------------------
(* The supervisor *)

Spawn(t) ==
  /\ sup = "starting" /\ tstate[t] = "unspawned"
  /\ tstate' = [tstate EXCEPT ![t] = "running"]
  /\ names' = names \cup {t}
  /\ UNCHANGED <<sup, entry, token, came, clocks, sresult, conns, job>>

\* A process without tasks has nothing to wait for.
Run ==
  /\ sup = "starting"
  /\ IF names = {} THEN sup' = "exited" /\ sresult' = Ok
     ELSE sup' = "serving" /\ UNCHANGED sresult
  /\ UNCHANGED <<entry, names, token, came, clocks, taskVars>>

\* ShutdownSignals::register made the handlers before anything was spawned and
\* they keep a signal until recv; wait_for_first_error has none, so the default
\* disposition ends the process.
Signal(s) ==
  /\ sup \notin Over /\ s \notin came
  /\ came' = came \cup {s}
  /\ sup' = IF entry = "run" THEN sup ELSE "killed"
  /\ UNCHANGED <<entry, names, token, clocks, sresult, taskVars>>

SelectSignal ==
  /\ sup = "serving" /\ entry = "run" /\ came # {}
  /\ sresult' = Ok
  /\ sup' = "draining" /\ token' = TRUE
  /\ UNCHANGED <<entry, names, came, clocks, taskVars>>

Finished == {t \in names : tstate[t] \notin {"unspawned", "running"}}

\* The other branch of run_until's select, and all of wait_for_first_error, which
\* leaves the other tasks running.
SelectTask(t) ==
  /\ sup = "serving" /\ t \in Finished
  /\ sresult' = Failed(t)
  /\ names' = names \ {t}
  /\ IF entry = "run" THEN sup' = "draining" /\ token' = TRUE
     ELSE sup' = "exited" /\ UNCHANGED token
  /\ UNCHANGED <<entry, came, clocks, taskVars>>

\* The drain loop's join_next_with_id: how the task ended is only logged.
JoinNext(t) ==
  /\ sup = "draining" /\ t \in Finished
  /\ names' = names \ {t}
  /\ UNCHANGED <<sup, entry, token, came, clocks, sresult, taskVars>>

Budget_GraceOnly == JobDrain

Budget == JobDrain + ExitGrace

DeadlineReached_Idle ==
  /\ sup = "draining" /\ names # {} /\ Finished = {} /\ conns = {}
  /\ sinceCancel >= Budget
  /\ sup' = "aborting"
  /\ UNCHANGED <<entry, names, token, came, clocks, sresult, taskVars>>

\* The deadline passes with tasks still running: JoinSet::shutdown aborts them.
DeadlineReached ==
  /\ sup = "draining" /\ names # {} /\ Finished = {}
  /\ sinceCancel >= Budget
  /\ sup' = "aborting"
  /\ UNCHANGED <<entry, names, token, came, clocks, sresult, taskVars>>

\* An aborted task is dropped where it is: its connections close, and a job it was
\* running keeps its lock.
Dropped(t) ==
  /\ conns' = IF t = Server THEN {} ELSE conns
  /\ job' = IF t = Worker /\ job # "none" THEN "stranded" ELSE job

Abort(t) ==
  /\ sup = "aborting" /\ t \in names
  /\ names' = names \ {t}
  /\ IF tstate[t] = "running"
     THEN tstate' = [tstate EXCEPT ![t] = "aborted"] /\ Dropped(t)
     ELSE UNCHANGED taskVars
  /\ UNCHANGED <<sup, entry, token, came, clocks, sresult>>

Exit_AtDeadline ==
  /\ sup = "draining" /\ sinceCancel >= Budget
  /\ sup' = "exited"
  /\ UNCHANGED <<entry, names, token, came, clocks, sresult, taskVars>>

Exit ==
  /\ sup \in {"draining", "aborting"} /\ names = {}
  /\ sup' = "exited"
  /\ UNCHANGED <<entry, names, token, came, clocks, sresult, taskVars>>

SupervisorStep ==
  \/ SelectSignal \/ DeadlineReached \/ Exit
  \/ \E t \in Tasks : SelectTask(t) \/ JoinNext(t) \/ Abort(t)
-----------------------------------------------------------------------------
(* The tasks *)

Alive(t) == sup \notin Over /\ tstate[t] = "running"

Ends(t, how) == tstate' = [tstate EXCEPT ![t] = how]

\* A task fails, panics or returns by itself. The server does when bind_listener
\* cannot parse PORT, take the inherited socket or open the port.
Breaks(t) ==
  /\ Alive(t)
  /\ \E how \in OwnEnds : Ends(t, how)
  /\ Dropped(t)
  /\ UNCHANGED <<sup, entry, names, token, came, clocks, sresult>>

\* serve_until accepts until the token is cancelled and returns with the last
\* connection; a websocket may stay open for ever.
Open(c) ==
  /\ Alive(Server) /\ ~token /\ c \notin conns
  /\ conns' = conns \cup {c}
  /\ UNCHANGED <<sup, entry, names, token, came, clocks, sresult, tstate, job>>

Close(c) ==
  /\ Alive(Server) /\ c \in conns
  /\ conns' = conns \ {c}
  /\ UNCHANGED <<sup, entry, names, token, came, clocks, sresult, tstate, job>>

\* The job worker: claim, finish, and with the token cancelled drop the job once
\* its drain is over, release the lock and stop.
StartJob ==
  /\ Alive(Worker) /\ ~token /\ job = "none"
  /\ job' = "running"
  /\ UNCHANGED <<sup, entry, names, token, came, clocks, sresult, tstate, conns>>

FinishJob ==
  /\ Alive(Worker) /\ job \in {"running", "releasing"}
  /\ job' = "none"
  /\ UNCHANGED <<sup, entry, names, token, came, clocks, sresult, tstate, conns>>

DropJob ==
  /\ Alive(Worker) /\ token /\ job = "running" /\ sinceCancel >= JobDrain
  /\ job' = "releasing"
  /\ UNCHANGED <<sup, entry, names, token, came, clocks, sresult, tstate, conns>>

\* A task that watches the token returns. Others may never look at it.
Stops(t) ==
  /\ Alive(t) /\ token
  /\ t = Server => conns = {}
  /\ t = Worker => job = "none"
  /\ Ends(t, "ok")
  /\ UNCHANGED <<sup, entry, names, token, came, clocks, sresult, conns, job>>
-----------------------------------------------------------------------------
(* Time and the platform *)

Kill ==
  /\ sup \notin Over /\ sinceSignal >= KillWindow
  /\ sup' = "killed"
  /\ UNCHANGED <<entry, names, token, came, clocks, sresult, taskVars>>

\* What may not wait: the supervisor is polled when one of its futures is ready, a
\* worker drops its job on time, and releasing the lock takes at most Cleanup.
Due ==
  \/ sup = "serving" /\ (Finished # {} \/ (entry = "run" /\ came # {}))
  \/ sup = "draining" /\ (Finished # {} \/ names = {} \/ sinceCancel >= Budget)
  \/ sup = "aborting"
  \/ Alive(Worker) /\ token /\ job = "running" /\ sinceCancel >= JobDrain
  \/ job = "releasing" /\ sinceCancel >= JobDrain + Cleanup
  \/ Alive(Worker) /\ token /\ job = "none" /\ sinceCancel >= JobDrain + Cleanup

Tick ==
  /\ sup \notin Over /\ ~Due
  /\ came # {} \/ token
  /\ sinceSignal < KillWindow
  /\ sinceSignal' = IF came = {} THEN 0 ELSE sinceSignal + 1
  /\ sinceCancel' = IF token THEN sinceCancel + 1 ELSE 0
  /\ UNCHANGED <<sup, entry, names, token, came, sresult, taskVars>>

SupervisorNext ==
  \/ Run \/ SupervisorStep
  \/ \E t \in Tasks : Spawn(t) \/ Breaks(t) \/ Stops(t)
  \/ \E s \in Signals : Signal(s)
  \/ \E c \in Connections : Open(c) \/ Close(c)
  \/ StartJob \/ FinishJob \/ DropJob
  \/ Kill \/ Tick

SupervisorSpec == SupervisorInit /\ [][SupervisorNext]_supervisorVars

\* The runtime polls what is ready and time passes. No task has to listen.
SupervisorFairness ==
  /\ WF_supervisorVars(SupervisorStep) /\ WF_supervisorVars(Tick) /\ WF_supervisorVars(Kill)
  /\ WF_supervisorVars(DropJob) /\ WF_supervisorVars(FinishJob /\ job = "releasing")
  /\ WF_supervisorVars(Stops(Worker))
-----------------------------------------------------------------------------
(* Properties *)

SupervisorTypeOK ==
  /\ sup \in {"starting", "serving", "draining", "aborting"} \cup Over
  /\ entry \in {"run", "first error"}
  /\ tstate \in [Tasks -> OwnEnds \cup {"unspawned", "running", "aborted"}]
  /\ names \subseteq Tasks /\ token \in BOOLEAN /\ came \subseteq Signals
  /\ sinceSignal \in 0..KillWindow /\ sinceCancel \in 0..(Budget + KillWindow)
  /\ sresult \in {NoResult, Ok} \cup {Failed(t) : t \in Tasks}
  /\ conns \subseteq Connections
  /\ job \in {"none", "running", "releasing", "stranded"}

\* Whichever branch of the select wins, run returns only when every task is over,
\* each was told through the token, and the verdict is about what started the
\* stop: Ok for a signal, the name of a task that ended by itself otherwise.
RunLeavesNoTask ==
  sup = "exited" /\ entry = "run" =>
    /\ \A t \in Tasks : tstate[t] # "running"
    /\ (\E t \in Tasks : tstate[t] # "unspawned") => token
    /\ sresult = Ok => came # {} \/ \A t \in Tasks : tstate[t] = "unspawned"
    /\ sresult # Ok => tstate[sresult.task] \in OwnEnds

\* The two phases of the budget fit together: a lock is stranded only by a worker
\* that broke by itself, never by the abort, which waits for the whole budget,
\* and the platform's kill comes first only if part of its window was gone when
\* run began to drain.
LocksHandedBack ==
  /\ job = "stranded" => tstate[Worker] \in OwnEnds
  /\ sup = "killed" /\ entry = "run" => sinceCancel < sinceSignal
  /\ \A t \in Tasks : tstate[t] = "aborted" => sinceCancel >= Budget

\* A signal in run ends the process in the end, even with a websocket open and with
\* tasks that never look at the token; so does a task's own end.
StopsInTheEnd ==
  (sup = "draining" \/ (sup = "serving" /\ entry = "run" /\ came # {})) ~> (sup \in Over)
=============================================================================
