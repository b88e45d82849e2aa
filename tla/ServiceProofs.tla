---------------------------- MODULE ServiceProofs ----------------------------
(* What holds of a running service for any tasks, connections, instances,    *)
(* workers and secrets, and any budgets: the task supervisor, the boot lock  *)
(* of the site, the secrets, and all of them with the gate of idle claims.   *)
EXTENDS MCService, GateProofs
-----------------------------------------------------------------------------
(* The task supervisor *)

\* Whoever runs has a name that is still to be joined, and nobody has been told to
\* stop before run began to drain.
Joined ==
  /\ \A t \in Tasks : tstate[t] = "running" => t \in names
  /\ sup = "starting" => \A t \in Tasks : tstate[t] # "unspawned" => t \in names
  /\ sup \in {"starting", "serving"} => ~token
  /\ sup \in {"draining", "aborting"} => token
  /\ sup = "exited" /\ entry = "run" =>
       names = {} /\ (token \/ \A t \in Tasks : tstate[t] = "unspawned")

\* The verdict is made once, from what started the stop.
Judged ==
  /\ sup \in {"starting", "serving"} <=> sresult = NoResult /\ sup # "killed"
  /\ sresult = Ok => came # {} \/ (sup = "exited" /\ \A t \in Tasks : tstate[t] = "unspawned")
  /\ \A t \in Tasks : sresult = Failed(t) => tstate[t] \in OwnEnds

\* Where the clocks can be: a worker that listens is gone before the deadline, and
\* only the deadline aborts.
OnTime ==
  /\ ~token => sinceCancel = 0
  /\ sinceCancel <= Budget
  /\ sup = "aborting" => sinceCancel >= Budget
  /\ \A t \in Tasks : tstate[t] = "aborted" => sup \in {"aborting"} \cup Over /\ sinceCancel >= Budget
  /\ tstate[Worker] = "running" /\ token /\ sup \notin Over => sinceCancel <= JobDrain + Cleanup
  /\ sup = "killed" /\ entry = "run" => sinceCancel < sinceSignal

\* A job in flight is a running worker's.
JobsHeld ==
  /\ job \in {"running", "releasing"} => tstate[Worker] = "running"
  /\ job = "stranded" => tstate[Worker] \in OwnEnds

SupervisorInv == SupervisorTypeOK /\ Joined /\ Judged /\ OnTime /\ JobsHeld
-----------------------------------------------------------------------------
\* The budgets are numbers, and they nest.
LEMMA BudgetFacts ==
  /\ JobDrain \in Nat /\ ExitGrace \in Nat /\ Cleanup \in Nat /\ KillWindow \in Nat
  /\ Budget \in Nat /\ JobDrain + Cleanup < Budget /\ Budget < KillWindow
  /\ JobDrain <= JobDrain + Cleanup
  /\ Server \in Tasks /\ Worker \in Tasks
  BY SupervisorAssumption DEF Budget

\* The clocks are numbers.
LEMMA ClockFacts ==
  ASSUME SupervisorTypeOK
  PROVE  sinceCancel \in Nat /\ sinceSignal \in Nat /\ sinceSignal <= KillWindow
  <1>1. sinceSignal \in 0..KillWindow /\ sinceCancel \in 0..(Budget + KillWindow)
    BY DEF SupervisorTypeOK
  <1> QED BY <1>1, BudgetFacts

\* A process starts with nothing spawned.
LEMMA SupervisorInitInv == SupervisorInit => SupervisorInv
  <1> SUFFICES ASSUME SupervisorInit PROVE SupervisorInv
    OBVIOUS
  <1>1. 0 \in 0..KillWindow /\ 0 \in 0..(Budget + KillWindow) /\ 0 <= Budget
    BY BudgetFacts
  <1>2. SupervisorTypeOK
    BY <1>1 DEF SupervisorInit, SupervisorTypeOK
  <1>3. Joined /\ JobsHeld
    BY BudgetFacts DEF SupervisorInit, Joined, JobsHeld
  <1>4. Judged
    BY DEF SupervisorInit, Judged, NoResult, Ok, Failed
  <1>5. OnTime
    BY <1>1, BudgetFacts DEF SupervisorInit, OnTime
  <1> QED BY <1>2, <1>3, <1>4, <1>5 DEF SupervisorInv

\* Every variable keeps its type.
LEMMA SupervisorTypeStep ==
  ASSUME SupervisorInv, [SupervisorNext]_supervisorVars
  PROVE  SupervisorTypeOK'
  <1> USE DEF SupervisorInv, SupervisorTypeOK
  <1>1. CASE UNCHANGED supervisorVars
    BY <1>1 DEF supervisorVars, clocks, taskVars
  <1>2. CASE Run \/ SelectSignal \/ DeadlineReached \/ Exit \/ Kill
    BY <1>2 DEF Run, SelectSignal, DeadlineReached, Exit, Kill, Over, clocks, taskVars
  <1>3. ASSUME NEW t \in Tasks, SelectTask(t) \/ JoinNext(t) \/ Spawn(t) \/ Stops(t)
        PROVE  SupervisorTypeOK'
    BY <1>3 DEF SelectTask, JoinNext, Spawn, Stops, Ends, OwnEnds, Over, clocks, taskVars
  <1>4. ASSUME NEW t \in Tasks, Abort(t) \/ Breaks(t)
        PROVE  SupervisorTypeOK'
    BY <1>4 DEF Abort, Breaks, Ends, Dropped, OwnEnds, clocks, taskVars
  <1>5. ASSUME NEW x \in Signals, Signal(x)
        PROVE  SupervisorTypeOK'
    BY <1>5 DEF Signal, Over, clocks, taskVars
  <1>6. ASSUME NEW c \in Connections, Open(c) \/ Close(c)
        PROVE  SupervisorTypeOK'
    BY <1>6 DEF Open, Close, clocks
  <1>7. CASE StartJob \/ FinishJob \/ DropJob
    BY <1>7 DEF StartJob, FinishJob, DropJob, clocks
  <1>8. CASE Tick
    <2>1. sinceSignal' \in 0..KillWindow /\ sinceCancel' \in 0..(Budget + KillWindow)
      <3>1. /\ sinceSignal \in Nat /\ sinceCancel \in Nat /\ sinceCancel <= Budget /\ sinceSignal < KillWindow
            /\ sinceSignal' \in {0, sinceSignal + 1} /\ sinceCancel' \in {0, sinceCancel + 1}
        <4>1. sinceSignal \in Nat /\ sinceCancel \in Nat /\ sinceCancel <= Budget
          BY ClockFacts DEF OnTime
        <4> HIDE DEF SupervisorInv, SupervisorTypeOK
        <4> QED BY <1>8, <4>1 DEF Tick
      <3> HIDE DEF SupervisorInv, SupervisorTypeOK
      <3>2. CASE sinceSignal' = 0
        BY <3>1, <3>2, BudgetFacts
      <3>3. CASE sinceSignal' = sinceSignal + 1
        BY <3>1, <3>3, BudgetFacts
      <3> QED BY <3>1, <3>2, <3>3
    <2> QED BY <1>8, <2>1 DEF Tick, taskVars
  <1> QED BY <1>1, <1>2, <1>3, <1>4, <1>5, <1>6, <1>7, <1>8 DEF SupervisorNext, SupervisorStep

\* Names and the token.
LEMMA JoinedStep ==
  ASSUME SupervisorInv, [SupervisorNext]_supervisorVars
  PROVE  Joined'
  <1>0. Joined /\ tstate \in [Tasks -> OwnEnds \cup {"unspawned", "running", "aborted"}]
    BY DEF SupervisorInv, SupervisorTypeOK
  <1> USE DEF Joined, clocks, taskVars
  <1>1. CASE UNCHANGED supervisorVars
    BY <1>0, <1>1 DEF supervisorVars
  <1>2. CASE Run \/ SelectSignal \/ DeadlineReached \/ Exit \/ Kill
    BY <1>0, <1>2 DEF Run, SelectSignal, DeadlineReached, Exit, Kill, Over
  <1>3. ASSUME NEW t \in Tasks, Spawn(t)
        PROVE  Joined'
    BY <1>0, <1>3 DEF Spawn
  <1>4. ASSUME NEW t \in Tasks, SelectTask(t) \/ JoinNext(t)
        PROVE  Joined'
    BY <1>0, <1>4 DEF SelectTask, JoinNext, Finished
  <1>5. ASSUME NEW t \in Tasks, Abort(t)
        PROVE  Joined'
    BY <1>0, <1>5 DEF Abort
  <1>6. ASSUME NEW t \in Tasks, Breaks(t) \/ Stops(t)
        PROVE  Joined'
    <2>1. /\ sup \notin Over /\ tstate[t] = "running" /\ UNCHANGED <<sup, entry, names, token>>
          /\ \E how \in OwnEnds : tstate' = [tstate EXCEPT ![t] = how]
      BY <1>6 DEF Breaks, Stops, Alive, Ends, OwnEnds
    <2> QED BY <1>0, <2>1 DEF OwnEnds, Over
  <1>7. ASSUME NEW x \in Signals, Signal(x)
        PROVE  Joined'
    BY <1>0, <1>7 DEF Signal
  <1>8. ASSUME NEW c \in Connections, Open(c) \/ Close(c)
        PROVE  Joined'
    BY <1>0, <1>8 DEF Open, Close
  <1>9. CASE StartJob \/ FinishJob \/ DropJob \/ Tick
    BY <1>0, <1>9 DEF StartJob, FinishJob, DropJob, Tick
  <1> QED BY <1>1, <1>2, <1>3, <1>4, <1>5, <1>6, <1>7, <1>8, <1>9 DEF SupervisorNext, SupervisorStep

\* The verdict.
LEMMA JudgedStep ==
  ASSUME SupervisorInv, [SupervisorNext]_supervisorVars
  PROVE  Judged'
  <1>0. Judged /\ tstate \in [Tasks -> OwnEnds \cup {"unspawned", "running", "aborted"}]
    BY DEF SupervisorInv, SupervisorTypeOK
  <1>a. NoResult # Ok /\ \A t \in Tasks : Failed(t) # Ok /\ Failed(t) # NoResult
    BY DEF NoResult, Ok, Failed
  <1>b. \A t, u \in Tasks : Failed(t) = Failed(u) => t = u
    BY DEF Failed
  <1> USE DEF Judged, clocks, taskVars
  <1>1. CASE UNCHANGED supervisorVars
    BY <1>0, <1>1 DEF supervisorVars
  <1>2. CASE Run
    <2>1. names = {} => \A t \in Tasks : tstate[t] = "unspawned"
      BY <1>2 DEF Run, SupervisorInv, Joined
    <2> QED BY <1>0, <1>a, <1>2, <2>1 DEF Run
  <1>3. CASE SelectSignal \/ DeadlineReached \/ Exit \/ Kill
    BY <1>0, <1>a, <1>3 DEF SelectSignal, DeadlineReached, Exit, Kill, Over
  <1>4. ASSUME NEW t \in Tasks, Spawn(t)
        PROVE  Judged'
    BY <1>0, <1>a, <1>4 DEF Spawn
  <1>5. ASSUME NEW t \in Tasks, SelectTask(t)
        PROVE  Judged'
    <2>1. tstate[t] \in OwnEnds
      BY <1>0, <1>5 DEF SelectTask, Finished, SupervisorInv, OnTime, Over
    <2> QED BY <1>0, <1>a, <1>b, <1>5, <2>1 DEF SelectTask
  <1>6. ASSUME NEW t \in Tasks, JoinNext(t) \/ Abort(t)
        PROVE  Judged'
    BY <1>0, <1>6 DEF JoinNext, Abort, OwnEnds
  <1>7. ASSUME NEW t \in Tasks, Breaks(t) \/ Stops(t)
        PROVE  Judged'
    <2>1. /\ sup \notin Over /\ tstate[t] = "running" /\ UNCHANGED <<sup, sresult, came>>
          /\ \E how \in OwnEnds : tstate' = [tstate EXCEPT ![t] = how]
      BY <1>7 DEF Breaks, Stops, Alive, Ends, OwnEnds
    <2> QED BY <1>0, <2>1 DEF OwnEnds, Over
  <1>8. ASSUME NEW x \in Signals, Signal(x)
        PROVE  Judged'
    BY <1>0, <1>8 DEF Signal
  <1>9. ASSUME NEW c \in Connections, Open(c) \/ Close(c)
        PROVE  Judged'
    BY <1>0, <1>9 DEF Open, Close
  <1>10. CASE StartJob \/ FinishJob \/ DropJob \/ Tick
    BY <1>0, <1>10 DEF StartJob, FinishJob, DropJob, Tick
  <1> QED BY <1>1, <1>2, <1>3, <1>4, <1>5, <1>6, <1>7, <1>8, <1>9, <1>10
          DEF SupervisorNext, SupervisorStep

\* The worker's job: the abort finds no worker running.
LEMMA JobsHeldStep ==
  ASSUME SupervisorInv, [SupervisorNext]_supervisorVars
  PROVE  JobsHeld'
  <1>0. JobsHeld /\ Worker \in Tasks /\ tstate \in [Tasks -> OwnEnds \cup {"unspawned", "running", "aborted"}]
    BY BudgetFacts DEF SupervisorInv, SupervisorTypeOK
  <1> USE DEF JobsHeld, clocks, taskVars
  <1>1. CASE UNCHANGED supervisorVars
    BY <1>0, <1>1 DEF supervisorVars
  <1>2. CASE Run \/ SelectSignal \/ DeadlineReached \/ Exit \/ Kill \/ Tick
    BY <1>0, <1>2 DEF Run, SelectSignal, DeadlineReached, Exit, Kill, Tick
  <1>3. ASSUME NEW t \in Tasks, Spawn(t) \/ SelectTask(t) \/ JoinNext(t)
        PROVE  JobsHeld'
    BY <1>0, <1>3 DEF Spawn, SelectTask, JoinNext, OwnEnds
  <1>4. ASSUME NEW t \in Tasks, Abort(t)
        PROVE  JobsHeld'
    <2>1. t = Worker => tstate[t] # "running"
      <3>1. /\ sinceCancel \in Nat /\ sup = "aborting" /\ token /\ sinceCancel >= Budget /\ sup \notin Over
            /\ tstate[Worker] = "running" => sinceCancel <= JobDrain + Cleanup
        BY <1>4, ClockFacts DEF Abort, SupervisorInv, Joined, OnTime, Over
      <3> QED BY <3>1, BudgetFacts
    <2> QED BY <1>0, <1>4, <2>1 DEF Abort, Dropped, OwnEnds
  <1>5. ASSUME NEW t \in Tasks, Breaks(t)
        PROVE  JobsHeld'
    BY <1>0, <1>5 DEF Breaks, Alive, Ends, Dropped, OwnEnds
  <1>6. ASSUME NEW t \in Tasks, Stops(t)
        PROVE  JobsHeld'
    BY <1>0, <1>6 DEF Stops, Alive, Ends, OwnEnds
  <1>7. ASSUME NEW x \in Signals, Signal(x)
        PROVE  JobsHeld'
    BY <1>0, <1>7 DEF Signal
  <1>8. ASSUME NEW c \in Connections, Open(c) \/ Close(c)
        PROVE  JobsHeld'
    BY <1>0, <1>8 DEF Open, Close
  <1>9. CASE StartJob \/ FinishJob \/ DropJob
    BY <1>0, <1>9 DEF StartJob, FinishJob, DropJob, Alive
  <1> QED BY <1>1, <1>2, <1>3, <1>4, <1>5, <1>6, <1>7, <1>8, <1>9 DEF SupervisorNext, SupervisorStep

\* The clocks: what is due does not wait, so the phases of the budget nest.
LEMMA OnTimeStep ==
  ASSUME SupervisorInv, [SupervisorNext]_supervisorVars
  PROVE  OnTime'
  <1>0. /\ OnTime /\ tstate \in [Tasks -> OwnEnds \cup {"unspawned", "running", "aborted"}]
        /\ sinceCancel \in Nat /\ sinceSignal \in Nat /\ Worker \in Tasks
    BY ClockFacts, SupervisorAssumption DEF SupervisorInv, SupervisorTypeOK
  <1>a. sup \in {"starting", "serving"} => ~token
    BY DEF SupervisorInv, Joined
  <1>b. ~token => sinceCancel = 0 /\ sinceCancel <= JobDrain + Cleanup /\ sinceCancel < KillWindow
    BY <1>0, BudgetFacts DEF OnTime
  <1> USE DEF OnTime, clocks, taskVars
  <1>1. CASE UNCHANGED supervisorVars
    BY <1>0, <1>1 DEF supervisorVars
  <1>2. CASE Run
    BY <1>0, <1>2 DEF Run, Over
  <1>3. CASE SelectSignal
    BY <1>0, <1>a, <1>b, <1>3 DEF SelectSignal, Over
  <1>4. CASE DeadlineReached
    BY <1>0, <1>4 DEF DeadlineReached, Over
  <1>5. CASE Exit
    BY <1>0, <1>5 DEF Exit, Over
  <1>6. ASSUME NEW t \in Tasks, SelectTask(t)
        PROVE  OnTime'
    BY <1>0, <1>a, <1>b, <1>6 DEF SelectTask, Over
  <1>7. ASSUME NEW t \in Tasks, JoinNext(t)
        PROVE  OnTime'
    BY <1>0, <1>7 DEF JoinNext
  <1>8. ASSUME NEW t \in Tasks, Spawn(t)
        PROVE  OnTime'
    BY <1>0, <1>a, <1>8 DEF Spawn
  <1>9. ASSUME NEW t \in Tasks, Abort(t)
        PROVE  OnTime'
    BY <1>0, <1>9 DEF Abort
  <1>10. ASSUME NEW t \in Tasks, Breaks(t) \/ Stops(t)
         PROVE  OnTime'
    <2>1. /\ UNCHANGED <<sup, entry, token, clocks>> /\ tstate[t] = "running"
          /\ \E how \in OwnEnds : tstate' = [tstate EXCEPT ![t] = how]
      BY <1>10 DEF Breaks, Stops, Alive, Ends, OwnEnds
    <2> QED BY <1>0, <2>1 DEF OwnEnds
  <1>11. ASSUME NEW x \in Signals, Signal(x)
         PROVE  OnTime'
    BY <1>0, <1>11 DEF Signal, Over
  <1>12. ASSUME NEW c \in Connections, Open(c) \/ Close(c)
         PROVE  OnTime'
    BY <1>0, <1>12 DEF Open, Close
  <1>13. CASE StartJob \/ FinishJob \/ DropJob
    BY <1>0, <1>13 DEF StartJob, FinishJob, DropJob
  <1>14. CASE Kill
    <2>1. sinceCancel < sinceSignal
      BY <1>0, <1>14, BudgetFacts DEF Kill
    <2> QED BY <1>0, <1>14, <2>1 DEF Kill, Over
  <1>15. CASE Tick
    <2>1. /\ sup \notin {"exited", "killed", "aborting"} /\ ~Due /\ UNCHANGED <<sup, entry, token, tstate, job>>
          /\ sinceCancel' = IF token THEN sinceCancel + 1 ELSE 0
      BY <1>15 DEF Tick, Due, Over
    <2>2. token => ~(sinceCancel >= Budget)
      <3>1. sup \in {"starting", "serving", "draining"}
        BY <2>1 DEF SupervisorInv, SupervisorTypeOK, Over
      <3> QED BY <1>a, <2>1, <3>1 DEF Due
    <2>3. tstate[Worker] = "running" /\ token => sinceCancel < JobDrain + Cleanup
      <3>1. SUFFICES ASSUME tstate[Worker] = "running", token
                     PROVE  sinceCancel < JobDrain + Cleanup
        OBVIOUS
      <3>2. Alive(Worker) /\ job \in {"none", "running", "releasing"}
        BY <2>1, <3>1 DEF Alive, SupervisorInv, SupervisorTypeOK, JobsHeld, OwnEnds, Over
      <3>3. job = "running" => ~(sinceCancel >= JobDrain)
        BY <2>1, <3>1, <3>2 DEF Due
      <3>4. job \in {"none", "releasing"} => ~(sinceCancel >= JobDrain + Cleanup)
        BY <2>1, <3>1, <3>2 DEF Due
      <3>5. CASE job = "running"
        BY <1>0, <3>3, <3>5, BudgetFacts
      <3>6. CASE job \in {"none", "releasing"}
        BY <1>0, <3>4, <3>6, BudgetFacts
      <3> QED BY <3>2, <3>5, <3>6
    <2>4. CASE token
      <3>1. /\ sinceCancel' <= Budget
            /\ tstate[Worker] = "running" => sinceCancel' <= JobDrain + Cleanup
        BY <1>0, <2>1, <2>2, <2>3, <2>4, BudgetFacts
      <3> QED BY <1>0, <2>1, <2>4, <3>1 DEF Over
    <2>5. CASE ~token
      <3>1. sinceCancel' = 0 /\ sinceCancel' <= Budget
        BY <2>1, <2>5, BudgetFacts
      <3> QED BY <1>0, <2>1, <2>5, <3>1 DEF Over
    <2> QED BY <2>4, <2>5
  <1> QED BY <1>1, <1>2, <1>3, <1>4, <1>5, <1>6, <1>7, <1>8, <1>9, <1>10, <1>11, <1>12, <1>13,
             <1>14, <1>15 DEF SupervisorNext, SupervisorStep

\* The invariant holds throughout.
LEMMA SupervisorInvHolds == SupervisorSpec => []SupervisorInv
  <1>1. SupervisorInv /\ [SupervisorNext]_supervisorVars => SupervisorInv'
    BY SupervisorTypeStep, JoinedStep, JudgedStep, JobsHeldStep, OnTimeStep DEF SupervisorInv
  <1> QED BY <1>1, SupervisorInitInv, PTL DEF SupervisorSpec

\* Supervisor::run returns with every task over and told, whichever branch of its
\* select wins and however tasks end meanwhile, and its verdict is about what
\* started the stop.
THEOREM SupervisorRunLeavesNoTask == SupervisorSpec => []RunLeavesNoTask
  <1>1. SupervisorInv => RunLeavesNoTask
    BY DEF SupervisorInv, SupervisorTypeOK, Joined, Judged, RunLeavesNoTask, Over, Failed, Ok, NoResult
  <1> QED BY <1>1, SupervisorInvHolds, PTL

\* The drain of a worker and the grace after it fit in the budget, and the budget in
\* the platform's window: the abort strands no lock, and comes only at the deadline.
THEOREM SupervisorLocksHandedBack == SupervisorSpec => []LocksHandedBack
  <1>1. SupervisorInv => LocksHandedBack
    BY DEF SupervisorInv, OnTime, JobsHeld, LocksHandedBack
  <1> QED BY <1>1, SupervisorInvHolds, PTL
-----------------------------------------------------------------------------
(* The boot lock *)

\* Whoever migrates has the lock, whoever has it is past its wait for it, and it is
\* held exactly as long as it was taken more often than given back.
LockKept ==
  /\ \A i \in Instances : boot[i] = "migrate" => lockHolder # Nobody /\ lockHolder.inst = i
  /\ lockHolder # Nobody => boot[lockHolder.inst] \in {"migrate", "unlock", "up"}
  /\ (lockHolder = Nobody) = (depth = 0)

BootInv == BootTypeOK /\ LockKept

\* A session is somebody: connections count from one.
LEMMA SessionFacts ==
  ASSUME NEW i, NEW c \in Conns
  PROVE  Session(i, c) # Nobody /\ Session(i, c).inst = i /\ Session(i, c).conn = c
  BY BootAssumption DEF Session, Nobody, Conns

\* No instance has started, or all are over: nobody has the lock.
LEMMA BootInitInv ==
  ASSUME NEW phase \in {"start", "ended"}, BootInitAt(phase)
  PROVE  BootInv
  BY BootAssumption DEF BootInitAt, BootInv, BootTypeOK, LockKept

\* A closed session leaves the lock to the others, and no other session loses it.
LEMMA CloseSessionsFacts ==
  ASSUME BootInv, NEW i \in Instances, NEW cs \in SUBSET Conns, CloseSessions(i, cs)
  PROVE  /\ pool' \in [Instances -> SUBSET Conns]
         /\ depth' \in Nat
         /\ \/ lockHolder' = Nobody /\ depth' = 0 /\ lockHolder # Nobody /\ lockHolder.inst = i
            \/ /\ UNCHANGED <<lockHolder, depth>>
               /\ \A c \in cs : lockHolder # Session(i, c)
  <1>1. pool' \in [Instances -> SUBSET Conns]
    BY DEF CloseSessions, BootInv, BootTypeOK
  <1>2. CASE \E c \in cs : lockHolder = Session(i, c)
    BY <1>1, <1>2, SessionFacts DEF CloseSessions
  <1>3. CASE ~\E c \in cs : lockHolder = Session(i, c)
    BY <1>1, <1>3 DEF CloseSessions, BootInv, BootTypeOK
  <1> QED BY <1>2, <1>3

\* Every step of an instance's boot keeps the invariant.
LEMMA BootInvStep ==
  ASSUME BootInv, [BootNext]_bootVars
  PROVE  BootInv'
  <1> USE DEF BootInv
  <1>a. /\ lockHolder = Nobody \/ \E i \in Instances, c \in Conns : lockHolder = Session(i, c)
        /\ depth \in Nat
    BY DEF BootTypeOK
  <1>b. lockHolder # Nobody => lockHolder.inst \in Instances
    BY <1>a, SessionFacts
  <1>1. ASSUME NEW i \in Instances, ConnectPool(i)
        PROVE  BootInv'
    <2>1. BootTypeOK'
      BY <1>1, BootAssumption DEF ConnectPool, Goto, BootTypeOK, Conns
    <2>2. LockKept'
      BY <1>1, <1>b DEF ConnectPool, Goto, BootTypeOK, LockKept
    <2> QED BY <2>1, <2>2
  <1>2. ASSUME NEW i \in Instances, AskLock(i)
        PROVE  BootInv'
    <2>1. BootTypeOK'
      BY <1>2 DEF AskLock, Acquire, BootTypeOK
    <2>2. LockKept'
      BY <1>2 DEF AskLock, LockKept
    <2> QED BY <2>1, <2>2
  <1>3. ASSUME NEW i \in Instances, Granted(i)
        PROVE  BootInv'
    <2>1. busy[i] \in Conns
      BY <1>3 DEF Granted, BootTypeOK
    <2>2. lockHolder = Nobody
      BY <1>3, <2>1, SessionFacts DEF Granted, LockKept
    <2>3. depth = 0 /\ depth' = 1
      BY <1>3, <2>2 DEF Granted, LockKept
    <2>4. lockHolder' # Nobody /\ lockHolder'.inst = i
      BY <1>3, <2>1, SessionFacts DEF Granted
    <2>5. BootTypeOK'
      BY <1>3, <2>1, <2>3 DEF Granted, Goto, BootTypeOK
    <2>6. LockKept'
      BY <1>3, <2>2, <2>3, <2>4 DEF Granted, Goto, BootTypeOK, LockKept
    <2> QED BY <2>5, <2>6
  <1>4. ASSUME NEW i \in Instances, Migrated(i)
        PROVE  BootInv'
    <2>1. BootTypeOK'
      BY <1>4 DEF Migrated, Goto, BootTypeOK
    <2>2. LockKept'
      BY <1>4, <1>b DEF Migrated, Goto, BootTypeOK, LockKept
    <2> QED BY <2>1, <2>2
  <1>5. ASSUME NEW i \in Instances, Unlock(i)
        PROVE  BootInv'
    <2>1. PICK c \in Conns :
            /\ Acquire(i, c)
            /\ IF lockHolder = Session(i, c)
               THEN /\ depth' = depth - 1
                    /\ lockHolder' = IF depth = 1 THEN Nobody ELSE lockHolder
               ELSE UNCHANGED <<lockHolder, depth>>
      BY <1>5 DEF Unlock
    <2>2. /\ depth' \in Nat
          /\ lockHolder' \in {lockHolder, Nobody}
          /\ (lockHolder' = Nobody) = (depth' = 0)
          /\ lockHolder' # lockHolder => lockHolder.inst = i
      <3>1. CASE lockHolder = Session(i, c)
        <4>1. lockHolder # Nobody /\ lockHolder.inst = i /\ depth # 0
          BY <3>1, SessionFacts DEF LockKept
        <4> QED BY <1>a, <2>1, <3>1, <4>1
      <3>2. CASE lockHolder # Session(i, c)
        BY <1>a, <2>1, <3>2 DEF LockKept
      <3> QED BY <3>1, <3>2
    <2>3. BootTypeOK'
      BY <1>5, <2>1, <2>2 DEF Unlock, Acquire, Goto, BootTypeOK
    <2>4. boot' = [boot EXCEPT ![i] = "up"] /\ boot[i] = "unlock"
      BY <1>5 DEF Unlock, Goto
    <2>5. LockKept'
      BY <1>b, <2>2, <2>4 DEF BootTypeOK, LockKept
    <2> QED BY <2>3, <2>5
  <1>6. ASSUME NEW i \in Instances, Dies(i)
        PROVE  BootInv'
    <2>1. /\ pool' \in [Instances -> SUBSET Conns]
          /\ depth' \in Nat
          /\ \/ lockHolder' = Nobody /\ depth' = 0 /\ lockHolder # Nobody /\ lockHolder.inst = i
             \/ UNCHANGED <<lockHolder, depth>> /\ \A c \in Conns : lockHolder # Session(i, c)
      BY <1>6, CloseSessionsFacts DEF Dies
    <2>2. UNCHANGED lockHolder => lockHolder = Nobody \/ lockHolder.inst # i
      BY <1>a, <2>1, SessionFacts
    <2>3. boot' = [boot EXCEPT ![i] = "ended"]
      BY <1>6 DEF Dies, Goto
    <2>4. BootTypeOK'
      BY <1>6, <2>1, <2>3 DEF Dies, BootTypeOK
    <2>5. LockKept'
      BY <1>b, <2>1, <2>2, <2>3 DEF BootTypeOK, LockKept
    <2> QED BY <2>4, <2>5
  <1>7. ASSUME NEW i \in Instances, Restart(i)
        PROVE  BootInv'
    <2>1. BootTypeOK'
      BY <1>7, BootAssumption DEF Restart, Goto, BootTypeOK
    <2>2. LockKept'
      BY <1>7, <1>b DEF Restart, Goto, BootTypeOK, LockKept
    <2> QED BY <2>1, <2>2
  <1>8. ASSUME NEW i \in Instances, NEW c \in Conns, Reap(i, c)
        PROVE  BootInv'
    <2>1. /\ pool' \in [Instances -> SUBSET Conns]
          /\ depth' \in Nat
          /\ \/ lockHolder' = Nobody /\ depth' = 0 /\ lockHolder # Nobody /\ lockHolder.inst = i
             \/ UNCHANGED <<lockHolder, depth>>
      BY <1>8, CloseSessionsFacts DEF Reap
    <2>2. BootTypeOK'
      BY <1>8, <2>1 DEF Reap, BootTypeOK
    <2>3. LockKept'
      BY <1>8, <1>b, <2>1 DEF Reap, BootTypeOK, LockKept
    <2> QED BY <2>2, <2>3
  <1>9. CASE UNCHANGED bootVars
    BY <1>9 DEF bootVars, BootTypeOK, LockKept
  <1> QED BY <1>1, <1>2, <1>3, <1>4, <1>5, <1>6, <1>7, <1>8, <1>9 DEF BootNext, BootStep

\* Whoever migrates holds the lock, so two that migrate are one.
LEMMA BootInvMigratesAlone ==
  ASSUME BootInv
  PROVE  MigratesAlone
  <1>1. \A i, j \in Instances : boot[i] = "migrate" /\ boot[j] = "migrate" => i = j
    BY DEF BootInv, LockKept
  <1> QED BY <1>1 DEF BootInv, LockKept, MigratesAlone

\* Instances that boot against one database migrate it one at a time, however their
\* pools spread lock and unlock over connections and whichever die and restart; and
\* the lock is never left with an instance that is not up.
THEOREM BootsMigrateAlone == BootSpec => []MigratesAlone
  <1>1. BootInit => BootInv
    BY BootInitInv DEF BootInit
  <1>2. BootInv /\ [BootNext]_bootVars => BootInv'
    BY BootInvStep
  <1>3. BootInv => MigratesAlone
    BY BootInvMigratesAlone
  <1> QED BY <1>1, <1>2, <1>3, PTL DEF BootSpec
-----------------------------------------------------------------------------
(* The secrets *)

Steps == {"idle", "next", "asking", "applying", "storing", "marking"}

\* A refresh knows which secret it is at, and applies only what setec answered.
PassGood ==
  pass \in [Refreshers -> [step : Steps, todo : SUBSET Names, name : Names \cup {"none"},
                           known : 0..MaxVersion, answer : 0..MaxVersion]]

Applied ==
  \A r \in Refreshers :
    /\ pass[r].step \notin {"idle", "next"} => pass[r].name \in Names
    /\ pass[r].step = "applying" => pass[r].answer # 0

FetchGood ==
  fetch \in [Names -> [state : {"asking", "sleeping", "tracked", "absent"}, wait : 0..MaxWait, until : Nat]]

\* A secret counts as fetched with a value that parses, as absent when it is
\* optional, and the store as loaded once all secrets are one or the other.
Fetches ==
  /\ \A n \in Names : fetch[n].state = "tracked" => Secrets(n)
  /\ \A n \in Names : fetch[n].state = "absent" => n \in Optional
  /\ store = "loaded" => \A n \in Names : fetch[n].state \in {"tracked", "absent"}

SecretInv == SecretTypeOK /\ PassGood /\ FetchGood /\ Applied /\ Fetches

\* Removing an element of a queue leaves a queue.
LEMMA RemoveFirstType ==
  ASSUME NEW S, NEW q \in Seq(S), NEW d
  PROVE  RemoveFirst(q, d) \in Seq(S)
  <1>1. CASE \E i \in 1..Len(q) : q[i] = d
    <2> DEFINE I == {i \in 1..Len(q) : q[i] = d}
               first == CHOOSE x \in I : \A y \in I : x <= y
    <2>1. DOMAIN q = 1..Len(q) /\ Len(q) \in Nat
      OBVIOUS
    <2>2. I \in SUBSET Nat /\ I # {}
      BY <1>1, <2>1
    <2>3. \E x \in I : \A y \in I : x <= y
      <3> HIDE DEF I
      <3> QED BY <2>2, FirstPosition
    <2>4. first \in I
      <3> HIDE DEF I
      <3> QED BY <2>3
    <2>5. RemoveFirst(q, d) = RemoveAt(q, first)
      BY <1>1, <2>2 DEF RemoveFirst, SelectInSeq, Min
    <2>6. first \in DOMAIN q
      BY <2>1, <2>4
    <2> HIDE DEF first
    <2> QED BY <2>5, <2>6, RemoveAtFacts
  <1>2. CASE ~\E i \in 1..Len(q) : q[i] = d
    BY <1>2 DEF RemoveFirst
  <1> QED BY <1>1, <1>2

\* The node, its lock and its dials.
LEMMA TailnetStep ==
  ASSUME TailnetTypeOK,
         \/ JoinOn \/ JoinFails \/ AskShutdown \/ TakeDevice \/ Left \/ UNCHANGED tailnetVars
         \/ \E d \in Dialers :
              \/ QueueDial(d) \/ Dial(d) \/ Resolved(d)
              \/ \E how \in {"idle", "open", "failed"} : DialEnds(d, how)
              \/ dial' = [dial EXCEPT ![d] = "open"] /\ UNCHANGED <<node, joinStep, lockQueue, readers>>
  PROVE  TailnetTypeOK'
  <1>a. Len(JoinSteps) = 5
    BY DEF JoinSteps
  <1>b. lockQueue \in Seq(Dialers \cup {ShutdownCall})
    BY DEF TailnetTypeOK
  <1>1. CASE JoinOn \/ JoinFails
    BY <1>1, <1>a DEF JoinOn, JoinFails, TailnetTypeOK
  <1>2. CASE AskShutdown
    <2>1. lockQueue' \in Seq(Dialers \cup {ShutdownCall})
      BY <1>2, <1>b, AppendProperties DEF AskShutdown
    <2> QED BY <1>2, <2>1 DEF AskShutdown, TailnetTypeOK
  <1>3. CASE TakeDevice
    <2>1. lockQueue' \in Seq(Dialers \cup {ShutdownCall})
      BY <1>3, <1>b, HeadTailProperties DEF TakeDevice
    <2> QED BY <1>3, <2>1 DEF TakeDevice, TailnetTypeOK
  <1>4. CASE Left \/ UNCHANGED tailnetVars
    BY <1>4 DEF Left, tailnetVars, TailnetTypeOK
  <1>5. ASSUME NEW d \in Dialers, QueueDial(d)
        PROVE  TailnetTypeOK'
    <2>1. lockQueue' \in Seq(Dialers \cup {ShutdownCall})
      BY <1>5, <1>b, AppendProperties DEF QueueDial
    <2> QED BY <1>5, <2>1 DEF QueueDial, TailnetTypeOK
  <1>6. ASSUME NEW d \in Dialers, Dial(d)
        PROVE  TailnetTypeOK'
    <2>1. lockQueue' \in Seq(Dialers \cup {ShutdownCall})
      BY <1>6, <1>b, HeadTailProperties DEF Dial
    <2> QED BY <1>6, <2>1 DEF Dial, Dialing, TailnetTypeOK
  <1>7. ASSUME NEW d \in Dialers, Resolved(d)
        PROVE  TailnetTypeOK'
    BY <1>7 DEF Resolved, Dialing, TailnetTypeOK
  <1>8. ASSUME NEW d \in Dialers, NEW how \in {"idle", "open", "failed"}, DialEnds(d, how)
        PROVE  TailnetTypeOK'
    <2>1. lockQueue' \in Seq(Dialers \cup {ShutdownCall})
      BY <1>8, <1>b, RemoveFirstType DEF DialEnds
    <2> QED BY <1>8, <2>1 DEF DialEnds, TailnetTypeOK
  <1>9. ASSUME NEW d \in Dialers, dial' = [dial EXCEPT ![d] = "open"],
               UNCHANGED <<node, joinStep, lockQueue, readers>>
        PROVE  TailnetTypeOK'
    BY <1>9 DEF TailnetTypeOK
  <1> QED BY <1>1, <1>2, <1>3, <1>4, <1>5, <1>6, <1>7, <1>8, <1>9

\* What a step of the store does to the node.
LEMMA SecretTailnetStep ==
  ASSUME SecretInv, SecretNext
  PROVE  TailnetTypeOK'
  <1>0. TailnetTypeOK /\ Refreshers \subseteq Dialers /\ Borrowers \subseteq Dialers /\ Loop \in Refreshers
    BY SecretAssumption DEF SecretInv, SecretTypeOK
  <1>1. CASE UNCHANGED tailnetVars
    BY <1>0, <1>1, TailnetStep
  <1>2. CASE Join
    BY <1>0, <1>2, TailnetStep DEF Join
  <1>3. CASE LoopStops
    BY <1>0, <1>3, TailnetStep DEF LoopStops
  <1>4. ASSUME NEW r \in Refreshers, AskSetec(r)
        PROVE  TailnetTypeOK'
    BY <1>0, <1>4, TailnetStep DEF AskSetec
  <1>5. ASSUME NEW r \in Refreshers, Answered(r) \/ AskFails(r) \/ AskBreaks(r)
        PROVE  TailnetTypeOK'
    <2>1. DialEnds(r, "idle")
      BY <1>5 DEF Answered, AskFails, AskBreaks
    <2> QED BY <1>0, <2>1, TailnetStep
  <1>6. ASSUME NEW b \in Borrowers, Borrow(b)
        PROVE  TailnetTypeOK'
    BY <1>0, <1>6, TailnetStep DEF Borrow, DropDial
  <1>7. CASE NodeStep
    BY <1>0, <1>7, TailnetStep DEF NodeStep, DialStep, DialOpens
  <1>8. CASE NodeFault
    BY <1>0, <1>8, TailnetStep DEF NodeFault, DialFails
  <1>9. \/ UNCHANGED tailnetVars \/ Join \/ LoopStops \/ NodeStep \/ NodeFault
        \/ \E b \in Borrowers : Borrow(b)
        \/ \E r \in Refreshers : AskSetec(r) \/ Answered(r) \/ AskFails(r) \/ AskBreaks(r)
    BY DEF SecretNext, PassStep, Administer, Configured, Connect, BootTick, Loaded, Fetched, FetchAgain,
           BootTimesOut, Refresh, PassEnds, ReplaceValue, StoreVersion, MarkChecked, CancelToken
  <1> QED BY <1>1, <1>2, <1>3, <1>4, <1>5, <1>6, <1>7, <1>8, <1>9

\* A refresh in progress.
LEMMA PassStepGood ==
  ASSUME SecretInv, SecretNext
  PROVE  PassGood' /\ Applied'
  <1>0. /\ pass \in [Refreshers -> [step : Steps, todo : SUBSET Names, name : Names \cup {"none"},
                                    known : 0..MaxVersion, answer : 0..MaxVersion]]
        /\ active \in [Names -> 0..MaxVersion] /\ version \in [Names -> 0..MaxVersion]
    BY DEF SecretInv, PassGood, SecretTypeOK
  <1>a. 0 \in 0..MaxVersion
    BY SecretAssumption
  <1>1. CASE UNCHANGED pass
    BY <1>1 DEF SecretInv, PassGood, Applied
  <1>2. ASSUME NEW r \in Refreshers, NEW p, pass' = [pass EXCEPT ![r] = p],
               p \in [step : Steps, todo : SUBSET Names, name : Names \cup {"none"},
                      known : 0..MaxVersion, answer : 0..MaxVersion],
               p.step \notin {"idle", "next"} => p.name \in Names,
               p.step = "applying" => p.answer # 0
        PROVE  PassGood' /\ Applied'
    BY <1>0, <1>2 DEF SecretInv, PassGood, Applied
  <1>3. ASSUME NEW r \in Refreshers, Advance(r)
        PROVE  PassGood' /\ Applied'
    <2> DEFINE p == [Resting EXCEPT !.step = "next", !.todo = pass[r].todo]
    <2>1. pass' = [pass EXCEPT ![r] = p]
      BY <1>3 DEF Advance
    <2>2. p \in [step : Steps, todo : SUBSET Names, name : Names \cup {"none"},
                 known : 0..MaxVersion, answer : 0..MaxVersion]
          /\ p.step = "next"
      BY <1>0, <1>a DEF Resting, Steps
    <2> HIDE DEF p
    <2> QED BY <1>2, <2>1, <2>2
  <1>4. ASSUME NEW r \in Refreshers, Refresh(r)
        PROVE  PassGood' /\ Applied'
    <2> DEFINE p == [Resting EXCEPT !.step = "next", !.todo = Tracked]
    <2>1. pass' = [pass EXCEPT ![r] = p]
      BY <1>4 DEF Refresh
    <2>2. p \in [step : Steps, todo : SUBSET Names, name : Names \cup {"none"},
                 known : 0..MaxVersion, answer : 0..MaxVersion]
          /\ p.step = "next"
      <3>1. Tracked \in SUBSET Names
        BY DEF Tracked
      <3> QED BY <1>a, <3>1 DEF Resting, Steps
    <2> HIDE DEF p
    <2> QED BY <1>2, <2>1, <2>2
  <1>5. ASSUME NEW r \in Refreshers, PassEnds(r)
        PROVE  PassGood' /\ Applied'
    <2>1. pass' = [pass EXCEPT ![r] = Resting]
      BY <1>5 DEF PassEnds
    <2>2. Resting = [step |-> "idle", todo |-> {}, name |-> "none", known |-> 0, answer |-> 0]
      BY DEF Resting
    <2> QED BY <1>0, <1>2, <1>a, <2>1, <2>2 DEF Steps
  <1>6. ASSUME NEW r \in Refreshers, AskSetec(r)
        PROVE  PassGood' /\ Applied'
    <2>1. PICK n \in pass[r].todo :
            pass' = [pass EXCEPT ![r] = [step |-> "asking", todo |-> @.todo \ {n}, name |-> n,
                                         known |-> version[n], answer |-> 0]]
      BY <1>6 DEF AskSetec
    <2> DEFINE p == [step |-> "asking", todo |-> pass[r].todo \ {n}, name |-> n,
                     known |-> version[n], answer |-> 0]
    <2>2. pass' = [pass EXCEPT ![r] = p] /\ n \in Names
      BY <1>0, <2>1
    <2>3. p \in [step : Steps, todo : SUBSET Names, name : Names \cup {"none"},
                 known : 0..MaxVersion, answer : 0..MaxVersion]
      BY <1>0, <1>a, <2>2 DEF Steps
    <2> QED BY <1>2, <2>2, <2>3
  <1>7. ASSUME NEW r \in Refreshers, Answered(r)
        PROVE  PassGood' /\ Applied'
    <2>1. CASE Advance(r)
      BY <1>3, <2>1
    <2>2. CASE ~Advance(r)
      <3> DEFINE n == pass[r].name
                 step == IF active[n] = pass[r].known THEN "marking" ELSE "applying"
                 p == [pass[r] EXCEPT !.step = step, !.answer = active[n]]
      <3>1. /\ pass[r].step = "asking" /\ Verdicts(n) = {"value"}
            /\ pass' = [pass EXCEPT ![r].step = step, ![r].answer = active[n]]
        BY <1>7, <2>2 DEF Answered, At
      <3>2. n \in Names /\ pass[r] \in [step : Steps, todo : SUBSET Names, name : Names \cup {"none"},
                                         known : 0..MaxVersion, answer : 0..MaxVersion]
        BY <1>0, <3>1 DEF SecretInv, Applied
      <3>3. active[n] # 0
        BY <3>1 DEF Verdicts, StatusError
      <3>4. pass' = [pass EXCEPT ![r] = p]
        BY <1>0, <3>1
      <3>5. step \in Steps /\ active[n] \in 0..MaxVersion
        BY <1>0, <3>2 DEF Steps
      <3> HIDE DEF step
      <3>6. /\ p \in [step : Steps, todo : SUBSET Names, name : Names \cup {"none"},
                     known : 0..MaxVersion, answer : 0..MaxVersion]
            /\ p.name = n /\ p.answer = active[n]
        BY <3>2, <3>5
      <3> HIDE DEF p, n
      <3> QED BY <1>2, <3>2, <3>3, <3>4, <3>6
    <2> QED BY <2>1, <2>2
  <1>8. ASSUME NEW r \in Refreshers, NEW step \in {"storing", "marking"}, Move(r, step),
               pass[r].step \in {"applying", "storing"}
        PROVE  PassGood' /\ Applied'
    <2> DEFINE p == [pass[r] EXCEPT !.step = step]
    <2>1. pass' = [pass EXCEPT ![r] = p]
      BY <1>0, <1>8 DEF Move
    <2>2. pass[r].name \in Names /\ pass[r] \in [step : Steps, todo : SUBSET Names,
                       name : Names \cup {"none"}, known : 0..MaxVersion, answer : 0..MaxVersion]
      BY <1>0, <1>8 DEF SecretInv, Applied
    <2>3. p = [step |-> step, todo |-> pass[r].todo, name |-> pass[r].name, known |-> pass[r].known,
               answer |-> pass[r].answer]
      BY <2>2
    <2> HIDE DEF p
    <2> QED BY <1>2, <1>8, <2>1, <2>2, <2>3 DEF Steps
  <1>9. ASSUME NEW r \in Refreshers, AskFails(r) \/ AskBreaks(r) \/ MarkChecked(r)
        PROVE  PassGood' /\ Applied'
    BY <1>3, <1>9 DEF AskFails, AskBreaks, MarkChecked
  <1>10. ASSUME NEW r \in Refreshers, ReplaceValue(r) \/ StoreVersion(r)
         PROVE  PassGood' /\ Applied'
    BY <1>3, <1>8, <1>10 DEF ReplaceValue, StoreVersion, At
  <1>11. \/ UNCHANGED pass
         \/ \E r \in Refreshers : Refresh(r) \/ PassStep(r) \/ AskBreaks(r)
    BY DEF SecretNext, Administer, Configured, Connect, Join, BootTick, Loaded, Fetched, FetchAgain,
           BootTimesOut, CancelToken, LoopStops, NodeStep, NodeFault, Borrow
  <1> QED BY <1>1, <1>4, <1>5, <1>6, <1>7, <1>9, <1>10, <1>11 DEF PassStep

\* The numbers of the store.
LEMMA SecretNumbers ==
  /\ MaxVersion \in Nat /\ 1 <= MaxVersion /\ MaxChanges \in Nat /\ BootTimeout \in Nat
  /\ InitialWait \in Nat /\ MaxWait \in Nat /\ InitialWait <= MaxWait
  BY SecretAssumption

\* What the rest of the variables may become.
LEMMA SecretPlainStep ==
  ASSUME SecretInv, SecretNext
  PROVE  /\ active' \in [Names -> 0..MaxVersion] /\ denied' \subseteq Names
         /\ changes' \in 0..MaxChanges /\ bclock' \in 0..BootTimeout
         /\ store' \in {"config", "joining", "loading", "loaded", "failed"}
         /\ cancelled' \in BOOLEAN /\ loopOver' \in BOOLEAN
  <1>0. SecretTypeOK
    BY DEF SecretInv
  <1>1. active' \in [Names -> 0..MaxVersion] /\ denied' \subseteq Names
    BY <1>0 DEF SecretNext, PassStep, Administer, Configured, Connect, Join, BootTick, Loaded, Fetched,
                FetchAgain, BootTimesOut, CancelToken, LoopStops, NodeStep, NodeFault, Borrow, Refresh,
                PassEnds, AskSetec, Answered, AskFails, AskBreaks, ReplaceValue, StoreVersion,
                MarkChecked, Quiet, setecVars, SecretTypeOK
  <1>2. changes' \in 0..MaxChanges
    <2>1. changes' = changes \/ (changes < MaxChanges /\ changes' = changes + 1)
      BY DEF SecretNext, PassStep, Administer, Configured, Connect, Join, BootTick, Loaded, Fetched,
             FetchAgain, BootTimesOut, CancelToken, LoopStops, NodeStep, NodeFault, Borrow, Refresh,
             PassEnds, AskSetec, Answered, AskFails, AskBreaks, ReplaceValue, StoreVersion,
             MarkChecked, Quiet, setecVars
    <2>2. changes \in 0..MaxChanges
      BY <1>0 DEF SecretTypeOK
    <2> QED BY <2>1, <2>2, SecretNumbers
  <1>3. bclock' \in 0..BootTimeout
    <2>1. bclock' = bclock \/ bclock' = 0 \/ (bclock < BootTimeout /\ bclock' = bclock + 1)
      BY DEF SecretNext, PassStep, Administer, Configured, Connect, Join, BootTick, Loaded, Fetched,
             FetchAgain, BootTimesOut, CancelToken, LoopStops, NodeStep, NodeFault, Borrow, Refresh,
             PassEnds, AskSetec, Answered, AskFails, AskBreaks, ReplaceValue, StoreVersion,
             MarkChecked, Quiet, bootstrap
    <2>2. bclock \in 0..BootTimeout
      BY <1>0 DEF SecretTypeOK
    <2> QED BY <2>1, <2>2, SecretNumbers
  <1>4. store' \in {"config", "joining", "loading", "loaded", "failed"}
    BY <1>0, ZenonT(30) DEF SecretNext, PassStep, Administer, Configured, Connect, Join, BootTick, Loaded, Fetched,
                FetchAgain, BootTimesOut, CancelToken, LoopStops, NodeStep, NodeFault, Borrow, Refresh,
                PassEnds, AskSetec, Answered, AskFails, AskBreaks, ReplaceValue, StoreVersion,
                MarkChecked, Quiet, bootstrap, Have, LoadFails, SecretTypeOK
  <1>5. cancelled' \in BOOLEAN /\ loopOver' \in BOOLEAN
    BY <1>0 DEF SecretNext, PassStep, Administer, Configured, Connect, Join, BootTick, Loaded, Fetched,
                FetchAgain, BootTimesOut, CancelToken, LoopStops, NodeStep, NodeFault, Borrow, Refresh,
                PassEnds, AskSetec, Answered, AskFails, AskBreaks, ReplaceValue, StoreVersion,
                MarkChecked, Quiet, SecretTypeOK
  <1> QED BY <1>1, <1>2, <1>3, <1>4, <1>5

\* Values and versions change only to what setec has, values only to what parses.
LEMMA EntriesStep ==
  ASSUME SecretInv, SecretNext
  PROVE  /\ value' \in [Names -> 0..MaxVersion] /\ version' \in [Names -> 0..MaxVersion]
         /\ \A n \in Names : Secrets(n) => Secrets(n)'
  <1>0. /\ value \in [Names -> 0..MaxVersion] /\ version \in [Names -> 0..MaxVersion]
        /\ active \in [Names -> 0..MaxVersion]
    BY DEF SecretInv, SecretTypeOK
  <1>1. CASE UNCHANGED entries
    BY <1>0, <1>1 DEF entries, Secrets
  <1>2. ASSUME NEW n \in Names, Fetched(n)
        PROVE  /\ value' \in [Names -> 0..MaxVersion] /\ version' \in [Names -> 0..MaxVersion]
               /\ \A m \in Names : Secrets(m) => Secrets(m)'
    <2>1. CASE UNCHANGED entries
      BY <1>1, <2>1
    <2>2. CASE ~UNCHANGED entries
      <3>1. PICK got \in Verdicts(n) \cup Mishaps :
              /\ got = "value" /\ active[n] \notin Unparseable
              /\ value' = [value EXCEPT ![n] = active[n]]
              /\ version' = [version EXCEPT ![n] = active[n]]
        BY <1>2, <2>2 DEF Fetched, LoadFails
      <3>2. active[n] # 0
        BY <3>1 DEF Verdicts, Mishaps, StatusError
      <3> QED BY <1>0, <3>1, <3>2 DEF Secrets
    <2> QED BY <2>1, <2>2
  <1>3. ASSUME NEW r \in Refreshers, ReplaceValue(r) \/ StoreVersion(r)
        PROVE  /\ value' \in [Names -> 0..MaxVersion] /\ version' \in [Names -> 0..MaxVersion]
               /\ \A m \in Names : Secrets(m) => Secrets(m)'
    <2>1. pass[r].answer \in 0..MaxVersion
      BY DEF SecretInv, PassGood
    <2>2. CASE ReplaceValue(r)
      <3>1. pass[r].answer # 0
        BY <2>2 DEF ReplaceValue, At, SecretInv, Applied
      <3> QED BY <1>0, <2>1, <2>2, <3>1 DEF ReplaceValue, Secrets
    <2>3. CASE StoreVersion(r)
      BY <1>0, <2>1, <2>3 DEF StoreVersion, Secrets
    <2> QED BY <1>3, <2>2, <2>3
  <1>4. \/ UNCHANGED entries \/ \E n \in Names : Fetched(n)
        \/ \E r \in Refreshers : ReplaceValue(r) \/ StoreVersion(r)
    BY DEF SecretNext, PassStep, Administer, Configured, Connect, Join, BootTick, Loaded, FetchAgain,
           BootTimesOut, LoadFails, CancelToken, LoopStops, NodeStep, NodeFault, Borrow, Refresh,
           PassEnds, AskSetec, Answered, AskFails, AskBreaks, MarkChecked
  <1> QED BY <1>1, <1>2, <1>3, <1>4

\* The fetches of boot.
LEMMA FetchesStep ==
  ASSUME SecretInv, SecretNext
  PROVE  FetchGood' /\ Fetches'
  <1>0. fetch \in [Names -> [state : {"asking", "sleeping", "tracked", "absent"}, wait : 0..MaxWait, until : Nat]]
    BY DEF SecretInv, FetchGood
  <1>a. \A n \in Names : Secrets(n) => Secrets(n)'
    BY EntriesStep
  <1>b. bclock \in Nat /\ 0 \in 0..MaxWait /\ \A x \in 0..MaxWait : x \in Nat /\ bclock + x \in Nat
    BY SecretNumbers DEF SecretInv, SecretTypeOK
  <1>1. ASSUME UNCHANGED fetch, store' = "loaded" => store = "loaded"
        PROVE  FetchGood' /\ Fetches'
    BY <1>1, <1>a DEF SecretInv, FetchGood, Fetches
  <1>2. ASSUME NEW n \in Names, NEW f, fetch' = [fetch EXCEPT ![n] = f], store # "loaded", UNCHANGED store,
               f \in [state : {"asking", "sleeping", "tracked", "absent"}, wait : 0..MaxWait, until : Nat],
               f.state = "tracked" => Secrets(n)', f.state = "absent" => n \in Optional
        PROVE  FetchGood' /\ Fetches'
    BY <1>0, <1>2, <1>a DEF SecretInv, FetchGood, Fetches
  <1>3. ASSUME NEW n \in Names, Fetched(n)
        PROVE  FetchGood' /\ Fetches'
    <2>0. store = "loading" /\ fetch[n] \in [state : {"asking", "sleeping", "tracked", "absent"},
                                             wait : 0..MaxWait, until : Nat]
      BY <1>0, <1>3 DEF Fetched
    <2>1. CASE LoadFails
      BY <1>1, <2>1 DEF LoadFails
    <2>2. ASSUME Have(n, "absent"), n \in Optional
          PROVE  FetchGood' /\ Fetches'
      <3>1. fetch' = [fetch EXCEPT ![n] = [fetch[n] EXCEPT !.state = "absent"]]
        BY <1>0, <2>2 DEF Have
      <3> QED BY <1>2, <2>0, <2>2, <3>1 DEF Have
    <2>3. ASSUME Have(n, "tracked"), active[n] \notin Unparseable,
                 value' = [value EXCEPT ![n] = active[n]], active[n] # 0
          PROVE  FetchGood' /\ Fetches'
      <3>1. fetch' = [fetch EXCEPT ![n] = [fetch[n] EXCEPT !.state = "tracked"]]
        BY <1>0, <2>3 DEF Have
      <3>2. Secrets(n)'
        BY <2>3 DEF Secrets, SecretInv, SecretTypeOK
      <3> QED BY <1>2, <2>0, <2>3, <3>1, <3>2 DEF Have
    <2>4. ASSUME fetch' = [fetch EXCEPT ![n] = [state |-> "sleeping", wait |-> @.wait,
                                                until |-> bclock + @.wait]],
                 UNCHANGED store
          PROVE  FetchGood' /\ Fetches'
      <3> DEFINE f == [state |-> "sleeping", wait |-> fetch[n].wait, until |-> bclock + fetch[n].wait]
      <3>1. fetch' = [fetch EXCEPT ![n] = f]
        BY <1>0, <2>4
      <3>2. f \in [state : {"asking", "sleeping", "tracked", "absent"}, wait : 0..MaxWait, until : Nat]
        BY <1>b, <2>0
      <3> QED BY <1>2, <2>0, <2>4, <3>1, <3>2
    <2>5. "value" \in Verdicts(n) \cup Mishaps => active[n] # 0
      BY DEF Verdicts, Mishaps, StatusError
    <2> QED BY <1>3, <2>1, <2>2, <2>3, <2>4, <2>5 DEF Fetched
  <1>4. ASSUME NEW n \in Names, FetchAgain(n)
        PROVE  FetchGood' /\ Fetches'
    <2> DEFINE w == IF fetch[n].wait * 2 < MaxWait THEN fetch[n].wait * 2 ELSE MaxWait
               f == [state |-> "asking", until |-> 0, wait |-> w]
    <2>1. fetch' = [fetch EXCEPT ![n] = f] /\ store = "loading" /\ UNCHANGED store
      BY <1>0, <1>4 DEF FetchAgain
    <2>2. w \in 0..MaxWait
      BY <1>0, <1>b, SecretNumbers
    <2> HIDE DEF w
    <2>3. f \in [state : {"asking", "sleeping", "tracked", "absent"}, wait : 0..MaxWait, until : Nat]
      BY <2>2
    <2> QED BY <1>2, <2>1, <2>3
  <1>5. CASE Loaded
    <2>1. /\ \A n \in Names : fetch[n].state \in {"tracked", "absent"}
          /\ fetch' = [n \in Names |-> [state |-> fetch[n].state, wait |-> 0, until |-> 0]]
      BY <1>5 DEF Loaded
    <2>2. FetchGood'
      BY <1>0, <1>b, <2>1 DEF FetchGood
    <2>3. \A n \in Names : fetch'[n].state = fetch[n].state
      BY <2>1
    <2>4. Fetches'
      BY <1>a, <2>1, <2>3 DEF SecretInv, Fetches
    <2> QED BY <2>2, <2>4
  <1>6. \/ UNCHANGED fetch /\ (store' = "loaded" => store = "loaded")
        \/ Loaded
        \/ \E n \in Names : Fetched(n) \/ FetchAgain(n)
    BY DEF SecretNext, PassStep, Administer, Configured, Connect, Join, BootTick, BootTimesOut, LoadFails,
           CancelToken, LoopStops, NodeStep, NodeFault, Borrow, Refresh, PassEnds, AskSetec, Answered,
           AskFails, AskBreaks, ReplaceValue, StoreVersion, MarkChecked, Quiet, bootstrap
  <1> QED BY <1>1, <1>3, <1>4, <1>5, <1>6

\* Nothing is fetched and no refresh runs at first.
LEMMA SecretInitInv == SecretInit => SecretInv
  <1> SUFFICES ASSUME SecretInit PROVE SecretInv
    OBVIOUS
  <1>1. TailnetTypeOK
    <2>1. lockQueue \in Seq(Dialers \cup {ShutdownCall})
      BY EmptySeq DEF SecretInit, TailnetInit
    <2>2. Len(JoinSteps) = 5
      BY DEF JoinSteps
    <2> QED BY <2>1, <2>2 DEF SecretInit, TailnetInit, TailnetTypeOK
  <1>2. active \in [Names -> 0..MaxVersion] /\ denied \subseteq Names /\ changes \in 0..MaxChanges
        /\ bclock \in 0..BootTimeout
        /\ value \in [Names -> 0..MaxVersion] /\ version \in [Names -> 0..MaxVersion]
    BY SecretNumbers DEF SecretInit
  <1>3. fetch = [n \in Names |-> [state |-> "asking", wait |-> InitialWait, until |-> 0]]
        /\ pass = [r \in Refreshers |-> Resting] /\ store = "config"
        /\ cancelled = FALSE /\ loopOver = FALSE
    BY DEF SecretInit
  <1>4. InitialWait \in 0..MaxWait /\ 0 \in 0..MaxVersion
    BY SecretNumbers
  <1>5. FetchGood /\ Fetches
    BY <1>3, <1>4 DEF FetchGood, Fetches
  <1>6. PassGood /\ Applied
    BY <1>3, <1>4 DEF PassGood, Applied, Resting, Steps
  <1>7. SecretTypeOK
    BY <1>1, <1>2, <1>3, <1>5, <1>6 DEF SecretTypeOK, FetchGood, PassGood, Steps
  <1> QED BY <1>5, <1>6, <1>7 DEF SecretInv

\* Every step of the store, its refreshers and the node keeps the invariant.
LEMMA SecretInvStep ==
  ASSUME SecretInv, [SecretNext]_secretVars
  PROVE  SecretInv'
  <1>1. CASE UNCHANGED secretVars
    BY <1>1 DEF secretVars, setecVars, bootstrap, entries, tailnetVars, SecretInv, SecretTypeOK,
                TailnetTypeOK, PassGood, FetchGood, Applied, Fetches, Secrets
  <1>2. CASE SecretNext
    <2>1. PassGood' /\ Applied' /\ FetchGood' /\ Fetches'
      BY <1>2, PassStepGood, FetchesStep
    <2>2. SecretTypeOK'
      BY <1>2, <2>1, SecretTailnetStep, SecretPlainStep, EntriesStep
         DEF SecretTypeOK, PassGood, FetchGood, Steps
    <2> QED BY <2>1, <2>2 DEF SecretInv
  <1> QED BY <1>1, <1>2

\* load hands back every required secret with a value that parsed, and no later
\* refresh, change in setec or failure takes one away, for any set of secrets.
THEOREM SecretsLoadedWhole == SecretSpec => []LoadedWhole
  <1>1. SecretInv => LoadedWhole
    BY DEF SecretInv, Fetches, LoadedWhole, Tracked
  <1>2. SecretInv /\ [SecretNext]_secretVars => SecretInv'
    BY SecretInvStep
  <1> QED BY <1>1, <1>2, SecretInitInv, PTL DEF SecretSpec
-----------------------------------------------------------------------------
(* The service *)

\* One of the parts moves, and every part keeps its invariant: the whole of what the
\* model-checked service is said to keep, for all values of its constants.
THEOREM ServiceKeepsInvariant == ServiceSpec => []ServiceInvariant
  <1> DEFINE Inv == part \in Parts /\ SupervisorInv /\ BootInv /\ GateInv /\ SecretInv
  <1>1. ServiceInit => Inv
    <2> SUFFICES ASSUME ServiceInit PROVE Inv
      OBVIOUS
    <2>1. BootInv
      BY BootInitInv DEF ServiceInit, BootInit
    <2>2. GateInv
      BY GateInitInv DEF ServiceInit, GateInit
    <2> QED BY <2>1, <2>2, SupervisorInitInv, SecretInitInv DEF ServiceInit
  <1>2. Inv /\ [ServiceNext]_serviceVars => Inv'
    <2> SUFFICES ASSUME Inv, [ServiceNext]_serviceVars PROVE Inv'
      OBVIOUS
    <2>1. /\ [SupervisorNext]_supervisorVars /\ [BootNext]_bootVars
          /\ [GateNext]_gateVars /\ [SecretNext]_secretVars /\ UNCHANGED part
      BY DEF ServiceNext, serviceVars
    <2>2. SupervisorInv'
      BY <2>1, SupervisorTypeStep, JoinedStep, JudgedStep, JobsHeldStep, OnTimeStep DEF SupervisorInv
    <2> QED BY <2>1, <2>2, BootInvStep, GateInvStep, SecretInvStep
  <1>3. Inv => ServiceInvariant
    BY BootInvMigratesAlone DEF SupervisorInv, BootInv, GateInv, SecretInv, ServiceInvariant
  <1> QED BY <1>1, <1>2, <1>3, PTL DEF ServiceSpec
=============================================================================
