----------------------------- MODULE CronProofs -----------------------------
(***************************************************************************)
(* The schedulers of Cron implement CronPromise, for every set of          *)
(* schedulers, crons and schedules, and every skew of the clocks.          *)
(***************************************************************************)
EXTENDS Cron, TLAPS

(***************************************************************************)
(* The inductive invariant.                                                *)
(***************************************************************************)

\* A live claim past the row lock holds the row and has read its value.
Held ==
  \A s \in Schedulers :
    pc[s] \in {"clock", "fire"} /\ live[s] =>
      holder[cur[s]] = s /\ last[s] = lastRun[cur[s]]

\* What a scheduler between the pre-filter and the callback works on.
Working ==
  \A s \in Schedulers :
    /\ pc[s] = "calling" => cur[s] \in Callbacks
    /\ pc[s] = "fire" => StillDue(s, at[s])

\* The row carries the latest fire.
Latest ==
  \A c \in Crons : \A f \in fired[c] : lastRun[c] # Never /\ f <= lastRun[c]

\* A callback about to be invoked belongs to a fire of its own.
OwnFire ==
  /\ \A c \in Crons : ran[c] \subseteq fired[c]
  /\ \A s \in Schedulers :
       pc[s] = "calling" => at[s] \in fired[cur[s]] \ ran[cur[s]]
  /\ \A s, t \in Schedulers :
       pc[s] = "calling" /\ pc[t] = "calling" /\ cur[s] = cur[t] /\ at[s] = at[t] => s = t

CronInv == TypeOK /\ Held /\ Working /\ Latest /\ OwnFire

LEMMA Basics ==
  /\ Times \subseteq Int /\ 0 \in Times
  /\ Never \notin Int /\ NoCron \notin Crons /\ Free \notin Schedulers /\ Ghost \notin Schedulers
  /\ Callbacks \subseteq Crons /\ Intervals \subseteq Crons
  BY ScheduleAssumption, CronAssumption DEF Times

\* A cron that is due after a fire is due in another interval or slot than it and
\* than every earlier fire.
LEMMA DueSeparates ==
  ASSUME NEW c \in Crons, NEW prev \in Int, NEW f \in Int, NEW t \in Int, NEW b \in Int,
         f <= prev, ShouldRun(c, prev, t, b)
  PROVE  Separated(c, f, t) /\ f < t
<1>1. CASE c \in Intervals
  <2>1. Period[c] \in Nat /\ prev # Never
    BY <1>1, ScheduleAssumption
  <2> QED
    BY <1>1, <2>1 DEF ShouldRun, IntervalDue, Separated
<1>2. CASE c \notin Intervals
  <2>1. Slots[c] \subseteq Int /\ prev # Never
    BY <1>2, ScheduleAssumption
  <2>2. PICK slot \in Slots[c] : prev < slot /\ slot <= t
    BY <1>2, <2>1 DEF ShouldRun, CronDue
  <2>3. f < slot /\ slot <= t /\ slot \in Int
    BY <2>1, <2>2
  <2> QED
    BY <1>2, <2>2, <2>3 DEF Separated
<1> QED
  BY <1>1, <1>2

\* The claim a scheduler is about to commit is separated from all fires so far.
LEMMA FireSeparates ==
  ASSUME CronInv, NEW s \in Schedulers, pc[s] = "fire", live[s]
  PROVE  /\ cur[s] \in Crons
         /\ \A f \in fired[cur[s]] : Separated(cur[s], f, at[s]) /\ f < at[s]
<1>1. cur[s] \in Crons /\ ShouldRun(cur[s], lastRun[cur[s]], at[s], started[s])
  BY Basics DEF CronInv, TypeOK, ClaimOK, Held, Working, InClaim, StillDue
<1>2. at[s] \in Int /\ started[s] \in Int
  BY Basics DEF CronInv, TypeOK, ClaimOK, LoopOK
<1>3. ASSUME NEW f \in fired[cur[s]] PROVE Separated(cur[s], f, at[s]) /\ f < at[s]
  <2>1. f \in Int /\ lastRun[cur[s]] \in Int /\ f <= lastRun[cur[s]]
    BY <1>1, <1>3 DEF CronInv, TypeOK, RowsOK, Latest
  <2> QED
    BY <1>1, <1>2, <2>1, DueSeparates
<1> QED
  BY <1>1, <1>3
-----------------------------------------------------------------------------
(* Type correctness, one part of TypeOK at a time *)

LEMMA CronTypeInit == Init => TypeOK
<1> SUFFICES ASSUME Init PROVE TypeOK
  OBVIOUS
<1> USE Basics, CronAssumption DEF Init
<1>1. RowsOK
  BY ScheduleAssumption DEF RowsOK, Times
<1>2. LoopOK
  BY DEF LoopOK, Labels
<1>3. ClaimOK
  BY DEF ClaimOK, InClaim
<1>4. ConfigOK
  BY DEF ConfigOK
<1> QED
  BY <1>1, <1>2, <1>3, <1>4 DEF TypeOK

\* Leaving the claim, or the worker.
LEMMA ForgetTypes ==
  ASSUME TypeOK, NEW s \in Schedulers, Forget(s), pc' = [pc EXCEPT ![s] = "scan"]
  PROVE  ClaimOK' /\ pc' \in [Schedulers -> Labels]
  BY Basics DEF TypeOK, ClaimOK, LoopOK, Forget, InClaim, Labels

LEMMA GoneTypes ==
  ASSUME TypeOK, NEW s \in Schedulers, Gone(s)
  PROVE  ClaimOK' /\ LoopOK'
<1>1. ClaimOK'
  BY Basics DEF TypeOK, ClaimOK, LoopOK, Gone, Forget, InClaim, Labels
<1>2. map' \in [Schedulers -> [Crons -> Int \cup {Never}]]
  BY DEF TypeOK, LoopOK, Gone
<1>3. stop' \in [Schedulers -> BOOLEAN] /\ todo' \in [Schedulers -> SUBSET Crons]
  BY DEF TypeOK, LoopOK, Gone
<1>4. pc' \in [Schedulers -> Labels] /\ started' \in [Schedulers -> Int]
  BY DEF TypeOK, LoopOK, Gone, Labels
<1> QED
  BY <1>1, <1>2, <1>3, <1>4 DEF LoopOK

LEMMA StampTypes ==
  ASSUME TypeOK, NEW s \in Schedulers, cur[s] \in Crons, Stamp(s), UNCHANGED <<now, ran>>
  PROVE  RowsOK'
<1>1. at[s] \in Int
  BY Basics DEF TypeOK, ClaimOK
<1>2. fired' \in [Crons -> SUBSET Int]
  BY <1>1 DEF TypeOK, RowsOK, Stamp
<1> QED
  BY <1>1, <1>2, Basics DEF TypeOK, RowsOK, Stamp

LEMMA LockTypes ==
  ASSUME TypeOK, NEW s \in Schedulers, cur[s] \in Crons, Lock(s), InClaim(s), UNCHANGED <<now, ran>>
  PROVE  RowsOK' /\ ClaimOK' /\ pc' \in [Schedulers -> Labels]
  BY Basics DEF TypeOK, RowsOK, ClaimOK, LoopOK, Lock, InClaim, Labels

LEMMA NotClaimedTypes ==
  ASSUME TypeOK, NEW s \in Schedulers, NotClaimed(s), UNCHANGED <<now, ran>>
  PROVE  RowsOK' /\ ClaimOK' /\ pc' \in [Schedulers -> Labels]
<1>1. RowsOK'
  BY DEF TypeOK, RowsOK, NotClaimed, RolledBack
<1> QED
  BY <1>1, ForgetTypes DEF NotClaimed

LEMMA CronTypeStep == TypeOK /\ [Next]_vars => TypeOK'
<1> SUFFICES ASSUME TypeOK, [Next]_vars PROVE TypeOK'
  OBVIOUS
<1>a. RowsOK /\ LoopOK /\ ClaimOK /\ ConfigOK
  BY DEF TypeOK
<1>b. SUFFICES RowsOK' /\ LoopOK' /\ ClaimOK' /\ ConfigOK'
  BY DEF TypeOK
<1>c. ASSUME NEW s \in Schedulers, InClaim(s) \/ pc[s] = "calling" PROVE cur[s] \in Crons
  BY <1>a, <1>c DEF ClaimOK
<1> USE Basics DEF claimVars, rowVars
<1>1. ASSUME NEW s \in Schedulers, Boot(s) PROVE RowsOK' /\ LoopOK' /\ ClaimOK' /\ ConfigOK'
  <2>1. LocalNow(s) \in Int
    BY <1>a, CronAssumption DEF RowsOK, LocalNow
  <2>2. RowsOK' /\ ConfigOK'
    BY <1>a, <1>1, CronAssumption DEF Boot, RowsOK, ConfigOK
  <2>3. ClaimOK'
    BY <1>a, <1>1 DEF Boot, ClaimOK, LoopOK, InClaim
  <2>4. stop' \in [Schedulers -> BOOLEAN]
    BY <1>a, <1>1 DEF Boot, LoopOK
  <2> QED
    BY <1>a, <1>1, <2>1, <2>2, <2>3, <2>4 DEF Boot, LoopOK, Labels
<1>2. ASSUME NEW s \in Schedulers, ReadMap(s) \/ EndTick(s) \/ Wake(s)
      PROVE  RowsOK' /\ LoopOK' /\ ClaimOK' /\ ConfigOK'
  <2>1. RowsOK' /\ ConfigOK'
    BY <1>a, <1>2 DEF ReadMap, EndTick, Wake, RowsOK, ConfigOK, counters
  <2>2. ClaimOK'
    BY <1>a, <1>2 DEF ReadMap, EndTick, Wake, ClaimOK, LoopOK, InClaim
  <2>3. map' \in [Schedulers -> [Crons -> Int \cup {Never}]]
    BY <1>a, <1>2 DEF ReadMap, EndTick, Wake, LoopOK, RowsOK
  <2>4. todo' \in [Schedulers -> SUBSET Crons] /\ UNCHANGED <<started, stop>>
    BY <1>a, <1>2 DEF ReadMap, EndTick, Wake, LoopOK, ConfigOK
  <2>5. pc' \in [Schedulers -> Labels]
    BY <1>a, <1>2 DEF ReadMap, EndTick, Wake, LoopOK, Labels
  <2> QED
    BY <1>a, <2>1, <2>2, <2>3, <2>4, <2>5 DEF LoopOK
<1>3. ASSUME NEW s \in Schedulers, Shutdown(s) PROVE RowsOK' /\ LoopOK' /\ ClaimOK' /\ ConfigOK'
  <2>1. stop' \in [Schedulers -> BOOLEAN]
    BY <1>a, <1>3 DEF Shutdown, LoopOK
  <2> QED
    BY <1>a, <1>3, <2>1 DEF Shutdown, RowsOK, LoopOK, ClaimOK, InClaim, ConfigOK, counters
<1>4. ASSUME NEW s \in Schedulers, NEW c \in Crons, Visit(s, c)
      PROVE  RowsOK' /\ LoopOK' /\ ClaimOK' /\ ConfigOK'
  <2>1. RowsOK' /\ ConfigOK'
    BY <1>a, <1>4 DEF Visit, RowsOK, ConfigOK, counters
  <2>2. map' \in [Schedulers -> [Crons -> Int \cup {Never}]]
    BY <1>a, <1>4 DEF Visit, LoopOK
  <2>3. todo' \in [Schedulers -> SUBSET Crons]
    BY <1>a, <1>4 DEF Visit, LoopOK
  <2>4. CASE ShouldRun(c, map[s][c], LocalNow(s), started[s])
    <3>1. pc' = [pc EXCEPT ![s] = "select"] /\ cur' = [cur EXCEPT ![s] = c]
          /\ live' = [live EXCEPT ![s] = TRUE] /\ UNCHANGED <<last, at, stop, started>>
      BY <1>4, <2>4 DEF Visit
    <3>2. live' \in [Schedulers -> BOOLEAN]
      BY <1>a, <3>1 DEF ClaimOK
    <3> QED
      BY <1>a, <2>1, <2>2, <2>3, <3>1, <3>2 DEF LoopOK, ClaimOK, InClaim, Labels
  <2>5. CASE ~ShouldRun(c, map[s][c], LocalNow(s), started[s])
    <3>1. UNCHANGED <<pc, cur, live, last, at, stop, started>>
      BY <1>4, <2>5 DEF Visit
    <3> QED
      BY <1>a, <2>1, <2>2, <2>3, <3>1 DEF LoopOK, ClaimOK, InClaim
  <2> QED
    BY <2>4, <2>5
<1>5. ASSUME NEW s \in Schedulers, Stop(s) PROVE RowsOK' /\ LoopOK' /\ ClaimOK' /\ ConfigOK'
  BY <1>a, <1>5, GoneTypes DEF Stop, RowsOK, ConfigOK, counters
<1>6. ASSUME NEW s \in Schedulers, Select(s) \/ Insert(s)
      PROVE  RowsOK' /\ LoopOK' /\ ClaimOK' /\ ConfigOK'
  <2>1. /\ InClaim(s) /\ UNCHANGED <<registry, now, started, map, todo, stop, ran, boots, faults, backs>>
        /\ \/ Lock(s) \/ NotClaimed(s)
           \/ \E l \in {"insert", "reselect"} :
                pc' = [pc EXCEPT ![s] = l] /\ UNCHANGED <<rowVars, claimVars>>
    BY <1>6 DEF Select, Insert, InClaim, counters
  <2>2. RowsOK' /\ ClaimOK' /\ pc' \in [Schedulers -> Labels]
    <3>1. CASE Lock(s)
      BY <1>c, <2>1, <3>1, LockTypes
    <3>2. CASE NotClaimed(s)
      BY <2>1, <3>2, NotClaimedTypes
    <3>3. ASSUME NEW l \in {"insert", "reselect"},
                 pc' = [pc EXCEPT ![s] = l] /\ UNCHANGED <<rowVars, claimVars>>
          PROVE  RowsOK' /\ ClaimOK' /\ pc' \in [Schedulers -> Labels]
      BY <1>a, <2>1, <3>3 DEF RowsOK, ClaimOK, LoopOK, InClaim, Labels
    <3> QED
      BY <2>1, <3>1, <3>2, <3>3
  <2> QED
    BY <1>a, <2>1, <2>2 DEF LoopOK, ConfigOK
<1>7. ASSUME NEW s \in Schedulers, ReadClock(s) PROVE RowsOK' /\ LoopOK' /\ ClaimOK' /\ ConfigOK'
  <2>1. RowsOK' /\ ClaimOK' /\ pc' \in [Schedulers -> Labels]
    <3>1. CASE NotClaimed(s)
      BY <1>7, <3>1, NotClaimedTypes DEF ReadClock
    <3>2. CASE ~NotClaimed(s)
      <4>1. /\ at' = [at EXCEPT ![s] = now] /\ pc' = [pc EXCEPT ![s] = "fire"] /\ pc[s] = "clock"
            /\ UNCHANGED <<now, lastRun, holder, fired, rows, ran, cur, last, live>>
        BY <1>7, <3>2 DEF ReadClock, ClaimTime
      <4> QED
        BY <1>a, <4>1 DEF RowsOK, ClaimOK, LoopOK, InClaim, Labels
    <3> QED
      BY <3>1, <3>2
  <2> QED
    BY <1>a, <1>7, <2>1 DEF ReadClock, LoopOK, ConfigOK, counters
<1>8. ASSUME NEW s \in Schedulers, Commit(s) PROVE RowsOK' /\ LoopOK' /\ ClaimOK' /\ ConfigOK'
  <2>1. RowsOK'
    BY <1>c, <1>8, StampTypes DEF Commit, InClaim
  <2>2. CASE cur[s] \in Callbacks
    BY <1>a, <1>8, <2>1, <2>2 DEF Commit, LoopOK, ClaimOK, InClaim, Labels, ConfigOK, counters
  <2>3. CASE cur[s] \notin Callbacks
    BY <1>a, <1>8, <2>1, <2>3, ForgetTypes DEF Commit, LoopOK, ConfigOK, counters
  <2> QED
    BY <2>2, <2>3
<1>9. ASSUME NEW s \in Schedulers, RunCallback(s)
      PROVE  RowsOK' /\ LoopOK' /\ ClaimOK' /\ ConfigOK'
  <2>1. at[s] \in Int /\ cur[s] \in Crons
    BY <1>a, <1>c, <1>9 DEF ClaimOK, RunCallback
  <2>2. ran' \in [Crons -> SUBSET Int]
    BY <1>a, <1>9, <2>1 DEF RunCallback, RowsOK
  <2>3. RowsOK' /\ ConfigOK'
    BY <1>a, <1>9, <2>2 DEF RunCallback, RowsOK, ConfigOK, counters
  <2> QED
    BY <1>a, <1>9, <2>3, GoneTypes, ForgetTypes DEF RunCallback, LoopOK
<1>10. ASSUME NEW s \in Schedulers, EndTransaction(s)
       PROVE  RowsOK' /\ LoopOK' /\ ClaimOK' /\ ConfigOK'
  <2>1. live' \in [Schedulers -> BOOLEAN]
    BY <1>a, <1>10 DEF EndTransaction, ClaimOK
  <2>2. RowsOK' /\ LoopOK'
    BY <1>a, <1>10 DEF EndTransaction, RolledBack, RowsOK, LoopOK
  <2> QED
    BY <1>a, <1>10, <2>1, <2>2, CronAssumption DEF EndTransaction, ClaimOK, InClaim, ConfigOK
<1>11. ASSUME NEW s \in Schedulers, Skip(s) PROVE RowsOK' /\ LoopOK' /\ ClaimOK' /\ ConfigOK'
  BY <1>a, <1>11, NotClaimedTypes DEF Skip, LoopOK, ConfigOK, counters
<1>12. ASSUME NEW s \in Schedulers, Fatal(s) PROVE RowsOK' /\ LoopOK' /\ ClaimOK' /\ ConfigOK'
  <2>1. RowsOK' /\ ConfigOK'
    BY <1>a, <1>12, CronAssumption DEF Fatal, RolledBack, RowsOK, ConfigOK
  <2> QED
    BY <1>12, <2>1, GoneTypes DEF Fatal
<1>13. ASSUME NEW s \in Schedulers, CommitUnanswered(s)
       PROVE  RowsOK' /\ LoopOK' /\ ClaimOK' /\ ConfigOK'
  <2>1. RowsOK' /\ ConfigOK'
    BY <1>a, <1>c, <1>13, CronAssumption, StampTypes DEF CommitUnanswered, InClaim, ConfigOK
  <2> QED
    BY <1>a, <1>13, <2>1, GoneTypes, ForgetTypes DEF CommitUnanswered, LoopOK
<1>14. ASSUME NEW s \in Schedulers, Crash(s) PROVE RowsOK' /\ LoopOK' /\ ClaimOK' /\ ConfigOK'
  <2>1. RowsOK' /\ ConfigOK'
    BY <1>a, <1>14 DEF Crash, RowsOK, ConfigOK, counters
  <2> QED
    BY <1>14, <2>1, GoneTypes DEF Crash
<1>15. ASSUME NEW c \in Crons, Reap(c) PROVE RowsOK' /\ LoopOK' /\ ClaimOK' /\ ConfigOK'
  BY <1>a, <1>15 DEF Reap, RowsOK, LoopOK, ClaimOK, InClaim, ConfigOK, counters
<1>16. CASE Tick \/ StepBack
  BY <1>a, <1>16, CronAssumption, ScheduleAssumption
     DEF Tick, StepBack, Times, RowsOK, LoopOK, ClaimOK, InClaim, ConfigOK, counters
<1>17. CASE UNCHANGED vars
  BY <1>a, <1>17 DEF vars, RowsOK, LoopOK, ClaimOK, InClaim, ConfigOK, counters
<1> QED
  BY <1>1, <1>2, <1>3, <1>4, <1>5, <1>6, <1>7, <1>8, <1>9, <1>10, <1>11, <1>12, <1>13, <1>14,
     <1>15, <1>16, <1>17 DEF Next, Work

\* Every variable keeps its type, for every set of crons and schedulers: a claim
\* time always comes from the database's clock.
THEOREM CronTypeCorrect == Spec => []TypeOK
  BY CronTypeInit, CronTypeStep, PTL DEF Spec
-----------------------------------------------------------------------------
(* The invariant is inductive *)

\* A step that leaves the rows and the fires alone, and moves no scheduler into
\* the claim, its commit or its callback.
Quiet ==
  /\ UNCHANGED <<lastRun, fired, ran>>
  /\ \A s \in Schedulers :
       \/ pc'[s] \in {"off", "top", "scan", "select", "insert", "reselect", "asleep"}
       \/ /\ pc'[s] = pc[s]
          /\ cur'[s] = cur[s] /\ last'[s] = last[s] /\ at'[s] = at[s] /\ started'[s] = started[s]
          /\ \/ live'[s] = live[s] /\ (\A c \in Crons : holder[c] = s => holder'[c] = s)
             \/ ~live'[s]

LEMMA QuietKeeps ==
  ASSUME CronInv, TypeOK', Quiet
  PROVE  CronInv'
<1>1. Held'
  BY Basics DEF CronInv, TypeOK, ClaimOK, InClaim, Held, Quiet
<1>2. Working'
  BY DEF CronInv, Working, StillDue, Quiet
<1>3. Latest' /\ OwnFire'
  BY DEF CronInv, Latest, OwnFire, Quiet
<1> QED
  BY <1>1, <1>2, <1>3 DEF CronInv

\* The commit of a claim.
LEMMA StampKeeps ==
  ASSUME CronInv, TypeOK', NEW s \in Schedulers, pc[s] = "fire", live[s], Stamp(s),
         UNCHANGED ran,
         \A t \in Schedulers \ {s} :
           UNCHANGED <<pc[t], cur[t], last[t], at[t], live[t], started[t]>>,
         \/ pc'[s] \in {"scan", "off"}
         \/ pc'[s] = "calling" /\ cur[s] \in Callbacks /\ cur'[s] = cur[s] /\ at'[s] = at[s]
  PROVE  CronInv'
<1>1. cur[s] \in Crons /\ holder[cur[s]] = s /\ at[s] \in Int
  BY FireSeparates, Basics DEF CronInv, TypeOK, ClaimOK, Held
<1>2. \A f \in fired[cur[s]] : f < at[s]
  BY FireSeparates
<1>3. /\ lastRun' = [lastRun EXCEPT ![cur[s]] = at[s]]
      /\ holder' = [holder EXCEPT ![cur[s]] = Free]
      /\ fired' = [fired EXCEPT ![cur[s]] = @ \cup {at[s]}]
  BY DEF Stamp
<1>4. Held'
  <2> SUFFICES ASSUME NEW t \in Schedulers, pc'[t] \in {"clock", "fire"}, live'[t]
               PROVE  holder'[cur'[t]] = t /\ last'[t] = lastRun'[cur'[t]]
    BY DEF Held
  <2>1. t # s
    OBVIOUS
  <2>2. pc[t] \in {"clock", "fire"} /\ live[t] /\ cur'[t] = cur[t] /\ last'[t] = last[t]
    BY <2>1
  <2>3. holder[cur[t]] = t /\ last[t] = lastRun[cur[t]] /\ cur[t] \in Crons
    BY <2>2, Basics DEF CronInv, Held, TypeOK, ClaimOK, InClaim
  <2>4. cur[t] # cur[s]
    BY <1>1, <2>1, <2>3
  <2> QED
    BY <1>1, <1>3, <2>2, <2>3, <2>4 DEF CronInv, TypeOK, RowsOK
<1>5. Working'
  BY DEF CronInv, Working, StillDue
<1>6. Latest'
  <2> SUFFICES ASSUME NEW c \in Crons, NEW f \in fired'[c]
               PROVE  lastRun'[c] # Never /\ f <= lastRun'[c]
    BY DEF Latest
  <2>1. CASE c = cur[s]
    <3>1. lastRun'[c] = at[s] /\ (f \in fired[cur[s]] \/ f = at[s])
      BY <1>1, <1>3, <2>1 DEF CronInv, TypeOK, RowsOK
    <3>2. f \in fired[cur[s]] => f \in Int
      BY <1>1 DEF CronInv, TypeOK, RowsOK
    <3> QED
      BY <1>1, <1>2, <3>1, <3>2, Basics
  <2>2. CASE c # cur[s]
    BY <1>3, <2>2 DEF CronInv, TypeOK, RowsOK, Latest
  <2> QED
    BY <2>1, <2>2
<1>7. OwnFire'
  <2>1. at[s] \notin fired[cur[s]]
    BY <1>1, <1>2
  <2>2. \A c \in Crons : fired[c] \subseteq fired'[c] /\ ran'[c] = ran[c] /\ ran[c] \subseteq fired[c]
    BY <1>3 DEF CronInv, TypeOK, RowsOK, OwnFire
  <2>3. at[s] \in fired'[cur[s]] /\ at[s] \notin ran'[cur[s]]
    BY <1>1, <1>3, <2>1, <2>2 DEF CronInv, TypeOK, RowsOK
  <2>4. ASSUME NEW t \in Schedulers, t # s, pc'[t] = "calling"
        PROVE  /\ pc[t] = "calling" /\ cur'[t] = cur[t] /\ at'[t] = at[t] /\ cur[t] \in Crons
               /\ at[t] \in fired[cur[t]] \ ran[cur[t]]
    BY <2>4, Basics DEF CronInv, OwnFire, Working
  <2>5. \A t \in Schedulers : pc'[t] = "calling" => at'[t] \in fired'[cur'[t]] \ ran'[cur'[t]]
    BY <1>1, <2>2, <2>3, <2>4
  <2>6. ASSUME NEW t \in Schedulers, NEW u \in Schedulers, pc'[t] = "calling", pc'[u] = "calling",
               cur'[t] = cur'[u], at'[t] = at'[u]
        PROVE  t = u
    <3>1. CASE t # s /\ u # s
      BY <2>4, <2>6, <3>1 DEF CronInv, OwnFire
    <3>2. CASE (t = s /\ u # s) \/ (t # s /\ u = s)
      BY <2>1, <2>4, <2>6, <3>2
    <3> QED
      BY <3>1, <3>2
  <2> QED
    BY <2>2, <2>5, <2>6 DEF OwnFire
<1> QED
  BY <1>4, <1>5, <1>6, <1>7 DEF CronInv

LEMMA CronInvInit == Init => CronInv
<1> SUFFICES ASSUME Init PROVE CronInv
  OBVIOUS
<1>1. Held /\ Working /\ OwnFire
  BY DEF Init, Held, Working, OwnFire
<1>2. Latest
  BY Basics, CronAssumption DEF Init, Latest
<1> QED
  BY <1>1, <1>2, CronTypeInit DEF CronInv

LEMMA CronInvStep == CronInv /\ [Next]_vars => CronInv'
<1> SUFFICES ASSUME CronInv, [Next]_vars PROVE CronInv'
  OBVIOUS
<1>a. TypeOK /\ TypeOK'
  BY CronTypeStep DEF CronInv
<1>b. /\ pc \in [Schedulers -> Labels] /\ started \in [Schedulers -> Int]
      /\ cur \in [Schedulers -> Crons \cup {NoCron}] /\ last \in [Schedulers -> Int \cup {Never}]
      /\ at \in [Schedulers -> Times] /\ live \in [Schedulers -> BOOLEAN]
      /\ holder \in [Crons -> Schedulers \cup {Free, Ghost}]
  BY <1>a DEF TypeOK, RowsOK, LoopOK, ClaimOK
<1>c. ASSUME Quiet PROVE CronInv'
  BY <1>a, <1>c, QuietKeeps
<1> USE Basics DEF claimVars, rowVars
<1>1. ASSUME NEW s \in Schedulers, Boot(s) \/ ReadMap(s) \/ EndTick(s) \/ Wake(s) \/ Shutdown(s)
      PROVE  Quiet
  BY <1>b, <1>1 DEF Boot, ReadMap, EndTick, Wake, Shutdown, Quiet
<1>2. ASSUME NEW s \in Schedulers, NEW c \in Crons, Visit(s, c) PROVE Quiet
  BY <1>b, <1>2 DEF Visit, Quiet
<1>3. ASSUME NEW s \in Schedulers, Gone(s), UNCHANGED <<lastRun, fired, ran>>,
             \A t \in Schedulers \ {s}, c \in Crons : holder[c] = t => holder'[c] = t
      PROVE  Quiet
  BY <1>b, <1>3, ZenonT(30) DEF Gone, Forget, Quiet
<1>4. ASSUME NEW s \in Schedulers, Stop(s) PROVE Quiet
  BY <1>3, <1>4 DEF Stop
<1>5. ASSUME NEW s \in Schedulers, Fatal(s) PROVE Quiet
  <2>1. \A t \in Schedulers \ {s}, c \in Crons : holder[c] = t => holder'[c] = t
    BY <1>5 DEF Fatal, RolledBack
  <2> QED
    BY <1>3, <1>5, <2>1 DEF Fatal
<1>6. ASSUME NEW s \in Schedulers, Crash(s) PROVE Quiet
  <2>1. \A t \in Schedulers \ {s}, c \in Crons : holder[c] = t => holder'[c] = t
    BY <1>6 DEF Crash
  <2> QED
    BY <1>3, <1>6, <2>1 DEF Crash
<1>7. ASSUME NEW s \in Schedulers, NotClaimed(s), UNCHANGED <<started, ran>> PROVE Quiet
  BY <1>b, <1>7 DEF NotClaimed, RolledBack, Forget, Quiet
<1>8. ASSUME NEW s \in Schedulers, Lock(s), UNCHANGED <<started, ran>>,
             InClaim(s), holder[cur[s]] = Free
      PROVE  CronInv'
  <2>1. cur[s] \in Crons
    BY <1>a, <1>8 DEF TypeOK, ClaimOK
  <2>2. /\ holder' = [holder EXCEPT ![cur[s]] = s] /\ last' = [last EXCEPT ![s] = lastRun[cur[s]]]
        /\ pc' = [pc EXCEPT ![s] = "clock"] /\ UNCHANGED <<lastRun, fired, ran, cur, at, live, started>>
    BY <1>8 DEF Lock
  <2>3. Held'
    <3> SUFFICES ASSUME NEW t \in Schedulers, pc'[t] \in {"clock", "fire"}, live'[t]
                 PROVE  holder'[cur'[t]] = t /\ last'[t] = lastRun'[cur'[t]]
      BY DEF Held
    <3>1. CASE t = s
      BY <1>b, <2>1, <2>2, <3>1
    <3>2. CASE t # s
      <4>1. pc[t] \in {"clock", "fire"} /\ live[t] /\ last'[t] = last[t]
        BY <1>b, <2>2, <3>2
      <4>2. holder[cur[t]] = t /\ last[t] = lastRun[cur[t]] /\ cur[t] \in Crons
        BY <1>a, <4>1 DEF CronInv, Held, TypeOK, ClaimOK, InClaim
      <4> QED
        BY <1>8, <1>b, <2>1, <2>2, <4>1, <4>2
    <3> QED
      BY <3>1, <3>2
  <2>4. Working' /\ Latest' /\ OwnFire'
    BY <1>b, <2>2 DEF CronInv, Working, StillDue, Latest, OwnFire
  <2> QED
    BY <1>a, <2>3, <2>4 DEF CronInv
<1>9. ASSUME NEW s \in Schedulers, Select(s) \/ Insert(s) PROVE CronInv'
  <2>1. CASE Lock(s)
    <3>1. pc'[s] = "clock"
      BY <1>b, <2>1 DEF Lock
    <3>2. ~NotClaimed(s) /\ pc' # [pc EXCEPT ![s] = "insert"] /\ pc' # [pc EXCEPT ![s] = "reselect"]
      BY <1>b, <3>1 DEF NotClaimed
    <3>3. InClaim(s) /\ holder[cur[s]] = Free /\ UNCHANGED <<started, ran>>
      BY <1>9, <3>2 DEF Select, Insert, InClaim
    <3> QED
      BY <1>8, <2>1, <3>3
  <2>2. CASE NotClaimed(s)
    BY <1>7, <1>9, <1>c, <2>2 DEF Select, Insert
  <2>3. CASE ~Lock(s) /\ ~NotClaimed(s)
    <3>1. Quiet
      BY <1>b, <1>9, <2>3 DEF Select, Insert, Quiet
    <3> QED
      BY <1>c, <3>1
  <2> QED
    BY <2>1, <2>2, <2>3
<1>10. ASSUME NEW s \in Schedulers, ReadClock(s) PROVE CronInv'
  <2>1. CASE NotClaimed(s)
    BY <1>7, <1>10, <1>c, <2>1 DEF ReadClock
  <2>2. CASE ~NotClaimed(s)
    <3>1. /\ pc[s] = "clock" /\ StillDue(s, now)
          /\ at' = [at EXCEPT ![s] = now] /\ pc' = [pc EXCEPT ![s] = "fire"]
          /\ UNCHANGED <<lastRun, holder, fired, ran, cur, last, live, started>>
      BY <1>10, <2>2 DEF ReadClock, ClaimTime
    <3>2. Held' /\ Latest' /\ OwnFire'
      BY <1>b, <3>1 DEF CronInv, Held, Latest, OwnFire
    <3>3. Working'
      BY <1>b, <3>1 DEF CronInv, Working, StillDue
    <3> QED
      BY <1>a, <3>2, <3>3 DEF CronInv
  <2> QED
    BY <2>1, <2>2
<1>11. ASSUME NEW s \in Schedulers, Commit(s) PROVE CronInv'
  <2>1. \A t \in Schedulers \ {s} : UNCHANGED <<pc[t], cur[t], last[t], at[t], live[t], started[t]>>
    BY <1>b, <1>11 DEF Commit, Forget
  <2>2. \/ pc'[s] \in {"scan", "off"}
        \/ pc'[s] = "calling" /\ cur[s] \in Callbacks /\ cur'[s] = cur[s] /\ at'[s] = at[s]
    BY <1>b, <1>11 DEF Commit
  <2> QED
    BY <1>a, <1>11, <2>1, <2>2, StampKeeps DEF Commit
<1>12. ASSUME NEW s \in Schedulers, CommitUnanswered(s) PROVE CronInv'
  <2>1. \A t \in Schedulers \ {s} : UNCHANGED <<pc[t], cur[t], last[t], at[t], live[t], started[t]>>
    BY <1>b, <1>12 DEF CommitUnanswered, Gone, Forget
  <2>2. pc'[s] \in {"scan", "off"}
    BY <1>b, <1>12 DEF CommitUnanswered, Gone
  <2> QED
    BY <1>a, <1>12, <2>1, <2>2, StampKeeps DEF CommitUnanswered
<1>13. ASSUME NEW s \in Schedulers, RunCallback(s) PROVE CronInv'
  <2>1. /\ pc[s] = "calling" /\ pc'[s] \in {"scan", "off"} /\ UNCHANGED <<lastRun, holder, fired>>
        /\ \A t \in Schedulers \ {s} :
             UNCHANGED <<pc[t], cur[t], last[t], at[t], live[t], started[t]>>
    BY <1>b, <1>13 DEF RunCallback, Gone, Forget
  <2>2. Held' /\ Working' /\ Latest'
    BY <2>1 DEF CronInv, Held, Working, StillDue, Latest
  <2>3. cur[s] \in Crons /\ at[s] \in fired[cur[s]] \ ran[cur[s]]
    BY <2>1 DEF CronInv, OwnFire, Working
  <2>4. ran' = [ran EXCEPT ![cur[s]] = @ \cup {at[s]}]
    BY <1>13 DEF RunCallback
  <2>5. \A c \in Crons : ran'[c] \subseteq fired'[c]
    BY <1>a, <2>1, <2>3, <2>4 DEF CronInv, OwnFire, TypeOK, RowsOK
  <2>6. ASSUME NEW t \in Schedulers, pc'[t] = "calling"
        PROVE  /\ t # s /\ pc[t] = "calling" /\ cur'[t] = cur[t] /\ at'[t] = at[t]
               /\ cur[t] \in Crons /\ at[t] \in fired[cur[t]] \ ran'[cur[t]]
    <3>1. t # s /\ pc[t] = "calling" /\ cur'[t] = cur[t] /\ at'[t] = at[t]
      BY <2>1, <2>6
    <3>2. cur[t] \in Crons /\ at[t] \in fired[cur[t]] \ ran[cur[t]]
      BY <3>1 DEF CronInv, OwnFire, Working
    <3>3. ~(cur[t] = cur[s] /\ at[t] = at[s])
      BY <2>1, <3>1 DEF CronInv, OwnFire
    <3> QED
      BY <1>a, <2>3, <2>4, <3>1, <3>2, <3>3 DEF TypeOK, RowsOK
  <2>7. OwnFire'
    BY <2>1, <2>5, <2>6 DEF CronInv, OwnFire
  <2> QED
    BY <1>a, <2>2, <2>7 DEF CronInv
<1>14. ASSUME NEW s \in Schedulers, EndTransaction(s) PROVE Quiet
  BY <1>b, <1>14 DEF EndTransaction, RolledBack, Quiet
<1>15. ASSUME NEW s \in Schedulers, Skip(s) PROVE Quiet
  BY <1>7, <1>15 DEF Skip
<1>16. ASSUME NEW c \in Crons, Reap(c) PROVE Quiet
  BY <1>b, <1>16 DEF Reap, Quiet
<1>17. CASE Tick \/ StepBack \/ UNCHANGED vars
  <2>1. Quiet
    BY <1>17 DEF Tick, StepBack, vars, Quiet
  <2> QED
    BY <1>c, <2>1
<1> QED
  BY <1>1, <1>2, <1>4, <1>5, <1>6, <1>9, <1>10, <1>11, <1>12, <1>13, <1>14, <1>15, <1>16, <1>17,
     <1>c DEF Next, Work

LEMMA CronInvAlways == Spec => []CronInv
  BY CronInvInit, CronInvStep, PTL DEF Spec

\* A claim that can still commit rests on the row's present last_run_at.
THEOREM ClaimsAreCurrent == Spec => []ClaimCurrent
<1>1. CronInv => ClaimCurrent
  BY DEF CronInv, Held, ClaimCurrent
<1> QED
  BY <1>1, CronInvAlways, PTL
-----------------------------------------------------------------------------
(* The schedulers implement CronPromise *)

LEMMA PromiseStart == Init => Promise!PromiseInit
<1> SUFFICES ASSUME Init PROVE Promise!PromiseInit
  OBVIOUS
<1>1. TypeOK
  BY CronTypeInit
<1> QED
  BY <1>1 DEF Init, TypeOK, RowsOK, Promise!PromiseInit

\* A commit is one claim of the promise.
LEMMA StampClaims ==
  ASSUME CronInv, NEW s \in Schedulers, pc[s] = "fire", live[s], Stamp(s), UNCHANGED ran
  PROVE  Promise!PromiseNext
<1>1. cur[s] \in Crons /\ \A f \in fired[cur[s]] : Separated(cur[s], f, at[s])
  BY FireSeparates
<1>2. at[s] \in Times
  BY DEF CronInv, TypeOK, ClaimOK
<1>3. \A f \in fired[cur[s]] : Promise!Separated(cur[s], f, at[s])
  BY <1>1 DEF Separated, Promise!Separated
<1>4. at[s] \in Promise!Times
  BY <1>2 DEF Times, Promise!Times
<1>5. Promise!Claim(cur[s])
  BY <1>3, <1>4 DEF Stamp, Promise!Claim
<1> QED
  BY <1>1, <1>5 DEF Promise!PromiseNext

LEMMA PromiseStep ==
  CronInv /\ [Next]_vars => [Promise!PromiseNext]_<<fired, rows, ran>>
<1> SUFFICES ASSUME CronInv, [Next]_vars
             PROVE  Promise!PromiseNext \/ UNCHANGED <<fired, rows, ran>>
  OBVIOUS
<1> USE DEF rowVars
<1>1. ASSUME NEW s \in Schedulers, Commit(s) \/ CommitUnanswered(s) PROVE Promise!PromiseNext
  BY <1>1, StampClaims DEF Commit, CommitUnanswered
<1>2. ASSUME NEW s \in Schedulers, RunCallback(s) PROVE Promise!PromiseNext
  <2>1. cur[s] \in Callbacks /\ cur[s] \in Crons /\ at[s] \in fired[cur[s]] \ ran[cur[s]]
    BY <1>2, Basics DEF CronInv, OwnFire, Working, RunCallback
  <2>2. Promise!Invoke(cur[s])
    BY <1>2, <2>1 DEF RunCallback, Promise!Invoke
  <2> QED
    BY <2>1, <2>2 DEF Promise!PromiseNext
<1>3. ASSUME NEW s \in Schedulers,
             \/ ReadMap(s) \/ (\E c \in Crons : Visit(s, c)) \/ EndTick(s) \/ Wake(s) \/ Stop(s)
             \/ Select(s) \/ Insert(s) \/ ReadClock(s) \/ Skip(s)
             \/ Boot(s) \/ Shutdown(s) \/ EndTransaction(s) \/ Fatal(s) \/ Crash(s)
      PROVE  UNCHANGED <<fired, rows, ran>>
  BY <1>3 DEF ReadMap, Visit, EndTick, Wake, Stop, Select, Insert, Lock, NotClaimed, ReadClock,
              Skip, Boot, Shutdown, EndTransaction, Fatal, Crash
<1>4. CASE (\E c \in Crons : Reap(c)) \/ Tick \/ StepBack \/ UNCHANGED vars
  BY <1>4 DEF Reap, Tick, StepBack, vars
<1> QED
  BY <1>1, <1>2, <1>3, <1>4 DEF Next, Work

\* All schedulers together keep the promise, whatever they interleave, however
\* their clocks differ and whichever transactions are lost: no two fires of a
\* cron in one interval or slot, one queue row per fire of a job cron, at most
\* one invocation per fire of a callback.
THEOREM SchedulersKeepPromise == Spec => KeepsPromise
  BY PromiseStart, PromiseStep, CronInvAlways, PTL
     DEF Spec, KeepsPromise, Promise!PromiseSpec, Promise!promiseVars
=============================================================================
