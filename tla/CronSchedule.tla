---------------------------- MODULE CronSchedule ----------------------------
(***************************************************************************)
(* Schedules of crates/cja/src/cron/registry.rs: when a cron is due.       *)
(* A cron expression is the set of instants it matches (its slots), a time *)
(* is an integer; timezones only choose the slots.                         *)
(***************************************************************************)
EXTENDS Integers

CONSTANTS
  Crons,      \* registered names
  Callbacks,  \* names registered with register / register_with_cron
  Intervals,  \* names with an IntervalSchedule; the others have a CronSchedule
  Period,     \* IntervalSchedule.0
  Slots,      \* the instants a CronSchedule matches
  Never,      \* no row in the table crons: last_run is None
  MaxTime     \* bound: the last instant of the database clock

ASSUME ScheduleAssumption ==
  /\ Callbacks \subseteq Crons
  /\ Intervals \subseteq Crons
  /\ Period \in [Intervals -> Nat]
  /\ Slots \in [Crons \ Intervals -> SUBSET Int]
  /\ Never \notin Int
  /\ MaxTime \in Nat

Times == 0..MaxTime

\* IntervalSchedule::should_run: strictly more than the period has passed.
IntervalDue(c, last, now) == last # Never => now - last > Period[c]

\* CronSchedule::should_run: the first slot after last_run (after the worker's
\* start if there is none) has come.
CronDue(c, last, now, started) ==
  LET from == IF last = Never THEN started ELSE last
  IN  \E slot \in Slots[c] : from < slot /\ slot <= now

\* Schedule::should_run
ShouldRun(c, last, now, started) ==
  IF c \in Intervals THEN IntervalDue(c, last, now) ELSE CronDue(c, last, now, started)

\* Two claim times of c stand for different intervals or different slots.
Separated(c, earlier, later) ==
  IF c \in Intervals
  THEN later - earlier > Period[c]
  ELSE \E slot \in Slots[c] : earlier < slot /\ slot <= later
=============================================================================
