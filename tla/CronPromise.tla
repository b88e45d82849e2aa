---------------------------- MODULE CronPromise -----------------------------
(***************************************************************************)
(* What the cron system promises about all schedulers together: a job cron *)
(* puts one row into the queue for each claimed interval or slot, a        *)
(* callback runs at most once for each, and no two claims share one.       *)
(***************************************************************************)
EXTENDS CronSchedule

VARIABLES
  fired,  \* claim times that were committed, for every cron
  rows,   \* queue rows inserted for the cron
  ran     \* claim times whose callback was invoked (or predates the model)

promiseVars == <<fired, rows, ran>>

PromiseInit ==
  /\ fired \in [Crons -> SUBSET Int]
  /\ rows = [c \in Crons |-> 0]
  /\ ran = fired

\* One claim: its time is separated from every earlier one.
Claim(c) ==
  /\ \E at \in Times :
       /\ \A f \in fired[c] : Separated(c, f, at)
       /\ fired' = [fired EXCEPT ![c] = @ \cup {at}]
  /\ rows' = IF c \in Callbacks THEN rows ELSE [rows EXCEPT ![c] = @ + 1]
  /\ UNCHANGED ran

\* The callback of one claim starts; a claim may also be left unused.
Invoke(c) ==
  /\ c \in Callbacks
  /\ \E at \in fired[c] \ ran[c] : ran' = [ran EXCEPT ![c] = @ \cup {at}]
  /\ UNCHANGED <<fired, rows>>

PromiseNext == \E c \in Crons : Claim(c) \/ Invoke(c)

PromiseSpec == PromiseInit /\ [][PromiseNext]_promiseVars
=============================================================================
