------------------------------- MODULE MCCron -------------------------------
EXTENDS Cron

CONSTANTS s1, s2, j, k

\* A callback with a period of one tick (k), a job with a cron expression (j);
\* an app registers one of them.
OneTick == [c \in Intervals |-> 1]
SlotSet == [c \in Crons \ Intervals |-> {1, 2}]
OneEach == {{c} : c \in Crons}

\* The clocks agree; or the second process is one tick ahead.
InStep == [s \in Schedulers |-> 0]
Ahead == [s \in Schedulers |-> IF s = s2 THEN 1 ELSE 0]
=============================================================================
