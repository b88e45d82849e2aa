------------------------------ MODULE BootLock ------------------------------
(* setup_db_pool of cja.app/src/main.rs: instances of the site boot against  *)
(* one database and migrate it under a session-level advisory lock, through  *)
(* a pool that may give each query another connection. Postgres, sqlx and    *)
(* its migrator are external.                                                *)
EXTENDS Naturals, FiniteSets

CONSTANTS
  Instances,
  MaxConnections,   \* of the pool
  MaxRestarts       \* bound on restarts

ASSUME BootAssumption == MaxConnections \in Nat \ {0} /\ MaxRestarts \in Nat

VARIABLES
  boot,      \* where each instance's setup_db_pool is
  pool,      \* each instance's open connections
  busy,      \* the connection its query in progress uses, 0 for none
  lockHolder,    \* the session that holds MIGRATION_LOCK_ID
  depth,     \* how often that session took it
  restarts

bootVars == <<boot, pool, busy, lockHolder, depth, restarts>>

Conns == 1..MaxConnections
Nobody == [inst |-> "nobody", conn |-> 0]
Session(i, c) == [inst |-> i, conn |-> c]

BootInitAt(phase) ==
  /\ boot = [i \in Instances |-> phase]
  /\ pool = [i \in Instances |-> {}]
  /\ busy = [i \in Instances |-> 0]
  /\ lockHolder = Nobody /\ depth = 0 /\ restarts = 0

BootInit == BootInitAt("start")

Goto(i, phase) == boot' = [boot EXCEPT ![i] = phase]

\* A closed session gives up its locks.
CloseSessions(i, cs) ==
  /\ pool' = [pool EXCEPT ![i] = @ \ cs]
  /\ IF \E c \in cs : lockHolder = Session(i, c)
     THEN lockHolder' = Nobody /\ depth' = 0
     ELSE UNCHANGED <<lockHolder, depth>>

\* PgPoolOptions::connect opens a first connection.
ConnectPool(i) ==
  /\ boot[i] = "start"
  /\ pool' = [pool EXCEPT ![i] = {1}]
  /\ Goto(i, "lock")
  /\ UNCHANGED <<busy, lockHolder, depth, restarts>>

\* Each query on the pool gets an idle connection, or a new one while the last
\* query's is still on its way back.
Acquire(i, c) ==
  /\ busy[i] = 0
  /\ c \in pool[i] \/ Cardinality(pool[i]) < MaxConnections
  /\ pool' = [pool EXCEPT ![i] = @ \cup {c}]

AskLock(i) ==
  /\ boot[i] = "lock"
  /\ \E c \in Conns : Acquire(i, c) /\ busy' = [busy EXCEPT ![i] = c]
  /\ UNCHANGED <<boot, lockHolder, depth, restarts>>

Granted_Try(i) ==
  /\ boot[i] = "lock" /\ busy[i] # 0
  /\ IF lockHolder \in {Nobody, Session(i, busy[i])}
     THEN lockHolder' = Session(i, busy[i]) /\ depth' = depth + 1
     ELSE UNCHANGED <<lockHolder, depth>>
  /\ busy' = [busy EXCEPT ![i] = 0]
  /\ Goto(i, "migrate")
  /\ UNCHANGED <<pool, restarts>>

\* pg_advisory_lock returns when no other session holds the lock.
Granted(i) ==
  /\ boot[i] = "lock" /\ busy[i] # 0
  /\ lockHolder \in {Nobody, Session(i, busy[i])}
  /\ lockHolder' = Session(i, busy[i]) /\ depth' = depth + 1
  /\ busy' = [busy EXCEPT ![i] = 0]
  /\ Goto(i, "migrate")
  /\ UNCHANGED <<pool, restarts>>

Migrated(i) ==
  /\ boot[i] = "migrate"
  /\ Goto(i, "unlock")
  /\ UNCHANGED <<pool, busy, lockHolder, depth, restarts>>

\* pg_advisory_unlock on some connection: only the session that holds the lock can
\* release it. The answer false is logged, and the boot goes on.
Unlock(i) ==
  /\ boot[i] = "unlock"
  /\ \E c \in Conns :
       /\ Acquire(i, c)
       /\ IF lockHolder = Session(i, c)
          THEN /\ depth' = depth - 1
               /\ lockHolder' = IF depth = 1 THEN Nobody ELSE lockHolder
          ELSE UNCHANGED <<lockHolder, depth>>
  /\ Goto(i, "up")
  /\ UNCHANGED <<busy, restarts>>

\* Any query may fail, and the process may end at any time: the error leaves main,
\* and every connection closes.
Dies(i) ==
  /\ boot[i] \notin {"start", "ended"}
  /\ CloseSessions(i, Conns)
  /\ busy' = [busy EXCEPT ![i] = 0]
  /\ Goto(i, "ended")
  /\ UNCHANGED restarts

Restart(i) ==
  /\ boot[i] = "ended" /\ restarts < MaxRestarts
  /\ restarts' = restarts + 1
  /\ Goto(i, "start")
  /\ UNCHANGED <<pool, busy, lockHolder, depth>>

Reap_NotTheLast(i, c) ==
  /\ boot[i] = "up" /\ c \in pool[i] /\ Cardinality(pool[i]) > 1
  /\ CloseSessions(i, {c})
  /\ UNCHANGED <<boot, busy, restarts>>

\* The pool closes a connection that was idle for ten minutes: longer than a boot's
\* queries take, so only once it is up.
Reap(i, c) ==
  /\ boot[i] = "up" /\ c \in pool[i]
  /\ CloseSessions(i, {c})
  /\ UNCHANGED <<boot, busy, restarts>>

BootStep(i) == ConnectPool(i) \/ AskLock(i) \/ Granted(i) \/ Migrated(i) \/ Unlock(i)

BootNext ==
  \E i \in Instances :
    BootStep(i) \/ Dies(i) \/ Restart(i) \/ \E c \in Conns : Reap(i, c)

BootSpec == BootInit /\ [][BootNext]_bootVars

\* Every boot runs on, Postgres serves the lock's waiters in turn, and the pool
\* reaps idle connections; nobody has to end or restart.
BootFairness ==
  \A i \in Instances : SF_bootVars(BootStep(i)) /\ \A c \in Conns : WF_bootVars(Reap(i, c))
-----------------------------------------------------------------------------
(* Properties *)

BootTypeOK ==
  /\ boot \in [Instances -> {"start", "lock", "migrate", "unlock", "up", "ended"}]
  /\ pool \in [Instances -> SUBSET Conns] /\ busy \in [Instances -> {0} \cup Conns]
  /\ lockHolder \in {Nobody} \cup {Session(i, c) : i \in Instances, c \in Conns}
  /\ depth \in Nat /\ restarts \in 0..MaxRestarts

\* Two instances never migrate at the same time, although lock and unlock may go
\* to different connections of the pool, and an instance that is dead, or has the
\* lock released, no longer keeps others out.
MigratesAlone ==
  /\ \A i, j \in Instances : boot[i] = "migrate" /\ boot[j] = "migrate" => i = j
  /\ lockHolder # Nobody => boot[lockHolder.inst] \in {"migrate", "unlock", "up"}
  /\ (lockHolder = Nobody) = (depth = 0)

\* A boot that waits for the lock gets it or ends, even when the instance before it
\* unlocked on the wrong connection and kept the lock after it was up.
BootsFinish == \A i \in Instances : (boot[i] = "lock") ~> (boot[i] \in {"up", "ended"})
=============================================================================
