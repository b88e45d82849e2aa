---------------------------- MODULE TestDatabases ----------------------------
(* cja::testing::test_db: test processes create databases of their own on one *)
(* server, drop them when they are done, and reap what earlier processes left *)
(* behind. Postgres and sqlx's pool are external: the server refuses to drop  *)
(* a database somebody is connected to, and ends a dead process's sessions.   *)
EXTENDS Naturals, FiniteSets

CONSTANTS
  Processes,    \* a partition of the tests: those of one process share REAPED_PREFIXES
  Fast,         \* tests whose process has a clock that is ahead
  Ahead,        \* by so much
  MaxAge,       \* CJA_TEST_DB_MAX_AGE_SECS
  MaxClock      \* bound on time

ASSUME TestDatabaseAssumption ==
  /\ {Ahead, MaxAge, MaxClock} \subseteq Nat
  /\ Fast \subseteq UNION Processes
  /\ \A p, q \in Processes : p # q => p \cap q = {}

Tests == UNION Processes
Host(t) == CHOOSE p \in Processes : t \in p

VARIABLES
  test,        \* where each test's create_test_database or cleanup is
  database,    \* each test's database: none, there or gone, and the epoch in its name
  attached,    \* tests whose database has a connection
  reaped,      \* processes whose REAPED_PREFIXES has the prefix
  reaper,      \* each reap: its `now`, the names left and the present one
  advisory,    \* which test's admin session holds the lock of each name
  cleared,     \* history: databases dropped by their own test
  wallClock

testDbVars == <<test, database, attached, reaped, reaper, advisory, cleared, wallClock>>

NoTest == "no test"
NoReap == [now |-> 0, names |-> {}, name |-> NoTest]
Reaping == {"list", "next", "lock", "recheck", "drop"}

TestDbInit ==
  /\ test = [t \in Tests |-> "off"]
  /\ database = [t \in Tests |-> [state |-> "none", epoch |-> 0]]
  /\ attached = {} /\ reaped = {}
  /\ reaper = [t \in Tests |-> NoReap]
  /\ advisory = [t \in Tests |-> NoTest]
  /\ cleared = {} /\ wallClock = 0

To(t, step) == test' = [test EXCEPT ![t] = step]
SystemNow(t) == wallClock + IF t \in Fast THEN Ahead ELSE 0
Exists(d) == database[d].state = "there"
-----------------------------------------------------------------------------
(* The reaper *)

IsStale_Wrapped(d, now) == database[d].epoch > now \/ database[d].epoch + MaxAge <= now

\* is_stale_database_name: a name from the future is not.
IsStale(d, now) == database[d].epoch + MaxAge <= now

\* reap_prefix_once: one reap per process and prefix, the others wait for it.
ReapPrefixOnce(t) ==
  /\ test[t] = "off"
  /\ \A u \in Host(t) : test[u] \notin Reaping
  /\ IF Host(t) \in reaped THEN To(t, "create") /\ UNCHANGED reaper
     ELSE To(t, "list") /\ reaper' = [reaper EXCEPT ![t].now = SystemNow(t)]
  /\ UNCHANGED <<database, attached, reaped, advisory, cleared, wallClock>>

ListNames(t) ==
  /\ test[t] = "list"
  /\ reaper' = [reaper EXCEPT ![t].names = {d \in Tests : Exists(d)}]
  /\ To(t, "next")
  /\ UNCHANGED <<database, attached, reaped, advisory, cleared, wallClock>>

\* The next name: skipped unless it is stale and nobody is connected.
Candidate(t) ==
  /\ test[t] = "next"
  /\ \E d \in reaper[t].names :
       /\ IF IsStale(d, reaper[t].now) /\ d \notin attached THEN To(t, "lock") ELSE UNCHANGED test
       /\ reaper' = [reaper EXCEPT ![t].names = @ \ {d}, ![t].name = d]
  /\ UNCHANGED <<database, attached, reaped, advisory, cleared, wallClock>>

TryLock(t) ==
  /\ test[t] = "lock"
  /\ LET d == reaper[t].name
     IN IF advisory[d] \in {NoTest, t}
        THEN advisory' = [advisory EXCEPT ![d] = t] /\ To(t, "recheck")
        ELSE To(t, "next") /\ UNCHANGED advisory
  /\ UNCHANGED <<database, attached, reaped, reaper, cleared, wallClock>>

\* pg_advisory_unlock, whose failure is ignored.
Unlock(t) == \E owner \in {NoTest, t} : advisory' = [advisory EXCEPT ![reaper[t].name] = owner]

Recheck(t) ==
  /\ test[t] = "recheck"
  /\ IF reaper[t].name \in attached THEN To(t, "next") /\ Unlock(t)
     ELSE To(t, "drop") /\ UNCHANGED advisory
  /\ UNCHANGED <<database, attached, reaped, reaper, cleared, wallClock>>

Dropped(d) == database' = [database EXCEPT ![d].state = "gone"]

\* DROP DATABASE IF EXISTS: one that is in use stays, and the reap goes on.
DropStale(t) ==
  /\ test[t] = "drop"
  /\ IF Exists(reaper[t].name) /\ reaper[t].name \notin attached
     THEN Dropped(reaper[t].name) ELSE UNCHANGED database
  /\ To(t, "next") /\ Unlock(t)
  /\ UNCHANGED <<attached, reaped, reaper, cleared, wallClock>>

\* The names are done, or an exchange failed, which is only logged: the prefix counts
\* as reaped either way.
ContinueAfterReap(t) ==
  /\ test[t] \in Reaping
  /\ reaped' = reaped \cup {Host(t)}
  /\ reaper' = [reaper EXCEPT ![t] = NoReap]
  /\ To(t, "create")
  /\ UNCHANGED <<database, attached, advisory, cleared, wallClock>>
-----------------------------------------------------------------------------
(* A test's own database *)

\* A session that ends releases its advisory locks.
CloseAdmin(ts) == advisory' = [d \in Tests |-> IF advisory[d] \in ts THEN NoTest ELSE advisory[d]]

\* CREATE DATABASE under a name with the present second, then the admin pool closes.
CreateDatabase(t) ==
  /\ test[t] = "create"
  /\ database' = [database EXCEPT ![t] = [state |-> "there", epoch |-> SystemNow(t)]]
  /\ CloseAdmin({t})
  /\ To(t, "connect")
  /\ UNCHANGED <<attached, reaped, reaper, cleared, wallClock>>

\* It fails, or only its answer is lost: nobody will drop that database but a reaper.
CreateFails(t) ==
  /\ test[t] = "create"
  /\ database' \in {database, [database EXCEPT ![t] = [state |-> "there", epoch |-> SystemNow(t)]]}
  /\ CloseAdmin({t})
  /\ To(t, "over")
  /\ UNCHANGED <<attached, reaped, reaper, cleared, wallClock>>

\* The pool's first connection, kept without an idle timeout. Without it the database
\* is dropped again.
ConnectPool(t) ==
  /\ test[t] = "connect"
  /\ \/ Exists(t) /\ To(t, "running") /\ attached' = attached \cup {t}
     \/ To(t, "terminate") /\ UNCHANGED attached
  /\ UNCHANGED <<database, reaped, reaper, advisory, cleared, wallClock>>

\* The pool replaces a connection that has reached its maximum lifetime.
Recycle(t) ==
  /\ test[t] \in {"running", "clean"} /\ Exists(t)
  /\ attached' = IF t \in attached THEN attached \ {t} ELSE attached \cup {t}
  /\ UNCHANGED <<test, database, reaped, reaper, advisory, cleared, wallClock>>

\* TestDatabaseGuard::drop and cleanup_database: end the connections, then drop. A
\* pool that is still around may connect again in between.
DropGuard(t) ==
  /\ test[t] = "running" /\ To(t, "terminate")
  /\ UNCHANGED <<database, attached, reaped, reaper, advisory, cleared, wallClock>>

Terminate(t) ==
  /\ test[t] = "terminate"
  /\ attached' = attached \ {t}
  /\ To(t, "clean")
  /\ UNCHANGED <<database, reaped, reaper, advisory, cleared, wallClock>>

CleanUp(t) ==
  /\ test[t] = "clean"
  /\ IF Exists(t) /\ t \notin attached THEN Dropped(t) /\ cleared' = cleared \cup {t}
     ELSE UNCHANGED <<database, cleared>>
  /\ To(t, "over")
  /\ UNCHANGED <<attached, reaped, reaper, advisory, wallClock>>

\* No connection for the cleanup, or an exchange of it fails: only logged.
CleanupFails(t) ==
  /\ test[t] \in {"terminate", "clean"} /\ To(t, "over")
  /\ UNCHANGED <<database, attached, reaped, reaper, advisory, cleared, wallClock>>

\* The process ends, at its end or killed.
ProcessEnds(p) ==
  /\ \E t \in p : test[t] # "ended"
  /\ test' = [t \in Tests |-> IF t \in p THEN "ended" ELSE test[t]]
  /\ attached' = attached \ p
  /\ reaper' = [t \in Tests |-> IF t \in p THEN NoReap ELSE reaper[t]]
  /\ CloseAdmin(p)
  /\ UNCHANGED <<database, reaped, cleared, wallClock>>

SecondPasses ==
  /\ wallClock < MaxClock /\ wallClock' = wallClock + 1
  /\ UNCHANGED <<test, database, attached, reaped, reaper, advisory, cleared>>

TestDbNext ==
  \/ \E t \in Tests :
       \/ ReapPrefixOnce(t) \/ ListNames(t) \/ Candidate(t) \/ TryLock(t) \/ Recheck(t)
       \/ DropStale(t) \/ ContinueAfterReap(t)
       \/ CreateDatabase(t) \/ CreateFails(t) \/ ConnectPool(t) \/ Recycle(t)
       \/ DropGuard(t) \/ Terminate(t) \/ CleanUp(t) \/ CleanupFails(t)
  \/ \E p \in Processes : ProcessEnds(p)
  \/ SecondPasses

TestDbSpec == TestDbInit /\ [][TestDbNext]_testDbVars
-----------------------------------------------------------------------------
(* Properties *)

TestDbTypeOK ==
  /\ test \in [Tests -> Reaping \cup {"off", "create", "connect", "running", "terminate", "clean",
                                      "over", "ended"}]
  /\ database \in [Tests -> [state : {"none", "there", "gone"}, epoch : 0..(MaxClock + Ahead)]]
  /\ reaper \in [Tests -> [now : 0..(MaxClock + Ahead), names : SUBSET Tests, name : Tests \cup {NoTest}]]
  /\ attached \subseteq Tests /\ reaped \subseteq Processes /\ cleared \subseteq Tests
  /\ advisory \in [Tests -> Tests \cup {NoTest}]
  /\ wallClock \in 0..MaxClock

\* Nobody takes a database from a test that is at it: a connection keeps it whatever
\* reapers with older snapshots and other clocks do, and between CREATE and the first
\* connection, or while the pool replaces one, only a reaper for which it is MaxAge
\* old can drop it. No advisory lock outlives the reap's admin session.
InUseIsKept ==
  /\ \A t \in attached : Exists(t)
  /\ \A t \in Tests : database[t].state = "gone" /\ t \notin cleared =>
       wallClock + Ahead >= database[t].epoch + MaxAge
  /\ \A d \in Tests : advisory[d] # NoTest => test[advisory[d]] \in Reaping \cup {"create"}
=============================================================================
