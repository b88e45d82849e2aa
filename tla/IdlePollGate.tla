---------------------------- MODULE IdlePollGate ----------------------------
(***************************************************************************)
(* The admission of idle claims in crates/cja/src/jobs/worker.rs: workers  *)
(* that share an IdlePollGate (a tokio Semaphore of periodic claim permits *)
(* and a tokio Notify), as job_worker and admit_claim use it.              *)
(*                                                                         *)
(* A worker that finds no permit and no wake waits in the semaphore's and  *)
(* in the notifier's FIFO queue at once; it enters and leaves both         *)
(* together, so one line stands for the two.  The table of jobs is the     *)
(* number of rows a claim would find.                                      *)
(***************************************************************************)
EXTENDS Integers, Sequences, FiniteSets, SequencesExt

CONSTANTS
  Workers,    \* the workers that share the gate
  Claimers,   \* periodic_claimers
  Silent,     \* rows also become claimable without a wake
  MayStop,    \* workers may be shut down
  MaxRows,    \* bound: rows ever enqueued
  MaxErrors   \* bound: claims and finalizations that fail

ASSUME GateAssumption ==
  /\ IsFiniteSet(Workers)
  /\ Claimers \in Nat \ {0}
  /\ Silent \in BOOLEAN /\ MayStop \in BOOLEAN
  /\ MaxRows \in Nat /\ MaxErrors \in Nat

VARIABLES
  place,     \* where each worker's loop stands
  afterJob,  \* after_job of each worker
  line,      \* parked workers, in order of arrival
  free,      \* permits of the semaphore nobody holds
  holder,    \* workers whose permit is Some
  granted,   \* parked workers the semaphore has assigned a permit
  pinged,    \* parked workers the notifier has woken
  stored,    \* the notifier's stored wake
  stopping,  \* workers whose shutdown token is cancelled
  due,       \* rows a claim would find
  enqueued,  \* rows enqueued so far
  errors,    \* failures so far
  quiet      \* history: some row became claimable without a wake

gateVars == <<place, afterJob, line, free, holder, granted, pinged, stored, stopping,
          due, enqueued, errors, quiet>>

GateInitAt(p) ==
  /\ place = [w \in Workers |-> p]
  /\ afterJob = [w \in Workers |-> FALSE]
  /\ line = <<>>
  /\ free = Claimers
  /\ holder = {} /\ granted = {} /\ pinged = {}
  /\ stored = FALSE
  /\ stopping = {}
  /\ due = 0 /\ enqueued = 0 /\ errors = 0
  /\ quiet = FALSE

GateInit == GateInitAt("top")

Go(w, p) == place' = [place EXCEPT ![w] = p]

(* The semaphore and the notifier *)

\* The first worker of l outside S, if any.
FirstOutside(l, S) ==
  {l[i] : i \in {i \in DOMAIN l : l[i] \notin S /\ \A k \in 1..(i - 1) : l[k] \in S}}

\* n permits come back, n \in 0..1: to the first parked worker without one, or to the pool.
GivePermits(n, l, held, g) ==
  LET to == IF n = 0 THEN {} ELSE FirstOutside(l, g) IN
  /\ holder' = held
  /\ granted' = g \cup to
  /\ free' = IF n = 1 /\ to = {} THEN free + 1 ELSE free

\* notify_one, if b: wakes the first parked worker not yet woken, or is stored.
Notify(b, l, p) ==
  LET to == IF b THEN FirstOutside(l, p) ELSE {} IN
  /\ pinged' = p \cup to
  /\ stored' = IF b /\ to = {} THEN TRUE ELSE stored

One(b) == IF b THEN 1 ELSE 0

DropPermit_Leaked(w) == holder' = holder \ {w} /\ UNCHANGED <<granted, free>>

DropPermit_Twice(w) == GivePermits(1, line, holder \ {w}, granted)

\* drop(permit.take())
DropPermit(w) == GivePermits(One(w \in holder), line, holder \ {w}, granted)
-----------------------------------------------------------------------------
(* Admission: admit_claim *)

\* After a job, or with a permit in hand, the next claim needs no admission.
AdmitDirectly(w) ==
  /\ place[w] = "top"
  /\ afterJob[w] \/ w \in holder
  /\ Go(w, "fetching")
  /\ UNCHANGED <<afterJob, line, free, holder, granted, pinged, stored, stopping, due, enqueued, errors, quiet>>

\* The first poll of the biased select!: shutdown, then acquire, then notified.
AdmitPoll(w) ==
  /\ place[w] = "top" /\ ~afterJob[w] /\ w \notin holder
  /\ \/ /\ w \in stopping
        /\ Go(w, "exited")
        /\ UNCHANGED <<line, free, holder, stored>>
     \/ /\ w \notin stopping /\ free > 0
        /\ free' = free - 1 /\ holder' = holder \cup {w}
        /\ Go(w, "fetching")
        /\ UNCHANGED <<line, stored>>
     \/ /\ w \notin stopping /\ free = 0 /\ stored
        /\ stored' = FALSE
        /\ Go(w, "fetching")
        /\ UNCHANGED <<line, free, holder>>
     \/ /\ w \notin stopping /\ free = 0 /\ ~stored
        /\ line' = Append(line, w)
        /\ Go(w, "parked")
        /\ UNCHANGED <<free, holder, stored>>
  /\ UNCHANGED <<afterJob, granted, pinged, stopping, due, enqueued, errors, quiet>>

\* A parked worker is polled again.  The futures it did not take are dropped:
\* an assigned permit or a wake goes to the next in line.
Unpark(w) ==
  \E i \in DOMAIN line : LET rest == RemoveAt(line, i) IN
  /\ place[w] = "parked" /\ line[i] = w
  /\ line' = rest
  /\ \/ /\ w \in stopping
        /\ GivePermits(One(w \in granted), rest, holder, granted \ {w})
        /\ Notify(w \in pinged, rest, pinged \ {w})
        /\ Go(w, "exited")
     \/ /\ w \notin stopping /\ w \in granted
        /\ GivePermits(0, rest, holder \cup {w}, granted \ {w})
        /\ Notify(w \in pinged, rest, pinged \ {w})
        /\ Go(w, "fetching")
     \/ /\ w \notin stopping /\ w \notin granted /\ w \in pinged
        /\ pinged' = pinged \ {w}
        /\ Go(w, "fetching")
        /\ UNCHANGED <<free, holder, granted, stored>>
  /\ UNCHANGED <<afterJob, stopping, due, enqueued, errors, quiet>>

(* The rest of job_worker's loop *)

FetchJob_NoChain(w) ==
  /\ place[w] = "fetching" /\ due > 0
  /\ due' = due - 1
  /\ DropPermit(w)
  /\ afterJob' = [afterJob EXCEPT ![w] = FALSE]
  /\ Go(w, "running")
  /\ UNCHANGED <<line, pinged, stored, stopping, enqueued, errors, quiet>>

\* The claim found a row: the permit goes back before the body runs.
FetchJob(w) ==
  /\ place[w] = "fetching" /\ due > 0
  /\ due' = due - 1
  /\ DropPermit(w)
  /\ afterJob' = [afterJob EXCEPT ![w] = TRUE]
  /\ Go(w, "running")
  /\ UNCHANGED <<line, pinged, stored, stopping, enqueued, errors, quiet>>

\* Nothing to claim: only a permit holder sleeps, the others go and park.
FetchNone(w) ==
  /\ place[w] = "fetching" /\ due = 0
  /\ afterJob' = [afterJob EXCEPT ![w] = FALSE]
  /\ Go(w, IF w \in holder THEN "sleeping" ELSE "top")
  /\ UNCHANGED <<line, free, holder, granted, pinged, stored, stopping, due, enqueued, errors, quiet>>

\* The claim, or the finalization of a job, failed: the tick error arm.
TickError(w) ==
  /\ place[w] \in {"fetching", "running"}
  /\ errors < MaxErrors /\ errors' = errors + 1
  /\ DropPermit(w)
  /\ afterJob' = [afterJob EXCEPT ![w] = FALSE]
  /\ Go(w, "backoff")
  /\ UNCHANGED <<line, pinged, stored, stopping, due, enqueued, quiet>>

\* The body ended, or sleep or the backoff is over.
Resume(w) ==
  /\ place[w] \in {"running", "sleeping", "backoff"}
  /\ Go(w, "top")
  /\ UNCHANGED <<afterJob, line, free, holder, granted, pinged, stored, stopping, due, enqueued, errors, quiet>>

Shutdown(w) ==
  /\ MayStop /\ w \notin stopping /\ place[w] # "exited"
  /\ stopping' = stopping \cup {w}
  /\ UNCHANGED <<place, afterJob, line, free, holder, granted, pinged, stored, due, enqueued, errors, quiet>>

\* Shutdown ends a fetch, a sleep, a backoff or an overlong drain.
Break(w) ==
  /\ w \in stopping
  /\ place[w] \in {"fetching", "sleeping", "backoff", "running"}
  /\ DropPermit(w)
  /\ Go(w, "exited")
  /\ UNCHANGED <<afterJob, line, pinged, stored, stopping, due, enqueued, errors, quiet>>

\* A row becomes claimable: by an autocommit enqueue whose job_enqueued hook calls
\* wake_one, or silently (transaction, other process, retry, expired lease).
Enqueue ==
  /\ enqueued < MaxRows
  /\ enqueued' = enqueued + 1 /\ due' = due + 1
  /\ \E b \in {TRUE, ~Silent} : Notify(b, line, pinged) /\ quiet' = (quiet \/ ~b)
  /\ UNCHANGED <<place, afterJob, line, free, holder, granted, stopping, errors>>

Step(w) ==
  \/ AdmitDirectly(w) \/ AdmitPoll(w) \/ Unpark(w) \/ FetchJob(w) \/ FetchNone(w)
  \/ Resume(w)

GateNext ==
  \/ \E w \in Workers : Step(w) \/ TickError(w) \/ Shutdown(w) \/ Break(w)
  \/ Enqueue

GateSpec == GateInit /\ [][GateNext]_gateVars

\* Every worker keeps being polled and every body, sleep and claim ends.
GateFairness == \A w \in Workers : WF_gateVars(Step(w))
-----------------------------------------------------------------------------
\* Every variable has its type: the pool never holds more permits than were made.
GateTypeOK ==
  /\ place \in [Workers -> {"top", "parked", "fetching", "running", "sleeping", "backoff", "exited"}]
  /\ afterJob \in [Workers -> BOOLEAN]
  /\ line \in Seq(Workers)
  /\ free \in 0..Claimers
  /\ holder \subseteq Workers /\ granted \subseteq Workers /\ pinged \subseteq Workers
  /\ stored \in BOOLEAN /\ quiet \in BOOLEAN
  /\ stopping \subseteq Workers
  /\ due \in 0..MaxRows /\ enqueued \in 0..MaxRows /\ errors \in 0..MaxErrors

\* No permit is lost or made up on any of the paths that take, hand over or drop
\* one, and none is held while a body runs or after the worker has gone.
PermitsConserved ==
  /\ free + Cardinality(holder) + Cardinality(granted) = Claimers
  /\ \A w \in holder : place[w] \in {"top", "fetching", "sleeping"}

SomeWorker == \E w \in Workers : w \notin stopping

\* A claimable row is claimed as long as a worker stays up, whether or not its
\* enqueue woke anybody: some worker always keeps polling.
DueJobsFound == (due > 0) ~> (due = 0 \/ ~SomeWorker)

\* w is about to claim, works on a job after which it claims again, or was woken.
Awake(w) == place[w] \in {"top", "fetching", "running"} \/ w \in granted \cup pinged

\* As long as every enqueue wakes, no claim fails and there are more workers than
\* permits, claimable rows never wait for a poll interval alone: a wake that finds
\* nobody parked is stored, coalesced wakes are made up for by the claim that
\* follows each job, and a wake handed to a worker that got a permit is passed on.
WakesNotLost ==
  ~quiet /\ errors = 0 /\ stopping = {} /\ Cardinality(Workers) > Claimers /\ due > 0
    => \E w \in Workers : Awake(w)
=============================================================================
