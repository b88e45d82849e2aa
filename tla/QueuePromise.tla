---------------------------- MODULE QueuePromise ----------------------------
(***************************************************************************)
(* What the job queue promises about each job it accepts, whatever happens *)
(* to the workers: the job has at most one holder, changes hands only for  *)
(* a charged failure or because its holder let go of it, is settled once,  *)
(* by a holder that has not given it up, and dies only when more than      *)
(* max_retries failures were charged.                                      *)
(***************************************************************************)
EXTENDS Naturals

CONSTANTS Jobs, Workers, NoOne, MaxRetries

VARIABLES
  state,     \* new, queued, done or dead
  holder,    \* the worker the job was given to
  givenUp,   \* jobs whose holder gave up without a word
  failures   \* charged failures

promiseVars == <<state, holder, givenUp, failures>>

PromiseInit ==
  /\ state = [j \in Jobs |-> "new"]
  /\ holder = [j \in Jobs |-> NoOne]
  /\ givenUp = {}
  /\ failures = [j \in Jobs |-> 0]

Held(j) == state[j] = "queued" /\ holder[j] # NoOne

\* Somebody has the job and has not given it up.
InHand(j) == Held(j) /\ j \notin givenUp

Accept(j) ==
  /\ state[j] = "new"
  /\ state' = [state EXCEPT ![j] = "queued"]
  /\ UNCHANGED <<holder, givenUp, failures>>

Give(j, w) ==
  /\ state[j] = "queued" /\ holder[j] = NoOne
  /\ holder' = [holder EXCEPT ![j] = w]
  /\ UNCHANGED <<state, givenUp, failures>>

\* From a holder, a worker gets the job only as a failure of that holder.
TakeOver(j, w) ==
  /\ Held(j)
  /\ holder' = [holder EXCEPT ![j] = w]
  /\ failures' = [failures EXCEPT ![j] = @ + 1]
  /\ givenUp' = givenUp \ {j}
  /\ UNCHANGED state

\* Given up, a job waits for somebody to take it over.
GiveUp(j) ==
  /\ InHand(j)
  /\ givenUp' = givenUp \cup {j}
  /\ UNCHANGED <<state, holder, failures>>

\* A worker that stops hands back what it has, for nothing.
HandBack(w) ==
  /\ \E back \in SUBSET {j \in Jobs : InHand(j) /\ holder[j] = w} :
       holder' = [j \in Jobs |-> IF j \in back THEN NoOne ELSE holder[j]]
  /\ UNCHANGED <<state, givenUp, failures>>

\* A failure that leaves retries.
Retry(j) ==
  /\ InHand(j) /\ failures[j] < MaxRetries
  /\ holder' = [holder EXCEPT ![j] = NoOne]
  /\ failures' = [failures EXCEPT ![j] = @ + 1]
  /\ UNCHANGED <<state, givenUp>>

Settle(j, end) ==
  /\ InHand(j)
  /\ state' = [state EXCEPT ![j] = end]
  /\ holder' = [holder EXCEPT ![j] = NoOne]
  /\ UNCHANGED givenUp

Succeed(j) == Settle(j, "done") /\ UNCHANGED failures

\* The last failure may have been charged when the job was taken over.
Die(j) ==
  /\ Settle(j, "dead")
  /\ \E n \in {failures[j], failures[j] + 1} :
       n > MaxRetries /\ failures' = [failures EXCEPT ![j] = n]

PromiseNext ==
  \/ \E j \in Jobs : Accept(j) \/ GiveUp(j) \/ Retry(j) \/ Succeed(j) \/ Die(j)
  \/ \E w \in Workers : HandBack(w) \/ \E j \in Jobs : Give(j, w) \/ TakeOver(j, w)

PromiseSpec == PromiseInit /\ [][PromiseNext]_promiseVars
=============================================================================
