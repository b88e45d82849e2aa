------------------------------- MODULE Tailnet -------------------------------
(* cja-tailnet: a process joins the tailnet as an ephemeral node, shares it  *)
(* between clients that dial through it, and leaves it. The node sits behind *)
(* an RwLock: a dial reads, shutdown writes. tokio's lock is fair, in the    *)
(* order of arrival; tailscale-rs and the identity services are external.    *)
EXTENDS Naturals, Sequences, SequencesExt

CONSTANT Dialers    \* who dials through the node, one dial each at a time

VARIABLES
  node,      \* the device: none, joining, up, leaving, gone or failed
  joinStep,  \* how far join_inner is
  lockQueue, \* who waits for the RwLock
  readers,   \* dials that hold it
  dial       \* each dial

tailnetVars == <<node, joinStep, lockQueue, readers, dial>>

JoinSteps == <<"id token", "exchange", "key", "device", "address">>
ShutdownCall == "shutdown"
Dialing == {"resolving", "connecting"}

TailnetInit(first) ==
  /\ node = first /\ joinStep = 1
  /\ lockQueue = <<>> /\ readers = {}
  /\ dial = [d \in Dialers |-> "idle"]

TailnetEnv == {"TS_WIF_PROVIDER", "TS_WIF_CLIENT_ID", "TS_TAG", "TS_HOSTNAME", "K_SERVICE"}

\* TailnetConfig::from_lookup, over which variables are set: Cloud Run's K_SERVICE
\* stands in for provider and hostname, the audience has a default.
TailnetConfigured(set, provider) ==
  /\ "TS_WIF_PROVIDER" \in set \/ "K_SERVICE" \in set
  /\ "TS_WIF_PROVIDER" \in set => provider = "gcp"
  /\ {"TS_WIF_CLIENT_ID", "TS_TAG"} \subseteq set
  /\ "TS_HOSTNAME" \in set \/ "K_SERVICE" \in set

\* mint_auth_key's three requests and join_with_key's two calls, one after the
\* other.
JoinOn ==
  /\ node = "joining"
  /\ IF joinStep < Len(JoinSteps) THEN joinStep' = joinStep + 1 /\ UNCHANGED node
     ELSE node' = "up" /\ UNCHANGED joinStep
  /\ UNCHANGED <<lockQueue, readers, dial>>

\* checked_text refuses a status, a request or the device fails, or join's timeout
\* drops the whole attempt.
JoinFails ==
  /\ node = "joining" /\ node' = "failed"
  /\ UNCHANGED <<joinStep, lockQueue, readers, dial>>

QueueDial(d) ==
  /\ dial[d] = "idle" /\ d \notin readers /\ ~Contains(lockQueue, d)
  /\ dial' = [dial EXCEPT ![d] = "queued"]
  /\ lockQueue' = Append(lockQueue, d)
  /\ UNCHANGED <<node, joinStep, readers>>

\* Tailnet::connect gets the read guard: a node that was shut down is NotConnected.
Dial(d) ==
  /\ lockQueue # <<>> /\ Head(lockQueue) = d /\ node # "leaving"
  /\ lockQueue' = Tail(lockQueue)
  /\ IF node = "up"
     THEN readers' = readers \cup {d} /\ dial' = [dial EXCEPT ![d] = "resolving"]
     ELSE dial' = [dial EXCEPT ![d] = "refused"] /\ UNCHANGED readers
  /\ UNCHANGED <<node, joinStep>>

\* peer_by_name with the full name and then its first label finds a peer, tcp_connect
\* reaches it: the guard is held until then.
Resolved(d) ==
  /\ dial[d] = "resolving"
  /\ dial' = [dial EXCEPT ![d] = "connecting"]
  /\ UNCHANGED <<node, joinStep, lockQueue, readers>>

DialEnds(d, how) ==
  /\ readers' = readers \ {d}
  /\ lockQueue' = RemoveFirst(lockQueue, d)
  /\ dial' = [dial EXCEPT ![d] = how]
  /\ UNCHANGED <<node, joinStep>>

DialOpens(d) == dial[d] = "connecting" /\ DialEnds(d, "open")
DialFails(d) == dial[d] \in Dialing /\ DialEnds(d, "failed")

\* The caller drops the dial's future, in the queue or on the way.
DropDial(d) == dial[d] # "idle" /\ DialEnds(d, "idle")

\* Tailnet::shutdown waits for the write guard and keeps it until the device is
\* down, at most SHUTDOWN_TIMEOUT later.
AskShutdown ==
  /\ ~Contains(lockQueue, ShutdownCall)
  /\ lockQueue' = Append(lockQueue, ShutdownCall)
  /\ UNCHANGED <<node, joinStep, readers, dial>>

TakeDevice ==
  /\ lockQueue # <<>> /\ Head(lockQueue) = ShutdownCall /\ readers = {}
  /\ lockQueue' = Tail(lockQueue)
  /\ node' = "leaving"
  /\ UNCHANGED <<joinStep, readers, dial>>

Left ==
  /\ node = "leaving" /\ node' = "gone"
  /\ UNCHANGED <<joinStep, lockQueue, readers, dial>>

DialStep(d) == Dial(d) \/ Resolved(d) \/ DialOpens(d)

TailnetTypeOK ==
  /\ node \in {"none", "joining", "up", "leaving", "gone", "failed"}
  /\ joinStep \in 1..Len(JoinSteps)
  /\ lockQueue \in Seq(Dialers \cup {ShutdownCall}) /\ readers \subseteq Dialers
  /\ dial \in [Dialers -> {"idle", "queued", "open", "refused", "failed"} \cup Dialing]
=============================================================================
