----------------------------- MODULE CallPromise -----------------------------
(* What one call of the gateway promises about money: the gateway runs and   *)
(* bills every request it accepts, so a request is sent again only when the  *)
(* gateway refused the one before by a status and the refusal's body was     *)
(* over before the deadline, and the result says whether a request is        *)
(* unaccounted for.                                                          *)
VARIABLES
  request,   \* none that matters, open (sent, nothing heard of it) or refused (the
             \* head of a refusal has come, its body is not over)
  verdict    \* what the caller is told: pending, settled or unknown

PromiseVars == <<request, verdict>>

Init == request = "none" /\ verdict = "pending"

Send == verdict = "pending" /\ request = "none" /\ request' = "open" /\ UNCHANGED verdict

Refuse == request = "open" /\ request' = "refused" /\ UNCHANGED verdict

\* A success counts when its body is complete, and ends the call.
Answer == request = "open" /\ request' = "none" /\ verdict' = "settled"

\* A refusal counts whether its body came whole or not, unless the deadline ends it.
Close == request = "refused" /\ request' = "none" /\ verdict' \in {verdict, "settled"}

\* "settled" says that nothing is unaccounted for; "unknown" says nothing.
Conclude ==
  /\ verdict = "pending"
  /\ verdict' \in IF request = "none" THEN {"settled", "unknown"} ELSE {"unknown"}
  /\ UNCHANGED request

PromiseNext == Send \/ Refuse \/ Answer \/ Close \/ Conclude

PromiseSpec == Init /\ [][PromiseNext]_PromiseVars
=============================================================================
