---------------------------- MODULE GatewayErrors ----------------------------
(* The error taxonomy of cja-llm (error.rs): which variant a failure becomes *)
(* and which fragments of it a reporter that walks the cause chain prints.   *)

Statuses == {400, 401, 402, 403, 429, 503}

\* The `type` field of Bifrost's envelope, the `error` field of the wrapper's.
BodyTypes == {"none", "access_not_found", "access_blocked"}
BodyErrors == {"none", "identity", "admin only"}

\* The reply a caller may get to see, and failures without one: of the HTTP
\* transport, with or without one of its markers; of anything else, whose text
\* the model may have written, markers included.
Reply(s, t, e) == [kind |-> "reply", status |-> s, type |-> t, error |-> e]
Transport(marker) == [kind |-> "http", marker |-> marker]
Elsewhere(marker) == [kind |-> "other", marker |-> marker]

Markers == {"connect", "timeout", "none"}

PromptErrors ==
  {Reply(s, t, e) : s \in Statuses, t \in BodyTypes, e \in BodyErrors}
    \cup {Transport(m) : m \in Markers} \cup {Elsewhere(m) : m \in Markers}

\* Bifrost's stale-virtual-key replies (transport.rs), one of which is retried.
IsStaleVirtualKey(r) ==
  \/ r.status = 401 /\ r.type = "access_not_found"
  \/ r.status = 403 /\ r.type = "access_blocked"

FromReply(r) ==
  CASE r.status = 402 -> "BudgetExceeded"
    [] r.status \in {401, 403} /\ r.type # "none" -> "Upstream"
    [] r.status = 403 /\ r.type = "none" /\ r.error = "identity" -> "IdentityRejected"
    [] r.status = 403 /\ r.type = "none" /\ r.error = "admin only" -> "AdminOnly"
    [] OTHER -> "Upstream"

\* The status decides first; the markers only for a failure of the transport.
FromPromptError(err) ==
  CASE err.kind = "reply" -> FromReply(err)
    [] err.kind = "http" /\ err.marker = "connect" -> "Connect"
    [] err.kind = "http" /\ err.marker = "timeout" -> "Timeout"
    [] OTHER -> "Rig"

\* What rig's own Display of a failure contains.
DisplayOf(err) ==
  CASE err.kind = "reply" -> {"status", "body"}
    [] err.kind = "http" /\ err.marker # "none" -> {"marker"}
    [] OTHER -> {"content"}

\* SanitizedError: the summary of a classified failure is its Display without the
\* body; that of an unclassified one is a fixed text.
FromPrompt(err, redactions) == DisplayOf(err) \ redactions
OpaquePrompt == {"fixed"}

SourceSummary(err) ==
  IF FromPromptError(err) = "Rig" THEN OpaquePrompt
  ELSE IF err.kind = "reply" THEN FromPrompt(err, {"body"}) ELSE FromPrompt(err, {})

\* Display and Debug of every variant: the variant, lengths, and the summary; the
\* chain ends there, for a SanitizedError has no source.
ChainText(err) == {"variant", "length"} \cup SourceSummary(err)
=============================================================================
