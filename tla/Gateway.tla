------------------------------- MODULE Gateway -------------------------------
(* One call of cja-llm to the LLM gateway (transport.rs, config.rs, lib.rs): *)
(* the configuration, the staged attempt loop under one deadline, and the    *)
(* body that streams afterwards. hyper, rustls and rig are external.         *)
EXTENDS Naturals, FiniteSets, GatewayErrors

CONSTANTS
  MaxAttempts,      \* RetryPolicy::max_attempts
  InitialBackoff, MaxBackoff,
  ConnectTimeout, RequestTimeout,   \* in ticks
  RetryAfters,      \* the Retry-After values a gateway may send
  Overrun           \* how many ticks a timer may be late

ASSUME GatewayAssumption ==
  /\ {MaxAttempts, InitialBackoff, MaxBackoff, ConnectTimeout, RequestTimeout, Overrun} \subseteq Nat
  /\ RetryAfters \subseteq Nat

VARIABLES
  gphase,        \* where the call is
  gmode,         \* Mode: "unary" or "streaming"
  attempt,       \* the loop's counter
  elapsed,       \* ticks since the call began; the deadline is RequestTimeout
  timer,         \* when the connect phase times out, or the sleep ends
  staleKeyUsed,
  lastError,     \* the last failed attempt's error, if any
  gresult,       \* what the caller got: nothing yet, success or an error
  reply,         \* the non-success head being read
  wire,          \* headers of the last request that left, {} before
  queued,        \* attempts whose request the connection took
  closed,        \* those of them with a complete reply, or with a refusal whose body
                 \* is over
  refused,       \* those of them to which the head of a refusal came
  driver,        \* a connection driver task is alive
  gevents,       \* completion events per attempt
  scanner        \* UsageScanner, the stream's flags and (history) the way it went

callVars == <<gphase, gmode, attempt, elapsed, timer, staleKeyUsed, lastError, gresult, reply>>
wireVars == <<wire, queued, closed, refused, driver>>
gatewayVars == <<callVars, wireVars, gevents, scanner>>

Attempts == 1..(IF MaxAttempts = 0 THEN 1 ELSE MaxAttempts)
NoReply == [status |-> 0, after |-> 0]
NoError == [kind |-> "none"]
Success == [kind |-> "ok"]
Fresh == [cut |-> "none", usage |-> 0, done |-> FALSE, ended |-> FALSE, emitted |-> FALSE, told |-> 0,
          way |-> "open"]

GatewayInit ==
  /\ gphase = "unconfigured" /\ gmode \in {"unary", "streaming"}
  /\ attempt = 1 /\ elapsed = 0 /\ timer = 0
  /\ staleKeyUsed = FALSE /\ lastError = NoError /\ gresult = NoError /\ reply = NoReply
  /\ wire = {} /\ queued = {} /\ closed = {} /\ refused = {}
  /\ driver = FALSE
  /\ gevents = [a \in Attempts |-> 0]
  /\ scanner = Fresh
-----------------------------------------------------------------------------
(* Configuration *)

\* LlmConfig::from_lookup: CJA_LLM_URL, CJA_LLM_APP and K_SERVICE give an origin
\* and a name, or an error. The executable's name is the last resort.
FromLookup(url, app, service) ==
  IF url \in {"garbled", "ftp", "no host"} \/ app = "blank" THEN [scheme |-> "error", name |-> "none"]
  ELSE [scheme |-> IF url = "unset" THEN "https" ELSE url,
        name |-> CASE app # "unset" -> app
                   [] app = "unset" /\ service \notin {"unset", "blank"} -> service
                   [] OTHER -> "executable"]

\* app_header_value: a blank or unprintable name, which a setter may also give.
AppHeaderOk(name) == name \notin {"blank", "unprintable"}

\* The setter LlmConfig::app_name replaces what the environment gave.
AppName(config, setter) == IF setter = "unset" THEN config.name ELSE setter

\* GatewayHttp::new: any other scheme is refused.
Supported(scheme) == scheme \in {"http", "https"}

\* Llm::new checks the name, then the transport is made.
Configure ==
  /\ gphase = "unconfigured"
  /\ \E url \in {"unset", "garbled", "ftp", "no host", "http", "https"},
        app \in {"unset", "blank", "unprintable", "app"}, service \in {"unset", "blank", "app"},
        setter \in {"unset", "blank", "app"} :
       LET config == FromLookup(url, app, service)
       IN gphase' = IF AppHeaderOk(AppName(config, setter)) /\ Supported(config.scheme)
                    THEN "loop" ELSE "refused"
  /\ UNCHANGED <<gmode, attempt, elapsed, timer, staleKeyUsed, lastError, gresult, reply, wireVars,
                 gevents, scanner>>
-----------------------------------------------------------------------------
(* The attempt loop *)

InFlight == gphase \notin {"unconfigured", "refused", "returned", "cancelled"}

\* emit_completion_event: one more event for the attempt that ended.
Emit == gevents' = [gevents EXCEPT ![attempt] = @ + 1]

Return(r) == gphase' = "returned" /\ gresult' = r

\* The top of the loop: out of attempts or of time is the last error, or the
\* timeout when no attempt was made.
LoopTop ==
  /\ gphase = "loop"
  /\ IF attempt \notin Attempts \/ elapsed >= RequestTimeout
     THEN /\ Return(IF lastError = NoError THEN Transport("timeout") ELSE lastError)
          /\ UNCHANGED timer
     ELSE /\ gphase' = "connecting"
          /\ timer' = IF elapsed + ConnectTimeout < RequestTimeout THEN elapsed + ConnectTimeout
                      ELSE RequestTimeout
          /\ UNCHANGED gresult
  /\ UNCHANGED <<gmode, attempt, elapsed, staleKeyUsed, lastError, reply, wireVars, gevents, scanner>>

Pow2[n \in Nat] == IF n = 0 THEN 1 ELSE 2 * Pow2[n - 1]
Least(a, b) == IF a <= b THEN a ELSE b

\* retryable_delay: a Retry-After is taken as it is, up to the ceiling; otherwise
\* anything up to the exponential backoff.
Delays(after) ==
  IF after # 0 THEN {Least(after, MaxBackoff)}
  ELSE 0..Least(InitialBackoff * Pow2[attempt - 1], MaxBackoff)

\* AttemptResult::Retry: sleep and go round again, unless the deadline leaves no
\* room. The attempt's driver is dropped, and with it aborted.
Retry(error, after, stale) ==
  /\ lastError' = error
  /\ staleKeyUsed' = (staleKeyUsed \/ stale)
  /\ Emit
  /\ driver' = FALSE
  /\ reply' = NoReply
  /\ \E delay \in Delays(after) :
       IF elapsed + delay < RequestTimeout
       THEN gphase' = "sleeping" /\ timer' = elapsed + delay /\ UNCHANGED gresult
       ELSE Return(error) /\ UNCHANGED timer
  /\ UNCHANGED <<gmode, attempt, elapsed, scanner>>

\* AttemptResult::Terminal: the loop ends with this error.
Terminal(error) ==
  /\ lastError' = error
  /\ Return(error)
  /\ Emit
  /\ driver' = FALSE
  /\ reply' = NoReply
  /\ UNCHANGED <<gmode, attempt, elapsed, timer, staleKeyUsed, scanner>>

Wake ==
  /\ gphase = "sleeping" /\ elapsed >= timer
  /\ gphase' = "loop" /\ attempt' = attempt + 1
  /\ UNCHANGED <<gmode, elapsed, timer, staleKeyUsed, lastError, gresult, reply, wireVars, gevents,
                 scanner>>

\* GatewayHeaders and build_request: what rig's headers become on the wire.
KeyShaped == {"authorization", "x-api-key", "api-key", "x-goog-api-key"}
RigHeaders == {"authorization", "x-api-key", "content-type"}
BeforeRequestHeaders(headers) == (headers \ {"authorization"}) \cup {"x-app"}
BuildRequest(headers) == (headers \ KeyShaped) \cup {"host", "user-agent"}

\* connect: dial, TLS and handshake, with the spawned driver; then the request is
\* built, and handed to the connection.
Connected ==
  /\ gphase = "connecting"
  /\ gphase' = "sending" /\ driver' = TRUE
  /\ UNCHANGED <<gmode, attempt, elapsed, timer, staleKeyUsed, lastError, gresult, reply, wire, queued,
                 closed, refused, gevents, scanner>>

ConnectFails ==
  /\ gphase = "connecting"
  /\ Retry(Transport("connect"), 0, FALSE)
  /\ UNCHANGED <<wire, queued, closed, refused>>

ConnectTimesOut == elapsed >= timer /\ ConnectFails

\* A request that cannot be rebuilt ends the call before anything is sent.
BuildFails ==
  /\ gphase = "sending"
  /\ Terminal(Transport("none"))
  /\ UNCHANGED <<wire, queued, closed, refused>>

\* send_and_await: the connection takes the request, or gives it back.
Queue ==
  /\ gphase = "sending"
  /\ gphase' = "waiting"
  /\ wire' = BuildRequest(BeforeRequestHeaders(RigHeaders))
  /\ queued' = queued \cup {attempt}
  /\ UNCHANGED <<gmode, attempt, elapsed, timer, staleKeyUsed, lastError, gresult, reply, closed,
                 refused, driver, gevents, scanner>>

ShouldRetryQueueReject_Always(recovered) == TRUE

ShouldRetryQueueReject(recovered) == recovered

SendFails ==
  /\ gphase \in {"sending", "waiting"}
  /\ IF ShouldRetryQueueReject(gphase = "sending")
     THEN Retry(Transport("none"), 0, FALSE)
     ELSE Terminal(Transport("none"))
  /\ UNCHANGED <<wire, queued, closed, refused>>

DeadlineElapsed == elapsed >= RequestTimeout

\* The deadline while the head, an error body or a unary body is awaited.
TimesOut ==
  /\ gphase \in {"sending", "waiting", "error body", "body"}
  /\ DeadlineElapsed
  /\ Terminal(Transport("timeout"))
  /\ UNCHANGED <<wire, queued, closed, refused>>

\* The response head: success goes on to the body, anything else to the error
\* body with its Retry-After. A streamed call is done here: the driver goes to
\* the stream's guard.
ResponseHead ==
  /\ gphase = "waiting"
  /\ \/ gphase' = "body" /\ gmode = "unary" /\ UNCHANGED <<reply, refused>>
     \/ gphase' = "streaming" /\ gmode = "streaming" /\ UNCHANGED <<reply, refused>>
     \/ /\ gphase' = "error body" /\ refused' = refused \cup {attempt}
        /\ \E s \in Statuses, after \in RetryAfters \cup {0} :
             reply' = [status |-> s, after |-> after]
  /\ UNCHANGED <<gmode, attempt, elapsed, timer, staleKeyUsed, lastError, gresult, wire, queued,
                 closed, driver, gevents, scanner>>

\* classify_status: 429 and 5xx retry, a stale key once and not in the last
\* attempt, anything else ends the call.
ClassifyStatus(r, after, staleKeyAvailable) ==
  IF r.status = 429 \/ r.status >= 500 THEN Retry(r, after, FALSE)
  ELSE IF staleKeyAvailable /\ IsStaleVirtualKey(r) THEN Retry(r, 0, TRUE)
  ELSE Terminal(r)

\* The body of a refusal is looked at; that of a 429 or a 5xx says nothing.
TypesOf(status) == IF status \in {401, 402, 403} THEN BodyTypes ELSE {"none"}
ErrorsOf(status) == IF status \in {401, 402, 403} THEN BodyErrors ELSE {"none"}

\* read_error_body: the body ends, breaks off or reaches the cap; read_capped does not
\* say which, and what came of it and the status decide.
ErrorBodyRead ==
  /\ gphase = "error body"
  /\ closed' = closed \cup {attempt}
  /\ \E t \in TypesOf(reply.status), e \in ErrorsOf(reply.status) :
       ClassifyStatus(Reply(reply.status, t, e), reply.after, ~staleKeyUsed /\ attempt + 1 \in Attempts)
  /\ UNCHANGED <<wire, queued, refused>>

\* finish_success of a unary call.
BodyCollected ==
  /\ gphase = "body"
  /\ closed' = closed \cup {attempt}
  /\ Return(Success) /\ Emit /\ driver' = FALSE
  /\ UNCHANGED <<gmode, attempt, elapsed, timer, staleKeyUsed, lastError, reply, wire, queued, refused,
                 scanner>>

BodyBreaks ==
  /\ gphase = "body"
  /\ Terminal(Transport("none"))
  /\ UNCHANGED <<wire, queued, closed, refused>>
-----------------------------------------------------------------------------
(* The streamed body *)

\* emit_completion: once, with the usage seen so far.
EmitCompletion(s) == IF s.emitted THEN s ELSE [s EXCEPT !.emitted = TRUE, !.told = s.usage]

Streamed(s) ==
  /\ scanner' = s
  /\ gevents' = [gevents EXCEPT ![attempt] = @ + IF s.emitted /\ ~scanner.emitted THEN 1 ELSE 0]
  /\ UNCHANGED <<gmode, attempt, elapsed, timer, staleKeyUsed, lastError, reply, wire, queued, refused>>

Lines == {"text", "usage", "done"}

\* A bound: usage lines per stream.
UsageCap == 2

\* A line counts when its end arrives: a part of one waits in the buffer.
ScanLine(s, line) ==
  [s EXCEPT !.cut = "none",
            !.usage = IF line = "usage" THEN @ + 1 ELSE @,
            !.done = @ \/ line = "done"]

\* More than 64 KiB of a line without its end are thrown away, and its rest is a
\* line that says nothing: the white space around a sentinel counts as well.
Overflows(s) == s.cut # "none"

\* stream_next_item: a frame with a line, the first part of one, or the rest.
Frame ==
  /\ gphase = "streaming" /\ ~scanner.ended /\ scanner.usage < UsageCap
  /\ \/ scanner.cut = "none" /\ \E line \in Lines : Streamed(ScanLine(scanner, line))
     \/ scanner.cut = "none" /\ \E line \in Lines : Streamed([scanner EXCEPT !.cut = line])
     \/ scanner.cut # "none" /\ Streamed(ScanLine(scanner, scanner.cut))
     \/ Overflows(scanner) /\ Streamed([scanner EXCEPT !.cut = "text"])
  /\ UNCHANGED <<gphase, gresult, closed, driver>>

StreamFails_Silent(error) ==
  /\ gphase = "streaming" /\ ~scanner.ended
  /\ Streamed([scanner EXCEPT !.ended = TRUE])
  /\ gresult' = error
  /\ UNCHANGED <<gphase, closed, driver>>

\* A read error or the idle timeout: the consumer gets the error, the stream has
\* ended. The end of the body drops the stream's state.
StreamFails(error) ==
  /\ gphase = "streaming" /\ ~scanner.ended
  /\ Streamed(EmitCompletion([scanner EXCEPT !.ended = TRUE]))
  /\ gresult' = error
  /\ UNCHANGED <<gphase, closed, driver>>

\* The stream is gone, complete or not.
StreamOver(complete) ==
  /\ gphase' = "returned" /\ driver' = FALSE
  /\ IF complete /\ gresult = NoError
     THEN gresult' = Success /\ closed' = closed \cup {attempt}
     ELSE UNCHANGED <<gresult, closed>>

Gone(s, way) == [s EXCEPT !.way = way]

BodyEnds ==
  /\ gphase = "streaming"
  /\ Streamed(Gone(IF scanner.ended THEN scanner ELSE EmitCompletion(scanner), "end of body"))
  /\ StreamOver(TRUE)

\* StreamState::drop and StreamGuard::drop: rig drops the body at [DONE], a
\* consumer whenever it likes.
DropStream ==
  /\ gphase = "streaming"
  /\ Streamed(Gone(IF scanner.done THEN EmitCompletion(scanner) ELSE scanner, "drop"))
  /\ StreamOver(scanner.done)
-----------------------------------------------------------------------------
CancelCall_Detached ==
  /\ InFlight /\ gphase # "streaming"
  /\ gphase' = "cancelled"
  /\ UNCHANGED <<gmode, attempt, elapsed, timer, staleKeyUsed, lastError, gresult, reply, wireVars,
                 gevents, scanner>>

\* The caller drops the call's future.
CancelCall ==
  /\ InFlight /\ gphase # "streaming"
  /\ gphase' = "cancelled" /\ driver' = FALSE
  /\ UNCHANGED <<gmode, attempt, elapsed, timer, staleKeyUsed, lastError, gresult, reply, wire, queued,
                 closed, refused, gevents, scanner>>

TimePasses ==
  /\ InFlight /\ gphase \notin {"streaming", "loop"}
  /\ elapsed < RequestTimeout + Overrun
  /\ elapsed' = elapsed + 1
  /\ UNCHANGED <<gphase, gmode, attempt, timer, staleKeyUsed, lastError, gresult, reply, wireVars,
                 gevents, scanner>>

StreamStep == Frame \/ StreamFails(Transport("none")) \/ StreamFails(Transport("timeout"))

\* What the client does by itself; the rest is up to gateway, network and caller.
ClientStep == LoopTop \/ Wake \/ ConnectTimesOut \/ TimesOut

GatewayNext ==
  \/ Configure \/ ClientStep
  \/ Connected \/ ConnectFails \/ BuildFails \/ Queue \/ SendFails \/ ResponseHead \/ ErrorBodyRead
  \/ BodyCollected \/ BodyBreaks
  \/ StreamStep \/ BodyEnds \/ DropStream
  \/ CancelCall \/ TimePasses

GatewaySpec == GatewayInit /\ [][GatewayNext]_gatewayVars
-----------------------------------------------------------------------------
(* Properties *)

GatewayTypeOK ==
  /\ gphase \in {"unconfigured", "refused", "loop", "connecting", "sending", "waiting", "error body",
                 "body", "sleeping", "streaming", "returned", "cancelled"}
  /\ gmode \in {"unary", "streaming"}
  /\ attempt \in Nat \ {0} /\ attempt <= Cardinality(Attempts) + 1
  /\ elapsed \in Nat /\ timer \in Nat
  /\ staleKeyUsed \in BOOLEAN /\ driver \in BOOLEAN
  /\ lastError \in PromptErrors \cup {NoError} /\ gresult \in PromptErrors \cup {NoError, Success}
  /\ reply.status \in Statuses \cup {0} /\ reply.after \in Nat
  /\ closed \subseteq queued /\ refused \subseteq queued /\ queued \subseteq Attempts
  /\ gevents \in [Attempts -> Nat]

Verdict ==
  IF gresult = NoError THEN "pending"
  ELSE IF gresult = Success THEN "settled"
  ELSE IF FromPromptError(gresult) \in {"Timeout", "Rig"} THEN "unknown" ELSE "settled"

Request ==
  IF queued = closed THEN "none" ELSE IF queued \ closed \subseteq refused THEN "refused" ELSE "open"

Promised == INSTANCE CallPromise WITH request <- Request, verdict <- Verdict

\* A request goes out again only after the gateway has refused the one before by a
\* status whose body was over, cut off or not, before the deadline; a request that
\* was heard nothing of, a broken success and a refusal the deadline cuts short are
\* never repeated; and a call that ends in anything but Timeout or Rig has no request
\* without such an answer. Retries, the queue-reject rule, the reading of error
\* bodies and the classification of the last error together keep CallPromise.
KeepsCallPromise == Promised!PromiseSpec

\* No connection outlives its use: once the call has returned, was cancelled or
\* the stream was dropped, its driver is aborted, and an attempt that waits for
\* the next one has none. What left carried no key and named the app.
NothingLeftBehind ==
  /\ driver => gphase \in {"sending", "waiting", "error body", "body", "streaming"}
  /\ wire # {} => "x-app" \in wire /\ wire \cap KeyShaped = {}
  /\ gresult \notin {NoError, Success} =>
       ChainText(gresult) \subseteq {"variant", "length", "status", "marker", "fixed"}

\* Every attempt before the present one is reported once; and a stream that is gone is
\* reported once, with the usage read by then, when its body ended, its reading failed
\* or idled out, or its end was seen, and not at all when its consumer dropped it
\* before (into_boxed_stream, StreamState::drop).
ReportedOnce ==
  /\ \A a \in Attempts : gevents[a] <= 1 /\ (a < attempt => gevents[a] = 1)
  /\ gphase = "returned" /\ scanner.way # "open" =>
       LET told == scanner.way = "end of body" \/ scanner.ended \/ scanner.done
       IN /\ gevents[attempt] = IF told THEN 1 ELSE 0
          /\ told => scanner.told = scanner.usage
=============================================================================
