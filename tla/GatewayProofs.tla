---------------------------- MODULE GatewayProofs ----------------------------
(* One call to the LLM gateway keeps CallPromise, reports every attempt once  *)
(* and leaves nothing behind, for every retry policy and every timeout.       *)
EXTENDS Gateway, FiniteSetTheorems, TLAPS
-----------------------------------------------------------------------------
(* The inductive invariant *)

Early == {"unconfigured", "refused", "loop", "connecting", "sending"}
Sent == {"waiting", "error body", "body", "streaming"}

\* The attempt that is being made, or was made last, is one the policy allows.
WithinPolicy ==
  /\ gphase \in {"connecting", "sending", "sleeping"} \cup Sent => attempt \in Attempts
  /\ scanner.way # "open" => attempt \in Attempts

\* The requests that left: all closed but the present one, and that one only once
\* it has left; it is refused while its error body is read.
Accounts ==
  /\ gphase \in Early => closed = queued /\ \A a \in queued : a < attempt
  /\ gphase = "sleeping" => closed = queued /\ \A a \in queued : a <= attempt
  /\ gphase \in Sent => /\ queued = closed \cup {attempt} /\ \A a \in closed : a < attempt
                        /\ attempt \in refused <=> gphase = "error body"

\* There is a result when the call is over, or when its stream has failed.
ResultWhenOver ==
  /\ gphase \notin {"returned", "streaming"} => gresult = NoError
  /\ gphase = "streaming" => gresult \in {NoError, Transport("none"), Transport("timeout")}
  /\ gphase = "error body" => reply.status \in Statuses

Scanners == [cut : {"none"} \cup Lines, usage : Nat, done : BOOLEAN, ended : BOOLEAN,
             emitted : BOOLEAN, told : Nat, way : {"open", "end of body", "drop"}]

\* The stream's flags: it is reported when it fails, and nothing is read after that;
\* once it is gone it was reported if its body ended, it failed or its end was seen.
Scanning ==
  /\ scanner \in Scanners
  /\ gphase \notin {"streaming", "returned"} => scanner = Fresh
  /\ gphase = "streaming" => /\ scanner.emitted <=> scanner.ended
                             /\ scanner.ended <=> gresult # NoError
                             /\ scanner.way = "open"
  /\ scanner.way # "open" =>
       scanner.emitted <=> scanner.way = "end of body" \/ scanner.ended \/ scanner.done
  /\ scanner.emitted => scanner.told = scanner.usage

\* The attempts that are over are reported; those to come, and the present one until
\* it ends, are not; a stream is when it was told so.
Unreported ==
  \A a \in Attempts :
    /\ gevents[a] <= 1
    /\ a < attempt => gevents[a] = 1
    /\ a > attempt => gevents[a] = 0
    /\ a = attempt /\ gphase = "sleeping" => gevents[a] = 1
    /\ a = attempt /\ gphase \in Early \cup (Sent \ {"streaming"}) => gevents[a] = 0
    /\ a = attempt /\ (gphase = "streaming" \/ scanner.way # "open") =>
         gevents[a] = IF scanner.emitted THEN 1 ELSE 0

GatewayInv ==
  /\ GatewayTypeOK /\ WithinPolicy /\ Accounts /\ ResultWhenOver /\ Scanning /\ Unreported
  /\ NothingLeftBehind
-----------------------------------------------------------------------------
(* Errors and attempts *)

\* No failure is taken for success or for none, and what a reporter prints of it has
\* neither a body nor a text of the model's in it.
LEMMA ErrorFacts ==
  \A e \in PromptErrors :
    /\ e # NoError /\ e # Success
    /\ ChainText(e) \subseteq {"variant", "length", "status", "marker", "fixed"}
  <1> SUFFICES ASSUME NEW e \in PromptErrors
               PROVE  /\ e # NoError /\ e # Success
                      /\ ChainText(e) \subseteq {"variant", "length", "status", "marker", "fixed"}
    OBVIOUS
  <1>1. CASE e.kind = "reply"
    <2>1. FromPromptError(e) # "Rig"
      BY <1>1 DEF FromPromptError, FromReply
    <2> QED BY <1>1, <2>1 DEF NoError, Success, ChainText, SourceSummary, FromPrompt, DisplayOf
  <1>2. CASE e.kind = "http"
    <2>1. FromPromptError(e) # "Rig" => e.marker # "none"
      BY <1>2 DEF FromPromptError
    <2>2. DisplayOf(e) \ {} \subseteq {"marker"} \/ e.marker = "none"
      BY <1>2 DEF DisplayOf
    <2>3. SourceSummary(e) \subseteq {"fixed", "marker"}
      BY <1>2, <2>1, <2>2 DEF SourceSummary, FromPrompt, OpaquePrompt
    <2> QED BY <1>2, <2>3 DEF NoError, Success, ChainText
  <1>3. CASE e.kind = "other"
    <2>1. FromPromptError(e) = "Rig"
      BY <1>3 DEF FromPromptError
    <2> QED BY <1>3, <2>1 DEF NoError, Success, ChainText, SourceSummary, OpaquePrompt
  <1> QED BY <1>1, <1>2, <1>3 DEF PromptErrors, Reply, Transport, Elsewhere

\* A failure of the transport is an error, and which variant it becomes.
LEMMA TransportFacts ==
  /\ \A m \in Markers : Transport(m) \in PromptErrors
  /\ FromPromptError(Transport("timeout")) = "Timeout"
  /\ FromPromptError(Transport("none")) = "Rig"
  /\ {"connect", "timeout", "none"} \subseteq Markers
  BY DEF PromptErrors, Transport, Markers, FromPromptError

\* A reply is an error that says what became of the request.
LEMMA ReplyFacts ==
  ASSUME NEW s \in Statuses, NEW t \in TypesOf(s), NEW e \in ErrorsOf(s)
  PROVE  /\ Reply(s, t, e) \in PromptErrors
         /\ FromPromptError(Reply(s, t, e)) \notin {"Timeout", "Rig"}
  <1>1. t \in BodyTypes /\ e \in BodyErrors
    BY ZenonT(30) DEF TypesOf, ErrorsOf, BodyTypes, BodyErrors
  <1>2. Reply(s, t, e) \in PromptErrors
    BY <1>1 DEF PromptErrors
  <1>3. FromPromptError(Reply(s, t, e)) = FromReply(Reply(s, t, e))
    BY DEF FromPromptError, Reply
  <1>4. FromReply(Reply(s, t, e)) \notin {"Timeout", "Rig"}
    BY DEF FromReply
  <1> QED BY <1>2, <1>3, <1>4

\* The policy allows the attempts 1 to some number, which is one at least.
LEMMA AttemptNumbers ==
  /\ Cardinality(Attempts) \in Nat \ {0}
  /\ \A a : a \in Attempts <=> a \in Nat \ {0} /\ a <= Cardinality(Attempts)
  <1> DEFINE n == IF MaxAttempts = 0 THEN 1 ELSE MaxAttempts
  <1>1. n \in Nat \ {0} /\ Attempts = 1..n
    BY GatewayAssumption DEF Attempts
  <1> HIDE DEF n
  <1>2. Cardinality(Attempts) = n
    BY <1>1, FS_Interval
  <1> QED BY <1>1, <1>2
-----------------------------------------------------------------------------
(* What steps have in common *)

\* An attempt that fails is reported and its connection dropped; the call sleeps or
\* returns the error.
AttemptEnds(error) ==
  /\ lastError' = error
  /\ Emit /\ driver' = FALSE /\ reply' = NoReply
  /\ \/ gphase' = "sleeping" /\ gresult' = gresult /\ timer' \in Nat
     \/ gphase' = "returned" /\ gresult' = error /\ timer' = timer
  /\ staleKeyUsed' \in BOOLEAN
  /\ UNCHANGED <<gmode, attempt, elapsed, scanner, wire, queued, refused>>

\* Nothing was sent; or what was sent stays open, and the call returns the error; or a
\* refusal is the error.
AttemptFails ==
  \E error \in PromptErrors :
    /\ AttemptEnds(error)
    /\ \/ gphase \in {"connecting", "sending"} /\ UNCHANGED closed
       \/ /\ gphase \in {"waiting", "error body", "body"} /\ gphase' = "returned"
          /\ error \in {Transport("none"), Transport("timeout")} /\ UNCHANGED closed
       \/ /\ gphase = "error body" /\ closed' = closed \cup {attempt}
          /\ FromPromptError(error) \notin {"Timeout", "Rig"}

LEMMA RetryEnds ==
  ASSUME GatewayTypeOK, NEW error, NEW after \in Nat, NEW stale \in BOOLEAN,
         Retry(error, after, stale), UNCHANGED <<wire, queued, refused>>
  PROVE  AttemptEnds(error)
  <1>1. PICK delay \in Delays(after) :
          IF elapsed + delay < RequestTimeout
          THEN gphase' = "sleeping" /\ timer' = elapsed + delay /\ UNCHANGED gresult
          ELSE Return(error) /\ UNCHANGED timer
    BY DEF Retry
  <1>2. delay \in Nat
    <2>1. CASE after # 0
      BY <1>1, <2>1, GatewayAssumption DEF Delays, Least
    <2>2. CASE after = 0
      <3> DEFINE top == Least(InitialBackoff * Pow2[attempt - 1], MaxBackoff)
      <3>1. delay \in 0..top
        BY <1>1, <2>2 DEF Delays
      <3> HIDE DEF top
      <3> QED BY <3>1
    <2> QED BY <2>1, <2>2
  <1>3. elapsed \in Nat /\ staleKeyUsed \in BOOLEAN
    BY DEF GatewayTypeOK
  <1>4. (staleKeyUsed \/ stale) \in BOOLEAN
    BY <1>3
  <1>5. \/ gphase' = "sleeping" /\ gresult' = gresult /\ timer' \in Nat
        \/ gphase' = "returned" /\ gresult' = error /\ timer' = timer
    BY <1>1, <1>2, <1>3 DEF Return
  <1> QED BY <1>4, <1>5 DEF Retry, AttemptEnds

LEMMA TerminalEnds ==
  ASSUME GatewayTypeOK, NEW error, Terminal(error), UNCHANGED <<wire, queued, refused>>
  PROVE  AttemptEnds(error) /\ gphase' = "returned"
  BY DEF GatewayTypeOK, Terminal, Return, AttemptEnds

\* A refused connection, a request that cannot be built or sent, a timeout, an error
\* reply and a broken body are all failures of an attempt.
LEMMA FailuresAreEnds ==
  ASSUME GatewayTypeOK, ResultWhenOver,
         ConnectFails \/ BuildFails \/ SendFails \/ TimesOut \/ ErrorBodyRead \/ BodyBreaks
  PROVE  AttemptFails
  <1>0. /\ Transport("none") \in PromptErrors /\ Transport("connect") \in PromptErrors
        /\ Transport("timeout") \in PromptErrors
    BY TransportFacts
  <1>a. 0 \in Nat /\ FALSE \in BOOLEAN /\ TRUE \in BOOLEAN
    OBVIOUS
  <1>1. CASE ConnectFails
    <2>1. AttemptEnds(Transport("connect"))
      BY <1>1, <1>a, RetryEnds DEF ConnectFails
    <2> QED BY <1>0, <1>1, <2>1 DEF ConnectFails, AttemptFails
  <1>2. CASE BuildFails
    <2>1. AttemptEnds(Transport("none"))
      BY <1>2, TerminalEnds DEF BuildFails
    <2> QED BY <1>0, <1>2, <2>1 DEF BuildFails, AttemptFails
  <1>3. CASE SendFails
    <2>1. CASE gphase = "sending"
      <3>1. Retry(Transport("none"), 0, FALSE)
        BY <1>3, <2>1 DEF SendFails, ShouldRetryQueueReject
      <3>2. AttemptEnds(Transport("none"))
        BY <1>3, <1>a, <3>1, RetryEnds DEF SendFails
      <3> QED BY <1>0, <1>3, <2>1, <3>2 DEF SendFails, AttemptFails
    <2>2. CASE gphase = "waiting"
      <3>1. Terminal(Transport("none"))
        BY <1>3, <2>2 DEF SendFails, ShouldRetryQueueReject
      <3>2. AttemptEnds(Transport("none")) /\ gphase' = "returned"
        BY <1>3, <3>1, TerminalEnds DEF SendFails
      <3> QED BY <1>0, <1>3, <2>2, <3>2 DEF SendFails, AttemptFails
    <2> QED BY <1>3, <2>1, <2>2 DEF SendFails
  <1>4. CASE TimesOut
    <2>1. AttemptEnds(Transport("timeout")) /\ gphase' = "returned"
      BY <1>4, TerminalEnds DEF TimesOut
    <2> QED BY <1>0, <1>4, <2>1 DEF TimesOut, AttemptFails
  <1>5. CASE ErrorBodyRead
    <2>1. /\ gphase = "error body" /\ closed' = closed \cup {attempt}
          /\ UNCHANGED <<wire, queued, refused>>
      BY <1>5 DEF ErrorBodyRead
    <2>2. reply.status \in Statuses /\ reply.after \in Nat
      BY <2>1 DEF ResultWhenOver, GatewayTypeOK
    <2>3. PICK t \in TypesOf(reply.status), e \in ErrorsOf(reply.status) :
            ClassifyStatus(Reply(reply.status, t, e), reply.after, ~staleKeyUsed /\ attempt + 1 \in Attempts)
      BY <1>5 DEF ErrorBodyRead
    <2> DEFINE r == Reply(reply.status, t, e)
    <2>4. r \in PromptErrors /\ FromPromptError(r) \notin {"Timeout", "Rig"}
      BY <2>2, ReplyFacts
    <2> HIDE DEF r
    <2>5. Retry(r, reply.after, FALSE) \/ Retry(r, 0, TRUE) \/ Terminal(r)
      BY <2>3 DEF ClassifyStatus, r
    <2>6. AttemptEnds(r)
      BY <1>a, <2>1, <2>2, <2>5, RetryEnds, TerminalEnds
    <2> QED BY <2>1, <2>4, <2>6 DEF AttemptFails
  <1>6. CASE BodyBreaks
    <2>1. AttemptEnds(Transport("none")) /\ gphase' = "returned"
      BY <1>6, TerminalEnds DEF BodyBreaks
    <2> QED BY <1>0, <1>6, <2>1 DEF BodyBreaks, AttemptFails
  <1> QED BY <1>1, <1>2, <1>3, <1>4, <1>5, <1>6

\* A step of the stream: it is reported once, with the usage read by then.
StreamMove ==
  /\ scanner' \in Scanners
  /\ scanner'.emitted => scanner'.told = scanner'.usage
  /\ gevents' = [gevents EXCEPT ![attempt] = IF scanner'.emitted THEN 1 ELSE 0]
  /\ UNCHANGED <<gmode, attempt, elapsed, timer, staleKeyUsed, lastError, reply, wire, queued, refused>>

LEMMA StreamedMoves ==
  ASSUME GatewayInv, gphase = "streaming", NEW s \in Scanners, s.emitted => s.told = s.usage,
         scanner.emitted => s.emitted, Streamed(s)
  PROVE  StreamMove
  <1>1. attempt \in Attempts /\ gevents \in [Attempts -> Nat]
    BY DEF GatewayInv, GatewayTypeOK, WithinPolicy, Sent
  <1>2. gevents[attempt] = IF scanner.emitted THEN 1 ELSE 0
    BY <1>1 DEF GatewayInv, Unreported
  <1>3. gevents[attempt] + (IF s.emitted /\ ~scanner.emitted THEN 1 ELSE 0) = IF s.emitted THEN 1 ELSE 0
    BY <1>2
  <1>4. gevents' = [gevents EXCEPT ![attempt] = IF s.emitted THEN 1 ELSE 0]
    BY <1>3 DEF Streamed
  <1> QED BY <1>4 DEF StreamMove, Streamed

LEMMA EmitCompletionFacts ==
  ASSUME NEW s \in Scanners, s.emitted => s.told = s.usage
  PROVE  /\ EmitCompletion(s) \in Scanners /\ EmitCompletion(s).emitted
         /\ EmitCompletion(s).told = EmitCompletion(s).usage
         /\ EmitCompletion(s).done = s.done /\ EmitCompletion(s).ended = s.ended
         /\ EmitCompletion(s).way = s.way
  <1>1. CASE s.emitted
    BY <1>1 DEF EmitCompletion
  <1>2. CASE ~s.emitted
    <2>1. EmitCompletion(s) = [s EXCEPT !.emitted = TRUE, !.told = s.usage]
      BY <1>2 DEF EmitCompletion
    <2> QED BY <2>1 DEF Scanners
  <1> QED BY <1>1, <1>2

LEMMA ScanLineFacts ==
  ASSUME NEW s \in Scanners, NEW l \in Lines
  PROVE  /\ ScanLine(s, l) \in Scanners /\ [s EXCEPT !.cut = l] \in Scanners
         /\ ScanLine(s, l).emitted = s.emitted /\ [s EXCEPT !.cut = l].emitted = s.emitted
         /\ ScanLine(s, l).ended = s.ended /\ [s EXCEPT !.cut = l].ended = s.ended
         /\ ScanLine(s, l).way = s.way /\ [s EXCEPT !.cut = l].way = s.way
  <1> DEFINE u == IF l = "usage" THEN s.usage + 1 ELSE s.usage
             b == s.done \/ l = "done"
  <1>1. s.usage \in Nat /\ s.done \in BOOLEAN
    BY DEF Scanners
  <1>2. u \in Nat
    BY <1>1
  <1>3. b \in BOOLEAN
    BY <1>1
  <1>4. ScanLine(s, l) = [s EXCEPT !.cut = "none", !.usage = u, !.done = b]
    BY DEF ScanLine
  <1> HIDE DEF u, b
  <1> QED BY <1>2, <1>3, <1>4 DEF Scanners

\* A frame changes no flag, a failure sets both, the end of the body or of its
\* consumer reports what is not yet reported.
LEMMA FrameMoves ==
  ASSUME GatewayInv, Frame
  PROVE  /\ StreamMove /\ ~scanner.ended /\ scanner'.emitted = scanner.emitted
         /\ scanner'.ended = scanner.ended /\ scanner'.way = scanner.way
  <1>0. /\ gphase = "streaming" /\ ~scanner.ended /\ scanner \in Scanners /\ ~scanner.emitted
    BY DEF Frame, GatewayInv, Scanning
  <1>1. PICK s \in Scanners : /\ Streamed(s) /\ s.emitted = scanner.emitted /\ s.ended = scanner.ended
                              /\ s.way = scanner.way
    <2>1. CASE scanner.cut = "none" /\ \E l \in Lines : Streamed(ScanLine(scanner, l))
      BY <1>0, <2>1, ScanLineFacts
    <2>2. CASE scanner.cut = "none" /\ \E l \in Lines : Streamed([scanner EXCEPT !.cut = l])
      BY <1>0, <2>2, ScanLineFacts
    <2>3. CASE scanner.cut # "none" /\ Streamed(ScanLine(scanner, scanner.cut))
      <3>1. scanner.cut \in Lines
        BY <1>0, <2>3 DEF Scanners
      <3> QED BY <1>0, <2>3, <3>1, ScanLineFacts
    <2>4. CASE Overflows(scanner) /\ Streamed([scanner EXCEPT !.cut = "text"])
      <3>1. "text" \in Lines
        BY DEF Lines
      <3> QED BY <1>0, <2>4, <3>1, ScanLineFacts
    <2> QED BY <2>1, <2>2, <2>3, <2>4 DEF Frame
  <1>2. ~s.emitted
    BY <1>0, <1>1
  <1>3. StreamMove
    BY <1>0, <1>1, <1>2, StreamedMoves
  <1>4. scanner' = s
    BY <1>1 DEF Streamed
  <1> QED BY <1>0, <1>1, <1>3, <1>4

LEMMA StreamFailsMoves ==
  ASSUME GatewayInv, NEW error, StreamFails(error)
  PROVE  StreamMove /\ scanner'.emitted /\ scanner'.ended /\ ~scanner.ended /\ scanner'.way = scanner.way
  <1> DEFINE over == [scanner EXCEPT !.ended = TRUE]
  <1>1. /\ gphase = "streaming" /\ ~scanner.ended /\ scanner \in Scanners /\ ~scanner.emitted
    BY DEF StreamFails, GatewayInv, Scanning
  <1>2. over \in Scanners /\ ~over.emitted /\ over.ended /\ over.way = scanner.way
    BY <1>1 DEF Scanners
  <1>3. Streamed(EmitCompletion(over))
    BY DEF StreamFails
  <1> HIDE DEF over
  <1>4. /\ EmitCompletion(over) \in Scanners /\ EmitCompletion(over).emitted /\ EmitCompletion(over).ended
        /\ EmitCompletion(over).told = EmitCompletion(over).usage
        /\ EmitCompletion(over).way = scanner.way
    BY <1>2, EmitCompletionFacts
  <1>5. scanner' = EmitCompletion(over)
    BY <1>3 DEF Streamed
  <1>6. StreamMove
    BY <1>1, <1>3, <1>4, StreamedMoves
  <1> QED BY <1>1, <1>4, <1>5, <1>6

LEMMA GoneFacts ==
  ASSUME NEW s \in Scanners, NEW way \in {"end of body", "drop"}
  PROVE  /\ Gone(s, way) \in Scanners /\ Gone(s, way).way = way
         /\ Gone(s, way).emitted = s.emitted /\ Gone(s, way).told = s.told /\ Gone(s, way).usage = s.usage
         /\ Gone(s, way).done = s.done /\ Gone(s, way).ended = s.ended
  BY DEF Gone, Scanners

LEMMA BodyEndsMoves ==
  ASSUME GatewayInv, BodyEnds
  PROVE  StreamMove /\ scanner'.emitted /\ scanner'.way = "end of body"
  <1> DEFINE s == IF scanner.ended THEN scanner ELSE EmitCompletion(scanner)
             g == Gone(s, "end of body")
  <1>1. /\ gphase = "streaming" /\ scanner \in Scanners /\ (scanner.emitted => scanner.told = scanner.usage)
        /\ (scanner.ended => scanner.emitted)
    BY DEF BodyEnds, GatewayInv, Scanning
  <1>2. s \in Scanners /\ s.emitted /\ s.told = s.usage
    BY <1>1, EmitCompletionFacts
  <1>3. Streamed(g)
    BY DEF BodyEnds
  <1> HIDE DEF s
  <1>4. g \in Scanners /\ g.emitted /\ g.told = g.usage /\ g.way = "end of body"
    BY <1>2, GoneFacts
  <1> HIDE DEF g
  <1>5. scanner' = g
    BY <1>3 DEF Streamed
  <1> QED BY <1>1, <1>3, <1>4, <1>5, StreamedMoves

LEMMA DropStreamMoves ==
  ASSUME GatewayInv, DropStream
  PROVE  /\ StreamMove /\ scanner'.way = "drop" /\ scanner'.done = scanner.done
         /\ scanner'.emitted <=> scanner'.ended \/ scanner'.done
  <1> DEFINE s == IF scanner.done THEN EmitCompletion(scanner) ELSE scanner
             g == Gone(s, "drop")
  <1>1. /\ gphase = "streaming" /\ scanner \in Scanners /\ (scanner.emitted => scanner.told = scanner.usage)
        /\ (scanner.ended <=> scanner.emitted)
    BY DEF DropStream, GatewayInv, Scanning
  <1>2. /\ s \in Scanners /\ (s.emitted => s.told = s.usage) /\ (scanner.emitted => s.emitted)
        /\ (s.emitted <=> s.ended \/ s.done) /\ s.done = scanner.done
    BY <1>1, EmitCompletionFacts
  <1>3. Streamed(g)
    BY DEF DropStream
  <1> HIDE DEF s
  <1>4. /\ g \in Scanners /\ (g.emitted => g.told = g.usage) /\ (scanner.emitted => g.emitted)
        /\ (g.emitted <=> g.ended \/ g.done) /\ g.done = scanner.done /\ g.way = "drop"
    BY <1>2, GoneFacts
  <1> HIDE DEF g
  <1>5. scanner' = g
    BY <1>3 DEF Streamed
  <1> QED BY <1>1, <1>3, <1>4, <1>5, StreamedMoves

\* What an attempt that fails leaves.
LEMMA AttemptFailsFacts ==
  ASSUME GatewayInv, AttemptFails
  PROVE  /\ gphase \in {"connecting", "sending", "waiting", "error body", "body"}
         /\ gphase' \in {"sleeping", "returned"} /\ attempt \in Attempts /\ attempt' = attempt
         /\ gphase' = "sleeping" => gresult' = gresult
         /\ gphase' = "returned" => gresult' \in PromptErrors
         /\ lastError' \in PromptErrors /\ reply' = NoReply /\ driver' = FALSE /\ timer' \in Nat
         /\ staleKeyUsed' \in BOOLEAN
         /\ gevents' \in [Attempts -> Nat]
         /\ \A a \in Attempts : gevents'[a] = IF a = attempt THEN 1 ELSE gevents[a]
         /\ UNCHANGED <<gmode, elapsed, scanner, wire, queued, refused>>
         /\ \/ gphase \in {"connecting", "sending"} /\ closed' = closed
            \/ gphase \in Sent /\ gphase' = "returned" /\ closed' = closed
            \/ /\ gphase = "error body" /\ closed' = closed \cup {attempt}
  <1>1. PICK error \in PromptErrors :
          /\ AttemptEnds(error)
          /\ \/ gphase \in {"connecting", "sending"} /\ UNCHANGED closed
             \/ /\ gphase \in {"waiting", "error body", "body"} /\ gphase' = "returned"
                /\ error \in {Transport("none"), Transport("timeout")} /\ UNCHANGED closed
             \/ /\ gphase = "error body" /\ closed' = closed \cup {attempt}
                /\ FromPromptError(error) \notin {"Timeout", "Rig"}
    BY DEF AttemptFails
  <1>2. attempt \in Attempts /\ gevents \in [Attempts -> Nat] /\ timer \in Nat
    BY <1>1 DEF GatewayInv, WithinPolicy, GatewayTypeOK, Sent
  <1>3. gevents[attempt] = 0
    BY <1>1, <1>2 DEF GatewayInv, Unreported, Early, Sent
  <1>4. gevents' = [gevents EXCEPT ![attempt] = 1]
    <2>1. gevents' = [gevents EXCEPT ![attempt] = gevents[attempt] + 1]
      BY <1>1 DEF AttemptEnds, Emit
    <2>2. gevents[attempt] + 1 = 1
      BY <1>3
    <2> QED BY <2>1, <2>2
  <1>5. gevents' \in [Attempts -> Nat] /\ \A a \in Attempts : gevents'[a] = IF a = attempt THEN 1 ELSE gevents[a]
    BY <1>2, <1>4
  <1> QED BY <1>1, <1>2, <1>5 DEF AttemptEnds, Sent

\* A head is a success and goes on with its body, or an error reply.
LEMMA ResponseHeadFacts ==
  ASSUME GatewayTypeOK, ResponseHead
  PROVE  /\ gphase = "waiting" /\ gphase' \in {"body", "streaming", "error body"}
         /\ gphase' = "error body" => reply'.status \in Statuses /\ refused' = refused \cup {attempt}
         /\ gphase' # "error body" => refused' = refused
         /\ reply'.status \in Statuses \cup {0} /\ reply'.after \in Nat
         /\ UNCHANGED <<gmode, attempt, elapsed, timer, staleKeyUsed, lastError, gresult, wire, queued,
                        closed, driver, gevents, scanner>>
  <1>1. CASE UNCHANGED <<reply, refused>> /\ gphase' \in {"body", "streaming"}
    BY <1>1 DEF ResponseHead, GatewayTypeOK
  <1>2. CASE gphase' = "error body"
    <2>1. PICK s \in Statuses, after \in RetryAfters \cup {0} : reply' = [status |-> s, after |-> after]
      BY <1>2 DEF ResponseHead
    <2>2. after \in Nat
      BY GatewayAssumption
    <2>3. reply'.status = s /\ reply'.after = after
      BY <2>1
    <2> QED BY <1>2, <2>2, <2>3 DEF ResponseHead
  <1> QED BY <1>1, <1>2 DEF ResponseHead

\* What the stream's report leaves.
LEMMA StreamMoveFacts ==
  ASSUME GatewayInv, gphase = "streaming", StreamMove
  PROVE  /\ attempt \in Attempts /\ attempt' = attempt /\ gevents' \in [Attempts -> Nat]
         /\ \A a \in Attempts : a # attempt => gevents'[a] = gevents[a]
         /\ scanner'.emitted => gevents'[attempt] = 1
         /\ ~scanner'.emitted => gevents'[attempt] = 0
  <1>1. attempt \in Attempts /\ gevents \in [Attempts -> Nat]
    BY DEF GatewayInv, WithinPolicy, GatewayTypeOK, Sent
  <1>2. gevents' = [gevents EXCEPT ![attempt] = IF scanner'.emitted THEN 1 ELSE 0]
    BY DEF StreamMove
  <1>3. CASE scanner'.emitted
    <2>1. gevents' = [gevents EXCEPT ![attempt] = 1]
      BY <1>2, <1>3
    <2> QED BY <1>1, <1>3, <2>1 DEF StreamMove
  <1>4. CASE ~scanner'.emitted
    <2>1. gevents' = [gevents EXCEPT ![attempt] = 0]
      BY <1>2, <1>4
    <2> QED BY <1>1, <1>4, <2>1 DEF StreamMove
  <1> QED BY <1>3, <1>4
-----------------------------------------------------------------------------
(* Every step keeps the invariant *)

\* The steps there are.
LEMMA GatewaySteps ==
  ASSUME GatewayInv, [GatewayNext]_gatewayVars
  PROVE  \/ Configure \/ LoopTop \/ Wake \/ Connected \/ Queue \/ AttemptFails \/ ResponseHead
         \/ BodyCollected \/ Frame \/ (\E e \in {Transport("none"), Transport("timeout")} : StreamFails(e))
         \/ BodyEnds \/ DropStream \/ CancelCall \/ TimePasses \/ UNCHANGED gatewayVars
  <1>1. ConnectTimesOut => ConnectFails
    BY DEF ConnectTimesOut
  <1>2. GatewayTypeOK /\ ResultWhenOver
    BY DEF GatewayInv
  <1> QED BY <1>1, <1>2, FailuresAreEnds DEF GatewayNext, ClientStep, StreamStep

\* The requests that left stay accounted for.
LEMMA AccountsStep ==
  ASSUME GatewayInv, [GatewayNext]_gatewayVars
  PROVE  Accounts'
  <1>1. CASE Configure
    BY <1>1 DEF Configure, wireVars, GatewayInv, GatewayTypeOK, Accounts, Early, Sent, InFlight
  <1>2. CASE LoopTop
    BY <1>2 DEF LoopTop, Return, wireVars, GatewayInv, GatewayTypeOK, Accounts, Early, Sent, InFlight
  <1>3. CASE Wake
    <2>1. \A a \in queued : a \in Nat
      BY AttemptNumbers DEF GatewayInv, GatewayTypeOK
    <2> QED BY <1>3, <2>1 DEF Wake, wireVars, GatewayInv, GatewayTypeOK, Accounts, Early, Sent
  <1>4. CASE Connected
    BY <1>4 DEF Connected, GatewayInv, GatewayTypeOK, Accounts, Early, Sent, InFlight
  <1>5. CASE Queue
    BY <1>5 DEF Queue, GatewayInv, GatewayTypeOK, Accounts, Early, Sent, InFlight
  <1>6. CASE AttemptFails
    <2>1. /\ attempt \in Nat /\ \A a \in queued : a \in Nat
      BY AttemptNumbers DEF GatewayInv, GatewayTypeOK
    <2>2. CASE gphase \in {"connecting", "sending"} /\ closed' = closed
      <3>1. queued' = queued /\ attempt' = attempt /\ gphase' \in {"sleeping", "returned"}
        BY <1>6, AttemptFailsFacts
      <3>2. closed = queued /\ \A a \in queued : a < attempt
        BY <2>2 DEF GatewayInv, Accounts, Early
      <3>3. \A a \in queued : a <= attempt
        BY <2>1, <3>2
      <3> QED BY <2>2, <3>1, <3>2, <3>3 DEF Accounts, Early, Sent
    <2>3. CASE gphase \in Sent /\ gphase' = "returned"
      BY <2>3 DEF Accounts, Early, Sent
    <2>4. CASE gphase = "error body" /\ closed' = closed \cup {attempt}
      <3>1. queued' = closed \cup {attempt} /\ attempt' = attempt /\ gphase' \in {"sleeping", "returned"}
        BY <1>6, <2>4, AttemptFailsFacts DEF GatewayInv, Accounts, Sent
      <3>2. closed \subseteq queued /\ \A a \in closed : a < attempt
        BY <2>4 DEF GatewayInv, GatewayTypeOK, Accounts, Sent
      <3>3. \A a \in queued' : a <= attempt
        BY <2>1, <3>1, <3>2
      <3> QED BY <2>4, <3>1, <3>3 DEF Accounts, Early, Sent
    <2> QED BY <1>6, <2>2, <2>3, <2>4, AttemptFailsFacts
  <1>7. CASE ResponseHead
    BY <1>7, ResponseHeadFacts DEF GatewayInv, GatewayTypeOK, Accounts, Early, Sent, InFlight
  <1>8. CASE BodyCollected
    BY <1>8 DEF BodyCollected, Return, Emit, GatewayInv, GatewayTypeOK, Accounts, Early, Sent, InFlight
  <1>9. CASE Frame
    BY <1>9, FrameMoves DEF Frame, StreamMove, GatewayInv, GatewayTypeOK, Accounts, Early, Sent, InFlight
  <1>10. ASSUME NEW e \in {Transport("none"), Transport("timeout")}, StreamFails(e)
        PROVE  Accounts'
    <2>1. /\ gphase = "streaming" /\ gphase' = "streaming"
          /\ UNCHANGED <<attempt, queued, closed, refused>>
      BY <1>10, StreamFailsMoves DEF StreamFails, StreamMove
    <2> QED BY <2>1 DEF GatewayInv, Accounts, Early, Sent
  <1>11. CASE BodyEnds
    BY <1>11, BodyEndsMoves DEF BodyEnds, StreamOver, StreamMove, GatewayInv, GatewayTypeOK, Accounts, Early, Sent, InFlight
  <1>12. CASE DropStream
    BY <1>12, DropStreamMoves DEF DropStream, StreamOver, StreamMove, GatewayInv, GatewayTypeOK, Accounts, Early, Sent, InFlight
  <1>13. CASE CancelCall
    BY <1>13 DEF CancelCall, GatewayInv, GatewayTypeOK, Accounts, Early, Sent, InFlight
  <1>14. CASE TimePasses
    BY <1>14 DEF TimePasses, wireVars, GatewayInv, GatewayTypeOK, Accounts, Early, Sent, InFlight
  <1>15. CASE UNCHANGED gatewayVars
    BY <1>15 DEF gatewayVars, callVars, wireVars, GatewayInv, GatewayTypeOK, Accounts, Early, Sent, InFlight
  <1> QED BY <1>1, <1>2, <1>3, <1>4, <1>5, <1>6, <1>7, <1>8, <1>9, <1>10, <1>11, <1>12, <1>13, <1>14, <1>15, GatewaySteps

\* A result comes with the end of the call, or of its stream.
LEMMA ResultStep ==
  ASSUME GatewayInv, [GatewayNext]_gatewayVars
  PROVE  ResultWhenOver'
  <1>1. CASE Configure
    BY <1>1 DEF Configure, wireVars, GatewayInv, GatewayTypeOK, ResultWhenOver, InFlight
  <1>2. CASE LoopTop
    BY <1>2 DEF LoopTop, Return, wireVars, GatewayInv, GatewayTypeOK, ResultWhenOver, InFlight
  <1>3. CASE Wake
    BY <1>3 DEF Wake, wireVars, GatewayInv, GatewayTypeOK, ResultWhenOver, InFlight
  <1>4. CASE Connected
    BY <1>4 DEF Connected, GatewayInv, GatewayTypeOK, ResultWhenOver, InFlight
  <1>5. CASE Queue
    BY <1>5 DEF Queue, GatewayInv, GatewayTypeOK, ResultWhenOver, InFlight
  <1>6. CASE AttemptFails
    BY <1>6, AttemptFailsFacts DEF GatewayInv, GatewayTypeOK, ResultWhenOver, InFlight
  <1>7. CASE ResponseHead
    BY <1>7, ResponseHeadFacts DEF GatewayInv, GatewayTypeOK, ResultWhenOver, InFlight
  <1>8. CASE BodyCollected
    BY <1>8 DEF BodyCollected, Return, Emit, GatewayInv, GatewayTypeOK, ResultWhenOver, InFlight
  <1>9. CASE Frame
    BY <1>9, FrameMoves DEF Frame, StreamMove, GatewayInv, GatewayTypeOK, ResultWhenOver, InFlight
  <1>10. ASSUME NEW e \in {Transport("none"), Transport("timeout")}, StreamFails(e)
        PROVE  ResultWhenOver'
    BY <1>10, StreamFailsMoves DEF StreamFails, StreamMove, GatewayInv, GatewayTypeOK, ResultWhenOver, InFlight
  <1>11. CASE BodyEnds
    BY <1>11, BodyEndsMoves DEF BodyEnds, StreamOver, StreamMove, GatewayInv, GatewayTypeOK, ResultWhenOver, InFlight
  <1>12. CASE DropStream
    BY <1>12, DropStreamMoves DEF DropStream, StreamOver, StreamMove, GatewayInv, GatewayTypeOK, ResultWhenOver, InFlight
  <1>13. CASE CancelCall
    BY <1>13 DEF CancelCall, GatewayInv, GatewayTypeOK, ResultWhenOver, InFlight
  <1>14. CASE TimePasses
    BY <1>14 DEF TimePasses, wireVars, GatewayInv, GatewayTypeOK, ResultWhenOver, InFlight
  <1>15. CASE UNCHANGED gatewayVars
    BY <1>15 DEF gatewayVars, callVars, wireVars, GatewayInv, GatewayTypeOK, ResultWhenOver, InFlight
  <1> QED BY <1>1, <1>2, <1>3, <1>4, <1>5, <1>6, <1>7, <1>8, <1>9, <1>10, <1>11, <1>12, <1>13, <1>14, <1>15, GatewaySteps

\* No attempt is made beyond the policy.
LEMMA WithinPolicyStep ==
  ASSUME GatewayInv, [GatewayNext]_gatewayVars
  PROVE  WithinPolicy'
  <1>1. CASE Configure
    BY <1>1 DEF Configure, wireVars, GatewayInv, GatewayTypeOK, WithinPolicy, Sent, InFlight
  <1>2. CASE LoopTop
    BY <1>2 DEF LoopTop, Return, wireVars, GatewayInv, GatewayTypeOK, WithinPolicy, Sent, InFlight
  <1>3. CASE Wake
    <2>1. scanner' = Fresh /\ gphase' = "loop"
      BY <1>3 DEF Wake, GatewayInv, Scanning
    <2> QED BY <2>1 DEF WithinPolicy, Sent, Fresh
  <1>4. CASE Connected
    BY <1>4 DEF Connected, GatewayInv, GatewayTypeOK, WithinPolicy, Sent, InFlight
  <1>5. CASE Queue
    BY <1>5 DEF Queue, GatewayInv, GatewayTypeOK, WithinPolicy, Sent, InFlight
  <1>6. CASE AttemptFails
    BY <1>6, AttemptFailsFacts DEF GatewayInv, GatewayTypeOK, WithinPolicy, Sent, InFlight
  <1>7. CASE ResponseHead
    BY <1>7, ResponseHeadFacts DEF GatewayInv, GatewayTypeOK, WithinPolicy, Sent, InFlight
  <1>8. CASE BodyCollected
    BY <1>8 DEF BodyCollected, Return, Emit, GatewayInv, GatewayTypeOK, WithinPolicy, Sent, InFlight
  <1>9. CASE Frame
    BY <1>9, FrameMoves DEF Frame, StreamMove, GatewayInv, GatewayTypeOK, WithinPolicy, Sent, InFlight
  <1>10. ASSUME NEW e \in {Transport("none"), Transport("timeout")}, StreamFails(e)
        PROVE  WithinPolicy'
    BY <1>10, StreamFailsMoves DEF StreamFails, StreamMove, GatewayInv, GatewayTypeOK, WithinPolicy, Sent, InFlight
  <1>11. CASE BodyEnds
    BY <1>11, BodyEndsMoves DEF BodyEnds, StreamOver, StreamMove, GatewayInv, GatewayTypeOK, WithinPolicy, Sent, InFlight
  <1>12. CASE DropStream
    BY <1>12, DropStreamMoves DEF DropStream, StreamOver, StreamMove, GatewayInv, GatewayTypeOK, WithinPolicy, Sent, InFlight
  <1>13. CASE CancelCall
    BY <1>13 DEF CancelCall, GatewayInv, GatewayTypeOK, WithinPolicy, Sent, InFlight
  <1>14. CASE TimePasses
    BY <1>14 DEF TimePasses, wireVars, GatewayInv, GatewayTypeOK, WithinPolicy, Sent, InFlight
  <1>15. CASE UNCHANGED gatewayVars
    BY <1>15 DEF gatewayVars, callVars, wireVars, GatewayInv, GatewayTypeOK, WithinPolicy, Sent, InFlight
  <1> QED BY <1>1, <1>2, <1>3, <1>4, <1>5, <1>6, <1>7, <1>8, <1>9, <1>10, <1>11, <1>12, <1>13, <1>14, <1>15, GatewaySteps

\* The stream's flags agree with each other and with the result.
LEMMA ScanningStep ==
  ASSUME GatewayInv, [GatewayNext]_gatewayVars
  PROVE  Scanning'
  <1>0. NoError # Success /\ \A e \in PromptErrors : e # NoError
    BY ErrorFacts DEF NoError, Success
  <1>a. Transport("none") # NoError /\ Transport("timeout") # NoError
    BY <1>0, TransportFacts
  <1>1. CASE Configure
    BY <1>a, <1>1 DEF Configure, wireVars, GatewayInv, GatewayTypeOK, ResultWhenOver, Scanning, InFlight
  <1>2. CASE LoopTop
    BY <1>a, <1>2 DEF LoopTop, Return, wireVars, GatewayInv, GatewayTypeOK, ResultWhenOver, Scanning, InFlight
  <1>3. CASE Wake
    BY <1>a, <1>3 DEF Wake, wireVars, GatewayInv, GatewayTypeOK, ResultWhenOver, Scanning, InFlight
  <1>4. CASE Connected
    BY <1>a, <1>4 DEF Connected, GatewayInv, GatewayTypeOK, ResultWhenOver, Scanning, InFlight
  <1>5. CASE Queue
    BY <1>a, <1>5 DEF Queue, GatewayInv, GatewayTypeOK, ResultWhenOver, Scanning, InFlight
  <1>6. CASE AttemptFails
    BY <1>a, <1>6, AttemptFailsFacts DEF GatewayInv, GatewayTypeOK, ResultWhenOver, Scanning, InFlight
  <1>7. CASE ResponseHead
    <2>1. scanner' = Fresh /\ scanner' \in Scanners /\ gresult' = NoError
      BY <1>7, ResponseHeadFacts DEF GatewayInv, Scanning, ResultWhenOver
    <2> QED BY <2>1 DEF Scanning, Fresh
  <1>8. CASE BodyCollected
    BY <1>a, <1>8 DEF BodyCollected, Return, Emit, GatewayInv, GatewayTypeOK, ResultWhenOver, Scanning, InFlight
  <1>9. CASE Frame
    BY <1>a, <1>9, FrameMoves DEF Frame, StreamMove, GatewayInv, GatewayTypeOK, ResultWhenOver, Scanning, InFlight
  <1>10. ASSUME NEW e \in {Transport("none"), Transport("timeout")}, StreamFails(e)
        PROVE  Scanning'
    BY <1>a, <1>10, StreamFailsMoves DEF StreamFails, StreamMove, GatewayInv, GatewayTypeOK, ResultWhenOver, Scanning, InFlight
  <1>11. CASE BodyEnds
    BY <1>a, <1>11, BodyEndsMoves DEF BodyEnds, StreamOver, StreamMove, GatewayInv, GatewayTypeOK, ResultWhenOver, Scanning, InFlight
  <1>12. CASE DropStream
    BY <1>a, <1>12, DropStreamMoves DEF DropStream, StreamOver, StreamMove, GatewayInv, GatewayTypeOK, ResultWhenOver, Scanning, InFlight
  <1>13. CASE CancelCall
    BY <1>a, <1>13 DEF CancelCall, GatewayInv, GatewayTypeOK, ResultWhenOver, Scanning, InFlight
  <1>14. CASE TimePasses
    BY <1>a, <1>14 DEF TimePasses, wireVars, GatewayInv, GatewayTypeOK, ResultWhenOver, Scanning, InFlight
  <1>15. CASE UNCHANGED gatewayVars
    BY <1>a, <1>15 DEF gatewayVars, callVars, wireVars, GatewayInv, GatewayTypeOK, ResultWhenOver, Scanning, InFlight
  <1> QED BY <1>1, <1>2, <1>3, <1>4, <1>5, <1>6, <1>7, <1>8, <1>9, <1>10, <1>11, <1>12, <1>13, <1>14, <1>15, GatewaySteps

\* A step of the stream reports no other attempt, and its own once at most.
LEMMA StreamReported ==
  ASSUME GatewayInv, gphase = "streaming", gphase' \in {"streaming", "returned"}, StreamMove
  PROVE  Unreported'
  <1>0. attempt \in Nat \ {0} /\ \A a \in Attempts : a \in Nat
    BY AttemptNumbers DEF GatewayInv, GatewayTypeOK
  <1>1. /\ attempt' = attempt /\ \A a \in Attempts : a # attempt => gevents'[a] = gevents[a]
        /\ scanner'.emitted => gevents'[attempt] = 1
        /\ ~scanner'.emitted => gevents'[attempt] = 0
    BY StreamMoveFacts
  <1>2. gevents'[attempt] <= 1
    BY <1>1
  <1>3. \A a \in Attempts : /\ gevents'[a] <= 1
                            /\ a > attempt => gevents'[a] = 0
                            /\ a < attempt => gevents'[a] = 1
    BY <1>0, <1>1, <1>2 DEF GatewayInv, Unreported
  <1> QED BY <1>1, <1>3 DEF Unreported, Early, Sent

\* No attempt is reported twice, and none before the present one is left out.
LEMMA UnreportedStep ==
  ASSUME GatewayInv, [GatewayNext]_gatewayVars
  PROVE  Unreported'
  <1>0. /\ attempt \in Nat \ {0} /\ gevents \in [Attempts -> Nat] /\ \A a \in Attempts : a \in Nat
        /\ gphase \in {"connecting", "sending"} \cup Sent => attempt \in Attempts
    BY AttemptNumbers DEF GatewayInv, GatewayTypeOK, WithinPolicy
  <1>1. CASE Configure
    BY <1>0, <1>1 DEF Configure, wireVars, GatewayInv, Scanning, Unreported, Early, Sent, InFlight
  <1>2. CASE LoopTop
    BY <1>0, <1>2 DEF LoopTop, Return, wireVars, GatewayInv, Scanning, Unreported, Early, Sent, InFlight
  <1>3. CASE Wake
    <2>1. /\ gphase = "sleeping" /\ gphase' = "loop" /\ attempt' = attempt + 1
          /\ UNCHANGED <<gevents, scanner>>
      BY <1>3 DEF Wake
    <2>2. scanner' = Fresh
      BY <2>1 DEF GatewayInv, Scanning
    <2>3. \A a \in Attempts : /\ a < attempt + 1 => a < attempt \/ a = attempt
                              /\ a > attempt + 1 => a > attempt
                              /\ a = attempt + 1 => a > attempt
      BY <1>0
    <2> QED BY <2>1, <2>2, <2>3 DEF GatewayInv, Unreported, Fresh, Early, Sent
  <1>4. CASE Connected
    BY <1>0, <1>4 DEF Connected, GatewayInv, Scanning, Unreported, Early, Sent, InFlight
  <1>5. CASE Queue
    BY <1>0, <1>5 DEF Queue, GatewayInv, Scanning, Unreported, Early, Sent, InFlight
  <1>6. CASE AttemptFails
    <2>1. /\ gphase' \in {"sleeping", "returned"} /\ attempt' = attempt
          /\ \A a \in Attempts : gevents'[a] = IF a = attempt THEN 1 ELSE gevents[a]
      BY <1>6, AttemptFailsFacts
    <2>2. \A a \in Attempts : /\ gevents'[a] <= 1
                              /\ a > attempt => gevents'[a] = 0
                              /\ a < attempt => gevents'[a] = 1
      BY <1>0, <2>1 DEF GatewayInv, Unreported
    <2>3. scanner' = Fresh /\ gevents'[attempt] = 1
      BY <1>6, <2>1, AttemptFailsFacts DEF GatewayInv, Scanning
    <2> QED BY <2>1, <2>2, <2>3 DEF Unreported, Early, Sent, Fresh
  <1>7. CASE ResponseHead
    <2>1. /\ ~scanner'.emitted /\ scanner'.way = "open" /\ gphase = "waiting"
          /\ gphase' \in {"body", "streaming", "error body"} /\ UNCHANGED <<attempt, gevents>>
      <3>1. /\ gphase = "waiting" /\ gphase' \in {"body", "streaming", "error body"}
            /\ UNCHANGED <<attempt, gevents, scanner>>
        BY <1>7, ResponseHeadFacts DEF GatewayInv
      <3>2. scanner = Fresh
        BY <3>1 DEF GatewayInv, Scanning
      <3> QED BY <3>1, <3>2 DEF Fresh
    <2> QED BY <2>1 DEF GatewayInv, Unreported, Early, Sent
  <1>8. CASE BodyCollected
    <2>1. /\ gphase = "body" /\ gphase' = "returned" /\ attempt' = attempt /\ scanner' = Fresh
          /\ attempt \in Attempts /\ gevents' = [gevents EXCEPT ![attempt] = gevents[attempt] + 1]
      BY <1>0, <1>8 DEF BodyCollected, Return, Emit, GatewayInv, Scanning, Sent
    <2>2. gevents[attempt] = 0
      BY <2>1 DEF GatewayInv, Unreported, Sent
    <2>3. \A a \in Attempts : gevents'[a] = IF a = attempt THEN 1 ELSE gevents[a]
      BY <1>0, <2>1, <2>2
    <2>4. \A a \in Attempts : /\ gevents'[a] <= 1
                              /\ a > attempt => gevents'[a] = 0
                              /\ a < attempt => gevents'[a] = 1
      BY <1>0, <2>3 DEF GatewayInv, Unreported
    <2> QED BY <2>1, <2>4 DEF Unreported, Early, Sent, Fresh
  <1>9. CASE Frame
    <2>1. StreamMove /\ gphase = "streaming" /\ gphase' = "streaming"
      BY <1>9, FrameMoves DEF Frame
    <2> QED BY <2>1, StreamReported
  <1>10. ASSUME NEW e \in {Transport("none"), Transport("timeout")}, StreamFails(e)
        PROVE  Unreported'
    <2>1. StreamMove /\ gphase = "streaming" /\ gphase' = "streaming"
      BY <1>10, StreamFailsMoves DEF StreamFails
    <2> QED BY <2>1, StreamReported
  <1>11. CASE BodyEnds
    <2>1. StreamMove /\ gphase = "streaming" /\ gphase' = "returned"
      BY <1>11, BodyEndsMoves DEF BodyEnds, StreamOver
    <2> QED BY <2>1, StreamReported
  <1>12. CASE DropStream
    <2>1. StreamMove /\ gphase = "streaming" /\ gphase' = "returned"
      BY <1>12, DropStreamMoves DEF DropStream, StreamOver
    <2> QED BY <2>1, StreamReported
  <1>13. CASE CancelCall
    BY <1>0, <1>13 DEF CancelCall, GatewayInv, Scanning, Unreported, Early, Sent, InFlight
  <1>14. CASE TimePasses
    BY <1>0, <1>14 DEF TimePasses, wireVars, GatewayInv, Scanning, Unreported, Early, Sent, InFlight
  <1>15. CASE UNCHANGED gatewayVars
    BY <1>0, <1>15 DEF gatewayVars, callVars, wireVars, GatewayInv, Scanning, Unreported, Early, Sent, InFlight
  <1> QED BY <1>1, <1>2, <1>3, <1>4, <1>5, <1>6, <1>7, <1>8, <1>9, <1>10, <1>11, <1>12, <1>13, <1>14, <1>15, GatewaySteps

\* The connection goes with its attempt, and no key leaves.
LEMMA NothingLeftStep ==
  ASSUME GatewayInv, [GatewayNext]_gatewayVars
  PROVE  NothingLeftBehind'
  <1>0. /\ \A e \in PromptErrors : e # NoError /\ e # Success
             /\ ChainText(e) \subseteq {"variant", "length", "status", "marker", "fixed"}
        /\ Transport("none") \in PromptErrors /\ Transport("timeout") \in PromptErrors
        /\ lastError \in PromptErrors \cup {NoError}
    BY ErrorFacts, TransportFacts DEF GatewayInv, GatewayTypeOK
  <1>a. /\ "x-app" \in BuildRequest(BeforeRequestHeaders(RigHeaders))
        /\ BuildRequest(BeforeRequestHeaders(RigHeaders)) \cap KeyShaped = {}
    BY DEF BuildRequest, BeforeRequestHeaders, RigHeaders, KeyShaped
  <1>1. CASE Configure
    BY <1>0, <1>a, <1>1 DEF Configure, wireVars, GatewayInv, GatewayTypeOK, NothingLeftBehind, InFlight
  <1>2. CASE LoopTop
    BY <1>0, <1>a, <1>2 DEF LoopTop, Return, wireVars, GatewayInv, GatewayTypeOK, NothingLeftBehind, InFlight
  <1>3. CASE Wake
    BY <1>0, <1>a, <1>3 DEF Wake, wireVars, GatewayInv, GatewayTypeOK, NothingLeftBehind, InFlight
  <1>4. CASE Connected
    BY <1>0, <1>a, <1>4 DEF Connected, GatewayInv, GatewayTypeOK, NothingLeftBehind, InFlight
  <1>5. CASE Queue
    BY <1>0, <1>a, <1>5 DEF Queue, GatewayInv, GatewayTypeOK, NothingLeftBehind, InFlight
  <1>6. CASE AttemptFails
    BY <1>0, <1>a, <1>6, AttemptFailsFacts DEF GatewayInv, GatewayTypeOK, NothingLeftBehind, InFlight
  <1>7. CASE ResponseHead
    BY <1>0, <1>a, <1>7, ResponseHeadFacts DEF GatewayInv, GatewayTypeOK, NothingLeftBehind, InFlight
  <1>8. CASE BodyCollected
    BY <1>0, <1>a, <1>8 DEF BodyCollected, Return, Emit, GatewayInv, GatewayTypeOK, NothingLeftBehind, InFlight
  <1>9. CASE Frame
    BY <1>0, <1>a, <1>9, FrameMoves DEF Frame, StreamMove, GatewayInv, GatewayTypeOK, NothingLeftBehind, InFlight
  <1>10. ASSUME NEW e \in {Transport("none"), Transport("timeout")}, StreamFails(e)
        PROVE  NothingLeftBehind'
    BY <1>0, <1>a, <1>10, StreamFailsMoves DEF StreamFails, StreamMove, GatewayInv, GatewayTypeOK, NothingLeftBehind, InFlight
  <1>11. CASE BodyEnds
    BY <1>0, <1>a, <1>11, BodyEndsMoves DEF BodyEnds, StreamOver, StreamMove, GatewayInv, GatewayTypeOK, NothingLeftBehind, InFlight
  <1>12. CASE DropStream
    BY <1>0, <1>a, <1>12, DropStreamMoves DEF DropStream, StreamOver, StreamMove, GatewayInv, GatewayTypeOK, NothingLeftBehind, InFlight
  <1>13. CASE CancelCall
    BY <1>0, <1>a, <1>13 DEF CancelCall, GatewayInv, GatewayTypeOK, NothingLeftBehind, InFlight
  <1>14. CASE TimePasses
    BY <1>0, <1>a, <1>14 DEF TimePasses, wireVars, GatewayInv, GatewayTypeOK, NothingLeftBehind, InFlight
  <1>15. CASE UNCHANGED gatewayVars
    BY <1>0, <1>a, <1>15 DEF gatewayVars, callVars, wireVars, GatewayInv, GatewayTypeOK, NothingLeftBehind, InFlight
  <1> QED BY <1>1, <1>2, <1>3, <1>4, <1>5, <1>6, <1>7, <1>8, <1>9, <1>10, <1>11, <1>12, <1>13, <1>14, <1>15, GatewaySteps

\* The invariant says of every attempt, and of a stream that is gone, what was told.
LEMMA ReportedFollows == GatewayInv => ReportedOnce
  <1> SUFFICES ASSUME GatewayInv PROVE ReportedOnce
    OBVIOUS
  <1>1. \A a \in Attempts : gevents[a] <= 1 /\ (a < attempt => gevents[a] = 1)
    BY DEF GatewayInv, Unreported
  <1>2. ASSUME scanner.way # "open"
        PROVE  /\ gevents[attempt] = IF scanner.emitted THEN 1 ELSE 0
               /\ scanner.emitted <=> scanner.way = "end of body" \/ scanner.ended \/ scanner.done
               /\ scanner.emitted => scanner.told = scanner.usage
    BY <1>2 DEF GatewayInv, WithinPolicy, Scanning, Unreported
  <1> QED BY <1>1, <1>2 DEF ReportedOnce

\* The types are kept, and the counter does not run past the policy.
LEMMA GatewayTypeStep ==
  ASSUME GatewayInv, [GatewayNext]_gatewayVars
  PROVE  GatewayTypeOK'
  <1>0. /\ RequestTimeout \in Nat /\ ConnectTimeout \in Nat /\ RetryAfters \subseteq Nat
        /\ \A m \in {"none", "timeout"} : Transport(m) \in PromptErrors
        /\ NoReply.status = 0 /\ NoReply.after = 0
    BY GatewayAssumption, TransportFacts DEF NoReply
  <1>n. /\ Cardinality(Attempts) \in Nat
        /\ \A a : a \in Attempts <=> a \in Nat \ {0} /\ a <= Cardinality(Attempts)
    BY AttemptNumbers
  <1>a. gphase \in {"connecting", "sending", "sleeping"} \cup Sent => attempt \in Attempts
    BY DEF GatewayInv, WithinPolicy
  <1>1. CASE Configure
    BY <1>0, <1>n, <1>a, <1>1 DEF Configure, wireVars, GatewayInv, GatewayTypeOK, InFlight, Sent, ResultWhenOver, Accounts
  <1>2. CASE LoopTop
    <2>1. timer' \in Nat
      BY <1>0, <1>2 DEF LoopTop, GatewayInv, GatewayTypeOK
    <2>2. gresult' \in PromptErrors \cup {NoError, Success} /\ gphase' \in {"returned", "connecting"}
      BY <1>0, <1>2 DEF LoopTop, Return, GatewayInv, GatewayTypeOK
    <2> QED BY <1>2, <2>1, <2>2 DEF LoopTop, wireVars, GatewayInv, GatewayTypeOK
  <1>3. CASE Wake
    BY <1>0, <1>n, <1>a, <1>3 DEF Wake, wireVars, GatewayInv, GatewayTypeOK, InFlight, Sent, ResultWhenOver, Accounts
  <1>4. CASE Connected
    BY <1>0, <1>n, <1>a, <1>4 DEF Connected, GatewayInv, GatewayTypeOK, InFlight, Sent, ResultWhenOver, Accounts
  <1>5. CASE Queue
    BY <1>0, <1>n, <1>a, <1>5 DEF Queue, GatewayInv, GatewayTypeOK, InFlight, Sent, ResultWhenOver, Accounts
  <1>6. CASE AttemptFails
    <2>1. gresult' \in PromptErrors \cup {NoError, Success}
      BY <1>6, AttemptFailsFacts DEF GatewayInv, GatewayTypeOK
    <2>2. reply'.status \in Statuses \cup {0} /\ reply'.after \in Nat
      <3>1. reply' = NoReply
        BY <1>6, AttemptFailsFacts
      <3> QED BY <1>0, <3>1
    <2>3. /\ closed' \subseteq queued' /\ refused' \subseteq queued' /\ queued' \subseteq Attempts
      <3>1. gphase = "error body" => attempt \in queued /\ attempt \in refused
        BY DEF GatewayInv, Accounts, Sent
      <3> QED BY <1>6, <3>1, AttemptFailsFacts DEF GatewayInv, GatewayTypeOK
    <2>4. attempt' \in Nat \ {0} /\ attempt' <= Cardinality(Attempts) + 1 /\ elapsed' \in Nat
      BY <1>6, AttemptFailsFacts DEF GatewayInv, GatewayTypeOK
    <2> QED BY <1>6, <2>1, <2>2, <2>3, <2>4, AttemptFailsFacts DEF GatewayInv, GatewayTypeOK
  <1>7. CASE ResponseHead
    BY <1>0, <1>n, <1>a, <1>7, ResponseHeadFacts DEF GatewayInv, GatewayTypeOK, InFlight, Sent, ResultWhenOver, Accounts
  <1>8. CASE BodyCollected
    <2>1. gphase = "body" /\ attempt \in Attempts
      BY <1>8, <1>a DEF BodyCollected, Sent
    <2>2. gevents' \in [Attempts -> Nat]
      BY <1>8, <2>1 DEF BodyCollected, Emit, GatewayInv, GatewayTypeOK
    <2>3. /\ closed' \subseteq queued' /\ refused' \subseteq queued' /\ queued' \subseteq Attempts
      BY <1>8, <2>1 DEF BodyCollected, GatewayInv, GatewayTypeOK, Accounts, Sent
    <2> QED BY <1>8, <2>2, <2>3 DEF BodyCollected, Return, GatewayInv, GatewayTypeOK
  <1>9. CASE Frame
    BY <1>0, <1>n, <1>a, <1>9, FrameMoves, StreamMoveFacts DEF Frame, StreamMove, GatewayInv, GatewayTypeOK, InFlight, Sent, ResultWhenOver, Accounts
  <1>10. ASSUME NEW e \in {Transport("none"), Transport("timeout")}, StreamFails(e)
        PROVE  GatewayTypeOK'
    BY <1>0, <1>n, <1>a, <1>10, StreamFailsMoves, StreamMoveFacts DEF StreamFails, StreamMove, GatewayInv, GatewayTypeOK, InFlight, Sent, ResultWhenOver, Accounts
  <1>11. CASE BodyEnds
    BY <1>0, <1>n, <1>a, <1>11, BodyEndsMoves, StreamMoveFacts DEF BodyEnds, StreamOver, StreamMove, GatewayInv, GatewayTypeOK, InFlight, Sent, ResultWhenOver, Accounts
  <1>12. CASE DropStream
    BY <1>0, <1>n, <1>a, <1>12, DropStreamMoves, StreamMoveFacts DEF DropStream, StreamOver, StreamMove, GatewayInv, GatewayTypeOK, InFlight, Sent, ResultWhenOver, Accounts
  <1>13. CASE CancelCall
    BY <1>0, <1>n, <1>a, <1>13 DEF CancelCall, GatewayInv, GatewayTypeOK, InFlight, Sent, ResultWhenOver, Accounts
  <1>14. CASE TimePasses
    <2>1. elapsed' \in Nat
      <3>1. elapsed \in Nat /\ elapsed' = elapsed + 1
        BY <1>14 DEF TimePasses, GatewayInv, GatewayTypeOK
      <3> QED BY <3>1
    <2> QED BY <1>14, <2>1 DEF TimePasses, wireVars, GatewayInv, GatewayTypeOK
  <1>15. CASE UNCHANGED gatewayVars
    BY <1>0, <1>n, <1>a, <1>15 DEF gatewayVars, callVars, wireVars, GatewayInv, GatewayTypeOK, InFlight, Sent, ResultWhenOver, Accounts
  <1> QED BY <1>1, <1>2, <1>3, <1>4, <1>5, <1>6, <1>7, <1>8, <1>9, <1>10, <1>11, <1>12, <1>13, <1>14, <1>15, GatewaySteps

\* A call that is not yet configured.
LEMMA GatewayInitInv == GatewayInit => GatewayInv
  <1> SUFFICES ASSUME GatewayInit PROVE GatewayInv
    OBVIOUS
  <1>1. 1 \in Attempts /\ Cardinality(Attempts) \in Nat /\ \A a \in Attempts : a \in Nat
    BY AttemptNumbers
  <1>2. GatewayTypeOK
    <2>1. reply.status = 0 /\ reply.after = 0
      BY DEF GatewayInit, NoReply
    <2>3. gevents \in [Attempts -> Nat] /\ elapsed \in Nat /\ timer \in Nat
      BY DEF GatewayInit
    <2>2. attempt \in Nat \ {0} /\ attempt <= Cardinality(Attempts) + 1
      BY <1>1 DEF GatewayInit
    <2> QED BY <2>1, <2>2, <2>3 DEF GatewayInit, GatewayTypeOK
  <1>3. Fresh \in Scanners /\ ~Fresh.emitted /\ Fresh.way = "open"
    BY DEF Fresh, Scanners
  <1>4. WithinPolicy /\ Accounts /\ ResultWhenOver /\ Scanning /\ NothingLeftBehind
    BY <1>1, <1>3 DEF GatewayInit, WithinPolicy, Accounts, ResultWhenOver, Scanning, NothingLeftBehind,
                      Early, Sent
  <1>5. Unreported
    <2>1. \A a \in Attempts : ~(a < attempt) /\ gevents[a] = 0
      BY AttemptNumbers DEF GatewayInit
    <2> QED BY <2>1 DEF GatewayInit, Unreported, Early, Sent, Fresh
  <1> QED BY <1>2, <1>4, <1>5 DEF GatewayInv

LEMMA GatewayInvAlways == GatewaySpec => []GatewayInv
  <1>1. GatewayInv /\ [GatewayNext]_gatewayVars => GatewayInv'
    <2> SUFFICES ASSUME GatewayInv, [GatewayNext]_gatewayVars PROVE GatewayInv'
      OBVIOUS
    <2>1. GatewayTypeOK' /\ WithinPolicy' /\ Accounts' /\ ResultWhenOver'
      BY GatewayTypeStep, WithinPolicyStep, AccountsStep, ResultStep
    <2>2. Scanning' /\ Unreported' /\ NothingLeftBehind'
      BY ScanningStep, UnreportedStep, NothingLeftStep
    <2> QED BY <2>1, <2>2 DEF GatewayInv
  <1> QED BY <1>1, GatewayInitInv, PTL DEF GatewaySpec

\* Whatever the policy and the timeouts, and wherever a call fails, is cancelled or
\* its stream is dropped: its connection goes with it, what left carried no key, and
\* its error shows nothing of a body or of the model.
THEOREM CallLeavesNothingBehind == GatewaySpec => []NothingLeftBehind
  <1>1. GatewayInv => NothingLeftBehind
    BY DEF GatewayInv
  <1> QED BY <1>1, GatewayInvAlways, PTL

\* Through any retries, every attempt before the present one has one completion event;
\* a stream that is gone has one, with the usage that was read, exactly when its body
\* ended, failed or idled out or its end was seen, and none when it was dropped before.
THEOREM AttemptsReportedOnce == GatewaySpec => []ReportedOnce
  BY ReportedFollows, GatewayInvAlways, PTL
-----------------------------------------------------------------------------
(* A call keeps CallPromise *)

\* What the caller is told, by the result.
LEMMA VerdictFacts ==
  /\ gresult = NoError => Verdict = "pending"
  /\ gresult = Success => Verdict = "settled"
  /\ gresult \in PromptErrors => Verdict \in {"settled", "unknown"}
  /\ gresult \in {Transport("none"), Transport("timeout")} => Verdict = "unknown"
  /\ gresult \in PromptErrors /\ FromPromptError(gresult) \notin {"Timeout", "Rig"} => Verdict = "settled"
  <1>1. NoError # Success
    BY DEF NoError, Success
  <1>2. \A e \in PromptErrors : e # NoError /\ e # Success
    BY ErrorFacts
  <1>3. /\ Transport("none") \in PromptErrors /\ Transport("timeout") \in PromptErrors
        /\ FromPromptError(Transport("none")) = "Rig" /\ FromPromptError(Transport("timeout")) = "Timeout"
    BY TransportFacts
  <1> QED BY <1>1, <1>2, <1>3 DEF Verdict

LEMMA VerdictFactsNext ==
  /\ gresult' = NoError => Verdict' = "pending"
  /\ gresult' = Success => Verdict' = "settled"
  /\ gresult' \in PromptErrors => Verdict' \in {"settled", "unknown"}
  /\ gresult' \in {Transport("none"), Transport("timeout")} => Verdict' = "unknown"
  /\ gresult' \in PromptErrors /\ FromPromptError(gresult') \notin {"Timeout", "Rig"} => Verdict' = "settled"
  <1>1. NoError # Success
    BY DEF NoError, Success
  <1>2. \A e \in PromptErrors : e # NoError /\ e # Success
    BY ErrorFacts
  <1>3. /\ Transport("none") \in PromptErrors /\ Transport("timeout") \in PromptErrors
        /\ FromPromptError(Transport("none")) = "Rig" /\ FromPromptError(Transport("timeout")) = "Timeout"
    BY TransportFacts
  <1> QED BY <1>1, <1>2, <1>3 DEF Verdict

LEMMA CallPromiseStart == GatewayInit => Promised!Init
  BY VerdictFacts DEF GatewayInit, Promised!Init, Request

\* What is open, by where the call is.
LEMMA RequestFacts ==
  ASSUME GatewayInv
  PROVE  /\ gphase \in Early \cup {"sleeping"} => Request = "none" /\ closed = queued
         /\ gphase \in Sent => /\ queued = closed \cup {attempt} /\ attempt \notin closed
                               /\ attempt \in refused <=> gphase = "error body"
         /\ gphase \in Sent \ {"error body"} => Request = "open"
         /\ gphase = "error body" => Request = "refused"
         /\ gphase \notin {"returned", "streaming"} => gresult = NoError
  <1>1. gphase \in Sent => /\ queued = closed \cup {attempt} /\ attempt \notin closed
                           /\ attempt \in refused <=> gphase = "error body"
    <2>1. attempt \in Nat
      BY DEF GatewayInv, GatewayTypeOK
    <2>2. ~(attempt < attempt)
      BY <2>1
    <2> QED BY <2>2 DEF GatewayInv, Accounts
  <1>2. gphase \in Early \cup {"sleeping"} => closed = queued
    BY DEF GatewayInv, Accounts
  <1>3. gphase \notin {"returned", "streaming"} => gresult = NoError
    BY DEF GatewayInv, ResultWhenOver
  <1>4. gphase \in Sent => queued # closed /\ queued \ closed = {attempt}
    BY <1>1
  <1>5. /\ gphase \in Sent \ {"error body"} => Request = "open"
        /\ gphase = "error body" => Request = "refused"
    BY <1>1, <1>4 DEF Request, Sent
  <1> QED BY <1>1, <1>2, <1>3, <1>5 DEF Request

\* Sending opens, the head of a refusal turns to its body, its end or a complete
\* success closes, and the call concludes once: settled only when nothing is open.
LEMMA CallPromiseStep ==
  ASSUME GatewayInv, [GatewayNext]_gatewayVars
  PROVE  Promised!PromiseNext \/ UNCHANGED <<Request, Verdict>>
  <1>b. UNCHANGED <<gresult, queued, closed, refused>> => UNCHANGED <<Request, Verdict>>
    BY DEF Request, Verdict
  <1>c. queued' = closed' => Request' = "none"
    BY DEF Request
  <1>1. CASE Configure \/ Wake \/ Connected \/ Frame \/ CancelCall \/ TimePasses \/ UNCHANGED gatewayVars
    <2>1. UNCHANGED <<gresult, queued, closed, refused>>
      BY <1>1 DEF Configure, Wake, Connected, Frame, Streamed, CancelCall, TimePasses,
                  gatewayVars, callVars, wireVars
    <2> QED BY <1>b, <2>1
  <1>2. CASE LoopTop
    <2>1. gresult = NoError /\ Request = "none" /\ UNCHANGED <<queued, closed, refused>>
      BY <1>2, RequestFacts DEF LoopTop, Early, wireVars
    <2>2. gresult' = gresult \/ gresult' \in PromptErrors
      BY <1>2, TransportFacts DEF LoopTop, Return, GatewayInv, GatewayTypeOK
    <2>3. CASE gresult' \in PromptErrors
      <3>1. Request' = Request /\ Verdict = "pending" /\ Verdict' \in {"settled", "unknown"}
        BY <2>1, <2>3, VerdictFacts, VerdictFactsNext DEF Request
      <3> QED BY <2>1, <3>1 DEF Promised!PromiseNext, Promised!Conclude
    <2> QED BY <1>b, <2>1, <2>2, <2>3
  <1>3. CASE Queue
    <2>1. /\ gresult = NoError /\ Request = "none" /\ closed = queued /\ gresult' = NoError
          /\ closed' = closed /\ refused' = refused /\ queued' = queued \cup {attempt}
      BY <1>3, RequestFacts DEF Queue, Early
    <2>2. attempt \notin queued /\ attempt \notin refused
      BY <1>3 DEF Queue, GatewayInv, GatewayTypeOK, Accounts, Early
    <2>3. Request' = "open"
      BY <2>1, <2>2 DEF Request
    <2> QED BY <2>1, <2>3, VerdictFacts, VerdictFactsNext DEF Promised!PromiseNext, Promised!Send
  <1>4. CASE ResponseHead
    <2>1. /\ gphase = "waiting" /\ UNCHANGED <<gresult, queued, closed>>
          /\ gphase' = "error body" => refused' = refused \cup {attempt}
          /\ gphase' # "error body" => refused' = refused
      BY <1>4, ResponseHeadFacts DEF GatewayInv
    <2>2. Request = "open" /\ queued = closed \cup {attempt} /\ attempt \notin closed
      BY <2>1, RequestFacts DEF Sent
    <2>3. CASE gphase' = "error body"
      <3>1. Request' = "refused" /\ Verdict' = Verdict
        BY <2>1, <2>2, <2>3 DEF Request, Verdict
      <3> QED BY <2>2, <3>1 DEF Promised!PromiseNext, Promised!Refuse
    <2> QED BY <1>b, <2>1, <2>3
  <1>5. CASE AttemptFails
    <2>1. PICK error \in PromptErrors :
            /\ AttemptEnds(error)
            /\ \/ gphase \in {"connecting", "sending"} /\ UNCHANGED closed
               \/ /\ gphase \in {"waiting", "error body", "body"} /\ gphase' = "returned"
                  /\ error \in {Transport("none"), Transport("timeout")} /\ UNCHANGED closed
               \/ /\ gphase = "error body" /\ closed' = closed \cup {attempt}
                  /\ FromPromptError(error) \notin {"Timeout", "Rig"}
      BY <1>5 DEF AttemptFails
    <2>2. gresult = NoError /\ UNCHANGED <<queued, refused>> /\ (gresult' = gresult \/ gresult' = error)
      BY <2>1, RequestFacts DEF AttemptEnds
    <2>3. Verdict = "pending"
      BY <2>2, VerdictFacts
    <2>4. CASE gphase \in {"connecting", "sending"} /\ UNCHANGED closed
      <3>1. Request = "none" /\ Request' = Request
        BY <2>2, <2>4, RequestFacts DEF Early, Request
      <3>2. CASE gresult' = error
        BY <2>3, <3>1, <3>2, VerdictFactsNext DEF Promised!PromiseNext, Promised!Conclude
      <3> QED BY <1>b, <2>2, <2>4, <3>2
    <2>5. CASE /\ gphase \in {"waiting", "error body", "body"} /\ gphase' = "returned"
               /\ error \in {Transport("none"), Transport("timeout")} /\ UNCHANGED closed
      <3>1. Request' = Request /\ gresult' = error
        <4>1. NoError \notin {Transport("none"), Transport("timeout")}
          BY DEF NoError, Transport
        <4> QED BY <2>1, <2>2, <2>5, <4>1 DEF AttemptEnds, Request
      <3>2. Verdict' = "unknown"
        BY <2>5, <3>1, VerdictFactsNext
      <3> QED BY <2>3, <3>1, <3>2 DEF Promised!PromiseNext, Promised!Conclude
    <2>6. CASE /\ gphase = "error body" /\ closed' = closed \cup {attempt}
               /\ FromPromptError(error) \notin {"Timeout", "Rig"}
      <3>1. Request = "refused" /\ Request' = "none"
        BY <1>c, <2>2, <2>6, RequestFacts DEF Sent
      <3>2. Verdict' = Verdict \/ Verdict' = "settled"
        BY <2>2, <2>6, VerdictFacts, VerdictFactsNext
      <3> QED BY <3>1, <3>2 DEF Promised!PromiseNext, Promised!Close
    <2> QED BY <2>1, <2>4, <2>5, <2>6
  <1>6. CASE BodyCollected
    <2>1. Request = "open" /\ queued' = closed' /\ gresult' = Success
      BY <1>6, RequestFacts DEF BodyCollected, Return, Sent
    <2> QED BY <1>c, <2>1, VerdictFactsNext DEF Promised!PromiseNext, Promised!Answer
  <1>7. ASSUME NEW e \in {Transport("none"), Transport("timeout")}, StreamFails(e)
        PROVE  Promised!PromiseNext
    <2>1. /\ gphase = "streaming" /\ ~scanner.ended /\ gresult' = e /\ UNCHANGED <<queued, closed, refused>>
      BY <1>7 DEF StreamFails, Streamed
    <2>2. gresult = NoError /\ Request' = Request
      BY <2>1 DEF GatewayInv, Scanning, Request
    <2>3. Verdict = "pending" /\ Verdict' = "unknown"
      BY <2>1, <2>2, VerdictFacts, VerdictFactsNext
    <2> QED BY <2>2, <2>3 DEF Promised!PromiseNext, Promised!Conclude
  <1>8. CASE BodyEnds \/ DropStream
    <2>1. gphase = "streaming" /\ UNCHANGED <<queued, refused>> /\ \E b \in BOOLEAN : StreamOver(b)
      <3>1. scanner.done \in BOOLEAN
        BY DEF GatewayInv, Scanning, Scanners
      <3> QED BY <1>8, <3>1 DEF BodyEnds, DropStream, Streamed
    <2>2. Request = "open" /\ queued = closed \cup {attempt}
      BY <2>1, RequestFacts DEF Sent
    <2>3. \/ UNCHANGED <<gresult, closed>>
          \/ gresult' = Success /\ closed' = closed \cup {attempt}
      BY <2>1 DEF StreamOver
    <2>4. CASE gresult' = Success /\ closed' = closed \cup {attempt}
      BY <1>c, <2>1, <2>2, <2>4, VerdictFactsNext DEF Promised!PromiseNext, Promised!Answer
    <2> QED BY <1>b, <2>1, <2>3, <2>4
  <1> QED BY <1>1, <1>2, <1>3, <1>4, <1>5, <1>6, <1>7, <1>8, GatewaySteps

\* For every retry policy, deadline and reply: a request goes out again only after a
\* status refused the one before and the refusal's body was over, whole or cut off,
\* before the deadline; and a call that ends in anything but Timeout or Rig has no
\* request without such an answer.
THEOREM CallKeepsPromise == GatewaySpec => KeepsCallPromise
  <1>1. GatewayInv /\ [GatewayNext]_gatewayVars => [Promised!PromiseNext]_<<Request, Verdict>>
    BY CallPromiseStep
  <1> QED BY <1>1, CallPromiseStart, GatewayInvAlways, PTL
          DEF GatewaySpec, KeepsCallPromise, Promised!PromiseSpec, Promised!PromiseVars
=============================================================================
