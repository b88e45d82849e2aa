----------------------------- MODULE SecretStore -----------------------------
(* cja-secret over setec: boot fetches every declared secret or fails, then  *)
(* refreshers keep the handles current until shutdown leaves the tailnet.    *)
(* Several refreshes may run at once: the Refresher is Clone and refresh is  *)
(* public. The setec server is external.                                     *)
EXTENDS Tailnet, FiniteSets

CONSTANTS
  Names, Optional,          \* the declared secrets, those with an Option type
  Refreshers, Loop,         \* concurrent callers of refresh; Loop is Refresher::run
  Borrowers,                \* other clients of the node (cja-llm)
  MaxVersion, Unparseable,  \* versions setec may activate, those that do not parse
  MaxChanges,               \* bound on administrators' changes and network faults
  BootTimeout, InitialWait, MaxWait

ASSUME SecretAssumption ==
  /\ Optional \subseteq Names /\ Loop \in Refreshers
  /\ Dialers = Refreshers \cup Borrowers
  /\ {MaxChanges, BootTimeout, InitialWait, MaxWait} \subseteq Nat
  /\ MaxVersion \in Nat \ {0} /\ InitialWait <= MaxWait
  /\ Unparseable \subseteq 1..MaxVersion

VARIABLES
  active, denied, changes,  \* setec: the active version of each secret (0: none), grants
  store,                    \* connect and load
  fetch, bclock,            \* each secret's fetch_at_boot, and the time since load
  value, version,           \* each Entry: the watch channel's value and the version
  pass,                     \* each refresh in progress
  cancelled, loopOver

setecVars == <<active, denied, changes>>
bootstrap == <<store, fetch, bclock>>
entries == <<value, version>>
secretVars == <<setecVars, bootstrap, entries, pass, cancelled, loopOver, tailnetVars>>

Resting == [step |-> "idle", todo |-> {}, name |-> "none", known |-> 0, answer |-> 0]

SecretInit ==
  /\ active \in [Names -> 0..1] /\ denied \in {{}} \cup {{n} : n \in Names} /\ changes = 0
  /\ store = "config"
  /\ fetch = [n \in Names |-> [state |-> "asking", wait |-> InitialWait, until |-> 0]]
  /\ bclock = 0
  /\ value = [n \in Names |-> 0] /\ version = [n \in Names |-> 0]
  /\ pass = [r \in Refreshers |-> Resting]
  /\ cancelled = FALSE /\ loopOver = FALSE
  /\ \E transport \in {"none", "joining"} : TailnetInit(transport)
-----------------------------------------------------------------------------
(* setec *)

\* Client::create_version, activate and delete by an administrator; grants change
\* in the tailnet policy.
Administer ==
  /\ store \in {"loading", "loaded"} /\ changes < MaxChanges /\ changes' = changes + 1
  /\ \E n \in Names :
       \/ /\ \E v \in 0..MaxVersion : v # active[n] /\ active' = [active EXCEPT ![n] = v]
          /\ UNCHANGED denied
       \/ /\ denied' = IF n \in denied THEN denied \ {n} ELSE denied \cup {n}
          /\ UNCHANGED active
  /\ UNCHANGED <<bootstrap, entries, pass, cancelled, loopOver, tailnetVars>>

\* Client::call: what a status is to the caller.
StatusError(status) ==
  CASE status = 404 -> "NotFound"
    [] status = 403 -> "AccessDenied"
    [] status = 412 -> "VersionClaimed"
    [] status = 400 -> "InvalidRequest"
    [] OTHER -> IF status >= 500 THEN "Server" ELSE "Refused"

\* Error::is_retryable: no response, or a server error.
IsRetryable(error) == error \in {"Transport", "Server"}

\* What setec has to say about n now; a request may also break on the way, or a
\* proxy answer it.
Verdicts(n) ==
  IF n \in denied THEN {StatusError(403)}
  ELSE IF active[n] = 0 THEN {StatusError(404)}
  ELSE {"value"}

Mishaps == {"Transport", "Decode"} \cup {StatusError(s) : s \in {400, 500}}
-----------------------------------------------------------------------------
(* Boot *)

\* SetecConfig::from_env, with TailnetConfig::from_env for the tailnet transport; a
\* number of seconds may be garbled in either.
Configured ==
  /\ store = "config"
  /\ \E server \in {"url", "unset", "garbled"}, secs \in {"unset", "whole", "garbled"},
        set \in SUBSET TailnetEnv, provider \in {"gcp", "other"} :
       store' = IF /\ server = "url" /\ secs # "garbled"
                   /\ node = "joining" => TailnetConfigured(set, provider)
                THEN "joining" ELSE "failed"
  /\ UNCHANGED <<setecVars, fetch, bclock, entries, pass, cancelled, loopOver, tailnetVars>>

\* connect: with the tailnet transport the node joins first.
Join ==
  /\ store = "joining" /\ (JoinOn \/ JoinFails)
  /\ UNCHANGED <<setecVars, bootstrap, entries, pass, cancelled, loopOver>>

Connect ==
  /\ store = "joining" /\ node \in {"none", "up", "failed"}
  /\ store' = IF node = "failed" THEN "failed" ELSE "loading"
  /\ UNCHANGED <<setecVars, fetch, bclock, entries, pass, cancelled, loopOver, tailnetVars>>

\* The first failed declare ends load, and try_join drops the others.
LoadFails == store' = "failed" /\ UNCHANGED <<fetch, entries>>

Have(n, state) == fetch' = [fetch EXCEPT ![n].state = state] /\ UNCHANGED store

\* The end of an attempt of fetch_at_boot, with declare or declare_optional and
\* track on top of it.
Fetched(n) ==
  /\ store = "loading" /\ fetch[n].state = "asking"
  /\ \E got \in Verdicts(n) \cup Mishaps :
       \/ got = "value" /\ active[n] \notin Unparseable /\ Have(n, "tracked")
          /\ value' = [value EXCEPT ![n] = active[n]]
          /\ version' = [version EXCEPT ![n] = active[n]]
       \/ got = "value" /\ active[n] \in Unparseable /\ LoadFails
       \/ got = "NotFound" /\ n \in Optional /\ Have(n, "absent") /\ UNCHANGED entries
       \/ got # "value" /\ ~IsRetryable(got) /\ ~(got = "NotFound" /\ n \in Optional) /\ LoadFails
       \/ /\ IsRetryable(got) /\ bclock + fetch[n].wait < BootTimeout
          /\ fetch' = [fetch EXCEPT ![n] = [state |-> "sleeping", wait |-> @.wait,
                                            until |-> bclock + @.wait]]
          /\ UNCHANGED <<store, entries>>
       \/ IsRetryable(got) /\ bclock + fetch[n].wait >= BootTimeout /\ LoadFails
  /\ UNCHANGED <<setecVars, bclock, pass, cancelled, loopOver, tailnetVars>>

\* The sleep is over and the next one twice as long.
FetchAgain(n) ==
  /\ store = "loading" /\ fetch[n].state = "sleeping" /\ bclock >= fetch[n].until
  /\ fetch' = [fetch EXCEPT ![n] = [state |-> "asking", until |-> 0,
                  wait |-> IF @.wait * 2 < MaxWait THEN @.wait * 2 ELSE MaxWait]]
  /\ UNCHANGED <<setecVars, store, bclock, entries, pass, cancelled, loopOver, tailnetVars>>

\* timeout_at: the request in progress is dropped at the deadline.
BootTimesOut(n) ==
  /\ store = "loading" /\ fetch[n].state = "asking" /\ bclock >= BootTimeout
  /\ LoadFails
  /\ UNCHANGED <<setecVars, bclock, pass, cancelled, loopOver, tailnetVars>>

BootTick ==
  /\ store = "loading" /\ bclock < BootTimeout
  /\ \A n \in Names : fetch[n].state = "sleeping" => bclock < fetch[n].until
  /\ bclock' = bclock + 1
  /\ UNCHANGED <<setecVars, store, fetch, entries, pass, cancelled, loopOver, tailnetVars>>

Tracked == {n \in Names : fetch[n].state = "tracked"}

Loaded ==
  /\ store = "loading" /\ \A n \in Names : fetch[n].state \in {"tracked", "absent"}
  /\ store' = "loaded"
  /\ fetch' = [n \in Names |-> [state |-> fetch[n].state, wait |-> 0, until |-> 0]]
  /\ bclock' = 0
  /\ UNCHANGED <<setecVars, entries, pass, cancelled, loopOver, tailnetVars>>
-----------------------------------------------------------------------------
(* Refresh *)

At(r, step) == store = "loaded" /\ pass[r].step = step
Move(r, step) == pass' = [pass EXCEPT ![r].step = step]
Advance(r) == pass' = [pass EXCEPT ![r] = [Resting EXCEPT !.step = "next", !.todo = pass[r].todo]]
Quiet == UNCHANGED <<setecVars, bootstrap, cancelled, loopOver>>

\* A tick of Refresher::run, or a call of refresh.
Refresh(r) ==
  /\ At(r, "idle") /\ (r = Loop => ~loopOver)
  /\ pass' = [pass EXCEPT ![r] = [Resting EXCEPT !.step = "next", !.todo = Tracked]]
  /\ Quiet /\ UNCHANGED <<entries, tailnetVars>>

PassEnds(r) ==
  /\ At(r, "next") /\ pass[r].todo = {}
  /\ pass' = [pass EXCEPT ![r] = Resting]
  /\ Quiet /\ UNCHANGED <<entries, tailnetVars>>

\* refresh_one reads the known version and asks; on the host's network there is no
\* node to go through.
AskSetec(r) ==
  /\ At(r, "next")
  /\ \E n \in pass[r].todo :
       pass' = [pass EXCEPT ![r] = [step |-> "asking", todo |-> @.todo \ {n}, name |-> n,
                                    known |-> version[n], answer |-> 0]]
  /\ IF node = "none"
     THEN dial' = [dial EXCEPT ![r] = "open"] /\ UNCHANGED <<node, joinStep, lockQueue, readers>>
     ELSE QueueDial(r)
  /\ Quiet /\ UNCHANGED entries

\* get_if_changed is answered: unchanged, a value, or an error that is only logged.
Answered(r) ==
  /\ At(r, "asking") /\ dial[r] = "open"
  /\ LET n == pass[r].name
         step == IF active[n] = pass[r].known THEN "marking" ELSE "applying"
     IN IF Verdicts(n) = {"value"}
        THEN pass' = [pass EXCEPT ![r].step = step, ![r].answer = active[n]]
        ELSE Advance(r)
  /\ DialEnds(r, "idle")
  /\ Quiet /\ UNCHANGED entries

AskFails_EndsLoop(r) ==
  /\ At(r, "asking") /\ dial[r] \in {"refused", "failed"}
  /\ pass' = [pass EXCEPT ![r] = Resting] /\ loopOver' = TRUE
  /\ DialEnds(r, "idle")
  /\ UNCHANGED <<setecVars, bootstrap, cancelled, entries>>

\* The dial was refused or broke.
AskFails(r) ==
  /\ At(r, "asking") /\ dial[r] \in {"refused", "failed"}
  /\ Advance(r)
  /\ DialEnds(r, "idle")
  /\ Quiet /\ UNCHANGED entries

\* The network fails a request: REQUEST_TIMEOUT passes, or the answer breaks.
AskBreaks(r) ==
  /\ At(r, "asking")
  /\ changes < MaxChanges /\ changes' = changes + 1
  /\ Advance(r)
  /\ DialEnds(r, "idle")
  /\ UNCHANGED <<active, denied, bootstrap, cancelled, loopOver, entries>>

ReplaceValue_Unparsed(r) ==
  /\ At(r, "applying")
  /\ Move(r, "storing") /\ value' = [value EXCEPT ![pass[r].name] = pass[r].answer]
  /\ Quiet /\ UNCHANGED <<version, tailnetVars>>

\* Entry::apply: parse, then the channel, then the version; a value that does not
\* parse leaves both.
ReplaceValue(r) ==
  /\ At(r, "applying")
  /\ IF pass[r].answer \in Unparseable THEN Advance(r) /\ UNCHANGED value
     ELSE Move(r, "storing") /\ value' = [value EXCEPT ![pass[r].name] = pass[r].answer]
  /\ Quiet /\ UNCHANGED <<version, tailnetVars>>

StoreVersion(r) ==
  /\ At(r, "storing")
  /\ version' = [version EXCEPT ![pass[r].name] = pass[r].answer]
  /\ Move(r, "marking")
  /\ Quiet /\ UNCHANGED <<value, tailnetVars>>

\* mark_checked: setec confirmed this value.
MarkChecked(r) ==
  /\ At(r, "marking")
  /\ Advance(r)
  /\ Quiet /\ UNCHANGED <<entries, tailnetVars>>
-----------------------------------------------------------------------------
(* Shutdown and the borrowers of the node *)

CancelToken ==
  /\ store = "loaded" /\ ~cancelled /\ cancelled' = TRUE
  /\ UNCHANGED <<setecVars, bootstrap, entries, pass, loopOver, tailnetVars>>

LoopStops_StaysJoined ==
  /\ At(Loop, "idle") /\ cancelled /\ ~loopOver
  /\ loopOver' = TRUE
  /\ UNCHANGED <<setecVars, bootstrap, entries, pass, cancelled, tailnetVars>>

\* The loop sees the token between two refreshes, never within one, and leaves the
\* tailnet before it returns.
LoopStops ==
  /\ At(Loop, "idle") /\ cancelled /\ ~loopOver
  /\ loopOver' = TRUE
  /\ IF node = "none" THEN UNCHANGED tailnetVars ELSE AskShutdown
  /\ UNCHANGED <<setecVars, bootstrap, entries, pass, cancelled>>

Borrow(b) ==
  /\ store = "loaded" /\ node # "none"
  /\ QueueDial(b) \/ DropDial(b)
  /\ UNCHANGED <<setecVars, bootstrap, entries, pass, cancelled, loopOver>>

NodeStep ==
  /\ store = "loaded"
  /\ TakeDevice \/ Left \/ \E d \in Dialers : DialStep(d)
  /\ UNCHANGED <<setecVars, bootstrap, entries, pass, cancelled, loopOver>>

NodeFault ==
  /\ store = "loaded" /\ changes < MaxChanges /\ changes' = changes + 1
  /\ \E d \in Dialers : DialFails(d)
  /\ UNCHANGED <<active, denied, bootstrap, entries, pass, cancelled, loopOver>>

PassStep(r) ==
  \/ PassEnds(r) \/ AskSetec(r) \/ Answered(r) \/ AskFails(r)
  \/ ReplaceValue(r) \/ StoreVersion(r) \/ MarkChecked(r)

SecretNext ==
  \/ Administer \/ Configured \/ Join \/ Connect \/ BootTick \/ Loaded
  \/ \E n \in Names : Fetched(n) \/ FetchAgain(n) \/ BootTimesOut(n)
  \/ \E r \in Refreshers : Refresh(r) \/ PassStep(r) \/ AskBreaks(r)
  \/ CancelToken \/ LoopStops \/ NodeStep \/ NodeFault \/ \E b \in Borrowers : Borrow(b)

SecretSpec == SecretInit /\ [][SecretNext]_secretVars

\* The loop polls and sees its token, dials end, and the network fails only so
\* often.
SecretFairness ==
  /\ WF_secretVars(Refresh(Loop)) /\ WF_secretVars(PassStep(Loop)) /\ SF_secretVars(LoopStops)
  /\ WF_secretVars(NodeStep /\ (TakeDevice \/ Left))
  /\ \A d \in Dialers : WF_secretVars(NodeStep /\ DialStep(d))
-----------------------------------------------------------------------------
(* Properties *)

SecretTypeOK ==
  /\ TailnetTypeOK
  /\ active \in [Names -> 0..MaxVersion] /\ denied \subseteq Names /\ changes \in 0..MaxChanges
  /\ store \in {"config", "joining", "loading", "loaded", "failed"}
  /\ \A n \in Names : fetch[n].state \in {"asking", "sleeping", "tracked", "absent"}
                      /\ fetch[n].wait \in 0..MaxWait
  /\ bclock \in 0..BootTimeout
  /\ value \in [Names -> 0..MaxVersion] /\ version \in [Names -> 0..MaxVersion]
  /\ \A r \in Refreshers :
       pass[r].step \in {"idle", "next", "asking", "applying", "storing", "marking"}
  /\ cancelled \in BOOLEAN /\ loopOver \in BOOLEAN

Secrets(n) == value[n] # 0 /\ value[n] \notin Unparseable

\* load hands back all or nothing: every required secret has a value that parsed,
\* an optional one is missing only when setec said so at boot, and whatever setec
\* does afterwards no handle is ever left without its last good value.
LoadedWhole ==
  store = "loaded" => \A n \in Names : IF n \in Tracked THEN Secrets(n)
                                       ELSE n \in Optional /\ fetch[n].state = "absent"

\* A handle holds the value of the version it reports whenever no refresh is
\* between the two assignments of apply: setec is asked about the version, so a
\* value behind it would never be replaced.
ValueMatchesVersion ==
  \A n \in Names :
    (\A r \in Refreshers : pass[r].name = n => pass[r].step # "storing") => value[n] = version[n]

\* A handle catches up with setec for as long as the loop runs, the grant stands and
\* the active version parses, through outages, refusals and bad versions.
CatchesUp ==
  \A n \in Names :
    (store = "loaded" /\ n \in Tracked) ~>
      (value[n] = active[n] \/ active[n] \in Unparseable \cup {0} \/ n \in denied \/ cancelled)

\* A cancelled token takes the node off the tailnet, although the loop finishes its
\* refresh first and borrowers keep dialling; and no dial is under way by then.
LeavesTailnet ==
  /\ cancelled ~> (loopOver /\ node \in {"none", "gone"})
  /\ [](node \in {"leaving", "gone"} => readers = {})
=============================================================================
