-------------------------------- MODULE SignIn --------------------------------
(* Sessions in private cookies (cja server/session.rs) and passkey sign-in   *)
(* on top of them (cja-passkey): requests of several browsers run at the     *)
(* same time, each handler a sequence of database statements that may fail   *)
(* in between. webauthn-rs, the authenticators and Postgres are external.    *)
EXTENDS Naturals, FiniteSets

CONSTANTS
  Browsers, Requests,     \* clients, and handlers that may run at once
  Usernames,
  MaxSessions, MaxNonces, \* bounds on sessions and on challenges
  MaxSignatures           \* bound on what one authenticator signs

ASSUME SignInAssumption == {MaxSessions, MaxNonces, MaxSignatures} \subseteq Nat

VARIABLES
  cookie,      \* the session each browser's private cookie names, 0 for none
  sessions,    \* rows: exists, user_id and challenge_state
  accounts,    \* passkey_users: username to user_id, 0 for none
  credentials, \* passkey_credentials: the signature counter per credential_id
  signatures,  \* each authenticator's own counter
  offered,     \* the challenge each browser has to answer
  handler,     \* each request being handled
  nonces,      \* challenges made so far
  spent        \* challenges a finish answered with 200

signInVars == <<cookie, sessions, accounts, credentials, signatures, offered, handler, nonces, spent>>

Sids == 1..MaxSessions
Ids == 1..MaxNonces      \* a registration's challenge number is its user_id and credential_id
NoChallenge == [kind |-> "none", nonce |-> 0, user |-> 0, username |-> "none"]
Free == [step |-> "free", browser |-> "none", kind |-> "none", sid |-> 0, fresh |-> FALSE,
         challenge |-> NoChallenge, nonce |-> 0, cred |-> 0, count |-> 0, stored |-> 0]

SignInInit ==
  /\ cookie = [b \in Browsers |-> 0]
  /\ sessions = [s \in Sids |-> [exists |-> FALSE, user |-> 0, challenge |-> NoChallenge]]
  /\ accounts = [u \in Usernames |-> 0]
  /\ credentials = [c \in Ids |-> [exists |-> FALSE, count |-> 0]]
  /\ signatures = [c \in Ids |-> 0]
  /\ offered = [b \in Browsers |-> NoChallenge]
  /\ handler = [r \in Requests |-> Free]
  /\ nonces = 0 /\ spent = {}
-----------------------------------------------------------------------------
(* The Session extractor *)

\* The tables passkey_users and passkey_credentials. A name is taken, a user has
\* credentials, a credential is known.
UsernameExists(name) == accounts[name] # 0
ListForUser(user) == {c \in Ids : c = user /\ credentials[c].exists}
FindByCredentialId(c) == credentials[c].exists

CreateUser(user, name) == accounts' = [accounts EXCEPT ![name] = user]
CreateCredential(c) == credentials' = [credentials EXCEPT ![c] = [exists |-> TRUE, count |-> 0]]
UpdateAfterAuth(c, count) == credentials' = [credentials EXCEPT ![c].count = count]

NextSid == Cardinality({s \in Sids : sessions[s].exists}) + 1

FromDb(sid) == sessions[sid]

\* No cookie, one that another key sealed, no uuid in it, or no row to read: any of
\* these makes a new session, whose cookie goes out with the response. Otherwise the
\* row is read once, before the handler runs.
Extract(r, b, next) ==
  \/ /\ cookie[b] # 0
     /\ handler' = [handler EXCEPT ![r] = [next EXCEPT !.sid = cookie[b],
                                                       !.challenge = FromDb(cookie[b]).challenge]]
     /\ UNCHANGED sessions
  \/ /\ NextSid \in Sids
     /\ sessions' = [sessions EXCEPT ![NextSid].exists = TRUE]
     /\ handler' = [handler EXCEPT ![r] = [next EXCEPT !.sid = NextSid, !.fresh = TRUE]]

\* A browser calls register::start, auth::start or start_discoverable.
AskStart(r, b) ==
  /\ handler[r].step = "free"
  /\ \E kind \in {"registration", "authentication", "discoverable"} :
       Extract(r, b, [Free EXCEPT !.step = "starting", !.browser = b, !.kind = kind])
  /\ UNCHANGED <<cookie, accounts, credentials, signatures, offered, nonces, spent>>

\* A browser answers the challenge it has with an authenticator it has; an answer to
\* a registration makes the credential.
AskFinish(r, b) ==
  /\ handler[r].step = "free" /\ offered[b].kind # "none"
  /\ \E cred \in Ids :
       /\ offered[b].kind = "registration" => cred = offered[b].user
       /\ offered[b].kind = "authentication" => cred = offered[b].user
       /\ offered[b].kind = "discoverable" => signatures[cred] # 0
       /\ signatures[cred] < MaxSignatures
       /\ signatures' = [signatures EXCEPT ![cred] = @ + 1]
       /\ Extract(r, b, [Free EXCEPT !.step = "finishing", !.browser = b, !.kind = offered[b].kind,
                                     !.nonce = offered[b].nonce, !.cred = cred,
                                     !.count = signatures[cred]])
  /\ UNCHANGED <<cookie, accounts, credentials, offered, nonces, spent>>
-----------------------------------------------------------------------------
(* The handlers *)

\* The response goes out, with 200 or an error, and with the cookie of a new session.
Respond(r) ==
  /\ handler' = [handler EXCEPT ![r] = Free]
  /\ cookie' = IF handler[r].fresh THEN [cookie EXCEPT ![handler[r].browser] = handler[r].sid]
               ELSE cookie

Fails(r) ==
  /\ handler[r].step # "free"
  /\ Respond(r)
  /\ UNCHANGED <<sessions, accounts, credentials, signatures, offered, nonces, spent>>

\* start: register refuses a blank or a taken name, authentication a name without
\* credentials; the challenge then replaces the session's.
Challenge(kind, name) ==
  [kind |-> kind, nonce |-> nonces + 1, username |-> IF kind = "discoverable" THEN "none" ELSE name,
   user |-> CASE kind = "registration" -> nonces + 1
              [] kind = "authentication" -> accounts[name]
              [] OTHER -> 0]

Start(r) ==
  /\ handler[r].step = "starting" /\ nonces < MaxNonces
  /\ \E name \in Usernames :
       /\ handler[r].kind = "registration" => ~UsernameExists(name)
       /\ handler[r].kind = "authentication" => ListForUser(accounts[name]) # {}
       /\ LET made == Challenge(handler[r].kind, name)
          IN /\ sessions' = [sessions EXCEPT ![handler[r].sid].challenge = made]
             /\ offered' = [offered EXCEPT ![handler[r].browser] = made]
  /\ nonces' = nonces + 1
  /\ Respond(r)
  /\ UNCHANGED <<accounts, credentials, signatures, spent>>

\* finish: the challenge read with the session must be of this ceremony and be the
\* one that was answered.
Matches(r) ==
  /\ handler[r].challenge.kind = handler[r].kind
  /\ handler[r].challenge.nonce = handler[r].nonce

Onward(r, step) == handler' = [handler EXCEPT ![r].step = step]

Register_Halves(r) ==
  /\ handler[r].step = "finishing" /\ handler[r].kind = "registration" /\ Matches(r)
  /\ accounts[handler[r].challenge.username] = 0
  /\ accounts' = [accounts EXCEPT ![handler[r].challenge.username] = handler[r].challenge.user]
  /\ Respond(r)
  /\ UNCHANGED <<sessions, credentials, signatures, offered, nonces, spent>>

\* register::finish: user and credential in one transaction. A name that was taken
\* in the meantime is CONFLICT.
Register(r) ==
  /\ handler[r].step = "finishing" /\ handler[r].kind = "registration" /\ Matches(r)
  /\ LET made == handler[r].challenge
     IN IF UsernameExists(made.username) \/ FindByCredentialId(handler[r].cred)
        THEN Respond(r) /\ UNCHANGED <<accounts, credentials>>
        ELSE /\ CreateUser(made.user, made.username) /\ CreateCredential(handler[r].cred)
             /\ handler' = [handler EXCEPT ![r].step = "signing in", ![r].stored = made.user]
             /\ UNCHANGED cookie
  /\ UNCHANGED <<sessions, signatures, offered, nonces, spent>>

\* auth::finish and finish_discoverable: the credential's row, and it must belong to
\* the user of the challenge or of the answer.
FindCredential(r) ==
  /\ handler[r].step = "finishing" /\ handler[r].kind # "registration" /\ Matches(r)
  /\ FindByCredentialId(handler[r].cred)
  /\ handler[r].kind = "authentication" => handler[r].cred = handler[r].challenge.user
  /\ handler' = [handler EXCEPT ![r].step = "persisting",
                                ![r].stored = credentials[handler[r].cred].count]
  /\ UNCHANGED <<cookie, sessions, accounts, credentials, signatures, offered, nonces, spent>>

\* persist_authenticated_credential: the row read before is written back with the
\* answer's counter if that is higher than the one it had.
Persist(r) ==
  /\ handler[r].step = "persisting"
  /\ IF handler[r].count > handler[r].stored
     THEN UpdateAfterAuth(handler[r].cred, handler[r].count)
     ELSE UNCHANGED credentials
  /\ handler' = [handler EXCEPT ![r].step = "signing in", ![r].stored = handler[r].cred]
  /\ UNCHANGED <<cookie, sessions, accounts, signatures, offered, nonces, spent>>

SetUserId(r) ==
  /\ handler[r].step = "signing in"
  /\ sessions' = [sessions EXCEPT ![handler[r].sid].user = handler[r].stored]
  /\ Onward(r, "clearing")
  /\ UNCHANGED <<cookie, accounts, credentials, signatures, offered, nonces, spent>>

ClearChallenge_Kept(r) ==
  /\ handler[r].step = "clearing"
  /\ spent' = spent \cup {handler[r].nonce}
  /\ Respond(r)
  /\ UNCHANGED <<sessions, accounts, credentials, signatures, offered, nonces>>

\* clear_challenge_state clears whatever is there by now.
ClearChallenge(r) ==
  /\ handler[r].step = "clearing"
  /\ sessions' = [sessions EXCEPT ![handler[r].sid].challenge = NoChallenge]
  /\ spent' = spent \cup {handler[r].nonce}
  /\ Respond(r)
  /\ UNCHANGED <<accounts, credentials, signatures, offered, nonces>>

SignInNext ==
  \E r \in Requests :
    \/ \E b \in Browsers : AskStart(r, b) \/ AskFinish(r, b)
    \/ Start(r) \/ Register(r) \/ FindCredential(r) \/ Persist(r)
    \/ SetUserId(r) \/ ClearChallenge(r) \/ Fails(r)

SignInSpec == SignInInit /\ [][SignInNext]_signInVars
-----------------------------------------------------------------------------
(* Properties *)

Challenges == [kind : {"none", "registration", "authentication", "discoverable"}, nonce : {0} \cup Ids,
               user : {0} \cup Ids, username : {"none"} \cup Usernames]

Steps == {"free", "starting", "finishing", "persisting", "signing in", "clearing"}

Sessions == [exists : BOOLEAN, user : {0} \cup Ids, challenge : Challenges]
Handlers == [step : Steps, browser : {"none"} \cup Browsers,
             kind : {"none", "registration", "authentication", "discoverable"}, sid : {0} \cup Sids,
             fresh : BOOLEAN, challenge : Challenges, nonce : {0} \cup Ids, cred : {0} \cup Ids,
             count : Nat, stored : Nat]

SignInTypeOK ==
  /\ cookie \in [Browsers -> {0} \cup Sids] /\ sessions \in [Sids -> Sessions]
  /\ accounts \in [Usernames -> {0} \cup Ids]
  /\ credentials \in [Ids -> [exists : BOOLEAN, count : Nat]] /\ signatures \in [Ids -> Nat]
  /\ offered \in [Browsers -> Challenges] /\ handler \in [Requests -> Handlers]
  /\ spent \subseteq Ids /\ nonces \in 0..MaxNonces

\* CurrentUser (extractors.rs): whoever is signed in is an account.
CurrentUser(s) == {u \in Usernames : accounts[u] # 0 /\ accounts[u] = sessions[s].user}

\* Accounts are whole and sign-ins are real, whatever overlaps or fails: an account
\* has its credential, a session is signed in only as an account, and never for a
\* registration that lost its name to another.
AccountsWhole ==
  /\ \A u \in Usernames : accounts[u] # 0 => credentials[accounts[u]].exists
  /\ \A c \in Ids : credentials[c].exists => \E u \in Usernames : accounts[u] = c
  /\ \A s \in Sids : sessions[s].user # 0 => Cardinality(CurrentUser(s)) = 1

\* A challenge that was answered with 200 is gone from every session, so only a
\* finish that overlapped the first one can succeed with it again.
SpentIsGone == \A s \in Sids : sessions[s].challenge.nonce \notin spent
=============================================================================
