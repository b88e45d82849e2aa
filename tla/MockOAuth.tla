------------------------------ MODULE MockOAuth ------------------------------
(* The mock OAuth server of cja::testing: tests register the user a state    *)
(* will get, the application under test walks through authorize,             *)
(* access_token and user. Three maps, each behind a lock of its own, and     *)
(* requests of parallel tests in between.                                    *)
EXTENDS Naturals, FiniteSets

CONSTANTS
  OAuthStates, MockUsers, DefaultUser,
  Calls,        \* requests that may be handled at once
  MaxFlows      \* bound on authorize requests

ASSUME OAuthAssumption == MaxFlows \in Nat /\ DefaultUser \in MockUsers

VARIABLES
  preRegistered,  \* pre_registered: the user of a state, once
  codes, tokens,  \* the user of each code, of each token
  call,           \* each request being handled
  flows,          \* authorize requests so far; each makes its own code and token
  meant,          \* the user each flow was resolved to
  redeemed        \* per code, how many tokens were handed out for it

oauthVars == <<preRegistered, codes, tokens, call, flows, meant, redeemed>>

Flows == 1..MaxFlows
Unset == [u |-> "unset"]
User(u) == [u |-> u]
NoCall == [step |-> "free", flow |-> 0, user |-> Unset]

OAuthInit ==
  /\ preRegistered = [s \in OAuthStates |-> Unset]
  /\ codes = [f \in Flows |-> Unset] /\ tokens = [f \in Flows |-> Unset]
  /\ call = [c \in Calls |-> NoCall]
  /\ flows = 0
  /\ meant = [f \in Flows |-> Unset] /\ redeemed = [f \in Flows |-> 0]

\* POST /_admin/set-user-for-state: a later registration replaces an earlier one.
SetUserForState ==
  /\ \E s \in OAuthStates, u \in MockUsers : preRegistered' = [preRegistered EXCEPT ![s] = User(u)]
  /\ UNCHANGED <<codes, tokens, call, flows, meant, redeemed>>

\* authorize takes the state's user; without one the query names it, or it is the
\* default user.
Authorize(c) ==
  /\ call[c].step = "free" /\ flows < MaxFlows
  /\ flows' = flows + 1
  /\ \E s \in OAuthStates, query \in MockUsers \cup {DefaultUser} :
       LET user == IF preRegistered[s] # Unset THEN preRegistered[s] ELSE User(query)
       IN /\ call' = [call EXCEPT ![c] = [step |-> "storing code", flow |-> flows', user |-> user]]
          /\ meant' = [meant EXCEPT ![flows'] = user]
          /\ preRegistered' = [preRegistered EXCEPT ![s] = Unset]
  /\ UNCHANGED <<codes, tokens, redeemed>>

\* store_code, before the redirect tells anyone the code.
StoreCode(c) ==
  /\ call[c].step = "storing code"
  /\ codes' = [codes EXCEPT ![call[c].flow] = call[c].user]
  /\ call' = [call EXCEPT ![c] = NoCall]
  /\ UNCHANGED <<preRegistered, tokens, flows, meant, redeemed>>

Exchange_Peek(c) ==
  /\ call[c].step = "free"
  /\ \E f \in 1..flows :
       /\ codes[f] # Unset
       /\ call' = [call EXCEPT ![c] = [step |-> "storing token", flow |-> f, user |-> codes[f]]]
  /\ UNCHANGED <<preRegistered, codes, tokens, flows, meant, redeemed>>

\* access_token: exchange_code takes the code. A body that does not parse, or a code
\* that is unknown or used, is BAD_REQUEST and changes nothing.
Exchange(c) ==
  /\ call[c].step = "free"
  /\ \E f \in 1..flows :
       /\ codes[f] # Unset
       /\ call' = [call EXCEPT ![c] = [step |-> "storing token", flow |-> f, user |-> codes[f]]]
       /\ codes' = [codes EXCEPT ![f] = Unset]
  /\ UNCHANGED <<preRegistered, tokens, flows, meant, redeemed>>

StoreToken(c) ==
  /\ call[c].step = "storing token"
  /\ tokens' = [tokens EXCEPT ![call[c].flow] = call[c].user]
  /\ redeemed' = [redeemed EXCEPT ![call[c].flow] = @ + 1]
  /\ call' = [call EXCEPT ![c] = NoCall]
  /\ UNCHANGED <<preRegistered, codes, flows, meant>>

\* GET /user with a bearer token; without one, or with an unknown one, UNAUTHORIZED.
GetUser(f) == tokens[f]

OAuthNext ==
  \/ SetUserForState
  \/ \E c \in Calls : Authorize(c) \/ StoreCode(c) \/ Exchange(c) \/ StoreToken(c)

OAuthSpec == OAuthInit /\ [][OAuthNext]_oauthVars
-----------------------------------------------------------------------------
OAuthUsers == {Unset} \cup {User(u) : u \in MockUsers}

OAuthTypeOK ==
  /\ preRegistered \in [OAuthStates -> OAuthUsers]
  /\ {codes, tokens, meant} \subseteq [Flows -> OAuthUsers]
  /\ flows \in 0..MaxFlows /\ redeemed \in [Flows -> Nat]
  /\ call \in [Calls -> [step : {"free", "storing code", "storing token"}, flow : 0..MaxFlows,
                         user : OAuthUsers]]

\* Parallel flows do not mix: a code is good for one token at most, however many
\* calls race for it, and the token is for the user its flow was resolved to.
FlowsKeepApart ==
  \A f \in Flows : /\ redeemed[f] <= 1
                   /\ GetUser(f) \in {Unset, meant[f]}
                   /\ codes[f] # Unset => redeemed[f] = 0
=============================================================================
