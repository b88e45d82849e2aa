----------------------------- MODULE PartsProofs -----------------------------
(* What holds, for all values of their constants, of the parts of the system  *)
(* that one run checks together: the mock OAuth server, the test databases,   *)
(* sign-in, the scan of style sheets, the front-end build and the command     *)
(* line; with the gate and the gateway, whose proofs are modules of their own, *)
(* the invariant of all of them.                                              *)
EXTENDS MCParts, GateProofs, GatewayProofs
-----------------------------------------------------------------------------
(* The mock OAuth server *)

\* A flow's code is in one place: on its way to the map, in it, or on its way to a
\* token, which is stored once.
CodeOnce ==
  /\ \A c \in Calls : call[c].step # "free" =>
       /\ call[c].flow \in 1..flows /\ call[c].user = meant[call[c].flow]
       /\ codes[call[c].flow] = Unset /\ redeemed[call[c].flow] = 0
  /\ \A c, d \in Calls : call[c].step # "free" /\ call[d].step # "free" /\ call[c].flow = call[d].flow
                          => c = d
  /\ \A f \in Flows : codes[f] # Unset => codes[f] = meant[f] /\ redeemed[f] = 0

\* A flow that has not begun has left no trace.
Untouched == \A f \in Flows : f > flows => codes[f] = Unset /\ tokens[f] = Unset /\ redeemed[f] = 0

OAuthInv == OAuthTypeOK /\ FlowsKeepApart /\ CodeOnce /\ Untouched

\* No flow has begun.
LEMMA OAuthInitInv == OAuthInit => OAuthInv
  <1> SUFFICES ASSUME OAuthInit PROVE OAuthInv
    OBVIOUS
  <1>1. Unset \in OAuthUsers /\ 0 \in 0..MaxFlows
    BY OAuthAssumption DEF OAuthUsers
  <1>2. OAuthTypeOK
    BY <1>1 DEF OAuthInit, OAuthTypeOK, NoCall
  <1>3. FlowsKeepApart /\ CodeOnce /\ Untouched
    BY DEF OAuthInit, FlowsKeepApart, GetUser, CodeOnce, Untouched, NoCall
  <1> QED BY <1>2, <1>3 DEF OAuthInv

\* The flows that have begun are flows, and the next one is one while there is room.
LEMMA FlowNumbers ==
  ASSUME OAuthTypeOK
  PROVE  /\ flows \in Nat /\ MaxFlows \in Nat /\ 0 \in 0..MaxFlows
         /\ \A f : f \in Flows <=> f \in Nat /\ 1 <= f /\ f <= MaxFlows
         /\ \A f \in Flows : f \in 0..MaxFlows
         /\ \A f \in 1..flows : f \in Flows /\ ~(f > flows) /\ f # flows + 1 /\ f \in 1..(flows + 1)
         /\ flows < MaxFlows => /\ flows + 1 \in Flows /\ flows + 1 \in 0..MaxFlows
                               /\ flows + 1 \in 1..(flows + 1) /\ flows + 1 > flows
         /\ \A f \in Flows : f > flows + 1 => f > flows
  <1>1. flows \in 0..MaxFlows /\ MaxFlows \in Nat /\ Flows = 1..MaxFlows
    BY OAuthAssumption DEF OAuthTypeOK, Flows
  <1> QED BY <1>1

\* Every request of every flow keeps the invariant.
LEMMA OAuthInvStep ==
  ASSUME OAuthInv, [OAuthNext]_oauthVars
  PROVE  OAuthInv'
  <1>0. /\ preRegistered \in [OAuthStates -> OAuthUsers] /\ codes \in [Flows -> OAuthUsers]
        /\ tokens \in [Flows -> OAuthUsers] /\ meant \in [Flows -> OAuthUsers]
        /\ redeemed \in [Flows -> Nat] /\ flows \in 0..MaxFlows
        /\ call \in [Calls -> [step : {"free", "storing code", "storing token"}, flow : 0..MaxFlows,
                               user : OAuthUsers]]
    BY DEF OAuthInv, OAuthTypeOK
  <1>n. /\ flows \in Nat /\ 0 \in 0..MaxFlows /\ \A f \in Flows : f \in 0..MaxFlows
        /\ \A f \in 1..flows : f \in Flows /\ ~(f > flows) /\ f # flows + 1 /\ f \in 1..(flows + 1)
        /\ flows < MaxFlows => /\ flows + 1 \in Flows /\ flows + 1 \in 0..MaxFlows
                               /\ flows + 1 \in 1..(flows + 1) /\ flows + 1 > flows
        /\ \A f \in Flows : f > flows + 1 => f > flows
    BY FlowNumbers DEF OAuthInv
  <1>a. Unset \in OAuthUsers /\ \A u \in MockUsers : User(u) \in OAuthUsers
    BY DEF OAuthUsers
  <1>b. NoCall \in [step : {"free", "storing code", "storing token"}, flow : 0..MaxFlows, user : OAuthUsers]
        /\ NoCall.step = "free"
    BY <1>n, <1>a DEF NoCall
  <1>1. CASE SetUserForState
    <2>1. OAuthTypeOK'
      BY <1>0, <1>1, <1>a DEF SetUserForState, OAuthTypeOK
    <2> QED BY <1>1, <2>1 DEF SetUserForState, OAuthInv, FlowsKeepApart, GetUser, CodeOnce, Untouched
  <1>2. ASSUME NEW c \in Calls, Authorize(c)
        PROVE  OAuthInv'
    <2>1. PICK s \in OAuthStates, query \in MockUsers \cup {DefaultUser} :
            LET user == IF preRegistered[s] # Unset THEN preRegistered[s] ELSE User(query)
            IN /\ call' = [call EXCEPT ![c] = [step |-> "storing code", flow |-> flows', user |-> user]]
               /\ meant' = [meant EXCEPT ![flows'] = user]
               /\ preRegistered' = [preRegistered EXCEPT ![s] = Unset]
      BY <1>2 DEF Authorize
    <2> DEFINE user == IF preRegistered[s] # Unset THEN preRegistered[s] ELSE User(query)
               new == [step |-> "storing code", flow |-> flows + 1, user |-> user]
    <2>2. /\ flows' = flows + 1 /\ flows < MaxFlows /\ call[c].step = "free"
          /\ UNCHANGED <<codes, tokens, redeemed>>
      BY <1>2 DEF Authorize
    <2>3. user \in OAuthUsers
      BY <1>0, <1>a, OAuthAssumption
    <2> HIDE DEF user
    <2>4. /\ call' = [call EXCEPT ![c] = new] /\ meant' = [meant EXCEPT ![flows + 1] = user]
          /\ preRegistered' = [preRegistered EXCEPT ![s] = Unset]
      BY <2>1, <2>2 DEF user
    <2>5. flows + 1 \in Flows /\ flows' \in 0..MaxFlows /\ flows + 1 \in 0..MaxFlows
          /\ flows + 1 > flows
      BY <1>n, <2>2
    <2>6. OAuthTypeOK'
      BY <1>0, <1>a, <2>2, <2>3, <2>4, <2>5 DEF OAuthTypeOK
    <2>7. codes[flows + 1] = Unset /\ tokens[flows + 1] = Unset /\ redeemed[flows + 1] = 0
      BY <2>5 DEF OAuthInv, Untouched
    <2>8. \A f \in Flows : f # flows + 1 => meant'[f] = meant[f]
      BY <1>0, <2>4
    <2>9. meant'[flows + 1] = user
      BY <1>0, <2>4, <2>5
    <2>10. FlowsKeepApart'
      BY <2>2, <2>7, <2>8 DEF OAuthInv, FlowsKeepApart, GetUser
    <2>11. \A d \in Calls : d # c => call'[d] = call[d]
      BY <1>0, <2>4
    <2>12. call'[c] = new
      BY <1>0, <2>4
    <2>13. \A d \in Calls : d # c /\ call[d].step # "free" => call[d].flow \in Flows /\ call[d].flow # flows + 1
      BY <1>n DEF OAuthInv, CodeOnce
    <2>13a. new.flow = flows + 1 /\ new.user = user
      OBVIOUS
    <2> HIDE DEF new
    <2>14. CodeOnce'
      <3>1. ASSUME NEW d \in Calls, call'[d].step # "free"
            PROVE  /\ call'[d].flow \in 1..flows' /\ call'[d].user = meant'[call'[d].flow]
                   /\ codes'[call'[d].flow] = Unset /\ redeemed'[call'[d].flow] = 0
        <4>1. CASE d = c
          <5>1. call'[d].flow = flows + 1 /\ call'[d].user = user
            BY <2>12, <2>13a, <4>1
          <5> QED BY <1>n, <2>2, <2>7, <2>9, <5>1
        <4>2. CASE d # c
          <5>1. call[d].flow \in 1..flows /\ call[d].user = meant[call[d].flow]
                /\ codes[call[d].flow] = Unset /\ redeemed[call[d].flow] = 0
            BY <2>11, <3>1, <4>2 DEF OAuthInv, CodeOnce
          <5>2. call[d].flow \in 1..(flows + 1) /\ meant'[call[d].flow] = meant[call[d].flow]
            BY <1>n, <2>8, <5>1
          <5> QED BY <2>2, <2>11, <4>2, <5>1, <5>2
        <4> QED BY <4>1, <4>2
      <3>2. \A d, e \in Calls : call'[d].step # "free" /\ call'[e].step # "free"
                                /\ call'[d].flow = call'[e].flow => d = e
        <4>1. call'[c].flow = flows + 1
          BY <2>12, <2>13a
        <4>2. \A d, e \in Calls : call[d].step # "free" /\ call[e].step # "free"
                                 /\ call[d].flow = call[e].flow => d = e
          BY DEF OAuthInv, CodeOnce
        <4> QED BY <2>11, <2>13, <4>1, <4>2
      <3>3. \A f \in Flows : codes'[f] # Unset => codes'[f] = meant'[f] /\ redeemed'[f] = 0
        BY <2>2, <2>7, <2>8 DEF OAuthInv, CodeOnce
      <3> QED BY <3>1, <3>2, <3>3 DEF CodeOnce
    <2>15. Untouched'
      BY <1>n, <2>2 DEF OAuthInv, Untouched
    <2> QED BY <2>6, <2>10, <2>14, <2>15 DEF OAuthInv
  <1>3. ASSUME NEW c \in Calls, StoreCode(c)
        PROVE  OAuthInv'
    <2>1. /\ call[c].step # "free" /\ codes' = [codes EXCEPT ![call[c].flow] = call[c].user]
          /\ call' = [call EXCEPT ![c] = NoCall]
          /\ UNCHANGED <<preRegistered, tokens, flows, meant, redeemed>>
      BY <1>3 DEF StoreCode
    <2>2. /\ call[c].flow \in 1..flows /\ call[c].flow \in Flows /\ call[c].user = meant[call[c].flow]
          /\ redeemed[call[c].flow] = 0
      BY <1>n, <2>1 DEF OAuthInv, CodeOnce
    <2>3. call[c].user \in OAuthUsers
      BY <1>0
    <2>4. OAuthTypeOK'
      BY <1>0, <1>b, <2>1, <2>2, <2>3 DEF OAuthTypeOK
    <2>5. \A f \in Flows : codes'[f] = IF f = call[c].flow THEN meant[f] ELSE codes[f]
      BY <1>0, <2>1, <2>2
    <2>6. FlowsKeepApart'
      BY <2>1, <2>2, <2>5 DEF OAuthInv, FlowsKeepApart, GetUser
    <2>7. \A d \in Calls : call'[d] = IF d = c THEN NoCall ELSE call[d]
      BY <1>0, <2>1
    <2>8. \A d \in Calls : call'[d].step # "free" =>
             d # c /\ call[d].step # "free" /\ call'[d] = call[d] /\ call[d].flow # call[c].flow
                   /\ call[d].flow \in Flows
      <3>1. ASSUME NEW d \in Calls, call'[d].step # "free"
            PROVE  d # c /\ call'[d] = call[d] /\ call[d].step # "free"
        BY <1>b, <2>7, <3>1
      <3> QED BY <1>n, <2>1, <3>1 DEF OAuthInv, CodeOnce
    <2>9. CodeOnce'
      BY <2>1, <2>2, <2>5, <2>8 DEF OAuthInv, CodeOnce
    <2>10. Untouched'
      <3>1. \A f \in Flows : f > flows => f # call[c].flow
        BY <1>n, <2>2
      <3> QED BY <2>1, <2>5, <3>1 DEF OAuthInv, Untouched
    <2> QED BY <2>4, <2>6, <2>9, <2>10 DEF OAuthInv
  <1>4. ASSUME NEW c \in Calls, Exchange(c)
        PROVE  OAuthInv'
    <2>1. PICK g \in 1..flows :
            /\ codes[g] # Unset
            /\ call' = [call EXCEPT ![c] = [step |-> "storing token", flow |-> g, user |-> codes[g]]]
            /\ codes' = [codes EXCEPT ![g] = Unset]
      BY <1>4 DEF Exchange
    <2> DEFINE new == [step |-> "storing token", flow |-> g, user |-> codes[g]]
    <2>2. call[c].step = "free" /\ UNCHANGED <<preRegistered, tokens, flows, meant, redeemed>>
      BY <1>4 DEF Exchange
    <2>3. g \in Flows /\ g \in 0..MaxFlows /\ codes[g] \in OAuthUsers
      BY <1>0, <1>n
    <2>4. codes[g] = meant[g] /\ redeemed[g] = 0
      BY <2>1, <2>3 DEF OAuthInv, CodeOnce
    <2>5. OAuthTypeOK'
      BY <1>0, <1>a, <2>1, <2>2, <2>3 DEF OAuthTypeOK
    <2>6. \A f \in Flows : codes'[f] = IF f = g THEN Unset ELSE codes[f]
      BY <1>0, <2>1, <2>3
    <2>7. FlowsKeepApart'
      BY <2>2, <2>6 DEF OAuthInv, FlowsKeepApart, GetUser
    <2>8. \A d \in Calls : call'[d] = IF d = c THEN new ELSE call[d]
      BY <1>0, <2>1
    <2>9. \A d \in Calls : d # c /\ call[d].step # "free" => call[d].flow # g /\ call[d].flow \in Flows
      BY <1>n, <2>1 DEF OAuthInv, CodeOnce
    <2>10. CodeOnce'
      <3>1. call'[c].flow = g /\ call'[c].user = codes[g]
        <4>1. new.flow = g /\ new.user = codes[g]
          OBVIOUS
        <4> HIDE DEF new
        <4> QED BY <2>8, <4>1
      <3>2. \A d \in Calls : call'[d].step # "free" /\ d # c => call'[d] = call[d] /\ call[d].flow # g
        BY <2>8, <2>9
      <3>3. ASSUME NEW d \in Calls, call'[d].step # "free"
            PROVE  /\ call'[d].flow \in 1..flows' /\ call'[d].user = meant'[call'[d].flow]
                   /\ codes'[call'[d].flow] = Unset /\ redeemed'[call'[d].flow] = 0
        <4>1. CASE d = c
          BY <2>2, <2>3, <2>4, <2>6, <3>1, <4>1
        <4>2. CASE d # c
          BY <2>2, <2>6, <2>9, <3>2, <3>3, <4>2 DEF OAuthInv, CodeOnce
        <4> QED BY <4>1, <4>2
      <3>4. \A d, e \in Calls : call'[d].step # "free" /\ call'[e].step # "free"
                                /\ call'[d].flow = call'[e].flow => d = e
        BY <3>1, <3>2 DEF OAuthInv, CodeOnce
      <3>5. \A f \in Flows : codes'[f] # Unset => codes'[f] = meant'[f] /\ redeemed'[f] = 0
        BY <2>2, <2>6 DEF OAuthInv, CodeOnce
      <3> QED BY <3>3, <3>4, <3>5 DEF CodeOnce
    <2>11. Untouched'
      BY <2>2, <2>6 DEF OAuthInv, Untouched
    <2> QED BY <2>5, <2>7, <2>10, <2>11 DEF OAuthInv
  <1>5. ASSUME NEW c \in Calls, StoreToken(c)
        PROVE  OAuthInv'
    <2>1. /\ call[c].step # "free" /\ tokens' = [tokens EXCEPT ![call[c].flow] = call[c].user]
          /\ redeemed' = [redeemed EXCEPT ![call[c].flow] = @ + 1]
          /\ call' = [call EXCEPT ![c] = NoCall]
          /\ UNCHANGED <<preRegistered, codes, flows, meant>>
      BY <1>5 DEF StoreToken
    <2> DEFINE g == call[c].flow
    <2>2. /\ g \in 1..flows /\ g \in Flows /\ call[c].user = meant[g] /\ redeemed[g] = 0 /\ codes[g] = Unset
      BY <1>n, <2>1 DEF OAuthInv, CodeOnce
    <2>3. call[c].user \in OAuthUsers
      BY <1>0
    <2> HIDE DEF g
    <2>4. /\ \A f \in Flows : tokens'[f] = IF f = g THEN meant[f] ELSE tokens[f]
          /\ \A f \in Flows : redeemed'[f] = IF f = g THEN 1 ELSE redeemed[f]
      <3>1. tokens' = [tokens EXCEPT ![g] = meant[g]] /\ redeemed' = [redeemed EXCEPT ![g] = redeemed[g] + 1]
        BY <2>1, <2>2 DEF g
      <3>2. redeemed[g] + 1 = 1
        BY <2>2
      <3> QED BY <1>0, <2>2, <3>1, <3>2
    <2>5. OAuthTypeOK'
      <3>1. tokens' \in [Flows -> OAuthUsers] /\ call' \in [Calls -> [step : {"free", "storing code", "storing token"},
                                                flow : 0..MaxFlows, user : OAuthUsers]]
        BY <1>0, <1>b, <2>1, <2>2, <2>3
      <3>2. redeemed' \in [Flows -> Nat]
        <4>1. redeemed \in [Flows -> Nat] /\ redeemed' = [redeemed EXCEPT ![g] = redeemed[g] + 1]
          BY <1>0, <2>1 DEF g
        <4> QED BY <2>2, <4>1
      <3> QED BY <1>0, <2>1, <3>1, <3>2 DEF OAuthTypeOK
    <2>6. FlowsKeepApart'
      BY <2>1, <2>2, <2>4 DEF OAuthInv, FlowsKeepApart, GetUser
    <2>7. \A d \in Calls : call'[d] = IF d = c THEN NoCall ELSE call[d]
      BY <1>0, <2>1
    <2>8. \A d \in Calls : call'[d].step # "free" =>
             d # c /\ call[d].step # "free" /\ call'[d] = call[d] /\ call[d].flow # g
                   /\ call[d].flow \in Flows
      <3>1. ASSUME NEW d \in Calls, call'[d].step # "free"
            PROVE  d # c /\ call'[d] = call[d] /\ call[d].step # "free"
        BY <1>b, <2>7, <3>1
      <3> QED BY <1>n, <2>1, <3>1 DEF OAuthInv, CodeOnce, g
    <2>9. CodeOnce'
      BY <2>1, <2>2, <2>4, <2>8 DEF OAuthInv, CodeOnce
    <2>10. Untouched'
      <3>1. \A f \in Flows : f > flows => f # g
        BY <1>n, <2>2
      <3> QED BY <2>1, <2>4, <3>1 DEF OAuthInv, Untouched
    <2> QED BY <2>5, <2>6, <2>9, <2>10 DEF OAuthInv
  <1>6. CASE UNCHANGED oauthVars
    BY <1>6 DEF oauthVars, OAuthInv, OAuthTypeOK, FlowsKeepApart, GetUser, CodeOnce, Untouched
  <1> QED BY <1>1, <1>2, <1>3, <1>4, <1>5, <1>6 DEF OAuthNext

\* However many flows and requests run at once, a code gives one token at most, and
\* the token is its flow's user.
THEOREM OAuthFlowsKeepApart == OAuthSpec => []FlowsKeepApart
  <1>1. OAuthInv => FlowsKeepApart
    BY DEF OAuthInv
  <1>2. OAuthInv /\ [OAuthNext]_oauthVars => OAuthInv'
    BY OAuthInvStep
  <1> QED BY <1>1, <1>2, OAuthInitInv, PTL DEF OAuthSpec
-----------------------------------------------------------------------------
(* The test databases *)

\* A database was made by a test that is past that, and will not be made again.
MadeOnce ==
  \A d \in Tests : database[d].state # "none" =>
    test[d] \in {"connect", "running", "terminate", "clean", "over", "ended"}

\* A reap looks at databases that were made, and is at one that was MaxAge old by a
\* clock that is not ahead by more than Ahead.
ReapsStale ==
  \A t \in Tests :
    /\ reaper[t].now <= wallClock + Ahead
    /\ \A d \in reaper[t].names : database[d].state # "none"
    /\ test[t] \in {"lock", "recheck", "drop"} =>
         /\ reaper[t].name \in Tests /\ database[reaper[t].name].state # "none"
         /\ IsStale(reaper[t].name, reaper[t].now)

\* The three parts of InUseIsKept.
AttachedThere == \A t \in attached : Exists(t)
GoneWasOld ==
  \A t \in Tests : database[t].state = "gone" /\ t \notin cleared =>
    wallClock + Ahead >= database[t].epoch + MaxAge
LocksHeld == \A d \in Tests : advisory[d] # NoTest => test[advisory[d]] \in Reaping \cup {"create"}

TestDbInv == TestDbTypeOK /\ AttachedThere /\ GoneWasOld /\ LocksHeld /\ MadeOnce /\ ReapsStale

\* Clocks are numbers, and none is ahead by more than Ahead.
LEMMA ClockFacts ==
  ASSUME TestDbTypeOK, NEW t
  PROVE  /\ SystemNow(t) \in 0..(MaxClock + Ahead) /\ SystemNow(t) <= wallClock + Ahead
         /\ wallClock \in Nat /\ Ahead \in Nat /\ MaxAge \in Nat /\ MaxClock \in Nat
  <1>1. Ahead \in Nat /\ MaxClock \in Nat /\ MaxAge \in Nat /\ wallClock \in 0..MaxClock
    BY TestDatabaseAssumption DEF TestDbTypeOK
  <1> QED BY <1>1 DEF SystemNow

\* A database with a connection stays.
LEMMA AttachedStep ==
  ASSUME TestDbInv, [TestDbNext]_testDbVars
  PROVE  AttachedThere'
  <1>1. ASSUME NEW t \in Tests, ReapPrefixOnce(t) PROVE AttachedThere'
    BY <1>1 DEF ReapPrefixOnce, To, TestDbInv, TestDbTypeOK, AttachedThere, Exists
  <1>2. ASSUME NEW t \in Tests, ListNames(t) PROVE AttachedThere'
    BY <1>2 DEF ListNames, To, TestDbInv, TestDbTypeOK, AttachedThere, Exists
  <1>3. ASSUME NEW t \in Tests, Candidate(t) PROVE AttachedThere'
    BY <1>3 DEF Candidate, To, TestDbInv, TestDbTypeOK, AttachedThere, Exists
  <1>4. ASSUME NEW t \in Tests, TryLock(t) PROVE AttachedThere'
    BY <1>4 DEF TryLock, To, TestDbInv, TestDbTypeOK, AttachedThere, Exists
  <1>5. ASSUME NEW t \in Tests, Recheck(t) PROVE AttachedThere'
    BY <1>5 DEF Recheck, To, Unlock, TestDbInv, TestDbTypeOK, AttachedThere, Exists
  <1>6. ASSUME NEW t \in Tests, DropStale(t) PROVE AttachedThere'
    BY <1>6 DEF DropStale, To, Unlock, Dropped, Exists, TestDbInv, TestDbTypeOK, AttachedThere, Exists
  <1>7. ASSUME NEW t \in Tests, ContinueAfterReap(t) PROVE AttachedThere'
    BY <1>7 DEF ContinueAfterReap, To, NoReap, TestDbInv, TestDbTypeOK, AttachedThere, Exists
  <1>8. ASSUME NEW t \in Tests, CreateDatabase(t) PROVE AttachedThere'
    BY <1>8 DEF CreateDatabase, To, CloseAdmin, TestDbInv, TestDbTypeOK, AttachedThere, Exists
  <1>9. ASSUME NEW t \in Tests, CreateFails(t) PROVE AttachedThere'
    BY <1>9 DEF CreateFails, To, CloseAdmin, TestDbInv, TestDbTypeOK, AttachedThere, Exists
  <1>10. ASSUME NEW t \in Tests, ConnectPool(t) PROVE AttachedThere'
    BY <1>10 DEF ConnectPool, To, Exists, TestDbInv, TestDbTypeOK, AttachedThere, Exists
  <1>11. ASSUME NEW t \in Tests, Recycle(t) PROVE AttachedThere'
    BY <1>11 DEF Recycle, Exists, TestDbInv, TestDbTypeOK, AttachedThere, Exists
  <1>12. ASSUME NEW t \in Tests, DropGuard(t) PROVE AttachedThere'
    BY <1>12 DEF DropGuard, To, TestDbInv, TestDbTypeOK, AttachedThere, Exists
  <1>13. ASSUME NEW t \in Tests, Terminate(t) PROVE AttachedThere'
    BY <1>13 DEF Terminate, To, TestDbInv, TestDbTypeOK, AttachedThere, Exists
  <1>14. ASSUME NEW t \in Tests, CleanUp(t) PROVE AttachedThere'
    BY <1>14 DEF CleanUp, To, Dropped, Exists, TestDbInv, TestDbTypeOK, AttachedThere, Exists
  <1>15. ASSUME NEW t \in Tests, CleanupFails(t) PROVE AttachedThere'
    BY <1>15 DEF CleanupFails, To, TestDbInv, TestDbTypeOK, AttachedThere, Exists
  <1>16. ASSUME NEW p \in Processes, ProcessEnds(p) PROVE AttachedThere'
    BY <1>16 DEF ProcessEnds, CloseAdmin, NoReap, TestDbInv, TestDbTypeOK, AttachedThere, Exists
  <1>17. CASE SecondPasses
    BY <1>17 DEF SecondPasses, TestDbInv, TestDbTypeOK, AttachedThere, Exists
  <1>18. CASE UNCHANGED testDbVars
    BY <1>18 DEF testDbVars, TestDbInv, TestDbTypeOK, AttachedThere, Exists
  <1> QED BY <1>1, <1>2, <1>3, <1>4, <1>5, <1>6, <1>7, <1>8, <1>9, <1>10, <1>11, <1>12, <1>13, <1>14, <1>15, <1>16, <1>17, <1>18 DEF TestDbNext

\* Advisory locks go with the session that took them.
LEMMA LocksStep ==
  ASSUME TestDbInv, [TestDbNext]_testDbVars
  PROVE  LocksHeld'
  <1>1. ASSUME NEW t \in Tests, ReapPrefixOnce(t) PROVE LocksHeld'
    BY <1>1 DEF ReapPrefixOnce, To, TestDbInv, TestDbTypeOK, LocksHeld, Reaping
  <1>2. ASSUME NEW t \in Tests, ListNames(t) PROVE LocksHeld'
    BY <1>2 DEF ListNames, To, TestDbInv, TestDbTypeOK, LocksHeld, Reaping
  <1>3. ASSUME NEW t \in Tests, Candidate(t) PROVE LocksHeld'
    BY <1>3 DEF Candidate, To, TestDbInv, TestDbTypeOK, LocksHeld, Reaping
  <1>4. ASSUME NEW t \in Tests, TryLock(t) PROVE LocksHeld'
    <2> DEFINE d == reaper[t].name
    <2>1. CASE advisory[d] \in {NoTest, t}
      <3>1. advisory' = [advisory EXCEPT ![d] = t] /\ test' = [test EXCEPT ![t] = "recheck"]
        BY <1>4, <2>1 DEF TryLock, To
      <3>2. test'[t] = "recheck" /\ \A u \in Tests : test'[u] \in {test[u], "recheck"}
        BY <3>1 DEF TestDbInv, TestDbTypeOK
      <3>3. \A e \in Tests : advisory'[e] \in {advisory[e], t}
        BY <3>1 DEF TestDbInv, TestDbTypeOK
      <3>4. advisory \in [Tests -> Tests \cup {NoTest}]
        BY DEF TestDbInv, TestDbTypeOK
      <3> QED BY <3>2, <3>3, <3>4 DEF TestDbInv, LocksHeld, Reaping
    <2>2. CASE advisory[d] \notin {NoTest, t}
      <3>1. UNCHANGED advisory /\ test[t] = "lock" /\ test' = [test EXCEPT ![t] = "next"]
        BY <1>4, <2>2 DEF TryLock, To
      <3> QED BY <3>1 DEF TestDbInv, TestDbTypeOK, LocksHeld, Reaping
    <2> QED BY <2>1, <2>2
  <1>5. ASSUME NEW t \in Tests, Recheck(t) PROVE LocksHeld'
    <2>1. CASE reaper[t].name \in attached
      BY <1>5, <2>1, SMTT(30) DEF Recheck, To, Unlock, TestDbInv, TestDbTypeOK, LocksHeld, Reaping
    <2>2. CASE reaper[t].name \notin attached
      BY <1>5, <2>2 DEF Recheck, To, TestDbInv, TestDbTypeOK, LocksHeld, Reaping
    <2> QED BY <2>1, <2>2
  <1>6. ASSUME NEW t \in Tests, DropStale(t) PROVE LocksHeld'
    BY <1>6 DEF DropStale, To, Unlock, Dropped, Exists, TestDbInv, TestDbTypeOK, LocksHeld, Reaping
  <1>7. ASSUME NEW t \in Tests, ContinueAfterReap(t) PROVE LocksHeld'
    BY <1>7 DEF ContinueAfterReap, To, NoReap, TestDbInv, TestDbTypeOK, LocksHeld, Reaping
  <1>8. ASSUME NEW t \in Tests, CreateDatabase(t) PROVE LocksHeld'
    BY <1>8 DEF CreateDatabase, To, CloseAdmin, TestDbInv, TestDbTypeOK, LocksHeld, Reaping
  <1>9. ASSUME NEW t \in Tests, CreateFails(t) PROVE LocksHeld'
    BY <1>9 DEF CreateFails, To, CloseAdmin, TestDbInv, TestDbTypeOK, LocksHeld, Reaping
  <1>10. ASSUME NEW t \in Tests, ConnectPool(t) PROVE LocksHeld'
    BY <1>10 DEF ConnectPool, To, Exists, TestDbInv, TestDbTypeOK, LocksHeld, Reaping
  <1>11. ASSUME NEW t \in Tests, Recycle(t) PROVE LocksHeld'
    BY <1>11 DEF Recycle, Exists, TestDbInv, TestDbTypeOK, LocksHeld, Reaping
  <1>12. ASSUME NEW t \in Tests, DropGuard(t) PROVE LocksHeld'
    BY <1>12 DEF DropGuard, To, TestDbInv, TestDbTypeOK, LocksHeld, Reaping
  <1>13. ASSUME NEW t \in Tests, Terminate(t) PROVE LocksHeld'
    BY <1>13 DEF Terminate, To, TestDbInv, TestDbTypeOK, LocksHeld, Reaping
  <1>14. ASSUME NEW t \in Tests, CleanUp(t) PROVE LocksHeld'
    BY <1>14 DEF CleanUp, To, Dropped, Exists, TestDbInv, TestDbTypeOK, LocksHeld, Reaping
  <1>15. ASSUME NEW t \in Tests, CleanupFails(t) PROVE LocksHeld'
    BY <1>15 DEF CleanupFails, To, TestDbInv, TestDbTypeOK, LocksHeld, Reaping
  <1>16. ASSUME NEW p \in Processes, ProcessEnds(p) PROVE LocksHeld'
    BY <1>16 DEF ProcessEnds, CloseAdmin, NoReap, TestDbInv, TestDbTypeOK, LocksHeld, Reaping
  <1>17. CASE SecondPasses
    BY <1>17 DEF SecondPasses, TestDbInv, TestDbTypeOK, LocksHeld, Reaping
  <1>18. CASE UNCHANGED testDbVars
    BY <1>18 DEF testDbVars, TestDbInv, TestDbTypeOK, LocksHeld, Reaping
  <1> QED BY <1>1, <1>2, <1>3, <1>4, <1>5, <1>6, <1>7, <1>8, <1>9, <1>10, <1>11, <1>12, <1>13, <1>14, <1>15, <1>16, <1>17, <1>18 DEF TestDbNext

\* A test makes one database.
LEMMA MadeStep ==
  ASSUME TestDbInv, [TestDbNext]_testDbVars
  PROVE  MadeOnce'
  <1>1. ASSUME NEW t \in Tests, ReapPrefixOnce(t) PROVE MadeOnce'
    BY <1>1 DEF ReapPrefixOnce, To, TestDbInv, TestDbTypeOK, MadeOnce, Reaping
  <1>2. ASSUME NEW t \in Tests, ListNames(t) PROVE MadeOnce'
    BY <1>2 DEF ListNames, To, TestDbInv, TestDbTypeOK, MadeOnce, Reaping
  <1>3. ASSUME NEW t \in Tests, Candidate(t) PROVE MadeOnce'
    BY <1>3 DEF Candidate, To, TestDbInv, TestDbTypeOK, MadeOnce, Reaping
  <1>4. ASSUME NEW t \in Tests, TryLock(t) PROVE MadeOnce'
    BY <1>4 DEF TryLock, To, TestDbInv, TestDbTypeOK, MadeOnce, Reaping
  <1>5. ASSUME NEW t \in Tests, Recheck(t) PROVE MadeOnce'
    BY <1>5 DEF Recheck, To, Unlock, TestDbInv, TestDbTypeOK, MadeOnce, Reaping
  <1>6. ASSUME NEW t \in Tests, DropStale(t) PROVE MadeOnce'
    BY <1>6 DEF DropStale, To, Unlock, Dropped, Exists, TestDbInv, TestDbTypeOK, MadeOnce, Reaping
  <1>7. ASSUME NEW t \in Tests, ContinueAfterReap(t) PROVE MadeOnce'
    BY <1>7 DEF ContinueAfterReap, To, NoReap, TestDbInv, TestDbTypeOK, MadeOnce, Reaping
  <1>8. ASSUME NEW t \in Tests, CreateDatabase(t) PROVE MadeOnce'
    BY <1>8 DEF CreateDatabase, To, CloseAdmin, TestDbInv, TestDbTypeOK, MadeOnce, Reaping
  <1>9. ASSUME NEW t \in Tests, CreateFails(t) PROVE MadeOnce'
    BY <1>9 DEF CreateFails, To, CloseAdmin, TestDbInv, TestDbTypeOK, MadeOnce, Reaping
  <1>10. ASSUME NEW t \in Tests, ConnectPool(t) PROVE MadeOnce'
    BY <1>10 DEF ConnectPool, To, Exists, TestDbInv, TestDbTypeOK, MadeOnce, Reaping
  <1>11. ASSUME NEW t \in Tests, Recycle(t) PROVE MadeOnce'
    BY <1>11 DEF Recycle, Exists, TestDbInv, TestDbTypeOK, MadeOnce, Reaping
  <1>12. ASSUME NEW t \in Tests, DropGuard(t) PROVE MadeOnce'
    BY <1>12 DEF DropGuard, To, TestDbInv, TestDbTypeOK, MadeOnce, Reaping
  <1>13. ASSUME NEW t \in Tests, Terminate(t) PROVE MadeOnce'
    BY <1>13 DEF Terminate, To, TestDbInv, TestDbTypeOK, MadeOnce, Reaping
  <1>14. ASSUME NEW t \in Tests, CleanUp(t) PROVE MadeOnce'
    BY <1>14 DEF CleanUp, To, Dropped, Exists, TestDbInv, TestDbTypeOK, MadeOnce, Reaping
  <1>15. ASSUME NEW t \in Tests, CleanupFails(t) PROVE MadeOnce'
    BY <1>15 DEF CleanupFails, To, TestDbInv, TestDbTypeOK, MadeOnce, Reaping
  <1>16. ASSUME NEW p \in Processes, ProcessEnds(p) PROVE MadeOnce'
    BY <1>16 DEF ProcessEnds, CloseAdmin, NoReap, TestDbInv, TestDbTypeOK, MadeOnce, Reaping
  <1>17. CASE SecondPasses
    BY <1>17 DEF SecondPasses, TestDbInv, TestDbTypeOK, MadeOnce, Reaping
  <1>18. CASE UNCHANGED testDbVars
    BY <1>18 DEF testDbVars, TestDbInv, TestDbTypeOK, MadeOnce, Reaping
  <1> QED BY <1>1, <1>2, <1>3, <1>4, <1>5, <1>6, <1>7, <1>8, <1>9, <1>10, <1>11, <1>12, <1>13, <1>14, <1>15, <1>16, <1>17, <1>18 DEF TestDbNext

\* What is gone was dropped by its test, or was old enough.
LEMMA GoneStep ==
  ASSUME TestDbInv, [TestDbNext]_testDbVars
  PROVE  GoneWasOld'
  <1>0. /\ wallClock \in Nat /\ Ahead \in Nat /\ MaxAge \in Nat
        /\ \A d \in Tests : database[d].epoch \in Nat
    <2>1. wallClock \in Nat /\ Ahead \in Nat /\ MaxAge \in Nat /\ MaxClock \in Nat
      BY ClockFacts DEF TestDbInv
    <2>2. \A d \in Tests : database[d].epoch \in 0..(MaxClock + Ahead)
      BY DEF TestDbInv, TestDbTypeOK
    <2> QED BY <2>1, <2>2
  <1>1. ASSUME NEW t \in Tests, ReapPrefixOnce(t) PROVE GoneWasOld'
    BY <1>0, <1>1 DEF ReapPrefixOnce, To, TestDbInv, GoneWasOld, TestDbTypeOK
  <1>2. ASSUME NEW t \in Tests, ListNames(t) PROVE GoneWasOld'
    BY <1>0, <1>2 DEF ListNames, To, TestDbInv, GoneWasOld, TestDbTypeOK
  <1>3. ASSUME NEW t \in Tests, Candidate(t) PROVE GoneWasOld'
    BY <1>0, <1>3 DEF Candidate, To, TestDbInv, GoneWasOld, TestDbTypeOK
  <1>4. ASSUME NEW t \in Tests, TryLock(t) PROVE GoneWasOld'
    BY <1>0, <1>4 DEF TryLock, To, TestDbInv, GoneWasOld, TestDbTypeOK
  <1>5. ASSUME NEW t \in Tests, Recheck(t) PROVE GoneWasOld'
    BY <1>0, <1>5 DEF Recheck, To, Unlock, TestDbInv, GoneWasOld, TestDbTypeOK
  <1>6. ASSUME NEW t \in Tests, DropStale(t) PROVE GoneWasOld'
    <2> DEFINE d == reaper[t].name
    <2>1. /\ d \in Tests /\ IsStale(d, reaper[t].now) /\ reaper[t].now <= wallClock + Ahead
          /\ reaper[t].now \in Nat
      BY <1>6 DEF DropStale, TestDbInv, ReapsStale, TestDbTypeOK
    <2>2. wallClock + Ahead >= database[d].epoch + MaxAge
      BY <1>0, <2>1 DEF IsStale
    <2>3. UNCHANGED <<cleared, wallClock>>
      BY <1>6 DEF DropStale
    <2>4. \A u \in Tests : /\ database'[u].epoch = database[u].epoch
                           /\ u # d => database'[u] = database[u]
      BY <1>6, <2>1 DEF DropStale, Dropped, TestDbInv, TestDbTypeOK
    <2> HIDE DEF d
    <2> QED BY <2>2, <2>3, <2>4 DEF TestDbInv, GoneWasOld
  <1>7. ASSUME NEW t \in Tests, ContinueAfterReap(t) PROVE GoneWasOld'
    BY <1>0, <1>7 DEF ContinueAfterReap, To, NoReap, TestDbInv, GoneWasOld, TestDbTypeOK
  <1>8. ASSUME NEW t \in Tests, CreateDatabase(t) PROVE GoneWasOld'
    BY <1>0, <1>8 DEF CreateDatabase, To, CloseAdmin, TestDbInv, GoneWasOld, TestDbTypeOK
  <1>9. ASSUME NEW t \in Tests, CreateFails(t) PROVE GoneWasOld'
    BY <1>0, <1>9 DEF CreateFails, To, CloseAdmin, TestDbInv, GoneWasOld, TestDbTypeOK
  <1>10. ASSUME NEW t \in Tests, ConnectPool(t) PROVE GoneWasOld'
    BY <1>0, <1>10 DEF ConnectPool, To, Exists, TestDbInv, GoneWasOld, TestDbTypeOK
  <1>11. ASSUME NEW t \in Tests, Recycle(t) PROVE GoneWasOld'
    BY <1>0, <1>11 DEF Recycle, Exists, TestDbInv, GoneWasOld, TestDbTypeOK
  <1>12. ASSUME NEW t \in Tests, DropGuard(t) PROVE GoneWasOld'
    BY <1>0, <1>12 DEF DropGuard, To, TestDbInv, GoneWasOld, TestDbTypeOK
  <1>13. ASSUME NEW t \in Tests, Terminate(t) PROVE GoneWasOld'
    BY <1>0, <1>13 DEF Terminate, To, TestDbInv, GoneWasOld, TestDbTypeOK
  <1>14. ASSUME NEW t \in Tests, CleanUp(t) PROVE GoneWasOld'
    <2>1. \A u \in Tests : database'[u] # database[u] => u = t /\ t \in cleared'
      BY <1>14 DEF CleanUp, Dropped, TestDbInv, TestDbTypeOK
    <2>2. UNCHANGED wallClock /\ cleared \subseteq cleared'
      BY <1>14 DEF CleanUp
    <2> QED BY <2>1, <2>2 DEF TestDbInv, GoneWasOld
  <1>15. ASSUME NEW t \in Tests, CleanupFails(t) PROVE GoneWasOld'
    BY <1>0, <1>15 DEF CleanupFails, To, TestDbInv, GoneWasOld, TestDbTypeOK
  <1>16. ASSUME NEW p \in Processes, ProcessEnds(p) PROVE GoneWasOld'
    BY <1>0, <1>16 DEF ProcessEnds, CloseAdmin, NoReap, TestDbInv, GoneWasOld, TestDbTypeOK
  <1>17. CASE SecondPasses
    BY <1>0, <1>17 DEF SecondPasses, TestDbInv, GoneWasOld, TestDbTypeOK
  <1>18. CASE UNCHANGED testDbVars
    BY <1>18 DEF testDbVars, TestDbInv, GoneWasOld, TestDbTypeOK
  <1> QED BY <1>1, <1>2, <1>3, <1>4, <1>5, <1>6, <1>7, <1>8, <1>9, <1>10, <1>11, <1>12, <1>13, <1>14, <1>15, <1>16, <1>17, <1>18 DEF TestDbNext

\* A reap stays with what was made and is old.
LEMMA ReapsStep ==
  ASSUME TestDbInv, [TestDbNext]_testDbVars
  PROVE  ReapsStale'
  <1>0. /\ wallClock \in Nat /\ Ahead \in Nat /\ MaxAge \in Nat
        /\ \A d \in Tests : database[d].epoch \in Nat
        /\ \A d \in Tests : SystemNow(d) <= wallClock + Ahead /\ reaper[d].now \in Nat
    BY ClockFacts DEF TestDbInv, TestDbTypeOK
  <1>1. ASSUME NEW t \in Tests, ReapPrefixOnce(t) PROVE ReapsStale'
    <2>1. /\ UNCHANGED <<database, wallClock>>
          /\ \A u \in Tests : u # t => reaper'[u] = reaper[u] /\ test'[u] = test[u]
          /\ reaper'[t].names = reaper[t].names /\ test'[t] \in {"create", "list"}
          /\ reaper'[t].now \in {reaper[t].now, SystemNow(t)}
      BY <1>1 DEF ReapPrefixOnce, To, TestDbInv, TestDbTypeOK
    <2> QED BY <1>0, <2>1 DEF TestDbInv, ReapsStale, IsStale
  <1>2. ASSUME NEW t \in Tests, ListNames(t) PROVE ReapsStale'
    <2>1. /\ UNCHANGED <<database, wallClock>>
          /\ \A u \in Tests : u # t => reaper'[u] = reaper[u] /\ test'[u] = test[u]
          /\ reaper'[t].names = {d \in Tests : Exists(d)} /\ test'[t] = "next"
          /\ reaper'[t].now = reaper[t].now
      BY <1>2 DEF ListNames, To, TestDbInv, TestDbTypeOK
    <2>2. \A d \in reaper'[t].names : database[d].state # "none"
      BY <2>1 DEF Exists
    <2> QED BY <2>1, <2>2 DEF TestDbInv, ReapsStale, IsStale
  <1>3. ASSUME NEW t \in Tests, Candidate(t) PROVE ReapsStale'
    BY <1>0, <1>3 DEF Candidate, To, TestDbInv, ReapsStale, MadeOnce, IsStale, TestDbTypeOK
  <1>4. ASSUME NEW t \in Tests, TryLock(t) PROVE ReapsStale'
    BY <1>0, <1>4 DEF TryLock, To, TestDbInv, ReapsStale, MadeOnce, IsStale, TestDbTypeOK
  <1>5. ASSUME NEW t \in Tests, Recheck(t) PROVE ReapsStale'
    BY <1>0, <1>5 DEF Recheck, To, Unlock, TestDbInv, ReapsStale, MadeOnce, IsStale, TestDbTypeOK
  <1>6. ASSUME NEW t \in Tests, DropStale(t) PROVE ReapsStale'
    <2>1. /\ UNCHANGED <<reaper, wallClock>> /\ \A u \in Tests : u # t => test'[u] = test[u]
          /\ test'[t] \in {"next", "over"}
      BY <1>6 DEF DropStale, To, TestDbInv, TestDbTypeOK
    <2>2. \A u \in Tests : /\ database'[u].epoch = database[u].epoch
                           /\ database[u].state # "none" => database'[u].state # "none"
      BY <1>6 DEF DropStale, Dropped, TestDbInv, TestDbTypeOK
    <2>3. \A u \in Tests : reaper[u].names \subseteq Tests
      BY DEF TestDbInv, TestDbTypeOK
    <2> QED BY <2>1, <2>2, <2>3 DEF TestDbInv, ReapsStale, IsStale
  <1>7. ASSUME NEW t \in Tests, ContinueAfterReap(t) PROVE ReapsStale'
    BY <1>0, <1>7 DEF ContinueAfterReap, To, NoReap, TestDbInv, ReapsStale, MadeOnce, IsStale, TestDbTypeOK
  <1>8. ASSUME NEW t \in Tests, CreateDatabase(t) PROVE ReapsStale'
    BY <1>0, <1>8 DEF CreateDatabase, To, CloseAdmin, TestDbInv, ReapsStale, MadeOnce, IsStale, TestDbTypeOK
  <1>9. ASSUME NEW t \in Tests, CreateFails(t) PROVE ReapsStale'
    BY <1>0, <1>9 DEF CreateFails, To, CloseAdmin, TestDbInv, ReapsStale, MadeOnce, IsStale, TestDbTypeOK
  <1>10. ASSUME NEW t \in Tests, ConnectPool(t) PROVE ReapsStale'
    BY <1>0, <1>10 DEF ConnectPool, To, Exists, TestDbInv, ReapsStale, MadeOnce, IsStale, TestDbTypeOK
  <1>11. ASSUME NEW t \in Tests, Recycle(t) PROVE ReapsStale'
    BY <1>0, <1>11 DEF Recycle, Exists, TestDbInv, ReapsStale, MadeOnce, IsStale, TestDbTypeOK
  <1>12. ASSUME NEW t \in Tests, DropGuard(t) PROVE ReapsStale'
    BY <1>0, <1>12 DEF DropGuard, To, TestDbInv, ReapsStale, MadeOnce, IsStale, TestDbTypeOK
  <1>13. ASSUME NEW t \in Tests, Terminate(t) PROVE ReapsStale'
    BY <1>0, <1>13 DEF Terminate, To, TestDbInv, ReapsStale, MadeOnce, IsStale, TestDbTypeOK
  <1>14. ASSUME NEW t \in Tests, CleanUp(t) PROVE ReapsStale'
    <2>1. /\ UNCHANGED <<reaper, wallClock>> /\ \A u \in Tests : u # t => test'[u] = test[u]
          /\ test'[t] \in {"next", "over"}
      BY <1>14 DEF CleanUp, To, TestDbInv, TestDbTypeOK
    <2>2. \A u \in Tests : /\ database'[u].epoch = database[u].epoch
                           /\ database[u].state # "none" => database'[u].state # "none"
      BY <1>14 DEF CleanUp, Dropped, TestDbInv, TestDbTypeOK
    <2>3. \A u \in Tests : reaper[u].names \subseteq Tests
      BY DEF TestDbInv, TestDbTypeOK
    <2> QED BY <2>1, <2>2, <2>3 DEF TestDbInv, ReapsStale, IsStale
  <1>15. ASSUME NEW t \in Tests, CleanupFails(t) PROVE ReapsStale'
    BY <1>0, <1>15 DEF CleanupFails, To, TestDbInv, ReapsStale, MadeOnce, IsStale, TestDbTypeOK
  <1>16. ASSUME NEW p \in Processes, ProcessEnds(p) PROVE ReapsStale'
    BY <1>0, <1>16 DEF ProcessEnds, CloseAdmin, NoReap, TestDbInv, ReapsStale, MadeOnce, IsStale, TestDbTypeOK
  <1>17. CASE SecondPasses
    BY <1>0, <1>17 DEF SecondPasses, TestDbInv, ReapsStale, MadeOnce, IsStale, TestDbTypeOK
  <1>18. CASE UNCHANGED testDbVars
    BY <1>18 DEF testDbVars, TestDbInv, ReapsStale, MadeOnce, IsStale, TestDbTypeOK
  <1> QED BY <1>1, <1>2, <1>3, <1>4, <1>5, <1>6, <1>7, <1>8, <1>9, <1>10, <1>11, <1>12, <1>13, <1>14, <1>15, <1>16, <1>17, <1>18 DEF TestDbNext

\* The types are kept.
LEMMA TestDbTypeStep ==
  ASSUME TestDbInv, [TestDbNext]_testDbVars
  PROVE  TestDbTypeOK'
  <1>0. \A t \in Tests : SystemNow(t) \in 0..(MaxClock + Ahead)
    BY ClockFacts DEF TestDbInv
  <1>h. \A t \in Tests : Host(t) \in Processes
    BY DEF Host, Tests
  <1>p. \A p \in Processes : p \subseteq Tests
    BY DEF Tests
  <1>n. NoReap \in [now : 0..(MaxClock + Ahead), names : SUBSET Tests, name : Tests \cup {NoTest}]
    BY TestDatabaseAssumption DEF NoReap
  <1>1. ASSUME NEW t \in Tests, ReapPrefixOnce(t) PROVE TestDbTypeOK'
    <2>1. reaper' \in [Tests -> [now : 0..(MaxClock + Ahead), names : SUBSET Tests, name : Tests \cup {NoTest}]]
      <3> DEFINE row == [reaper[t] EXCEPT !.now = SystemNow(t)]
      <3>1. reaper' = reaper \/ reaper' = [reaper EXCEPT ![t] = row]
        BY <1>1 DEF ReapPrefixOnce
      <3>2. reaper[t] \in [now : 0..(MaxClock + Ahead), names : SUBSET Tests, name : Tests \cup {NoTest}]
        BY DEF TestDbInv, TestDbTypeOK
      <3>3. row \in [now : 0..(MaxClock + Ahead), names : SUBSET Tests, name : Tests \cup {NoTest}]
        BY <1>0, <3>2
      <3> HIDE DEF row
      <3> QED BY <3>1, <3>3 DEF TestDbInv, TestDbTypeOK
    <2>2. test' \in [Tests -> Reaping \cup {"off", "create", "connect", "running", "terminate", "clean",
                                           "over", "ended"}]
      BY <1>1 DEF ReapPrefixOnce, To, TestDbInv, TestDbTypeOK, Reaping
    <2> QED BY <1>1, <2>1, <2>2 DEF ReapPrefixOnce, TestDbInv, TestDbTypeOK
  <1>2. ASSUME NEW t \in Tests, ListNames(t) PROVE TestDbTypeOK'
    BY <1>0, <1>h, <1>n, <1>2 DEF ListNames, To, TestDbInv, TestDbTypeOK, Reaping
  <1>3. ASSUME NEW t \in Tests, Candidate(t) PROVE TestDbTypeOK'
    <2>1. PICK d \in reaper[t].names :
            reaper' = [reaper EXCEPT ![t].names = @ \ {d}, ![t].name = d]
      BY <1>3 DEF Candidate
    <2>2. d \in Tests
      BY DEF TestDbInv, TestDbTypeOK
    <2>3. reaper' \in [Tests -> [now : 0..(MaxClock + Ahead), names : SUBSET Tests, name : Tests \cup {NoTest}]]
      <3> DEFINE row == [[reaper[t] EXCEPT !.names = @ \ {d}] EXCEPT !.name = d]
      <3>1. reaper' = [reaper EXCEPT ![t] = row]
        BY <2>1 DEF TestDbInv, TestDbTypeOK
      <3>2. reaper[t] \in [now : 0..(MaxClock + Ahead), names : SUBSET Tests, name : Tests \cup {NoTest}]
        BY DEF TestDbInv, TestDbTypeOK
      <3>3. row \in [now : 0..(MaxClock + Ahead), names : SUBSET Tests, name : Tests \cup {NoTest}]
        BY <2>2, <3>2
      <3> HIDE DEF row
      <3> QED BY <3>1, <3>3 DEF TestDbInv, TestDbTypeOK
    <2> QED BY <1>3, <2>3 DEF Candidate, To, TestDbInv, TestDbTypeOK, Reaping
  <1>4. ASSUME NEW t \in Tests, TryLock(t) PROVE TestDbTypeOK'
    <2>1. reaper[t].name \in Tests
      BY <1>4 DEF TryLock, TestDbInv, ReapsStale
    <2>2. advisory' \in [Tests -> Tests \cup {NoTest}]
      BY <1>4, <2>1 DEF TryLock, TestDbInv, TestDbTypeOK
    <2>3. test' \in [Tests -> Reaping \cup {"off", "create", "connect", "running", "terminate", "clean",
                                           "over", "ended"}]
      BY <1>4 DEF TryLock, To, TestDbInv, TestDbTypeOK, Reaping
    <2> QED BY <1>4, <2>2, <2>3 DEF TryLock, TestDbInv, TestDbTypeOK
  <1>5. ASSUME NEW t \in Tests, Recheck(t) PROVE TestDbTypeOK'
    <2>1. reaper[t].name \in Tests
      BY <1>5 DEF Recheck, TestDbInv, ReapsStale
    <2>2. advisory' \in [Tests -> Tests \cup {NoTest}]
      BY <1>5, <2>1 DEF Recheck, Unlock, TestDbInv, TestDbTypeOK
    <2>3. test' \in [Tests -> Reaping \cup {"off", "create", "connect", "running", "terminate", "clean",
                                           "over", "ended"}]
      BY <1>5 DEF Recheck, To, TestDbInv, TestDbTypeOK, Reaping
    <2> QED BY <1>5, <2>2, <2>3 DEF Recheck, TestDbInv, TestDbTypeOK
  <1>6. ASSUME NEW t \in Tests, DropStale(t) PROVE TestDbTypeOK'
    <2>1. reaper[t].name \in Tests
      BY <1>6 DEF DropStale, TestDbInv, ReapsStale
    <2>2. advisory' \in [Tests -> Tests \cup {NoTest}]
      BY <1>6, <2>1 DEF DropStale, Unlock, TestDbInv, TestDbTypeOK
    <2>3. test' \in [Tests -> Reaping \cup {"off", "create", "connect", "running", "terminate", "clean",
                                           "over", "ended"}]
      BY <1>6 DEF DropStale, To, TestDbInv, TestDbTypeOK, Reaping
    <2>4. database' \in [Tests -> [state : {"none", "there", "gone"}, epoch : 0..(MaxClock + Ahead)]]
      BY <1>6, <2>1 DEF DropStale, Dropped, TestDbInv, TestDbTypeOK
    <2> QED BY <1>6, <2>2, <2>3, <2>4 DEF DropStale, TestDbInv, TestDbTypeOK
  <1>7. ASSUME NEW t \in Tests, ContinueAfterReap(t) PROVE TestDbTypeOK'
    BY <1>0, <1>h, <1>n, <1>7 DEF ContinueAfterReap, To, TestDbInv, TestDbTypeOK, Reaping
  <1>8. ASSUME NEW t \in Tests, CreateDatabase(t) PROVE TestDbTypeOK'
    BY <1>0, <1>h, <1>n, <1>8 DEF CreateDatabase, To, CloseAdmin, TestDbInv, TestDbTypeOK, Reaping
  <1>9. ASSUME NEW t \in Tests, CreateFails(t) PROVE TestDbTypeOK'
    BY <1>0, <1>h, <1>n, <1>9 DEF CreateFails, To, CloseAdmin, TestDbInv, TestDbTypeOK, Reaping
  <1>10. ASSUME NEW t \in Tests, ConnectPool(t) PROVE TestDbTypeOK'
    BY <1>0, <1>h, <1>n, <1>10 DEF ConnectPool, To, Exists, TestDbInv, TestDbTypeOK, Reaping
  <1>11. ASSUME NEW t \in Tests, Recycle(t) PROVE TestDbTypeOK'
    BY <1>0, <1>h, <1>n, <1>11 DEF Recycle, Exists, TestDbInv, TestDbTypeOK, Reaping
  <1>12. ASSUME NEW t \in Tests, DropGuard(t) PROVE TestDbTypeOK'
    BY <1>0, <1>h, <1>n, <1>12 DEF DropGuard, To, TestDbInv, TestDbTypeOK, Reaping
  <1>13. ASSUME NEW t \in Tests, Terminate(t) PROVE TestDbTypeOK'
    BY <1>0, <1>h, <1>n, <1>13 DEF Terminate, To, TestDbInv, TestDbTypeOK, Reaping
  <1>14. ASSUME NEW t \in Tests, CleanUp(t) PROVE TestDbTypeOK'
    BY <1>0, <1>h, <1>n, <1>14, SMTT(30) DEF CleanUp, To, Dropped, Exists, TestDbInv, TestDbTypeOK, Reaping
  <1>15. ASSUME NEW t \in Tests, CleanupFails(t) PROVE TestDbTypeOK'
    BY <1>0, <1>h, <1>n, <1>15 DEF CleanupFails, To, TestDbInv, TestDbTypeOK, Reaping
  <1>16. ASSUME NEW p \in Processes, ProcessEnds(p) PROVE TestDbTypeOK'
    <2>1. test' \in [Tests -> Reaping \cup {"off", "create", "connect", "running", "terminate", "clean",
                                           "over", "ended"}]
      BY <1>16 DEF ProcessEnds, TestDbInv, TestDbTypeOK
    <2>2. attached' \subseteq Tests
      BY <1>16 DEF ProcessEnds, TestDbInv, TestDbTypeOK
    <2>3. advisory' \in [Tests -> Tests \cup {NoTest}]
      BY <1>16 DEF ProcessEnds, CloseAdmin, TestDbInv, TestDbTypeOK
    <2>4. reaper' \in [Tests -> [now : 0..(MaxClock + Ahead), names : SUBSET Tests, name : Tests \cup {NoTest}]]
      BY <1>n, <1>16 DEF ProcessEnds, TestDbInv, TestDbTypeOK
    <2> QED BY <1>16, <2>1, <2>2, <2>3, <2>4 DEF ProcessEnds, TestDbInv, TestDbTypeOK
  <1>17. CASE SecondPasses
    <2>1. wallClock' \in 0..MaxClock
      BY <1>17, TestDatabaseAssumption DEF SecondPasses, TestDbInv, TestDbTypeOK
    <2> QED BY <1>17, <2>1 DEF SecondPasses, TestDbInv, TestDbTypeOK
  <1>18. CASE UNCHANGED testDbVars
    BY <1>18 DEF testDbVars, TestDbInv, TestDbTypeOK, Reaping
  <1> QED BY <1>1, <1>2, <1>3, <1>4, <1>5, <1>6, <1>7, <1>8, <1>9, <1>10, <1>11, <1>12, <1>13, <1>14, <1>15, <1>16, <1>17, <1>18 DEF TestDbNext

\* No test has begun.
LEMMA TestDbInitInv == TestDbInit => TestDbInv
  <1> SUFFICES ASSUME TestDbInit PROVE TestDbInv
    OBVIOUS
  <1>1. 0 \in 0..(MaxClock + Ahead) /\ 0 \in 0..MaxClock /\ Ahead \in Nat
    BY TestDatabaseAssumption
  <1>2. TestDbTypeOK
    BY <1>1 DEF TestDbInit, TestDbTypeOK, NoReap
  <1>3. AttachedThere /\ GoneWasOld /\ LocksHeld /\ MadeOnce
    BY DEF TestDbInit, AttachedThere, GoneWasOld, LocksHeld, MadeOnce
  <1>4. ReapsStale
    BY <1>1 DEF TestDbInit, ReapsStale, NoReap
  <1> QED BY <1>2, <1>3, <1>4 DEF TestDbInv

LEMMA TestDbInvAlways == TestDbSpec => []TestDbInv
  <1>1. TestDbInv /\ [TestDbNext]_testDbVars => TestDbInv'
    BY TestDbTypeStep, AttachedStep, GoneStep, LocksStep, MadeStep, ReapsStep DEF TestDbInv
  <1> QED BY <1>1, TestDbInitInv, PTL DEF TestDbSpec

\* However many processes share the server, whatever their clocks and wherever they
\* are killed: no reaper takes a database that is connected, or one that is not
\* MaxAge old by the fastest clock.
THEOREM TestDatabaseInUseIsKept == TestDbSpec => []InUseIsKept
  <1>1. TestDbInv => InUseIsKept
    BY DEF TestDbInv, AttachedThere, GoneWasOld, LocksHeld, InUseIsKept
  <1> QED BY <1>1, TestDbInvAlways, PTL
-----------------------------------------------------------------------------
(* Sign-in *)

\* What is known of a challenge wherever it is: it was made, and that of a
\* registration carries the user_id and the name it is for.
Sound(c) ==
  /\ c.nonce <= nonces
  /\ c.kind # "none" => c.nonce # 0
  /\ c.kind = "registration" => c.user = c.nonce /\ c.username \in Usernames

ChallengesSound ==
  /\ \A s \in Sids : Sound(sessions[s].challenge)
  /\ \A b \in Browsers : Sound(offered[b])
  /\ \A r \in Requests : Sound(handler[r].challenge)

\* What a handler has established by the step it is at.
HandlerSound(h) ==
  /\ h.step # "free" => h.browser \in Browsers /\ h.sid \in Sids
  /\ h.step = "starting" => h.kind # "none"
  /\ h.step = "finishing" => /\ h.kind # "none" /\ h.cred \in Ids
                             /\ h.kind = "registration" => h.cred = h.nonce
  /\ h.step \in {"persisting", "signing in", "clearing"} =>
       h.nonce \in Ids /\ h.challenge.nonce = h.nonce
  /\ h.step = "persisting" => h.cred \in Ids /\ credentials[h.cred].exists
  /\ h.step \in {"signing in", "clearing"} => h.stored \in Ids /\ credentials[h.stored].exists

HandlersSound == \A r \in Requests : HandlerSound(handler[r])

\* A challenge is of one session, the one it was read from.
ChallengeHome ==
  /\ \A s, q \in Sids : sessions[s].challenge.nonce # 0 /\ sessions[s].challenge.nonce = sessions[q].challenge.nonce
                        => s = q
  /\ \A r \in Requests, s \in Sids :
       handler[r].challenge.nonce # 0 /\ sessions[s].challenge.nonce = handler[r].challenge.nonce
         => s = handler[r].sid

\* Accounts and credentials come in pairs, and whoever is signed in has one.
Paired ==
  /\ \A u \in Usernames : accounts[u] # 0 => credentials[accounts[u]].exists
  /\ \A c \in Ids : credentials[c].exists => \E u \in Usernames : accounts[u] = c
  /\ \A u, v \in Usernames : accounts[u] # 0 /\ accounts[u] = accounts[v] => u = v
SignedIn == \A s \in Sids : sessions[s].user # 0 => credentials[sessions[s].user].exists

\* What was answered was made before.
SpentPast == \A n \in spent : n <= nonces

SignInInv ==
  /\ SignInTypeOK /\ ChallengesSound /\ HandlersSound /\ ChallengeHome /\ Paired /\ SignedIn
  /\ SpentPast /\ SpentIsGone

\* A free handler has no challenge.
LEMMA FreeFacts ==
  /\ Free \in Handlers /\ NoChallenge \in Challenges
  /\ Free.step = "free" /\ Free.challenge = NoChallenge
  /\ NoChallenge.nonce = 0 /\ NoChallenge.kind = "none"
  BY DEF Free, NoChallenge, Handlers, Challenges, Steps

\* Nonces are numbers; the next one is new and no session has it.
LEMMA NonceFacts ==
  ASSUME SignInTypeOK
  PROVE  /\ nonces \in Nat /\ 0 \notin Ids /\ \A n \in Ids : n \in Nat
         /\ nonces < MaxNonces => nonces + 1 \in Ids
  <1>1. MaxNonces \in Nat /\ nonces \in 0..MaxNonces
    BY SignInAssumption DEF SignInTypeOK
  <1> QED BY <1>1 DEF Ids

\* The session is read once, or made; either way it stays as it is.
LEMMA ExtractFacts ==
  ASSUME SignInTypeOK, NEW r \in Requests, NEW b \in Browsers, NEW next \in Handlers, Extract(r, b, next)
  PROVE  /\ sessions' \in [Sids -> Sessions] /\ handler' \in [Requests -> Handlers]
         /\ \A s \in Sids : sessions'[s].challenge = sessions[s].challenge /\ sessions'[s].user = sessions[s].user
         /\ \A q \in Requests : q # r => handler'[q] = handler[q]
         /\ handler'[r].sid \in Sids
         /\ handler'[r].step = next.step /\ handler'[r].browser = next.browser /\ handler'[r].kind = next.kind
         /\ handler'[r].nonce = next.nonce /\ handler'[r].cred = next.cred
         /\ \/ handler'[r].challenge = next.challenge
            \/ handler'[r].challenge = sessions[handler'[r].sid].challenge
  <1>1. CASE /\ cookie[b] # 0
             /\ handler' = [handler EXCEPT ![r] = [next EXCEPT !.sid = cookie[b],
                                                               !.challenge = FromDb(cookie[b]).challenge]]
             /\ UNCHANGED sessions
    <2> DEFINE row == [next EXCEPT !.sid = cookie[b], !.challenge = sessions[cookie[b]].challenge]
    <2>1. cookie[b] \in Sids
      BY <1>1 DEF SignInTypeOK
    <2>2. sessions[cookie[b]].challenge \in Challenges
      BY <2>1 DEF SignInTypeOK, Sessions
    <2>3. /\ row \in Handlers /\ row.sid = cookie[b] /\ row.challenge = sessions[cookie[b]].challenge
          /\ row.step = next.step /\ row.browser = next.browser /\ row.kind = next.kind
          /\ row.nonce = next.nonce /\ row.cred = next.cred
      BY <2>1, <2>2 DEF Handlers
    <2>4. handler' = [handler EXCEPT ![r] = row]
      BY <1>1 DEF FromDb
    <2> HIDE DEF row
    <2>5. /\ handler' \in [Requests -> Handlers] /\ handler'[r] = row
          /\ \A q \in Requests : q # r => handler'[q] = handler[q]
      BY <2>3, <2>4 DEF SignInTypeOK
    <2> QED BY <1>1, <2>1, <2>3, <2>5 DEF SignInTypeOK
  <1>2. CASE /\ NextSid \in Sids
             /\ sessions' = [sessions EXCEPT ![NextSid].exists = TRUE]
             /\ handler' = [handler EXCEPT ![r] = [next EXCEPT !.sid = NextSid, !.fresh = TRUE]]
    <2> DEFINE n == NextSid
               row == [next EXCEPT !.sid = n, !.fresh = TRUE]
    <2> HIDE DEF n
    <2>1. n \in Sids /\ sessions' = [sessions EXCEPT ![n].exists = TRUE] /\ handler' = [handler EXCEPT ![r] = row]
      BY <1>2 DEF n
    <2>2. /\ row \in Handlers /\ row.sid = n /\ row.challenge = next.challenge
          /\ row.step = next.step /\ row.browser = next.browser /\ row.kind = next.kind
          /\ row.nonce = next.nonce /\ row.cred = next.cred
      BY <2>1 DEF Handlers
    <2> HIDE DEF row
    <2>3. /\ handler' \in [Requests -> Handlers] /\ handler'[r] = row
          /\ \A q \in Requests : q # r => handler'[q] = handler[q]
      BY <2>1, <2>2 DEF SignInTypeOK
    <2>4. /\ sessions' \in [Sids -> Sessions]
          /\ \A s \in Sids : sessions'[s].challenge = sessions[s].challenge /\ sessions'[s].user = sessions[s].user
      BY <2>1 DEF SignInTypeOK, Sessions
    <2> QED BY <2>1, <2>2, <2>3, <2>4
  <1> QED BY <1>1, <1>2 DEF Extract

\* A response frees the handler.
LEMMA RespondFacts ==
  ASSUME SignInTypeOK, HandlersSound, NEW r \in Requests, handler[r].step # "free", Respond(r)
  PROVE  /\ handler' \in [Requests -> Handlers] /\ cookie' \in [Browsers -> {0} \cup Sids]
         /\ handler'[r] = Free /\ \A q \in Requests : q # r => handler'[q] = handler[q]
  <1>1. handler[r].browser \in Browsers /\ handler[r].sid \in Sids
    BY DEF HandlersSound, HandlerSound
  <1>2. cookie' \in [Browsers -> {0} \cup Sids]
    BY <1>1 DEF Respond, SignInTypeOK
  <1> QED BY <1>2, FreeFacts DEF Respond, SignInTypeOK

\* A step that moves one handler, and neither makes a challenge or an account nor
\* clears one.
LEMMA QuietStep ==
  ASSUME SignInInv, SignInTypeOK', NEW r \in Requests,
         \A q \in Requests : q # r => handler'[q] = handler[q],
         \A s \in Sids : sessions'[s].challenge = sessions[s].challenge,
         \A s \in Sids : \/ sessions'[s].user = sessions[s].user
                         \/ credentials[sessions'[s].user].exists /\ sessions'[s].user \in Ids,
         \A c \in Ids : credentials'[c].exists = credentials[c].exists,
         UNCHANGED <<accounts, offered, nonces, spent>>,
         HandlerSound(handler[r])', Sound(handler[r].challenge)',
         \A s \in Sids : handler'[r].challenge.nonce # 0
                           /\ sessions[s].challenge.nonce = handler'[r].challenge.nonce => s = handler'[r].sid
  PROVE  SignInInv'
  <1>1. \A q \in Requests : Sound(handler[q].challenge)' /\ HandlerSound(handler[q])'
    <2> SUFFICES ASSUME NEW q \in Requests, q # r
                 PROVE  Sound(handler[q].challenge)' /\ HandlerSound(handler[q])'
      OBVIOUS
    <2>1. Sound(handler[q].challenge) /\ HandlerSound(handler[q]) /\ handler'[q] = handler[q]
      BY DEF SignInInv, ChallengesSound, HandlersSound
    <2>2. Sound(handler[q].challenge)'
      BY <2>1 DEF Sound
    <2>3. HandlerSound(handler[q])'
      BY <2>1 DEF HandlerSound
    <2> QED BY <2>2, <2>3
  <1>2. ChallengesSound'
    BY <1>1 DEF SignInInv, ChallengesSound, Sound
  <1>3. ChallengeHome'
    BY DEF SignInInv, ChallengeHome
  <1>4. Paired'
    BY DEF SignInInv, SignInTypeOK, Paired
  <1>5. SignedIn'
    <2>1. \A s \in Sids : sessions[s].user \in {0} \cup Ids
      BY DEF SignInInv, SignInTypeOK, Sessions
    <2> QED BY <2>1 DEF SignInInv, SignedIn
  <1>6. SpentPast' /\ SpentIsGone'
    BY DEF SignInInv, SpentPast, SpentIsGone
  <1> QED BY <1>1, <1>2, <1>3, <1>4, <1>5, <1>6 DEF SignInInv, HandlersSound

\* A request begins.
LEMMA ExtractStep ==
  ASSUME SignInInv, NEW r \in Requests, NEW b \in Browsers, NEW next \in Handlers,
         next.challenge = NoChallenge, next.step \in {"starting", "finishing"}, next.browser = b,
         next.kind # "none",
         next.step = "finishing" => /\ next.cred \in Ids
                                    /\ next.kind = "registration" => next.cred = next.nonce,
         Extract(r, b, next), signatures' \in [Ids -> Nat],
         UNCHANGED <<cookie, accounts, credentials, offered, nonces, spent>>
  PROVE  SignInInv'
  <1>1. /\ sessions' \in [Sids -> Sessions] /\ handler' \in [Requests -> Handlers]
        /\ \A s \in Sids : sessions'[s].challenge = sessions[s].challenge /\ sessions'[s].user = sessions[s].user
        /\ \A q \in Requests : q # r => handler'[q] = handler[q]
        /\ handler'[r].sid \in Sids
        /\ handler'[r].step = next.step /\ handler'[r].browser = next.browser /\ handler'[r].kind = next.kind
        /\ handler'[r].nonce = next.nonce /\ handler'[r].cred = next.cred
        /\ \/ handler'[r].challenge = next.challenge
           \/ handler'[r].challenge = sessions[handler'[r].sid].challenge
    BY ExtractFacts DEF SignInInv
  <1>2. SignInTypeOK'
    BY <1>1 DEF SignInInv, SignInTypeOK
  <1>3. HandlerSound(handler[r])'
    BY <1>1 DEF HandlerSound
  <1>4. Sound(handler'[r].challenge) /\ NoChallenge.nonce = 0
    <2>1. Sound(NoChallenge) /\ NoChallenge.nonce = 0
      BY NonceFacts, FreeFacts DEF Sound, SignInInv
    <2> QED BY <1>1, <2>1 DEF SignInInv, ChallengesSound
  <1>5. Sound(handler[r].challenge)'
    BY <1>4 DEF Sound
  <1>6. \A s \in Sids : handler'[r].challenge.nonce # 0
                          /\ sessions[s].challenge.nonce = handler'[r].challenge.nonce => s = handler'[r].sid
    BY <1>1, <1>4 DEF SignInInv, ChallengeHome
  <1> QED BY <1>1, <1>2, <1>3, <1>5, <1>6, QuietStep

LEMMA AskStartStep ==
  ASSUME SignInInv, NEW r \in Requests, NEW b \in Browsers, AskStart(r, b)
  PROVE  SignInInv'
  <1>1. PICK kind \in {"registration", "authentication", "discoverable"} :
          Extract(r, b, [Free EXCEPT !.step = "starting", !.browser = b, !.kind = kind])
    BY DEF AskStart
  <1> DEFINE next == [Free EXCEPT !.step = "starting", !.browser = b, !.kind = kind]
  <1>2. /\ next \in Handlers /\ next.challenge = NoChallenge /\ next.step = "starting"
        /\ next.browser = b /\ next.kind # "none"
    BY FreeFacts DEF Handlers, Steps
  <1>3. Extract(r, b, next)
    BY <1>1
  <1>4. signatures' \in [Ids -> Nat] /\ UNCHANGED <<cookie, accounts, credentials, offered, nonces, spent>>
    BY DEF AskStart, SignInInv, SignInTypeOK
  <1> HIDE DEF next
  <1> QED BY <1>2, <1>3, <1>4, ExtractStep

LEMMA AskFinishStep ==
  ASSUME SignInInv, NEW r \in Requests, NEW b \in Browsers, AskFinish(r, b)
  PROVE  SignInInv'
  <1>1. PICK cred \in Ids :
          /\ offered[b].kind = "registration" => cred = offered[b].user
          /\ signatures' = [signatures EXCEPT ![cred] = @ + 1]
          /\ Extract(r, b, [Free EXCEPT !.step = "finishing", !.browser = b, !.kind = offered[b].kind,
                                        !.nonce = offered[b].nonce, !.cred = cred,
                                        !.count = signatures[cred]])
    BY DEF AskFinish
  <1> DEFINE next == [Free EXCEPT !.step = "finishing", !.browser = b, !.kind = offered[b].kind,
                                  !.nonce = offered[b].nonce, !.cred = cred, !.count = signatures[cred]]
  <1>2. offered[b] \in Challenges /\ signatures[cred] \in Nat /\ offered[b].kind # "none"
    BY DEF AskFinish, SignInInv, SignInTypeOK
  <1>3. /\ offered[b].kind \in {"none", "registration", "authentication", "discoverable"}
        /\ offered[b].nonce \in {0} \cup Ids
    BY <1>2 DEF Challenges
  <1>4. /\ next \in Handlers /\ next.challenge = NoChallenge /\ next.step = "finishing"
        /\ next.browser = b /\ next.kind = offered[b].kind /\ next.cred = cred /\ next.nonce = offered[b].nonce
    BY <1>2, <1>3, FreeFacts DEF Handlers, Steps
  <1>5. offered[b].kind = "registration" => cred = offered[b].nonce
    BY <1>1 DEF SignInInv, ChallengesSound, Sound
  <1>6. Extract(r, b, next)
    BY <1>1
  <1>7. signatures' \in [Ids -> Nat]
    BY <1>1 DEF SignInInv, SignInTypeOK
  <1>8. UNCHANGED <<cookie, accounts, credentials, offered, nonces, spent>>
    BY DEF AskFinish
  <1> HIDE DEF next
  <1> QED BY <1>2, <1>4, <1>5, <1>6, <1>7, <1>8, ExtractStep

\* A handler that is freed says nothing.
LEMMA FreedSound ==
  ASSUME SignInInv, NEW r \in Requests, handler'[r] = Free, nonces' = nonces
  PROVE  /\ HandlerSound(handler[r])' /\ Sound(handler[r].challenge)'
         /\ handler'[r].challenge.nonce = 0
  <1>1. handler'[r].step = "free" /\ handler'[r].challenge = NoChallenge
    BY FreeFacts
  <1>2. nonces \in Nat
    BY NonceFacts DEF SignInInv
  <1> QED BY <1>1, <1>2, FreeFacts DEF HandlerSound, Sound

LEMMA FailsStep ==
  ASSUME SignInInv, NEW r \in Requests, handler[r].step # "free", Respond(r),
         UNCHANGED <<sessions, accounts, credentials, signatures, offered, nonces, spent>>
  PROVE  SignInInv'
  <1>1. /\ handler' \in [Requests -> Handlers] /\ cookie' \in [Browsers -> {0} \cup Sids]
        /\ handler'[r] = Free /\ \A q \in Requests : q # r => handler'[q] = handler[q]
    BY RespondFacts DEF SignInInv
  <1>2. SignInTypeOK'
    BY <1>1 DEF SignInInv, SignInTypeOK
  <1>3. HandlerSound(handler[r])' /\ Sound(handler[r].challenge)' /\ handler'[r].challenge.nonce = 0
    BY <1>1, FreedSound
  <1> QED BY <1>1, <1>2, <1>3, QuietStep

\* A handler goes on with the challenge it has read.
LEMMA OnwardSound ==
  ASSUME SignInInv, NEW r \in Requests, handler'[r].challenge = handler[r].challenge,
         handler'[r].sid = handler[r].sid, nonces' = nonces
  PROVE  /\ Sound(handler[r].challenge)'
         /\ \A s \in Sids : handler'[r].challenge.nonce # 0
                              /\ sessions[s].challenge.nonce = handler'[r].challenge.nonce => s = handler'[r].sid
  <1>1. Sound(handler[r].challenge)'
    BY DEF SignInInv, ChallengesSound, Sound
  <1> QED BY <1>1 DEF SignInInv, ChallengeHome

\* The answered challenge is the one that was read.
LEMMA MatchesFacts ==
  ASSUME SignInInv, NEW r \in Requests, handler[r].step = "finishing", Matches(r)
  PROVE  /\ handler[r].nonce \in Ids /\ handler[r].challenge.nonce = handler[r].nonce
         /\ handler[r].cred \in Ids /\ handler[r].browser \in Browsers /\ handler[r].sid \in Sids
         /\ handler[r].kind = "registration" =>
              /\ handler[r].challenge.user = handler[r].cred /\ handler[r].challenge.username \in Usernames
  <1>1. HandlerSound(handler[r]) /\ Sound(handler[r].challenge) /\ handler[r] \in Handlers
    BY DEF SignInInv, HandlersSound, ChallengesSound, SignInTypeOK
  <1>2. handler[r].nonce \in {0} \cup Ids
    BY <1>1 DEF Handlers
  <1>3. handler[r].kind # "none" /\ handler[r].challenge.kind # "none"
    BY <1>1 DEF HandlerSound, Matches
  <1>4. handler[r].nonce # 0
    BY <1>1, <1>3 DEF Sound, Matches
  <1>5. handler[r].kind = "registration" => handler[r].challenge.kind = "registration"
    BY DEF Matches
  <1> QED BY <1>1, <1>2, <1>4, <1>5 DEF HandlerSound, Sound, Matches

LEMMA FindCredentialStep ==
  ASSUME SignInInv, NEW r \in Requests, FindCredential(r)
  PROVE  SignInInv'
  <1> DEFINE row == [[handler[r] EXCEPT !.step = "persisting"] EXCEPT !.stored = credentials[handler[r].cred].count]
  <1>1. /\ handler[r].nonce \in Ids /\ handler[r].challenge.nonce = handler[r].nonce
        /\ handler[r].cred \in Ids /\ handler[r].browser \in Browsers /\ handler[r].sid \in Sids
    BY MatchesFacts DEF FindCredential
  <1>2. handler[r] \in Handlers /\ credentials[handler[r].cred].count \in Nat
    BY <1>1 DEF SignInInv, SignInTypeOK
  <1>3. /\ row \in Handlers /\ row.step = "persisting" /\ row.challenge = handler[r].challenge
        /\ row.sid = handler[r].sid /\ row.cred = handler[r].cred /\ row.nonce = handler[r].nonce
        /\ row.browser = handler[r].browser
    BY <1>2 DEF Handlers, Steps
  <1>4. handler' = [handler EXCEPT ![r] = row]
    BY DEF FindCredential, SignInInv, SignInTypeOK
  <1> HIDE DEF row
  <1>5. /\ handler' \in [Requests -> Handlers] /\ handler'[r] = row
        /\ \A q \in Requests : q # r => handler'[q] = handler[q]
    BY <1>3, <1>4 DEF SignInInv, SignInTypeOK
  <1>6. UNCHANGED <<cookie, sessions, accounts, credentials, signatures, offered, nonces, spent>>
    BY DEF FindCredential
  <1>7. SignInTypeOK'
    BY <1>5, <1>6 DEF SignInInv, SignInTypeOK
  <1>8. credentials[handler[r].cred].exists
    BY DEF FindCredential, FindByCredentialId
  <1>9. HandlerSound(handler[r])'
    BY <1>1, <1>3, <1>5, <1>6, <1>8 DEF HandlerSound
  <1>10. /\ Sound(handler[r].challenge)'
         /\ \A s \in Sids : handler'[r].challenge.nonce # 0
                              /\ sessions[s].challenge.nonce = handler'[r].challenge.nonce => s = handler'[r].sid
    BY <1>3, <1>5, <1>6, OnwardSound
  <1> QED BY <1>5, <1>6, <1>7, <1>9, <1>10, QuietStep

LEMMA PersistStep ==
  ASSUME SignInInv, NEW r \in Requests, Persist(r)
  PROVE  SignInInv'
  <1> DEFINE row == [[handler[r] EXCEPT !.step = "signing in"] EXCEPT !.stored = handler[r].cred]
  <1>1. /\ handler[r].nonce \in Ids /\ handler[r].challenge.nonce = handler[r].nonce
        /\ handler[r].cred \in Ids /\ handler[r].browser \in Browsers /\ handler[r].sid \in Sids
        /\ credentials[handler[r].cred].exists
    BY DEF Persist, SignInInv, HandlersSound, HandlerSound
  <1>2. handler[r] \in Handlers /\ handler[r].count \in Nat /\ handler[r].cred \in Nat
    BY <1>1, NonceFacts DEF SignInInv, SignInTypeOK, Handlers
  <1>3. /\ row \in Handlers /\ row.step = "signing in" /\ row.challenge = handler[r].challenge
        /\ row.sid = handler[r].sid /\ row.stored = handler[r].cred /\ row.nonce = handler[r].nonce
        /\ row.browser = handler[r].browser
    BY <1>2 DEF Handlers, Steps
  <1>4. handler' = [handler EXCEPT ![r] = row]
    BY DEF Persist, SignInInv, SignInTypeOK
  <1> HIDE DEF row
  <1>5. /\ handler' \in [Requests -> Handlers] /\ handler'[r] = row
        /\ \A q \in Requests : q # r => handler'[q] = handler[q]
    BY <1>3, <1>4 DEF SignInInv, SignInTypeOK
  <1>6. UNCHANGED <<cookie, sessions, accounts, signatures, offered, nonces, spent>>
    BY DEF Persist
  <1>7. /\ credentials' \in [Ids -> [exists : BOOLEAN, count : Nat]]
        /\ \A c \in Ids : credentials'[c].exists = credentials[c].exists
    BY <1>1, <1>2, ZenonT(30) DEF Persist, UpdateAfterAuth, SignInInv, SignInTypeOK
  <1>8. SignInTypeOK'
    BY <1>5, <1>6, <1>7 DEF SignInInv, SignInTypeOK
  <1>9. HandlerSound(handler[r])'
    BY <1>1, <1>3, <1>5, <1>7 DEF HandlerSound
  <1>10. /\ Sound(handler[r].challenge)'
         /\ \A s \in Sids : handler'[r].challenge.nonce # 0
                              /\ sessions[s].challenge.nonce = handler'[r].challenge.nonce => s = handler'[r].sid
    BY <1>3, <1>5, <1>6, OnwardSound
  <1> QED BY <1>5, <1>6, <1>7, <1>8, <1>9, <1>10, QuietStep

LEMMA SetUserIdStep ==
  ASSUME SignInInv, NEW r \in Requests, SetUserId(r)
  PROVE  SignInInv'
  <1> DEFINE row == [handler[r] EXCEPT !.step = "clearing"]
  <1>1. /\ handler[r].nonce \in Ids /\ handler[r].challenge.nonce = handler[r].nonce
        /\ handler[r].stored \in Ids /\ handler[r].browser \in Browsers /\ handler[r].sid \in Sids
        /\ credentials[handler[r].stored].exists
    BY DEF SetUserId, SignInInv, HandlersSound, HandlerSound
  <1>2. handler[r] \in Handlers
    BY DEF SignInInv, SignInTypeOK
  <1>3. /\ row \in Handlers /\ row.step = "clearing" /\ row.challenge = handler[r].challenge
        /\ row.sid = handler[r].sid /\ row.stored = handler[r].stored /\ row.nonce = handler[r].nonce
        /\ row.browser = handler[r].browser
    BY <1>2 DEF Handlers, Steps
  <1>4. handler' = [handler EXCEPT ![r] = row]
    BY DEF SetUserId, Onward, SignInInv, SignInTypeOK
  <1> HIDE DEF row
  <1>5. /\ handler' \in [Requests -> Handlers] /\ handler'[r] = row
        /\ \A q \in Requests : q # r => handler'[q] = handler[q]
    BY <1>3, <1>4 DEF SignInInv, SignInTypeOK
  <1>6. UNCHANGED <<cookie, accounts, credentials, signatures, offered, nonces, spent>>
    BY DEF SetUserId
  <1>7. /\ sessions' \in [Sids -> Sessions] /\ \A s \in Sids : sessions'[s].challenge = sessions[s].challenge
        /\ \A s \in Sids : sessions'[s].user = IF s = handler[r].sid THEN handler[r].stored ELSE sessions[s].user
    BY <1>1, ZenonT(30) DEF SetUserId, SignInInv, SignInTypeOK, Sessions
  <1>8. SignInTypeOK'
    BY <1>5, <1>6, <1>7 DEF SignInInv, SignInTypeOK
  <1>9. HandlerSound(handler[r])'
    BY <1>1, <1>3, <1>5, <1>6 DEF HandlerSound
  <1>10. /\ Sound(handler[r].challenge)'
         /\ \A s \in Sids : handler'[r].challenge.nonce # 0
                              /\ sessions[s].challenge.nonce = handler'[r].challenge.nonce => s = handler'[r].sid
    BY <1>3, <1>5, <1>6, OnwardSound
  <1>11. \A s \in Sids : \/ sessions'[s].user = sessions[s].user
                         \/ credentials[sessions'[s].user].exists /\ sessions'[s].user \in Ids
    BY <1>1, <1>7
  <1> QED BY <1>5, <1>6, <1>7, <1>8, <1>9, <1>10, <1>11, QuietStep

\* A registration makes an account and its credential, under a name and an id that
\* are both free.
LEMMA RegisterStep ==
  ASSUME SignInInv, NEW r \in Requests, Register(r)
  PROVE  SignInInv'
  <1> DEFINE made == handler[r].challenge
             cred == handler[r].cred
             row == [[handler[r] EXCEPT !.step = "signing in"] EXCEPT !.stored = made.user]
  <1>1. /\ handler[r].nonce \in Ids /\ made.nonce = handler[r].nonce
        /\ cred \in Ids /\ handler[r].browser \in Browsers /\ handler[r].sid \in Sids
        /\ made.user = cred /\ made.username \in Usernames
    BY MatchesFacts DEF Register
  <1>2. UNCHANGED <<sessions, signatures, offered, nonces, spent>>
    BY DEF Register
  <1>3. CASE UsernameExists(made.username) \/ FindByCredentialId(cred)
    <2>1. handler[r].step # "free" /\ Respond(r) /\ UNCHANGED <<accounts, credentials>>
      BY <1>3 DEF Register
    <2> QED BY <1>2, <2>1, FailsStep
  <1>4. CASE ~(UsernameExists(made.username) \/ FindByCredentialId(cred))
    <2>1. /\ accounts' = [accounts EXCEPT ![made.username] = cred]
          /\ credentials' = [credentials EXCEPT ![cred] = [exists |-> TRUE, count |-> 0]]
          /\ UNCHANGED cookie
      BY <1>1, <1>4 DEF Register, CreateUser, CreateCredential
    <2>2. accounts[made.username] = 0 /\ ~credentials[cred].exists
      BY <1>4 DEF UsernameExists, FindByCredentialId
    <2>3. handler' = [handler EXCEPT ![r] = row]
      BY <1>4 DEF Register, SignInInv, SignInTypeOK
    <2>4. handler[r] \in Handlers /\ made.user \in Nat
      BY <1>1, NonceFacts DEF SignInInv, SignInTypeOK
    <2>5. /\ row \in Handlers /\ row.step = "signing in" /\ row.challenge = made
          /\ row.sid = handler[r].sid /\ row.stored = made.user /\ row.nonce = handler[r].nonce
          /\ row.browser = handler[r].browser
      BY <2>4 DEF Handlers, Steps
    <2> HIDE DEF row
    <2>6. /\ handler' \in [Requests -> Handlers] /\ handler'[r] = row
          /\ \A q \in Requests : q # r => handler'[q] = handler[q]
      BY <2>3, <2>5 DEF SignInInv, SignInTypeOK
    <2>7. \A u \in Usernames : accounts'[u] = IF u = made.username THEN cred ELSE accounts[u]
      BY <1>1, <2>1 DEF SignInInv, SignInTypeOK
    <2>8. /\ credentials'[cred].exists
          /\ \A c \in Ids : c # cred => credentials'[c] = credentials[c]
          /\ credentials' \in [Ids -> [exists : BOOLEAN, count : Nat]]
      BY <1>1, <2>1 DEF SignInInv, SignInTypeOK
    <2>9. SignInTypeOK'
      BY <1>1, <1>2, <2>1, <2>6, <2>8 DEF SignInInv, SignInTypeOK
    <2> HIDE DEF cred, made
    <2>10. \A c \in Ids : credentials[c].exists => credentials'[c].exists
      BY <2>2, <2>8
    <2>11. Sound(handler[r].challenge)'
      BY <1>2, <2>5, <2>6, OnwardSound DEF made
    <2>12. ChallengesSound'
      <3>1. \A q \in Requests : Sound(handler[q].challenge)'
        BY <1>2, <2>6, <2>11 DEF SignInInv, ChallengesSound, Sound
      <3> QED BY <1>2, <3>1 DEF SignInInv, ChallengesSound, Sound
    <2>13. HandlersSound'
      <3>1. HandlerSound(handler[r])'
        BY <1>1, <2>5, <2>6, <2>8 DEF HandlerSound
      <3>2. ASSUME NEW q \in Requests, q # r PROVE HandlerSound(handler[q])'
        BY <2>6, <2>10, <3>2 DEF SignInInv, HandlersSound, HandlerSound
      <3> QED BY <3>1, <3>2 DEF HandlersSound
    <2>14. ChallengeHome'
      <3>1. \A q \in Requests : handler'[q].challenge = handler[q].challenge /\ handler'[q].sid = handler[q].sid
        BY <2>5, <2>6 DEF made
      <3> QED BY <1>2, <3>1 DEF SignInInv, ChallengeHome
    <2>15. Paired'
      <3>0. \A u \in Usernames : accounts[u] # 0 => accounts[u] \in Ids /\ accounts[u] # cred
        BY <2>2 DEF SignInInv, SignInTypeOK, Paired
      <3>a. cred # 0
        BY <1>1, NonceFacts DEF SignInInv
      <3>1. \A u \in Usernames : accounts'[u] # 0 => credentials'[accounts'[u]].exists
        BY <2>7, <2>8, <2>10, <3>0 DEF SignInInv, Paired
      <3>2. \A c \in Ids : credentials'[c].exists => \E u \in Usernames : accounts'[u] = c
        <4> SUFFICES ASSUME NEW c \in Ids, credentials'[c].exists
                     PROVE  \E u \in Usernames : accounts'[u] = c
          OBVIOUS
        <4>1. CASE c = cred
          BY <1>1, <2>7, <4>1
        <4>2. CASE c # cred
          <5>1. PICK u \in Usernames : accounts[u] = c
            BY <2>8, <4>2 DEF SignInInv, Paired
          <5>2. c # 0
            BY NonceFacts DEF SignInInv
          <5> QED BY <2>2, <2>7, <5>1, <5>2
        <4> QED BY <4>1, <4>2
      <3>3. \A u, v \in Usernames : accounts'[u] # 0 /\ accounts'[u] = accounts'[v] => u = v
        BY <2>7, <3>0, <3>a DEF SignInInv, Paired
      <3> QED BY <3>1, <3>2, <3>3 DEF Paired
    <2>16. SignedIn'
      <3>1. \A s \in Sids : sessions[s].user \in {0} \cup Ids
        BY DEF SignInInv, SignInTypeOK, Sessions
      <3> QED BY <1>2, <2>10, <3>1 DEF SignInInv, SignedIn
    <2>17. SpentPast' /\ SpentIsGone'
      BY <1>2 DEF SignInInv, SpentPast, SpentIsGone
    <2> QED BY <2>9, <2>12, <2>13, <2>14, <2>15, <2>16, <2>17 DEF SignInInv
  <1> QED BY <1>3, <1>4

\* A finish takes the answered challenge from the only session that can have it.
LEMMA ClearChallengeStep ==
  ASSUME SignInInv, NEW r \in Requests, ClearChallenge(r)
  PROVE  SignInInv'
  <1> DEFINE sid == handler[r].sid
  <1>1. /\ handler[r].nonce \in Ids /\ handler[r].challenge.nonce = handler[r].nonce /\ sid \in Sids
    BY DEF ClearChallenge, SignInInv, HandlersSound, HandlerSound
  <1>2. UNCHANGED <<accounts, credentials, signatures, offered, nonces>>
        /\ spent' = spent \cup {handler[r].nonce}
    BY DEF ClearChallenge
  <1>3. /\ handler' \in [Requests -> Handlers] /\ cookie' \in [Browsers -> {0} \cup Sids]
        /\ handler'[r] = Free /\ \A q \in Requests : q # r => handler'[q] = handler[q]
    BY RespondFacts DEF SignInInv, ClearChallenge
  <1>4. /\ sessions' \in [Sids -> Sessions] /\ \A s \in Sids : sessions'[s].user = sessions[s].user
        /\ \A s \in Sids : sessions'[s].challenge = IF s = sid THEN NoChallenge ELSE sessions[s].challenge
    BY <1>1, FreeFacts, SMTT(30) DEF ClearChallenge, SignInInv, SignInTypeOK, Sessions
  <1>5. SignInTypeOK'
    BY <1>1, <1>2, <1>3, <1>4 DEF SignInInv, SignInTypeOK
  <1>6. HandlerSound(handler[r])' /\ Sound(handler[r].challenge)' /\ handler'[r].challenge.nonce = 0
    BY <1>2, <1>3, FreedSound
  <1> HIDE DEF sid
  <1>7. nonces \in Nat /\ 0 \notin Ids
    BY NonceFacts DEF SignInInv
  <1>8. ChallengesSound'
    <2>1. Sound(NoChallenge)
      BY <1>7, FreeFacts DEF Sound
    <2>2. \A s \in Sids : Sound(sessions'[s].challenge)
      BY <1>4, <2>1 DEF SignInInv, ChallengesSound
    <2>3. \A s \in Sids : Sound(sessions[s].challenge)'
      BY <1>2, <2>2 DEF Sound
    <2>4. \A q \in Requests : Sound(handler[q].challenge)'
      BY <1>2, <1>3, <1>6 DEF SignInInv, ChallengesSound, Sound
    <2>5. \A b \in Browsers : Sound(offered[b])'
      BY <1>2 DEF SignInInv, ChallengesSound, Sound
    <2> QED BY <2>3, <2>4, <2>5 DEF ChallengesSound
  <1>9. HandlersSound'
    <2>1. ASSUME NEW q \in Requests, q # r PROVE HandlerSound(handler[q])'
      BY <1>2, <1>3, <2>1 DEF SignInInv, HandlersSound, HandlerSound
    <2> QED BY <1>6, <2>1 DEF HandlersSound
  <1>10. ChallengeHome'
    <2>1. \A s \in Sids : sessions'[s].challenge.nonce # 0 => sessions'[s].challenge = sessions[s].challenge
      BY <1>4, FreeFacts
    <2>2. \A q \in Requests : handler'[q].challenge.nonce # 0 => handler'[q] = handler[q]
      BY <1>3, <1>6
    <2> QED BY <2>1, <2>2 DEF SignInInv, ChallengeHome
  <1>11. Paired' /\ SignedIn'
    BY <1>2, <1>4 DEF SignInInv, Paired, SignedIn
  <1>12. SpentPast'
    <2>1. handler[r].nonce <= nonces
      BY <1>1 DEF SignInInv, ChallengesSound, Sound
    <2> QED BY <1>2, <2>1 DEF SignInInv, SpentPast
  <1>13. SpentIsGone'
    <2> SUFFICES ASSUME NEW s \in Sids PROVE sessions'[s].challenge.nonce \notin spent'
      BY DEF SpentIsGone
    <2>1. CASE s = sid
      <3>1. sessions'[s].challenge.nonce = 0 /\ 0 \notin spent'
        BY <1>1, <1>2, <1>4, <1>7, <2>1, FreeFacts DEF SignInInv, SignInTypeOK
      <3> QED BY <3>1
    <2>2. CASE s # sid
      <3>1. sessions[s].challenge.nonce # handler[r].nonce
        BY <1>1, <1>7, <2>2 DEF SignInInv, ChallengeHome, sid
      <3> QED BY <1>2, <1>4, <2>2, <3>1 DEF SignInInv, SpentIsGone
    <2> QED BY <2>1, <2>2
  <1> QED BY <1>5, <1>8, <1>9, <1>10, <1>11, <1>12, <1>13 DEF SignInInv

\* A start makes a challenge that no session, browser or handler has had.
LEMMA StartStep ==
  ASSUME SignInInv, NEW r \in Requests, Start(r)
  PROVE  SignInInv'
  <1> DEFINE sid == handler[r].sid
             kind == handler[r].kind
             n == nonces + 1
  <1>1. PICK name \in Usernames :
          /\ sessions' = [sessions EXCEPT ![sid].challenge = Challenge(kind, name)]
          /\ offered' = [offered EXCEPT ![handler[r].browser] = Challenge(kind, name)]
    BY DEF Start
  <1> DEFINE made == Challenge(kind, name)
  <1>2. /\ UNCHANGED <<accounts, credentials, signatures, spent>> /\ nonces' = n /\ nonces < MaxNonces
    BY DEF Start
  <1>3. /\ nonces \in Nat /\ n \in Ids /\ 0 \notin Ids /\ (\A i \in Ids : i \in Nat) /\ n \in 0..MaxNonces
    <2>1. nonces \in Nat /\ n \in Ids /\ 0 \notin Ids /\ (\A i \in Ids : i \in Nat)
      BY <1>2, NonceFacts DEF SignInInv
    <2>2. n \in 0..MaxNonces
      BY <1>2, <2>1, SignInAssumption
    <2> QED BY <2>1, <2>2
  <1>4. /\ sid \in Sids /\ handler[r].browser \in Browsers /\ kind # "none"
        /\ kind \in {"none", "registration", "authentication", "discoverable"}
    BY DEF Start, SignInInv, HandlersSound, HandlerSound, SignInTypeOK, Handlers
  <1>5. /\ handler' \in [Requests -> Handlers] /\ cookie' \in [Browsers -> {0} \cup Sids]
        /\ handler'[r] = Free /\ \A q \in Requests : q # r => handler'[q] = handler[q]
    BY RespondFacts DEF SignInInv, Start
  <1> HIDE DEF n, sid, kind
  <1>6. /\ made \in Challenges /\ made.nonce = n
        /\ made.kind = "registration" => made.user = n /\ made.username \in Usernames
    <2> DEFINE user == CASE kind = "registration" -> n
                         [] kind = "authentication" -> accounts[name]
                         [] OTHER -> 0
               called == IF kind = "discoverable" THEN "none" ELSE name
    <2>1. accounts[name] \in {0} \cup Ids
      BY DEF SignInInv, SignInTypeOK
    <2>2. user \in {0} \cup Ids /\ (kind = "registration" => user = n)
      BY <1>3, <2>1
    <2>3. called \in {"none"} \cup Usernames /\ (kind = "registration" => called \in Usernames)
      OBVIOUS
    <2>4. made = [kind |-> kind, nonce |-> n, username |-> called, user |-> user]
      BY DEF Challenge, n
    <2> HIDE DEF user, called, made
    <2> QED BY <1>3, <1>4, <2>2, <2>3, <2>4 DEF Challenges
  <1> HIDE DEF made
  <1>7. /\ sessions' \in [Sids -> Sessions] /\ \A s \in Sids : sessions'[s].user = sessions[s].user
        /\ \A s \in Sids : sessions'[s].challenge = IF s = sid THEN made ELSE sessions[s].challenge
    <2>1. sessions' = [sessions EXCEPT ![sid].challenge = made]
      BY <1>1 DEF made
    <2> QED BY <1>4, <1>6, <2>1 DEF SignInInv, SignInTypeOK, Sessions
  <1>8. /\ offered' \in [Browsers -> Challenges]
        /\ \A b \in Browsers : offered'[b] \in {offered[b], made}
    <2>1. offered' = [offered EXCEPT ![handler[r].browser] = made]
      BY <1>1 DEF made
    <2> QED BY <1>4, <1>6, <2>1 DEF SignInInv, SignInTypeOK
  <1>9. SignInTypeOK'
    BY <1>2, <1>3, <1>5, <1>7, <1>8 DEF SignInInv, SignInTypeOK
  <1>10. \A c : c.nonce \in {0} \cup Ids /\ Sound(c) => (c.nonce <= n /\ c.nonce # n)
    BY <1>3 DEF Sound, n
  <1>11. \A c : c.nonce \in {0} \cup Ids /\ Sound(c) =>
           /\ c.nonce <= nonces' /\ (c.kind # "none" => c.nonce # 0)
           /\ c.kind = "registration" => c.user = c.nonce /\ c.username \in Usernames
    BY <1>2, <1>10 DEF Sound
  <1>12. /\ made.nonce <= nonces' /\ made.nonce # 0
    BY <1>2, <1>3, <1>6
  <1>a. /\ \A s \in Sids : sessions[s].challenge.nonce \in {0} \cup Ids /\ Sound(sessions[s].challenge)
        /\ \A b \in Browsers : offered[b].nonce \in {0} \cup Ids /\ Sound(offered[b])
        /\ \A q \in Requests : handler[q].challenge.nonce \in {0} \cup Ids /\ Sound(handler[q].challenge)
    BY DEF SignInInv, SignInTypeOK, Sessions, Handlers, Challenges, ChallengesSound
  <1>b. handler'[r].step = "free" /\ handler'[r].challenge = NoChallenge
    BY <1>5, FreeFacts
  <1>13. ChallengesSound'
    <2>1. ASSUME NEW s \in Sids PROVE Sound(sessions[s].challenge)'
      <3>1. CASE s = sid
        BY <1>6, <1>7, <1>12, <3>1 DEF Sound
      <3>2. CASE s # sid
        BY <1>7, <1>11, <1>a, <3>2 DEF Sound
      <3> QED BY <3>1, <3>2
    <2>2. ASSUME NEW b \in Browsers PROVE Sound(offered[b])'
      <3>1. CASE offered'[b] = made
        BY <1>6, <1>12, <3>1 DEF Sound
      <3>2. CASE offered'[b] = offered[b]
        BY <1>11, <1>a, <3>2 DEF Sound
      <3> QED BY <1>8, <3>1, <3>2
    <2>3. ASSUME NEW q \in Requests PROVE Sound(handler[q].challenge)'
      <3>1. CASE q = r
        BY <1>2, <1>3, <1>b, <3>1, FreeFacts DEF Sound
      <3>2. CASE q # r
        BY <1>5, <1>11, <1>a, <3>2 DEF Sound
      <3> QED BY <3>1, <3>2
    <2> QED BY <2>1, <2>2, <2>3 DEF ChallengesSound
  <1>14. HandlersSound'
    <2>1. ASSUME NEW q \in Requests, q # r PROVE HandlerSound(handler[q])'
      BY <1>2, <1>5, <2>1 DEF SignInInv, HandlersSound, HandlerSound
    <2>2. HandlerSound(handler[r])'
      BY <1>b DEF HandlerSound
    <2> QED BY <2>1, <2>2 DEF HandlersSound
  <1>15. ChallengeHome'
    <2>1. /\ \A s \in Sids : sessions[s].challenge.nonce # n
          /\ \A q \in Requests : handler[q].challenge.nonce # n
      BY <1>10, <1>a
    <2>2. ASSUME NEW s \in Sids, NEW q \in Sids, sessions'[s].challenge.nonce # 0,
                 sessions'[s].challenge.nonce = sessions'[q].challenge.nonce
          PROVE  s = q
      BY <1>6, <1>7, <2>1, <2>2 DEF SignInInv, ChallengeHome
    <2>3. ASSUME NEW q \in Requests, NEW s \in Sids, handler'[q].challenge.nonce # 0,
                 sessions'[s].challenge.nonce = handler'[q].challenge.nonce
          PROVE  s = handler'[q].sid
      <3>1. q # r /\ handler'[q] = handler[q]
        BY <1>5, <1>b, <2>3, FreeFacts
      <3> QED BY <1>6, <1>7, <2>1, <2>3, <3>1 DEF SignInInv, ChallengeHome
    <2> QED BY <2>2, <2>3 DEF ChallengeHome
  <1>16. Paired' /\ SignedIn'
    BY <1>2, <1>7 DEF SignInInv, Paired, SignedIn
  <1>17. \A i \in spent : i <= nonces' /\ i # n
    <2>1. \A i \in spent : i \in Nat /\ i <= nonces
      BY <1>3 DEF SignInInv, SignInTypeOK, SpentPast
    <2> QED BY <1>2, <1>3, <2>1 DEF n
  <1>18. SpentPast' /\ SpentIsGone'
    BY <1>2, <1>6, <1>7, <1>17 DEF SignInInv, SpentPast, SpentIsGone
  <1> QED BY <1>9, <1>13, <1>14, <1>15, <1>16, <1>18 DEF SignInInv

\* Nobody has asked for anything.
LEMMA SignInInitInv == SignInInit => SignInInv
  <1> SUFFICES ASSUME SignInInit PROVE SignInInv
    OBVIOUS
  <1>1. /\ nonces = 0 /\ spent = {} /\ \A r \in Requests : handler[r] = Free
        /\ \A b \in Browsers : offered[b] = NoChallenge
    BY DEF SignInInit
  <1>2. \A s \in Sids : sessions[s].challenge = NoChallenge /\ sessions[s].user = 0
    BY DEF SignInInit
  <1>3. SignInTypeOK
    <2>1. MaxNonces \in Nat
      BY SignInAssumption
    <2>2. nonces \in 0..MaxNonces /\ signatures \in [Ids -> Nat]
      BY <2>1 DEF SignInInit
    <2>3. credentials \in [Ids -> [exists : BOOLEAN, count : Nat]] /\ sessions \in [Sids -> Sessions]
      BY FreeFacts DEF SignInInit, Sessions
    <2> QED BY <2>2, <2>3, FreeFacts DEF SignInInit, SignInTypeOK
  <1>4. Sound(NoChallenge)
    BY <1>1, FreeFacts DEF Sound
  <1>5. ChallengesSound /\ ChallengeHome
    BY <1>1, <1>2, <1>4, FreeFacts DEF ChallengesSound, ChallengeHome
  <1>6. HandlersSound
    BY <1>1, FreeFacts DEF HandlersSound, HandlerSound
  <1>7. Paired /\ SignedIn
    BY <1>2 DEF SignInInit, Paired, SignedIn
  <1>8. SpentPast /\ SpentIsGone
    BY <1>1 DEF SpentPast, SpentIsGone
  <1> QED BY <1>3, <1>5, <1>6, <1>7, <1>8 DEF SignInInv

\* Every step of every request keeps the invariant.
LEMMA SignInInvStep ==
  ASSUME SignInInv, [SignInNext]_signInVars
  PROVE  SignInInv'
  <1>1. ASSUME NEW r \in Requests, Fails(r) PROVE SignInInv'
    BY <1>1, FailsStep DEF Fails
  <1>2. CASE UNCHANGED signInVars
    <2>1. SignInTypeOK'
      BY <1>2 DEF signInVars, SignInInv, SignInTypeOK
    <2>2. ChallengesSound' /\ ChallengeHome'
      BY <1>2 DEF signInVars, SignInInv, ChallengesSound, ChallengeHome, Sound
    <2>3. HandlersSound' /\ Paired' /\ SignedIn'
      BY <1>2 DEF signInVars, SignInInv, HandlersSound, HandlerSound, Paired, SignedIn
    <2>4. SpentPast' /\ SpentIsGone'
      BY <1>2 DEF signInVars, SignInInv, SpentPast, SpentIsGone
    <2> QED BY <2>1, <2>2, <2>3, <2>4 DEF SignInInv
  <1> QED BY <1>1, <1>2, AskStartStep, AskFinishStep, StartStep, RegisterStep, FindCredentialStep,
             PersistStep, SetUserIdStep, ClearChallengeStep DEF SignInNext

LEMMA SignInInvAlways == SignInSpec => []SignInInv
  <1>1. SignInInv /\ [SignInNext]_signInVars => SignInInv'
    BY SignInInvStep
  <1> QED BY <1>1, SignInInitInv, PTL DEF SignInSpec

\* However many requests overlap and wherever they fail: an account has its
\* credential, a credential its account, and a session is signed in as one account.
THEOREM SignInAccountsWhole == SignInSpec => []AccountsWhole
  <1>1. SignInInv => AccountsWhole
    <2> SUFFICES ASSUME SignInInv PROVE AccountsWhole
      OBVIOUS
    <2>1. ASSUME NEW s \in Sids, sessions[s].user # 0 PROVE Cardinality(CurrentUser(s)) = 1
      <3>1. sessions[s].user \in Ids
        BY <2>1 DEF SignInInv, SignInTypeOK, Sessions
      <3>2. PICK u \in Usernames : accounts[u] = sessions[s].user
        BY <2>1, <3>1 DEF SignInInv, SignedIn, Paired
      <3>3. CurrentUser(s) = {u}
        BY <2>1, <3>2 DEF CurrentUser, SignInInv, Paired
      <3> QED BY <3>3, FS_Singleton
    <2> QED BY <2>1 DEF SignInInv, Paired, AccountsWhole
  <1> QED BY <1>1, SignInInvAlways, PTL

\* A challenge that was answered with 200 is in no session any more.
THEOREM SignInSpentIsGone == SignInSpec => []SpentIsGone
  <1>1. SignInInv => SpentIsGone
    BY DEF SignInInv
  <1> QED BY <1>1, SignInInvAlways, PTL
-----------------------------------------------------------------------------
(* The scan of a style sheet *)

\* d brackets of one kind and, inside those, p of another.
Pile(d, p, x, y) == [i \in 1..(d + p) |-> IF i <= d THEN x ELSE y]

LEMMA PileFacts ==
  ASSUME NEW d \in Nat, NEW p \in Nat, NEW S, NEW x \in S, NEW y \in S
  PROVE  /\ Pile(d, p, x, y) \in Seq(S) /\ Len(Pile(d, p, x, y)) = d + p
         /\ \A i \in 1..(d + p) : Pile(d, p, x, y)[i] = IF i <= d THEN x ELSE y
  <1>1. Pile(d, p, x, y) \in [1..(d + p) -> S]
    BY DEF Pile
  <1>2. d + p \in Nat
    OBVIOUS
  <1>3. Pile(d, p, x, y) \in Seq(S)
    BY <1>1, <1>2, SeqDef
  <1>4. DOMAIN Pile(d, p, x, y) = 1..(d + p)
    BY DEF Pile
  <1>5. Len(Pile(d, p, x, y)) = d + p
    <2>1. Len(Pile(d, p, x, y)) \in Nat /\ DOMAIN Pile(d, p, x, y) = 1..Len(Pile(d, p, x, y))
      BY <1>3, LenProperties
    <2> QED BY <1>2, <1>4, <2>1
  <1>6. \A i \in 1..(d + p) : Pile(d, p, x, y)[i] = IF i <= d THEN x ELSE y
    BY DEF Pile
  <1> QED BY <1>3, <1>5, <1>6

LEMMA SamePile ==
  ASSUME NEW d \in Nat, NEW p \in Nat, NEW S, NEW x \in S, NEW y \in S
  PROVE  \A s \in Seq(S) :
           Len(s) = d + p /\ (\A i \in 1..(d + p) : s[i] = IF i <= d THEN x ELSE y)
             => s = Pile(d, p, x, y)
  <1> DEFINE t == Pile(d, p, x, y)
  <1>1. /\ t \in Seq(S) /\ Len(t) = d + p
        /\ \A i \in 1..(d + p) : t[i] = IF i <= d THEN x ELSE y
    BY PileFacts
  <1> HIDE DEF t
  <1>2. ASSUME NEW s \in Seq(S), Len(s) = d + p, \A i \in 1..(d + p) : s[i] = IF i <= d THEN x ELSE y
        PROVE  s = t
    <2>1. Len(s) = Len(t) /\ \A i \in 1..Len(s) : s[i] = t[i]
      BY <1>1, <1>2
    <2> QED BY <1>1, <2>1, SeqEqual
  <1> QED BY <1>2 DEF t

\* Opening and closing the innermost bracket.
Pushed(l, b) == Append(l, b)

LEMMA PileOpens ==
  ASSUME NEW d \in Nat, NEW p \in Nat, NEW S, NEW x \in S, NEW y \in S
  PROVE  /\ Pushed(Pile(d, p, x, y), y) = Pile(d, p + 1, x, y)
         /\ p = 0 => Pushed(Pile(d, p, x, y), x) = Pile(d + 1, p, x, y)
  <1> DEFINE t == Pile(d, p, x, y)
  <1>0. /\ t \in Seq(S) /\ Len(t) = d + p
        /\ \A i \in 1..(d + p) : t[i] = IF i <= d THEN x ELSE y
    BY PileFacts
  <1> HIDE DEF t
  <1>1. Append(t, y) = Pile(d, p + 1, x, y)
    <2> DEFINE s == Append(t, y)
    <2>1. /\ s \in Seq(S) /\ Len(s) = Len(t) + 1
          /\ \A i \in 1..Len(t) : s[i] = t[i]
          /\ s[Len(t) + 1] = y
      BY <1>0, AppendProperties
    <2> HIDE DEF s
    <2>2. Len(s) = d + (p + 1) /\ p + 1 \in Nat
      BY <1>0, <2>1
    <2>3. ASSUME NEW i \in 1..(d + (p + 1)) PROVE s[i] = IF i <= d THEN x ELSE y
      <3>1. CASE i <= d + p
        BY <1>0, <2>1, <3>1
      <3>2. CASE i = d + p + 1
        BY <1>0, <2>1, <3>2
      <3> QED BY <3>1, <3>2
    <2>4. s = Pile(d, p + 1, x, y)
      BY <2>1, <2>2, <2>3, SamePile
    <2> QED BY <2>4 DEF s
  <1>2. ASSUME p = 0 PROVE Append(t, x) = Pile(d + 1, p, x, y)
    <2> DEFINE s == Append(t, x)
    <2>1. /\ s \in Seq(S) /\ Len(s) = Len(t) + 1
          /\ \A i \in 1..Len(t) : s[i] = t[i]
          /\ s[Len(t) + 1] = x
      BY <1>0, AppendProperties
    <2> HIDE DEF s
    <2>2. Len(s) = (d + 1) + p /\ d + 1 \in Nat
      BY <1>0, <2>1
    <2>3. ASSUME NEW i \in 1..((d + 1) + p) PROVE s[i] = IF i <= d + 1 THEN x ELSE y
      <3>1. CASE i <= d + p
        BY <1>0, <1>2, <2>1, <3>1
      <3>2. CASE i = d + p + 1
        BY <1>0, <1>2, <2>1, <3>2
      <3> QED BY <3>1, <3>2
    <2>4. s = Pile(d + 1, p, x, y)
      BY <2>1, <2>2, <2>3, SamePile
    <2> QED BY <2>4 DEF s
  <1> QED BY <1>1, <1>2 DEF t, Pushed

LEMMA PileShuts ==
  ASSUME NEW d \in Nat, NEW p \in Nat, NEW S, NEW x \in S, NEW y \in S
  PROVE  /\ p > 0 => /\ Pile(d, p, x, y) # <<>> /\ Last(Pile(d, p, x, y)) = y
                     /\ Front(Pile(d, p, x, y)) = Pile(d, p - 1, x, y)
         /\ p = 0 /\ d > 0 => /\ Pile(d, p, x, y) # <<>> /\ Last(Pile(d, p, x, y)) = x
                              /\ Front(Pile(d, p, x, y)) = Pile(d - 1, p, x, y)
  <1> DEFINE t == Pile(d, p, x, y)
             s == SubSeq(t, 1, Len(t) - 1)
  <1>0. /\ t \in Seq(S) /\ Len(t) = d + p
        /\ \A i \in 1..(d + p) : t[i] = IF i <= d THEN x ELSE y
    BY PileFacts
  <1> HIDE DEF t
  <1>1. ASSUME d + p > 0
        PROVE  /\ s \in Seq(S) /\ Len(s) = d + p - 1
               /\ \A i \in 1..(d + p - 1) : s[i] = t[i]
    <2>1. s \in Seq(S) /\ Len(s) = Len(t) - 1 /\ \A i \in 1..(Len(t) - 1) : s[i] = t[i]
      BY <1>0, <1>1, SubSeqProperties
    <2> HIDE DEF s
    <2> QED BY <1>0, <2>1, SMTT(30)
  <1>2. Front(t) = s /\ Last(t) = t[Len(t)]
    BY DEF Front, Last
  <1> HIDE DEF s
  <1>3. d + p > 0 => t # <<>>
    BY <1>0, EmptySeq
  <1>4. ASSUME p > 0 PROVE t # <<>> /\ Last(t) = y /\ Front(t) = Pile(d, p - 1, x, y)
    <2>1. d + p > 0 /\ p - 1 \in Nat /\ d + p - 1 = d + (p - 1) /\ ~(d + p <= d) /\ d + p \in 1..(d + p)
      BY <1>4
    <2>2. \A i \in 1..(d + (p - 1)) : s[i] = IF i <= d THEN x ELSE y
      BY <1>0, <1>1, <2>1
    <2>3. s \in Seq(S) /\ Len(s) = d + (p - 1)
      BY <1>1, <2>1
    <2>4. s = Pile(d, p - 1, x, y)
      BY <2>1, <2>2, <2>3, SamePile
    <2>5. Last(t) = y
      BY <1>0, <1>2, <2>1
    <2> QED BY <1>2, <1>3, <2>1, <2>4, <2>5
  <1>5. ASSUME p = 0, d > 0 PROVE t # <<>> /\ Last(t) = x /\ Front(t) = Pile(d - 1, p, x, y)
    <2>1. d + p > 0 /\ d - 1 \in Nat /\ d + p - 1 = (d - 1) + p /\ d + p <= d /\ d + p \in 1..(d + p)
      BY <1>5
    <2>2. \A i \in 1..((d - 1) + p) : s[i] = IF i <= d - 1 THEN x ELSE y
      <3> SUFFICES ASSUME NEW i \in 1..((d - 1) + p) PROVE s[i] = x /\ i <= d - 1
        OBVIOUS
      <3>1. i \in 1..(d + p - 1) /\ i \in 1..(d + p) /\ i <= d - 1 /\ i <= d
        BY <1>5
      <3> QED BY <1>0, <1>1, <2>1, <3>1
    <2>3. s \in Seq(S) /\ Len(s) = (d - 1) + p
      BY <1>1, <2>1
    <2>4. s = Pile(d - 1, p, x, y)
      BY <2>1, <2>2, <2>3, SamePile
    <2>5. Last(t) = x
      BY <1>0, <1>2, <2>1
    <2> QED BY <1>2, <1>3, <2>1, <2>4, <2>5
  <1> QED BY <1>4, <1>5 DEF t

\* The counters stay within what has been read.
Counted ==
  /\ cssDepth \in Nat /\ parens \in Nat /\ read \in Nat
  /\ cssDepth + parens <= read /\ read <= MaxTokens

\* Inside a parenthesis a statement has begun, so no custom property can; nothing is
\* open in an accepted sheet.
Flagged ==
  /\ started \in BOOLEAN /\ scan \in {"scanning", "accepted", "rejected"}
  /\ closers = None \/ closers \in Seq({")", "]", "}"})
  /\ closers # None => parens = 0
  /\ parens > 0 => started
  /\ scan = "accepted" => cssDepth = 0 /\ parens = 0

Nested == scan # "rejected" => nest = Pile(cssDepth, parens, "{", "(")

Placed ==
  /\ edges \subseteq [rule : Directives, at : Seq({"(", "{"})]
  /\ \A e \in edges : "(" \notin Range(e.at) /\ (e.rule # "@import css" => e.at = <<>>)

CssInv == Counted /\ Flagged /\ Nested /\ Placed

LEMMA BracketsShut ==
  ASSUME NEW d \in Nat, NEW p \in Nat
  PROVE  /\ p > 0 => /\ Pile(d, p, "{", "(") # <<>> /\ Last(Pile(d, p, "{", "(")) = "("
                     /\ Front(Pile(d, p, "{", "(")) = Pile(d, p - 1, "{", "(")
         /\ p = 0 /\ d > 0 => /\ Pile(d, p, "{", "(") # <<>> /\ Last(Pile(d, p, "{", "(")) = "{"
                              /\ Front(Pile(d, p, "{", "(")) = Pile(d - 1, p, "{", "(")
  <1> DEFINE brace == "{"
             paren == "("
             S == {paren, brace}
  <1>1. brace \in S /\ paren \in S
    OBVIOUS
  <1> HIDE DEF brace, paren, S
  <1>2. /\ p > 0 => /\ Pile(d, p, brace, paren) # <<>> /\ Last(Pile(d, p, brace, paren)) = paren
                    /\ Front(Pile(d, p, brace, paren)) = Pile(d, p - 1, brace, paren)
        /\ p = 0 /\ d > 0 => /\ Pile(d, p, brace, paren) # <<>> /\ Last(Pile(d, p, brace, paren)) = brace
                             /\ Front(Pile(d, p, brace, paren)) = Pile(d - 1, p, brace, paren)
    BY <1>1, PileShuts
  <1> QED BY <1>2 DEF brace, paren

LEMMA BracketsOpen ==
  ASSUME NEW d \in Nat, NEW p \in Nat
  PROVE  /\ Pushed(Pile(d, p, "{", "("), "(") = Pile(d, p + 1, "{", "(")
         /\ p = 0 => Pushed(Pile(d, p, "{", "("), "{") = Pile(d + 1, p, "{", "(")
  <1> DEFINE brace == "{"
             paren == "("
             S == {paren, brace}
  <1>1. brace \in S /\ paren \in S
    OBVIOUS
  <1> HIDE DEF brace, paren, S
  <1>2. Pushed(Pile(d, p, brace, paren), paren) = Pile(d, p + 1, brace, paren)
    BY <1>1, PileOpens
  <1>3. p = 0 => Pushed(Pile(d, p, brace, paren), brace) = Pile(d + 1, p, brace, paren)
    BY <1>1, PileOpens
  <1> QED BY <1>2, <1>3 DEF brace, paren

\* With no parenthesis open there are only braces.
LEMMA PileOfOne ==
  ASSUME NEW d \in Nat, NEW S, NEW x \in S, NEW y \in S
  PROVE  /\ Pile(d, 0, x, y) \in Seq(S) /\ DOMAIN Pile(d, 0, x, y) = 1..d
         /\ \A i \in 1..d : Pile(d, 0, x, y)[i] = x
  <1>1. Pile(d, 0, x, y) \in Seq(S)
    BY PileFacts
  <1>2. d + 0 = d /\ \A i \in 1..d : i <= d
    OBVIOUS
  <1> QED BY <1>1, <1>2 DEF Pile

LEMMA OnlyBraces ==
  ASSUME NEW d \in Nat
  PROVE  /\ Pile(d, 0, "{", "(") \in Seq({"(", "{"}) /\ DOMAIN Pile(d, 0, "{", "(") = 1..d
         /\ \A i \in 1..d : Pile(d, 0, "{", "(")[i] = "{"
  <1> DEFINE S == {"(", "{"}
  <1>1. "{" \in S /\ "(" \in S
    OBVIOUS
  <1> HIDE DEF S
  <1>2. /\ Pile(d, 0, "{", "(") \in Seq(S) /\ DOMAIN Pile(d, 0, "{", "(") = 1..d
        /\ \A i \in 1..d : Pile(d, 0, "{", "(")[i] = "{"
    BY <1>1, PileOfOne
  <1> QED BY <1>2 DEF S

LEMMA FrontIsSeq ==
  ASSUME NEW S, NEW l \in Seq(S), l # <<>>
  PROVE  Front(l) \in Seq(S)
  <1>1. Len(l) \in Nat \ {0} /\ DOMAIN l = 1..Len(l)
    BY EmptySeq
  <1>2. SubSeq(l, 1, Len(l) - 1) \in Seq(S)
    BY <1>1, SubSeqProperties
  <1> QED BY <1>2 DEF Front

LEMMA ClosingFacts ==
  /\ DOMAIN Closing = {"(", "[", "{"}
  /\ Closing["("] = ")" /\ Closing["["] = "]" /\ Closing["{"] = "}"
  BY DEF Closing

LEMMA NoBrackets ==
  ASSUME NEW x, NEW y
  PROVE  Pile(0, 0, x, y) = <<>>
  <1>1. 0 \in Nat /\ 0 + 0 = 0 /\ x \in {x, y} /\ y \in {x, y}
    OBVIOUS
  <1>2. Pile(0, 0, x, y) \in Seq({x, y}) /\ Len(Pile(0, 0, x, y)) = 0 + 0
    BY <1>1, PileFacts
  <1> QED BY <1>1, <1>2, EmptySeq

\* The counters say what the invariant promises of the stack.
LEMMA CssInvImplies == CssInv => CssTypeOK /\ CountersAreTheStack
  <1> SUFFICES ASSUME CssInv PROVE CssTypeOK /\ CountersAreTheStack
    OBVIOUS
  <1>1. CssTypeOK
    <2>1. {cssDepth, parens} \subseteq 0..MaxTokens /\ read \in 0..MaxTokens
      BY CssAssumption DEF CssInv, Counted
    <2> QED BY <2>1 DEF CssInv, CssTypeOK, Flagged, Placed
  <1>2. scan = "accepted" => nest = <<>>
    BY NoBrackets DEF CssInv, Flagged, Nested
  <1>3. CountersAreTheStack
    BY <1>2 DEF CssInv, CountersAreTheStack, Flagged, Nested, Placed, Pile
  <1> QED BY <1>1, <1>3

\* Nothing is read yet and nothing open.
LEMMA CssInitInv == CssInit => CssInv
  <1> SUFFICES ASSUME CssInit PROVE CssInv
    OBVIOUS
  <1>1. Counted
    BY CssAssumption DEF CssInit, Counted
  <1>2. Flagged
    <2>1. ~(parens > 0) /\ parens = 0
      BY DEF CssInit
    <2> QED BY <2>1 DEF CssInit, Flagged
  <1>3. Nested
    BY NoBrackets DEF CssInit, Nested
  <1>4. Placed
    BY DEF CssInit, Placed
  <1> QED BY <1>1, <1>2, <1>3, <1>4 DEF CssInv

\* A rejected sheet promises nothing more.
LEMMA CssRejects ==
  ASSUME CssInv, Reject, read' = read + 1, read < MaxTokens
  PROVE  CssInv'
  <1>1. Counted'
    BY CssAssumption DEF CssInv, Counted, Reject
  <1>2. Flagged'
    BY DEF CssInv, Flagged, Reject
  <1>3. Nested'
    BY DEF Nested, Reject
  <1>4. Placed'
    BY DEF CssInv, Placed, Reject
  <1> QED BY <1>1, <1>2, <1>3, <1>4 DEF CssInv

\* A token that is neither bracket nor directive moves the flags alone.
Passes ==
  /\ UNCHANGED <<cssDepth, parens, edges, nest, scan>> /\ started' \in BOOLEAN
  /\ closers' = None \/ closers' \in Seq({")", "]", "}"})
  /\ closers' # None => parens = 0
  /\ parens > 0 => started'

LEMMA CssPasses ==
  ASSUME CssInv, scan = "scanning", read' = read + 1, read < MaxTokens, Passes
  PROVE  CssInv'
  <1>0. UNCHANGED <<cssDepth, parens, edges, nest, scan>>
    BY DEF Passes
  <1>1. Counted'
    BY <1>0, CssAssumption DEF CssInv, Counted
  <1>2. Flagged'
    BY DEF CssInv, Flagged, Passes
  <1>3. Nested'
    BY <1>0 DEF CssInv, Nested
  <1>4. Placed'
    BY <1>0 DEF CssInv, Placed
  <1> QED BY <1>1, <1>2, <1>3, <1>4 DEF CssInv

LEMMA CountUp ==
  ASSUME NEW a \in Nat, NEW b \in Nat, NEW c \in Nat, NEW d \in Nat, NEW r \in Nat, NEW m \in Nat,
         c + d <= a + b + 1, a + b <= r, r < m
  PROVE  c + d <= r + 1 /\ r + 1 \in Nat /\ r + 1 <= m
  OBVIOUS

\* A bracket moves the counters and the stack together.
Moves ==
  /\ UNCHANGED <<edges, scan>> /\ closers' = None /\ started' \in BOOLEAN
  /\ parens' > 0 => started'
  /\ cssDepth' \in Nat /\ parens' \in Nat
  /\ cssDepth' + parens' <= cssDepth + parens + 1
  /\ nest' = Pile(cssDepth', parens', "{", "(")

LEMMA CssMoves ==
  ASSUME CssInv, scan = "scanning", read' = read + 1, read < MaxTokens, Moves
  PROVE  CssInv'
  <1>0. cssDepth' \in Nat /\ parens' \in Nat /\ cssDepth' + parens' <= cssDepth + parens + 1
    BY DEF Moves
  <1>1. Counted'
    <2>1. cssDepth \in Nat /\ parens \in Nat /\ read \in Nat /\ cssDepth + parens <= read
      BY DEF CssInv, Counted
    <2>2. cssDepth' + parens' <= read' /\ read' \in Nat /\ read' <= MaxTokens
      BY <1>0, <2>1, CssAssumption, CountUp
    <2> QED BY <1>0, <2>2 DEF Counted
  <1>2. Flagged'
    <2>1. UNCHANGED scan /\ closers' = None /\ started' \in BOOLEAN /\ (parens' > 0 => started')
      BY DEF Moves
    <2> QED BY <2>1 DEF CssInv, Flagged
  <1>3. Nested'
    BY DEF Nested, Moves
  <1>4. Placed'
    <2>1. UNCHANGED edges
      BY DEF Moves
    <2> QED BY <2>1 DEF CssInv, Placed
  <1> QED BY <1>1, <1>2, <1>3, <1>4 DEF CssInv

\* Closing the innermost bracket takes it off the stack.
LEMMA CssShuts ==
  ASSUME CssInv, scan = "scanning"
  PROVE  /\ parens > 0 /\ Shuts(")") => nest' = Pile(cssDepth, parens - 1, "{", "(")
         /\ parens = 0 /\ cssDepth > 0 /\ Shuts("}") => nest' = Pile(cssDepth - 1, parens, "{", "(")
  <1>1. cssDepth \in Nat /\ parens \in Nat /\ nest = Pile(cssDepth, parens, "{", "(")
    BY DEF CssInv, Counted, Nested
  <1>3. parens > 0 => nest # <<>> /\ Last(nest) = "(" /\ Front(nest) = Pile(cssDepth, parens - 1, "{", "(")
    BY <1>1, BracketsShut
  <1>4. parens = 0 /\ cssDepth > 0 =>
          nest # <<>> /\ Last(nest) = "{" /\ Front(nest) = Pile(cssDepth - 1, parens, "{", "(")
    BY <1>1, BracketsShut
  <1> QED BY <1>3, <1>4, ClosingFacts DEF Shuts

\* Inside a custom property's value the brackets are the value's own, but for the
\* brace that ends it.
LEMMA CssInValue ==
  ASSUME CssInv, scan = "scanning", read' = read + 1, read < MaxTokens,
         NEW t \in Tokens, InValue(t)
  PROVE  CssInv'
  <1> DEFINE C == {")", "]", "}"}
  <1>0. closers # None /\ closers \in Seq(C) /\ parens = 0 /\ UNCHANGED <<parens, edges>>
    BY DEF InValue, CssInv, Flagged
  <1>1. CASE Reject
    BY <1>1, CssRejects
  <1>2. CASE closers' = None \/ closers' \in Seq(C)
    <2>1. CASE UNCHANGED <<cssDepth, nest, scan>> /\ started' \in BOOLEAN
      <3>1. ~(parens > 0)
        <4>1. parens = 0
          BY <1>0
        <4> QED BY <4>1
      <3>2. Passes
        BY <1>0, <1>2, <2>1, <3>1 DEF Passes
      <3> QED BY <3>2, CssPasses
    <2>2. CASE /\ closers' = None /\ cssDepth' = cssDepth - 1 /\ started' = FALSE
               /\ ~(cssDepth = 0) /\ Shuts("}") /\ UNCHANGED scan
      <3>0. cssDepth \in Nat /\ cssDepth # 0 /\ cssDepth' = cssDepth - 1 /\ parens = 0 /\ parens' = 0
        BY <1>0, <2>2 DEF CssInv, Counted
      <3>1. cssDepth > 0
        BY <3>0
      <3>2. nest' = Pile(cssDepth', parens', "{", "(")
        BY <1>0, <2>2, <3>1, CssShuts
      <3>3. cssDepth' \in Nat /\ parens' \in Nat /\ ~(parens' > 0)
            /\ cssDepth' + parens' <= cssDepth + parens + 1
        BY <3>0
      <3>4. Moves
        BY <1>0, <2>2, <3>2, <3>3 DEF Moves
      <3> QED BY <3>4, CssMoves
    <2>3. started \in BOOLEAN
      BY DEF CssInv, Flagged
    <2> QED BY <1>1, <2>1, <2>2, <2>3 DEF InValue
  <1>3. Reject \/ closers' = None \/ closers' \in Seq(C)
    <2>1. \A b \in DOMAIN Closing : Closing[b] \in C
      BY ClosingFacts
    <2>2. \A b \in DOMAIN Closing : Append(closers, Closing[b]) \in Seq(C)
      BY <1>0, <2>1, AppendProperties
    <2>3. closers # <<>> => Front(closers) \in Seq(C)
      BY <1>0, FrontIsSeq
    <2>4. <<>> \in Seq(C)
      BY EmptySeq
    <2> QED BY <1>0, <2>2, <2>3, <2>4 DEF InValue
  <1> QED BY <1>1, <1>2, <1>3

LEMMA CssBracket ==
  ASSUME CssInv, scan = "scanning", read' = read + 1, read < MaxTokens,
         closers = None, NEW t \in Tokens, Bracket(t)
  PROVE  CssInv'
  <1>0. /\ cssDepth \in Nat /\ parens \in Nat /\ started \in BOOLEAN
        /\ nest = Pile(cssDepth, parens, "{", "(")
    BY DEF CssInv, Counted, Flagged, Nested
  <1>1. closers' = None /\ UNCHANGED edges
    BY DEF Bracket
  <1>2. CASE Reject
    BY <1>2, CssRejects
  <1>3. CASE /\ parens' = parens + 1 /\ started' = TRUE /\ Opens("(") /\ UNCHANGED <<cssDepth, scan>>
    <2>1. nest' = Pile(cssDepth', parens', "{", "(")
      BY <1>0, <1>3, BracketsOpen DEF Opens, Pushed
    <2>2. cssDepth' \in Nat /\ parens' \in Nat /\ cssDepth' + parens' <= cssDepth + parens + 1
      <3>1. cssDepth \in Nat /\ parens \in Nat /\ parens' = parens + 1 /\ cssDepth' = cssDepth
        BY <1>0, <1>3
      <3> QED BY <3>1
    <2>3. Moves
      BY <1>1, <1>3, <2>1, <2>2 DEF Moves
    <2> QED BY <2>3, CssMoves
  <1>4. CASE /\ parens > 0 /\ parens' = parens - 1 /\ started' = TRUE /\ Shuts(")")
             /\ UNCHANGED <<cssDepth, scan>>
    <2>1. nest' = Pile(cssDepth', parens', "{", "(")
      BY <1>0, <1>4, CssShuts
    <2>2. cssDepth' \in Nat /\ parens' \in Nat /\ cssDepth' + parens' <= cssDepth + parens + 1
      <3>1. cssDepth \in Nat /\ parens \in Nat /\ parens > 0 /\ parens' = parens - 1 /\ cssDepth' = cssDepth
        BY <1>0, <1>4
      <3> QED BY <3>1
    <2>3. Moves
      BY <1>1, <1>4, <2>1, <2>2 DEF Moves
    <2> QED BY <2>3, CssMoves
  <1>5. CASE /\ parens = 0 /\ cssDepth' = cssDepth + 1 /\ started' = FALSE /\ Opens("{")
             /\ UNCHANGED <<parens, scan>>
    <2>1. nest' = Pile(cssDepth', parens', "{", "(")
      BY <1>0, <1>5, BracketsOpen DEF Opens, Pushed
    <2>2. cssDepth' \in Nat /\ parens' \in Nat /\ cssDepth' + parens' <= cssDepth + parens + 1
          /\ ~(parens' > 0)
      <3>1. cssDepth \in Nat /\ parens \in Nat /\ parens' = parens /\ parens = 0 /\ cssDepth' = cssDepth + 1
        BY <1>0, <1>5
      <3> QED BY <3>1
    <2>3. Moves
      BY <1>1, <1>5, <2>1, <2>2 DEF Moves
    <2> QED BY <2>3, CssMoves
  <1>6. CASE /\ parens = 0 /\ cssDepth > 0 /\ cssDepth' = cssDepth - 1 /\ started' = FALSE
             /\ Shuts("}") /\ UNCHANGED <<parens, scan>>
    <2>1. nest' = Pile(cssDepth', parens', "{", "(")
      BY <1>0, <1>6, CssShuts
    <2>2. cssDepth' \in Nat /\ parens' \in Nat /\ cssDepth' + parens' <= cssDepth + parens + 1
          /\ ~(parens' > 0)
      <3>1. cssDepth \in Nat /\ parens \in Nat /\ parens' = parens /\ parens = 0 /\ cssDepth > 0 /\ cssDepth' = cssDepth - 1
        BY <1>0, <1>6
      <3> QED BY <3>1
    <2>3. Moves
      BY <1>1, <1>6, <2>1, <2>2 DEF Moves
    <2> QED BY <2>3, CssMoves
  <1> QED BY <1>2, <1>3, <1>4, <1>5, <1>6 DEF Bracket

\* A directive is recorded where it stands: it starts a statement, so no parenthesis
\* is open around it.
LEMMA CssDirective ==
  ASSUME CssInv, scan = "scanning", read' = read + 1, read < MaxTokens,
         closers = None, NEW t \in Tokens, Directive(t)
  PROVE  CssInv'
  <1>1. CASE Reject
    BY <1>1, CssRejects
  <1>2. CASE ~Reject
    <2> DEFINE e == [rule |-> t, at |-> nest]
    <2>1. /\ ~started /\ t \in Directives /\ (t # "@import css" => cssDepth = 0)
          /\ edges' = edges \cup {e} /\ started' = FALSE
          /\ UNCHANGED <<cssDepth, parens, closers, scan, nest>>
      BY <1>2 DEF Directive, Directives
    <2>2. cssDepth \in Nat /\ parens \in Nat /\ nest = Pile(cssDepth, parens, "{", "(")
      BY DEF CssInv, Counted, Nested
    <2>3. parens = 0
      <3>1. ~(parens > 0) /\ parens \in Nat
        BY <2>1, <2>2 DEF CssInv, Flagged
      <3> QED BY <3>1
    <2>4. /\ nest \in Seq({"(", "{"}) /\ DOMAIN nest = 1..cssDepth
          /\ \A i \in DOMAIN nest : nest[i] = "{"
      BY <2>2, <2>3, OnlyBraces
    <2>5. "(" \notin Range(nest)
      BY <2>4 DEF Range
    <2>6. cssDepth = 0 => nest = <<>>
      BY <2>2, <2>3, NoBrackets
    <2>7. Placed'
      <3>1. e \in [rule : Directives, at : Seq({"(", "{"})]
        BY <2>1, <2>4
      <3>2. e.at = nest /\ e.rule = t
        OBVIOUS
      <3> HIDE DEF e
      <3> QED BY <2>1, <2>5, <2>6, <3>1, <3>2 DEF CssInv, Placed
    <2>8. Counted'
      <3>1. UNCHANGED <<cssDepth, parens>>
        BY <2>1
      <3> QED BY <3>1, CssAssumption DEF CssInv, Counted
    <2>9. Flagged'
      <3>1. UNCHANGED <<cssDepth, parens, closers, scan>> /\ ~(parens > 0) /\ started' \in BOOLEAN
        <4>1. ~(parens > 0)
          BY <2>3
        <4> QED BY <2>1, <4>1
      <3> QED BY <3>1 DEF CssInv, Flagged
    <2>10. Nested'
      BY <2>1 DEF CssInv, Nested
    <2> QED BY <2>7, <2>8, <2>9, <2>10 DEF CssInv
  <1> QED BY <1>1, <1>2

LEMMA CssPlain ==
  ASSUME CssInv, scan = "scanning", read' = read + 1, read < MaxTokens,
         closers = None, NEW t \in Tokens, Plain(t)
  PROVE  CssInv'
  <1>1. CASE Reject
    BY <1>1, CssRejects
  <1>2. CASE ~Reject
    <2>1. UNCHANGED <<cssDepth, parens, edges, nest, scan>>
      BY <1>2 DEF Plain
    <2>2. started \in BOOLEAN /\ (parens > 0 => started) /\ parens \in Nat
      BY DEF CssInv, Counted, Flagged
    <2>3. \/ ~started /\ closers' = <<>> /\ started' = TRUE
          \/ started' = (parens > 0) /\ closers' = None
          \/ started' = started /\ closers' = None
          \/ started' = TRUE /\ closers' = None
      BY <1>2 DEF Plain
    <2>4. (parens > 0) \in BOOLEAN
      BY <2>2
    <2>5. started' \in BOOLEAN /\ (parens > 0 => started')
      BY <2>2, <2>3, <2>4
    <2>6. closers' # None => ~(parens > 0)
      BY <2>2, <2>3
    <2>7. ~(parens > 0) => parens = 0
      BY <2>2
    <2>8. Passes
      BY <2>1, <2>3, <2>5, <2>6, <2>7, EmptySeq DEF Passes
    <2> QED BY <2>8, CssPasses
  <1> QED BY <1>1, <1>2

LEMMA CssEndOfSheet == CssInv /\ EndOfSheet => CssInv'
  <1> SUFFICES ASSUME CssInv, EndOfSheet PROVE CssInv'
    OBVIOUS
  <1>0. UNCHANGED <<cssDepth, parens, started, closers, edges, nest, read>> /\ scan = "scanning"
    BY DEF EndOfSheet
  <1>1. Counted'
    BY <1>0 DEF CssInv, Counted
  <1>2. Flagged'
    <2>1. scan' \in {"accepted", "rejected"} /\ (scan' = "accepted" => cssDepth = 0 /\ parens = 0)
      BY DEF EndOfSheet
    <2> QED BY <1>0, <2>1 DEF CssInv, Flagged
  <1>3. Nested'
    BY <1>0 DEF CssInv, Nested
  <1>4. Placed'
    BY <1>0 DEF CssInv, Placed
  <1> QED BY <1>1, <1>2, <1>3, <1>4 DEF CssInv

LEMMA CssNextInv == CssInv /\ [CssNext]_cssVars => CssInv'
  <1> SUFFICES ASSUME CssInv, [CssNext]_cssVars PROVE CssInv'
    OBVIOUS
  <1>1. CASE EndOfSheet
    BY <1>1, CssEndOfSheet
  <1>2. ASSUME NEW t \in Tokens, Scan(t) PROVE CssInv'
    <2>1. scan = "scanning" /\ read < MaxTokens /\ read' = read + 1
      BY <1>2 DEF Scan
    <2>2. CASE InValue(t)
      BY <2>1, <2>2, CssInValue
    <2>3. CASE closers = None /\ Bracket(t)
      BY <2>1, <2>3, CssBracket
    <2>4. CASE closers = None /\ Directive(t)
      BY <2>1, <2>4, CssDirective
    <2>5. CASE closers = None /\ Plain(t)
      BY <2>1, <2>5, CssPlain
    <2> QED BY <1>2, <2>2, <2>3, <2>4, <2>5 DEF Scan
  <1>3. CASE UNCHANGED cssVars
    <2>1. Counted'
      BY <1>3 DEF CssInv, Counted, cssVars
    <2>2. Flagged'
      BY <1>3 DEF CssInv, Flagged, cssVars
    <2>3. Nested'
      BY <1>3 DEF CssInv, Nested, cssVars
    <2>4. Placed'
      BY <1>3 DEF CssInv, Placed, cssVars
    <2> QED BY <2>1, <2>2, <2>3, <2>4 DEF CssInv
  <1> QED BY <1>1, <1>2, <1>3 DEF CssNext

\* directives keeps a depth and a count of parentheses in place of a stack. For a
\* sheet of any length they are the stack as long as the sheet is not rejected, so
\* every edge it records stands where Tailwind acts on it and an accepted sheet is
\* balanced.
THEOREM CssCountersAreTheStack == CssSpec => []CountersAreTheStack
  <1>1. CssInv => CountersAreTheStack
    BY CssInvImplies
  <1> QED BY <1>1, CssInitInv, CssNextInv, PTL DEF CssSpec
-----------------------------------------------------------------------------
(* The front-end build *)

Slots(l) == 1..Len(l)

\* No two records share a name, and every link leads to a record.
Apart(l) ==
  \A i, j \in Slots(l) : l[i].logical = l[j].logical \/ l[i].hashed = l[j].hashed => i = j
Linked(l) == \A i \in Slots(l) : \A h \in l[i].bytes.link : \E j \in Slots(l) : l[j].hashed = h
Whole(l) == (\E S : l \in Seq(S)) /\ Apart(l) /\ Linked(l)

\* What is in cja-assets once the first n records are written.
File(r) == <<r.hashed, r.bytes>>
FirstFiles(l, n) == {File(l[i]) : i \in 1..n}

\* The files of OUT_DIR, step by step of a run: nothing is listed that the run has not
\* finished, but for the list an earlier run has left until it is removed.
OutDirAt ==
  /\ at \notin {"idle", "write", "rename"} => disk = {}
  /\ at = "write" => \E n \in 0..Len(outputs) : disk = FirstFiles(outputs, n) /\ Cardinality(disk) = n
  /\ at = "rename" => disk = FirstFiles(outputs, Len(outputs)) /\ tmp = outputs
  /\ at = "idle" /\ verdict = "ok" =>
       disk = FirstFiles(outputs, Len(outputs)) /\ manifest = outputs

ListedAt ==
  /\ at = "unlist" => watched = {}
  /\ at \notin {"idle", "unlist"} => manifest = NoList /\ watched # {}
  /\ at = "idle" /\ verdict # "ok" =>
       manifest = NoList \/ (verdict \in {"error", "killed"} /\ watched = {})

ManifestInv == Whole(outputs) /\ OutDirAt /\ ListedAt

LEMMA RecordFacts ==
  ASSUME NEW n, NEW c, NEW k, NEW F, NEW L
  PROVE  LET r == Record(n, Bytes(c, k, F, L))
         IN  r.bytes.link = L /\ r.logical = n /\ r.hashed = <<n, r.bytes>>
  BY DEF Record, Bytes

LEMMA WholeEmpty == Whole(<<>>)
  <1>1. Len(<<>>) = 0 /\ <<>> \in Seq({}) /\ Slots(<<>>) = {}
    BY EmptySeq DEF Slots
  <1> QED BY <1>1 DEF Whole, Apart, Linked

\* AddOutput keeps the records whole.
LEMMA WholeAppend ==
  ASSUME NEW l, Whole(l), NEW r, ~Clashes(l, r),
         \A h \in r.bytes.link : \E j \in Slots(l) : l[j].hashed = h
  PROVE  /\ Whole(Append(l, r)) /\ Slots(Append(l, r)) = Slots(l) \cup {Len(l) + 1}
         /\ Append(l, r)[Len(l) + 1] = r
         /\ \A i \in Slots(l) : Append(l, r)[i] = l[i]
  <1> DEFINE m == Append(l, r)
  <1>1. PICK S : l \in Seq(S)
    BY DEF Whole
  <1>2. l \in Seq(S \cup {r}) /\ Len(l) \in Nat
    BY <1>1
  <1>3. /\ m \in Seq(S \cup {r}) /\ Len(m) = Len(l) + 1
        /\ (\A i \in 1..Len(l) : m[i] = l[i]) /\ m[Len(l) + 1] = r
    BY <1>2, AppendProperties
  <1> HIDE DEF m
  <1>4. /\ Slots(m) = Slots(l) \cup {Len(l) + 1} /\ Len(l) + 1 \notin Slots(l)
        /\ \A i \in Slots(l) : m[i] = l[i]
    BY <1>2, <1>3 DEF Slots
  <1>5. \A i \in Slots(l) : l[i].logical # r.logical /\ l[i].hashed # r.hashed
    BY DEF Clashes, Slots
  <1>6. Apart(m)
    BY <1>3, <1>4, <1>5 DEF Apart, Whole
  <1>7. Linked(m)
    BY <1>3, <1>4 DEF Linked, Whole
  <1> QED BY <1>3, <1>4, <1>6, <1>7 DEF Whole, m

\* The list of whole records names each file once.
LEMMA NamesCounted ==
  ASSUME NEW l, Whole(l)
  PROVE  Cardinality({r.logical : r \in ToSet(l)}) = Len(l)
  <1>1. PICK S : l \in Seq(S)
    BY DEF Whole
  <1>2. Len(l) \in Nat /\ DOMAIN l = 1..Len(l)
    BY <1>1, LenProperties
  <1> DEFINE D == 1..Len(l)
             T == {r.logical : r \in ToSet(l)}
             f == [i \in D |-> l[i].logical]
  <1>3. T = {l[i].logical : i \in D}
    BY <1>2 DEF ToSet
  <1>4. IsFiniteSet(D) /\ Cardinality(D) = Len(l)
    <2>1. 1 \in Int /\ Len(l) \in Int /\ (IF 1 > Len(l) THEN 0 ELSE Len(l) - 1 + 1) = Len(l)
      BY <1>2
    <2> QED BY <2>1, FS_Interval
  <1>5. \A i, j \in D : l[i].logical = l[j].logical => i = j
    BY DEF Whole, Apart, Slots
  <1>6. f \in [D -> T] /\ \A i \in D : f[i] = l[i].logical
    BY <1>3
  <1> HIDE DEF f, T, D
  <1>7. f \in Injection(D, T)
    BY <1>5, <1>6 DEF Injection, IsInjective
  <1>8. f \in Surjection(D, T)
    BY <1>3, <1>6 DEF Surjection
  <1>9. Cardinality(T) = Cardinality(D)
    BY <1>4, <1>7, <1>8, FS_Surjection
  <1> QED BY <1>4, <1>9 DEF T

\* Between a run's removal of the old list and its writing, the steps leave OUT_DIR
\* alone; the records are whole after each.
Gathers(next) ==
  /\ Whole(outputs') /\ at' = next /\ next \in {"static", "read", "config", "types", "bundle",
                                               "validate", "visit", "tailwind", "write"}
  /\ watched \subseteq watched' /\ UNCHANGED outDir

LEMMA GathersInv ==
  ASSUME ManifestInv, at \notin {"idle", "unlist", "write", "rename"}, NEW next, Gathers(next)
  PROVE  ManifestInv'
  <1>1. disk = {} /\ manifest = NoList /\ watched # {}
    BY DEF ManifestInv, OutDirAt, ListedAt
  <1>2. disk' = {} /\ manifest' = NoList /\ watched' # {} /\ Whole(outputs')
        /\ at' \notin {"idle", "unlist", "rename"}
    BY <1>1 DEF Gathers, outDir
  <1>3. OutDirAt'
    <2>1. PICK S : outputs' \in Seq(S)
      BY <1>2 DEF Whole
    <2>2. Len(outputs') \in Nat
      BY <2>1, LenProperties
    <2>3. 0 \in 0..Len(outputs') /\ 1..0 = {}
      BY <2>2
    <2>4. FirstFiles(outputs', 0) = {}
      BY <2>3 DEF FirstFiles
    <2> QED BY <1>2, <2>3, <2>4, FS_EmptySet DEF OutDirAt
  <1>4. ListedAt'
    BY <1>2 DEF ListedAt
  <1> QED BY <1>2, <1>3, <1>4 DEF ManifestInv

LEMMA CargoRunsInv == ManifestInv /\ CargoRuns => ManifestInv'
  <1> SUFFICES ASSUME ManifestInv, CargoRuns PROVE ManifestInv'
    OBVIOUS
  <1>1. outputs' = <<>> /\ at' = "unlist" /\ disk' = {} /\ watched' = {}
    BY DEF CargoRuns
  <1>2. Whole(outputs')
    BY <1>1, WholeEmpty
  <1> QED BY <1>1, <1>2 DEF ManifestInv, OutDirAt, ListedAt

LEMMA StoppedInv == ManifestInv /\ Stopped => ManifestInv'
  <1> SUFFICES ASSUME ManifestInv, Stopped PROVE ManifestInv'
    OBVIOUS
  <1>1. /\ at # "idle" /\ at' = "idle" /\ verdict' \in {"error", "killed"}
        /\ UNCHANGED <<outputs, watched, manifest>>
    BY DEF Stopped, ToStep, outDir
  <1>2. manifest = NoList \/ watched = {}
    BY <1>1 DEF ManifestInv, ListedAt
  <1> QED BY <1>1, <1>2 DEF ManifestInv, OutDirAt, ListedAt

LEMMA RemoveManifestInv == ManifestInv /\ RemoveManifest => ManifestInv'
  <1> SUFFICES ASSUME ManifestInv, RemoveManifest PROVE ManifestInv'
    OBVIOUS
  <1>1. /\ at = "unlist" /\ at' = "static" /\ manifest' = NoList /\ watched' # {}
        /\ UNCHANGED <<outputs, disk>>
    BY DEF RemoveManifest, ToStep, WatchDir, EnvWatchKeys
  <1>2. disk = {}
    BY <1>1 DEF ManifestInv, OutDirAt
  <1> QED BY <1>1, <1>2 DEF ManifestInv, OutDirAt, ListedAt

LEMMA AddOutputWhole ==
  ASSUME ManifestInv, NEW n, NEW c, NEW k, NEW F, AddOutput(Record(n, Bytes(c, k, F, {})))
  PROVE  Whole(outputs')
  <1> DEFINE r == Record(n, Bytes(c, k, F, {}))
  <1>1. r.bytes.link = {}
    BY RecordFacts
  <1> HIDE DEF r
  <1>2. ~Clashes(outputs, r) /\ outputs' = Append(outputs, r)
    BY DEF AddOutput, r
  <1> QED BY <1>1, <1>2, WholeAppend DEF ManifestInv

\* The source map is added before the JavaScript that links to it.
LEMMA BundleWhole ==
  ASSUME ManifestInv, BundleEntry
  PROVE  Whole(outputs')
  <1> DEFINE map == Record(MapName, Bytes(content, "map", Sources, {}))
             js == Record(Logical(Entry), Bytes(content, "js", Sources, {map.hashed}))
             l == Append(outputs, map)
  <1>1. Bundle(content) = <<map, js>>
    BY DEF Bundle
  <1>2. /\ ~Clashes(outputs, map) /\ ~Clashes(l, js)
        /\ outputs' = Append(l, js)
    BY <1>1 DEF BundleEntry
  <1>3. map.bytes.link = {} /\ js.bytes.link = {map.hashed}
    BY RecordFacts
  <1> HIDE DEF map, js
  <1>4. /\ Whole(l) /\ Slots(l) = Slots(outputs) \cup {Len(outputs) + 1}
        /\ l[Len(outputs) + 1] = map
    BY <1>2, <1>3, WholeAppend DEF ManifestInv
  <1> HIDE DEF l
  <1>5. \A h \in js.bytes.link : \E j \in Slots(l) : l[j].hashed = h
    BY <1>3, <1>4
  <1> QED BY <1>2, <1>4, <1>5, WholeAppend

LEMMA GatheringGathers ==
  ASSUME ManifestInv,
         \/ CollectFiles \/ ReadStatic \/ WatchConfig \/ CheckTypes \/ BundleEntry \/ ValidateCss
         \/ Visit \/ RunTailwind
  PROVE  Gathers(at') /\ at \notin {"idle", "unlist", "write", "rename"}
  <1>0. Whole(outputs)
    BY DEF ManifestInv
  <1>1. CASE CollectFiles
    <2>1. Gathers(at') /\ at = "static"
      BY <1>0, <1>1 DEF CollectFiles, WatchDir, ToStep, Continue, Gathers
    <2> QED BY <2>1
  <1>2. CASE ReadStatic
    <2>1. Whole(outputs')
      BY <1>2, AddOutputWhole DEF ReadStatic
    <2>2. Gathers(at') /\ at = "read"
      BY <1>2, <2>1 DEF ReadStatic, ToStep, Continue, Gathers
    <2> QED BY <2>2
  <1>3. CASE WatchConfig
    <2>1. Gathers(at') /\ at = "config"
      BY <1>0, <1>3 DEF WatchConfig, WatchDir, ToStep, Continue, Gathers
    <2> QED BY <2>1
  <1>4. CASE CheckTypes
    <2>1. Gathers(at') /\ at = "types"
      BY <1>0, <1>4 DEF CheckTypes, WatchDir, ToStep, Continue, Gathers
    <2> QED BY <2>1
  <1>5. CASE BundleEntry
    <2>1. Whole(outputs')
      BY <1>5, BundleWhole
    <2>2. Gathers(at') /\ at = "bundle"
      BY <1>5, <2>1 DEF BundleEntry, WatchDir, ToStep, Continue, Gathers
    <2> QED BY <2>2
  <1>6. CASE Visit
    <2>1. Gathers(at') /\ at = "visit"
      BY <1>0, <1>6 DEF Visit, WatchDir, ToStep, Continue, Gathers
    <2> QED BY <2>1, SMTT(30)
  <1>7. CASE RunTailwind
    <2>1. Whole(outputs')
      BY <1>7, AddOutputWhole DEF RunTailwind
    <2>2. Gathers(at') /\ at = "tailwind"
      BY <1>7, <2>1 DEF RunTailwind, ToStep, Continue, Gathers
    <2> QED BY <2>2
  <1>8. CASE ValidateCss
    <2>1. Gathers(at') /\ at = "validate"
      BY <1>0, <1>8 DEF ValidateCss, ToStep, Continue, Gathers
    <2> QED BY <2>1
  <1> QED BY <1>1, <1>2, <1>3, <1>4, <1>5, <1>6, <1>7, <1>8

LEMMA GatheringInv ==
  ASSUME ManifestInv,
         \/ CollectFiles \/ ReadStatic \/ WatchConfig \/ CheckTypes \/ BundleEntry \/ ValidateCss
         \/ Visit \/ RunTailwind
  PROVE  ManifestInv'
  BY GatheringGathers, GathersInv

\* The next record's file is a new one: cja-assets holds as many files as records
\* have been written.
LEMMA WriteRecordInv == ManifestInv /\ WriteRecord => ManifestInv'
  <1> SUFFICES ASSUME ManifestInv, WriteRecord PROVE ManifestInv'
    OBVIOUS
  <1>1. /\ at = "write" /\ at' = "write"
        /\ UNCHANGED <<outputs, watched, manifest, verdict>>
    BY DEF WriteRecord, build
  <1>2. PICK i \in 1..Len(outputs) : Cardinality(disk) = i - 1 /\ disk' = disk \cup {File(outputs[i])}
    BY DEF WriteRecord, File
  <1>3. PICK n \in 0..Len(outputs) : disk = FirstFiles(outputs, n) /\ Cardinality(disk) = n
    BY <1>1 DEF ManifestInv, OutDirAt
  <1>4. Len(outputs) \in Nat
    <2>1. PICK S : outputs \in Seq(S)
      BY DEF ManifestInv, Whole
    <2> QED BY <2>1, LenProperties
  <1>5. i = n + 1 /\ 1..i = (1..n) \cup {i} /\ i \notin 1..n /\ 1..n \subseteq 1..Len(outputs)
        /\ i \in 0..Len(outputs) /\ n \in Nat
    BY <1>2, <1>3, <1>4
  <1>6. disk' = FirstFiles(outputs, i)
    BY <1>2, <1>3, <1>5 DEF FirstFiles
  <1>7. File(outputs[i]) \notin disk
    <2>1. \A j \in 1..n : outputs[j].hashed # outputs[i].hashed
      BY <1>2, <1>5 DEF ManifestInv, Whole, Apart, Slots
    <2> QED BY <1>3, <2>1 DEF FirstFiles, File
  <1>8. IsFiniteSet(disk)
    <2>1. IsFiniteSet(1..n)
      BY <1>5, FS_Interval
    <2> DEFINE f == [j \in 1..n |-> File(outputs[j])]
    <2>2. f \in Surjection(1..n, disk)
      BY <1>3 DEF FirstFiles, Surjection
    <2> HIDE DEF f
    <2> QED BY <2>1, <2>2, FS_Surjection
  <1>9. Cardinality(disk') = i
    <2>1. Cardinality(disk') = Cardinality(disk) + 1
      BY <1>2, <1>7, <1>8, FS_AddElement
    <2> QED BY <1>3, <1>5, <2>1
  <1>10. OutDirAt'
    BY <1>1, <1>5, <1>6, <1>9 DEF OutDirAt
  <1> QED BY <1>1, <1>10 DEF ManifestInv, ListedAt

LEMMA WritePendingInv == ManifestInv /\ WritePending => ManifestInv'
  <1> SUFFICES ASSUME ManifestInv, WritePending PROVE ManifestInv'
    OBVIOUS
  <1>1. /\ at = "write" /\ at' = "rename" /\ tmp' = outputs /\ Cardinality(disk) = Len(outputs)
        /\ UNCHANGED <<outputs, watched, manifest, disk, verdict>>
    BY DEF WritePending, ToStep
  <1>2. disk = FirstFiles(outputs, Len(outputs))
    BY <1>1 DEF ManifestInv, OutDirAt
  <1> QED BY <1>1, <1>2 DEF ManifestInv, OutDirAt, ListedAt

LEMMA RenameManifestInv == ManifestInv /\ RenameManifest => ManifestInv'
  <1> SUFFICES ASSUME ManifestInv, RenameManifest PROVE ManifestInv'
    OBVIOUS
  <1>1. /\ at = "rename" /\ at' = "idle" /\ verdict' = "ok" /\ manifest' = tmp
        /\ UNCHANGED <<outputs, watched, disk>>
    BY DEF RenameManifest, ToStep
  <1>2. disk = FirstFiles(outputs, Len(outputs)) /\ tmp = outputs
    BY <1>1 DEF ManifestInv, OutDirAt
  <1> QED BY <1>1, <1>2 DEF ManifestInv, OutDirAt, ListedAt

LEMMA AssetsNextInv == ManifestInv /\ [AssetsNext]_assetsVars => ManifestInv'
  <1> SUFFICES ASSUME ManifestInv, [AssetsNext]_assetsVars PROVE ManifestInv'
    OBVIOUS
  <1>1. ASSUME UNCHANGED <<outputs, at, disk, tmp, manifest, watched, verdict>> PROVE ManifestInv'
    BY <1>1 DEF ManifestInv, OutDirAt, ListedAt
  <1>2. ASSUME NEW f \in Files, NEW v \in Versions, Edit(f, v) PROVE ManifestInv'
    BY <1>1, <1>2 DEF Edit, build, outDir
  <1>3. CASE UNCHANGED assetsVars
    BY <1>1, <1>3 DEF assetsVars, build, outDir
  <1> QED BY <1>2, <1>3, CargoRunsInv, StoppedInv, RemoveManifestInv, GatheringInv, WriteRecordInv,
             WritePendingInv, RenameManifestInv DEF AssetsNext, BuildStep

LEMMA AssetsInitInv == AssetsInit => ManifestInv
  BY WholeEmpty DEF AssetsInit, ManifestInv, OutDirAt, ListedAt

LEMMA ManifestInvImplies == ManifestInv => ManifestWhole
  <1> SUFFICES ASSUME ManifestInv, manifest # NoList, at # "unlist",
                      ~(verdict \in {"error", "killed"} /\ watched = {})
               PROVE  /\ \A r \in ToSet(manifest) : <<r.hashed, r.bytes>> \in disk
                      /\ \A r \in ToSet(manifest) :
                           \A h \in r.bytes.link : \E s \in ToSet(manifest) : s.hashed = h
                      /\ Cardinality({r.logical : r \in ToSet(manifest)}) = Len(manifest)
    BY DEF ManifestWhole
  <1>1. manifest = outputs /\ disk = FirstFiles(outputs, Len(outputs))
    BY DEF ManifestInv, OutDirAt, ListedAt
  <1>2. Whole(manifest)
    BY <1>1 DEF ManifestInv
  <1>3. ToSet(manifest) = {manifest[i] : i \in Slots(manifest)}
    <2>1. PICK S : manifest \in Seq(S)
      BY <1>2 DEF Whole
    <2>2. DOMAIN manifest = 1..Len(manifest)
      BY <2>1, LenProperties
    <2> QED BY <2>2 DEF ToSet, Slots
  <1>4. \A r \in ToSet(manifest) : <<r.hashed, r.bytes>> \in disk
    BY <1>1, <1>3 DEF FirstFiles, File, Slots
  <1>5. \A r \in ToSet(manifest) : \A h \in r.bytes.link : \E s \in ToSet(manifest) : s.hashed = h
    BY <1>2, <1>3 DEF Whole, Linked
  <1> QED BY <1>2, <1>4, <1>5, NamesCounted

\* A program is compiled only against a manifest that is whole: every file it names
\* was written with the bytes it was made from, every link inside an output leads to
\* a listed file and no two outputs share a name, wherever an earlier run was stopped
\* and whatever was edited meanwhile, for any files, versions and tools.
THEOREM ManifestAlwaysWhole == AssetsSpec => []ManifestWhole
  BY AssetsInitInv, AssetsNextInv, ManifestInvImplies, PTL DEF AssetsSpec
-----------------------------------------------------------------------------
(* The command line *)

Migrations == Range(JobsSql \o CronSql \o SessionSql)
Dirs == {"project", "src", "bin", "migrations"}
DirKinds == {"create_dir", "ensure_dir"}
FileKinds == {"need", "need_absent", "no_bin_section", "metadata", "write_if_missing", "cargo_add",
              "update_bin", "write"}
Ops == {Op(k, d) : k \in DirKinds, d \in Dirs} \cup {Op(k, f) : k \in FileKinds, f \in ProjectFiles}

\* The operations of a command.
Script(name, without) ==
  CASE name = "new" -> CreateProject(without)
    [] name = "init" -> InitProject(without)
    [] name = "sync" -> SyncMigrations(FALSE)
    [] OTHER -> SyncMigrations(TRUE)

LEMMA OpFields ==
  ASSUME NEW k, NEW o
  PROVE  Op(k, o).kind = k /\ Op(k, o).on = o
  BY DEF Op

LEMMA ConcatParts ==
  ASSUME NEW S, NEW a \in Seq(S), NEW b \in Seq(S)
  PROVE  /\ a \o b \in Seq(S) /\ Range(a \o b) = Range(a) \cup Range(b)
         /\ Len(a \o b) = Len(a) + Len(b)
         /\ \A i \in 1..Len(a) : (a \o b)[i] = a[i]
         /\ \A i \in DOMAIN (a \o b) : i \notin 1..Len(a) => (a \o b)[i] \in Range(b)
  <1> DEFINE c == a \o b
  <1>1. /\ c \in Seq(S) /\ Len(c) = Len(a) + Len(b)
        /\ \A i \in 1..(Len(a) + Len(b)) : c[i] = IF i <= Len(a) THEN a[i] ELSE b[i - Len(a)]
    BY ConcatProperties
  <1>2. /\ Len(a) \in Nat /\ Len(b) \in Nat
        /\ DOMAIN a = 1..Len(a) /\ DOMAIN b = 1..Len(b)
    BY LenProperties
  <1> HIDE DEF c
  <1>3. DOMAIN c = 1..(Len(a) + Len(b))
    BY <1>1, LenProperties
  <1>4. \A i \in 1..Len(a) : i \in DOMAIN c /\ c[i] = a[i]
    BY <1>1, <1>2, <1>3
  <1>5. \A i \in 1..Len(b) : i + Len(a) \in DOMAIN c /\ c[i + Len(a)] = b[i]
    BY <1>1, <1>2, <1>3
  <1>6. \A i \in DOMAIN c : i \notin 1..Len(a) => i - Len(a) \in DOMAIN b /\ c[i] = b[i - Len(a)]
    BY <1>1, <1>2, <1>3
  <1>7. Range(c) = Range(a) \cup Range(b)
    <2>1. Range(c) \subseteq Range(a) \cup Range(b)
      BY <1>2, <1>4, <1>6 DEF Range
    <2>2. Range(a) \subseteq Range(c)
      BY <1>2, <1>4 DEF Range
    <2>3. Range(b) \subseteq Range(c)
      BY <1>2, <1>5 DEF Range
    <2> QED BY <2>1, <2>2, <2>3
  <1>8. \A i \in DOMAIN c : i \notin 1..Len(a) => c[i] \in Range(b)
    BY <1>6 DEF Range
  <1> QED BY <1>1, <1>4, <1>7, <1>8 DEF c

LEMMA SeqOfItsRange ==
  ASSUME NEW S, NEW l \in Seq(S)
  PROVE  l \in Seq(Range(l)) /\ \A T : Range(l) \subseteq T => l \in Seq(T)
  <1>1. Len(l) \in Nat /\ DOMAIN l = 1..Len(l) /\ l \in [1..Len(l) -> S]
    BY LenProperties
  <1>2. ASSUME NEW T, Range(l) \subseteq T PROVE l \in Seq(T)
    <2>1. l \in [1..Len(l) -> T]
      BY <1>1, <1>2 DEF Range
    <2> QED BY <1>1, <2>1, SeqDef
  <1> QED BY <1>2

LEMMA EachParts ==
  ASSUME NEW S, NEW l \in Seq(S), NEW k
  PROVE  /\ Each(k, l) \in Seq({Op(k, x) : x \in S}) /\ Len(Each(k, l)) = Len(l)
         /\ Range(Each(k, l)) = {Op(k, x) : x \in Range(l)}
         /\ \A i \in 1..Len(l) : Each(k, l)[i] = Op(k, l[i])
  <1>1. Len(l) \in Nat /\ DOMAIN l = 1..Len(l) /\ \A i \in 1..Len(l) : l[i] \in S
    BY LenProperties
  <1> DEFINE T == {Op(k, x) : x \in S}
  <1>2. Each(k, l) \in [1..Len(l) -> T]
    BY <1>1 DEF Each
  <1>3. Each(k, l) \in Seq(T)
    BY <1>1, <1>2, SeqDef
  <1>4. DOMAIN Each(k, l) = 1..Len(l) /\ \A i \in 1..Len(l) : Each(k, l)[i] = Op(k, l[i])
    BY DEF Each
  <1>5. Len(Each(k, l)) = Len(l)
    <2>1. Len(Each(k, l)) \in Nat /\ DOMAIN Each(k, l) = 1..Len(Each(k, l))
      BY <1>3, LenProperties
    <2> QED BY <1>1, <1>4, <2>1
  <1>6. Range(Each(k, l)) = {Op(k, x) : x \in Range(l)}
    BY <1>1, <1>4 DEF Range
  <1> QED BY <1>3, <1>4, <1>5, <1>6

\* The migrations new and init write are among the crate's.
LEMMA MigrationLists ==
  /\ JobsSql \in Seq(Migrations) /\ CronSql \in Seq(Migrations) /\ SessionSql \in Seq(Migrations)
  /\ CrateSql \in Seq(Range(CrateSql)) /\ Migrations \subseteq Range(CrateSql)
  <1> DEFINE S == {JobsSql[1], JobsSql[2], CronSql[1], CronSql[2], SessionSql[1], SessionSql[2],
                   "AddDeadLetterJobs"}
             a == JobsSql \o CronSql
             b == a \o SessionSql
             d == <<"AddDeadLetterJobs">>
  <1>1. JobsSql \in Seq(S) /\ CronSql \in Seq(S) /\ SessionSql \in Seq(S) /\ d \in Seq(S)
    BY DEF JobsSql, CronSql, SessionSql
  <1>2. CrateSql = b \o d /\ Migrations = Range(b)
    BY DEF CrateSql, Migrations
  <1> HIDE DEF S, d
  <1>3. a \in Seq(S) /\ Range(a) = Range(JobsSql) \cup Range(CronSql)
    BY <1>1, ConcatParts
  <1> HIDE DEF a
  <1>4. b \in Seq(S) /\ Range(b) = Range(a) \cup Range(SessionSql)
    BY <1>1, <1>3, ConcatParts
  <1> HIDE DEF b
  <1>5. b \o d \in Seq(S) /\ Range(b \o d) = Range(b) \cup Range(d)
    BY <1>1, <1>4, ConcatParts
  <1>6. \A l \in Seq(S) : l \in Seq(Range(l))
    BY SeqOfItsRange
  <1>7. \A l \in Seq(S) : Range(l) \subseteq Migrations => l \in Seq(Migrations)
    BY SeqOfItsRange
  <1> QED BY <1>1, <1>2, <1>3, <1>4, <1>5, <1>6, <1>7

LEMMA FilesThere ==
  /\ Migrations \subseteq ProjectFiles /\ Range(CrateSql) \subseteq ProjectFiles
  /\ {CargoToml, BuildRs, MainRs, BinRs} \subseteq ProjectFiles
  BY MigrationLists DEF ProjectFiles

LEMMA OpsTyped ==
  /\ \A k \in FileKinds, f \in ProjectFiles : Op(k, f) \in Ops
  /\ \A k \in DirKinds, d \in Dirs : Op(k, d) \in Ops
  BY DEF Ops

LEMMA WritesTyped ==
  ASSUME NEW k \in FileKinds, NEW F \in SUBSET ProjectFiles, NEW l \in Seq(F)
  PROVE  Each(k, l) \in Seq(Ops) /\ Range(Each(k, l)) \subseteq {Op(k, f) : f \in F}
  <1>1. Each(k, l) \in Seq({Op(k, x) : x \in F}) /\ Range(Each(k, l)) = {Op(k, x) : x \in Range(l)}
    BY EachParts
  <1>2. Range(l) \subseteq F
    <2>1. DOMAIN l = 1..Len(l) /\ \A i \in 1..Len(l) : l[i] \in F
      BY LenProperties
    <2> QED BY <2>1 DEF Range
  <1>3. Range(Each(k, l)) \subseteq Ops
    BY <1>1, <1>2, OpsTyped
  <1>4. Each(k, l) \in Seq(Ops)
    BY <1>1, <1>3, SeqOfItsRange
  <1> QED BY <1>1, <1>2, <1>4

LEMMA CopyParts ==
  ASSUME NEW without
  PROVE  /\ CopyMigrations(without) \in Seq(Ops)
         /\ Range(CopyMigrations(without)) \subseteq {Op("write", f) : f \in Migrations}
  <1> DEFINE W == {Op("write", f) : f \in Migrations}
             a == Each("write", IF "jobs" \notin without THEN JobsSql ELSE <<>>)
             b == Each("write", IF {"cron", "jobs"} \cap without = {} THEN CronSql ELSE <<>>)
             c == Each("write", IF "sessions" \notin without THEN SessionSql ELSE <<>>)
  <1>1. "write" \in FileKinds /\ Migrations \in SUBSET ProjectFiles /\ <<>> \in Seq(Migrations)
    BY FilesThere, EmptySeq DEF FileKinds
  <1>2. a \in Seq(Ops) /\ Range(a) \subseteq W
    BY <1>1, WritesTyped, MigrationLists
  <1>3. b \in Seq(Ops) /\ Range(b) \subseteq W
    BY <1>1, WritesTyped, MigrationLists
  <1>4. c \in Seq(Ops) /\ Range(c) \subseteq W
    BY <1>1, WritesTyped, MigrationLists
  <1>5. CopyMigrations(without) = a \o b \o c
    BY DEF CopyMigrations
  <1> HIDE DEF a, b, c, W
  <1>6. a \o b \in Seq(Ops) /\ Range(a \o b) \subseteq W
    BY <1>2, <1>3, ConcatParts
  <1> DEFINE ab == a \o b
  <1> HIDE DEF ab
  <1>7. ab \in Seq(Ops) /\ Range(ab) \subseteq W
    BY <1>6 DEF ab
  <1>8. ab \o c \in Seq(Ops) /\ Range(ab \o c) \subseteq W
    BY <1>4, <1>7, ConcatParts
  <1> QED BY <1>5, <1>8 DEF ab, W

\* A write is of a migration, or an earlier operation has seen that there is nothing of
\* the user's to write over: need absent of the file itself, or create dir of the project.
Clears(op, f) == op \in {Op("need_absent", f), Op("create_dir", "project")}
Guarded(l, i) == l[i].kind = "write" => l[i].on \in Migrations \/ \E j \in 1..(i - 1) : Clears(l[j], l[i].on)
GoodScript(l) ==
  /\ l \in Seq(Ops) /\ l # <<>>
  /\ \A i \in DOMAIN l : Guarded(l, i) /\ (l[i].kind = "update_bin" => l[i].on = CargoToml)

LEMMA Migrating ==
  ASSUME NEW op \in {Op("write", f) : f \in Migrations}
  PROVE  op.kind = "write" /\ op.on \in Migrations
  BY OpFields

LEMMA ThreeFiles ==
  ASSUME NEW x, NEW y, NEW z
  PROVE  <<x, y, z>> \in Seq({x, y, z}) /\ Range(<<x, y, z>>) = {x, y, z}
  <1>1. DOMAIN <<x, y, z>> = 1..3 /\ 1..3 = {1, 2, 3}
    OBVIOUS
  <1>2. Range(<<x, y, z>>) = {x, y, z}
    BY <1>1 DEF Range
  <1> QED BY <1>2

LEMMA CreateScript ==
  ASSUME NEW without
  PROVE  /\ GoodScript(CreateProject(without))
         /\ {Op("write", CargoToml), Op("write", MainRs), Op("write", BuildRs)}
              \cup Range(CopyMigrations(without)) \subseteq Range(CreateProject(without))
  <1> DEFINE dl == <<"project", "src", "migrations">>
             fl == <<CargoToml, MainRs, BuildRs>>
             a == Each("create_dir", dl)
             b == Each("write", fl)
             c == CopyMigrations(without)
             ab == a \o b
             l == ab \o c
  <1>0. CreateProject(without) = l
    BY DEF CreateProject
  <1>1. dl \in Seq(Dirs) /\ Len(dl) = 3 /\ dl[1] = "project" /\ "create_dir" \in DirKinds
    BY DEF Dirs, DirKinds
  <1>2. fl \in Seq({CargoToml, MainRs, BuildRs}) /\ Range(fl) = {CargoToml, MainRs, BuildRs}
    BY ThreeFiles
  <1> HIDE DEF dl, fl
  <1>3. a \in Seq(Ops) /\ Len(a) = 3 /\ a[1] = Op("create_dir", "project")
        /\ \A i \in 1..3 : a[i].kind = "create_dir"
    <2>0. dl \in Seq(Dirs)
      BY <1>1
    <2>1. /\ a \in Seq({Op("create_dir", x) : x \in Dirs}) /\ Len(a) = Len(dl)
          /\ \A i \in 1..Len(dl) : a[i] = Op("create_dir", dl[i])
      <3> DEFINE k == "create_dir"
      <3> HIDE DEF k
      <3>1. /\ Each(k, dl) \in Seq({Op(k, x) : x \in Dirs}) /\ Len(Each(k, dl)) = Len(dl)
            /\ \A i \in 1..Len(dl) : Each(k, dl)[i] = Op(k, dl[i])
        <4>1. Each(k, dl) \in Seq({Op(k, x) : x \in Dirs})
          BY <2>0, EachParts
        <4>2. Len(Each(k, dl)) = Len(dl)
          BY <2>0, EachParts
        <4>3. \A i \in 1..Len(dl) : Each(k, dl)[i] = Op(k, dl[i])
          BY <2>0, EachParts
        <4> QED BY <4>1, <4>2, <4>3
      <3> QED BY <3>1 DEF k
    <2> HIDE DEF a
    <2>2. Range(a) \subseteq Ops
      <3>1. DOMAIN a = 1..3 /\ \A i \in 1..3 : a[i] \in {Op("create_dir", x) : x \in Dirs}
        BY <1>1, <2>1, LenProperties
      <3> QED BY <1>1, <3>1, OpsTyped DEF Range
    <2>3. a \in Seq(Ops)
      BY <2>1, <2>2, SeqOfItsRange
    <2>4. 1 \in 1..3
      OBVIOUS
    <2>5. \A i \in 1..3 : a[i].kind = "create_dir"
      BY <1>1, <2>1, OpFields
    <2> QED BY <1>1, <2>1, <2>3, <2>4, <2>5
  <1>4. b \in Seq(Ops) /\ Range(b) = {Op("write", x) : x \in {CargoToml, MainRs, BuildRs}}
    <2>1. "write" \in FileKinds /\ {CargoToml, MainRs, BuildRs} \in SUBSET ProjectFiles
      BY FilesThere DEF FileKinds
    <2> QED BY <1>2, <2>1, WritesTyped, EachParts
  <1>5. c \in Seq(Ops)
    BY CopyParts
  <1> HIDE DEF a, b, c
  <1>6. /\ ab \in Seq(Ops) /\ Range(ab) = Range(a) \cup Range(b) /\ Len(ab) = 3 + Len(b)
        /\ \A i \in 1..3 : ab[i] = a[i]
    <2>1. a \in Seq(Ops) /\ b \in Seq(Ops)
      BY <1>3, <1>4
    <2>2. /\ ab \in Seq(Ops) /\ Range(ab) = Range(a) \cup Range(b) /\ Len(ab) = Len(a) + Len(b)
          /\ \A i \in 1..Len(a) : ab[i] = a[i]
      BY <2>1, ConcatParts
    <2> HIDE DEF ab
    <2> QED BY <1>3, <2>2
  <1>7. Len(b) \in Nat
    BY <1>4, LenProperties
  <1> HIDE DEF ab
  <1>8. /\ l \in Seq(Ops) /\ Range(l) = Range(ab) \cup Range(c)
        /\ Len(l) = Len(ab) + Len(c) /\ \A i \in 1..Len(ab) : l[i] = ab[i]
    <2>1. ab \in Seq(Ops) /\ c \in Seq(Ops)
      BY <1>5, <1>6
    <2> QED BY <2>1, ConcatParts
  <1> HIDE DEF l
  <1>9. l[1] = Op("create_dir", "project") /\ \A i \in 1..3 : l[i].kind = "create_dir"
    <2>1. \A i \in 1..3 : i \in 1..Len(ab)
      BY <1>6, <1>7
    <2>2. 1 \in 1..3
      OBVIOUS
    <2> QED BY <1>3, <1>6, <1>8, <2>1, <2>2
  <1>10. \A i \in DOMAIN l : i \in 1..3 \/ 1 \in 1..(i - 1)
    BY <1>8, LenProperties
  <1>11. \A i \in DOMAIN l : Guarded(l, i)
    BY <1>9, <1>10 DEF Guarded, Clears
  <1>12. \A x \in Range(l) : x.kind # "update_bin"
    <2>1. \A x \in Range(a) : x.kind = "create_dir"
      <3>1. DOMAIN a = 1..3
        BY <1>3, LenProperties
      <3> QED BY <1>3, <3>1 DEF Range
    <2>2. \A x \in Range(b) \cup Range(c) : x.kind = "write"
      BY <1>4, CopyParts, OpFields DEF c
    <2> QED BY <1>6, <1>8, <2>1, <2>2
  <1>13. \A i \in DOMAIN l : l[i].kind # "update_bin"
    BY <1>12 DEF Range
  <1>14. l # <<>>
    BY <1>6, <1>7, <1>8, <1>5, LenProperties, EmptySeq
  <1>15. GoodScript(l)
    BY <1>8, <1>11, <1>13, <1>14 DEF GoodScript
  <1>16. {Op("write", CargoToml), Op("write", MainRs), Op("write", BuildRs)}
            \cup Range(c) \subseteq Range(l)
    BY <1>4, <1>6, <1>8
  <1> QED BY <1>0, <1>15, <1>16 DEF c

\* The nine operations init begins with.
LEMMA InitHead ==
  LET a == <<Op("need", CargoToml), Op("no_bin_section", CargoToml), Op("ensure_dir", "bin"),
             Op("need_absent", BinRs), Op("ensure_dir", "migrations"), Op("cargo_add", CargoToml),
             Op("update_bin", CargoToml), Op("write", BinRs), WriteBuildRs>>
  IN  /\ a \in Seq(Ops) /\ Len(a) = 9
      /\ \A i \in 1..9 : Guarded(a, i) /\ (a[i].kind = "update_bin" => a[i].on = CargoToml)
      /\ {Op("need", CargoToml), Op("cargo_add", CargoToml), Op("write", BinRs), WriteBuildRs}
           \subseteq Range(a)
  <1> DEFINE o1 == Op("need", CargoToml)
             o2 == Op("no_bin_section", CargoToml)
             o3 == Op("ensure_dir", "bin")
             o4 == Op("need_absent", BinRs)
             o5 == Op("ensure_dir", "migrations")
             o6 == Op("cargo_add", CargoToml)
             o7 == Op("update_bin", CargoToml)
             o8 == Op("write", BinRs)
             o9 == WriteBuildRs
             a == <<o1, o2, o3, o4, o5, o6, o7, o8, o9>>
  <1>1. /\ o1 \in Ops /\ o2 \in Ops /\ o3 \in Ops /\ o4 \in Ops /\ o5 \in Ops /\ o6 \in Ops
        /\ o7 \in Ops /\ o8 \in Ops /\ o9 \in Ops
    BY FilesThere, OpsTyped DEF FileKinds, DirKinds, Dirs, WriteBuildRs
  <1>2. /\ \A o \in {o1, o2, o3, o4, o5, o6, o9} : o.kind # "write" /\ o.kind # "update_bin"
        /\ o7.kind = "update_bin" /\ o7.on = CargoToml /\ o8.kind = "write" /\ o8.on = BinRs
        /\ Clears(o4, BinRs)
    BY OpFields DEF WriteBuildRs, Clears
  <1> HIDE DEF o1, o2, o3, o4, o5, o6, o7, o8, o9
  <1>3. a \in Seq(Ops) /\ Len(a) = 9 /\ DOMAIN a = 1..9
    BY <1>1
  <1>4. /\ a[1] = o1 /\ a[2] = o2 /\ a[3] = o3 /\ a[4] = o4 /\ a[5] = o5 /\ a[6] = o6
        /\ a[7] = o7 /\ a[8] = o8 /\ a[9] = o9
    OBVIOUS
  <1> HIDE DEF a
  <1>5. /\ 1..9 = {1, 2, 3, 4, 5, 6, 7, 8, 9} /\ 4 \in 1..(8 - 1)
    OBVIOUS
  <1>6. \A i \in 1..9 : Guarded(a, i)
    <2>1. Guarded(a, 8)
      BY <1>2, <1>4, <1>5 DEF Guarded
    <2>2. \A i \in {1, 2, 3, 4, 5, 6, 7, 9} : a[i].kind # "write"
      <3>1. o7.kind # "write"
        BY <1>2
      <3> QED BY <1>2, <1>4, <3>1
    <2>3. \A i \in {1, 2, 3, 4, 5, 6, 7, 9} : Guarded(a, i)
      BY <2>2 DEF Guarded
    <2> QED BY <1>5, <2>1, <2>3
  <1>7. \A i \in 1..9 : a[i].kind = "update_bin" => a[i].on = CargoToml
    <2>1. o8.kind # "update_bin"
      BY <1>2
    <2> QED BY <1>2, <1>4, <1>5, <2>1
  <1>8. {o1, o6, o8, o9} \subseteq Range(a)
    BY <1>3, <1>4, <1>5 DEF Range
  <1> QED BY <1>3, <1>6, <1>7, <1>8 DEF a, o1, o2, o3, o4, o5, o6, o7, o8, o9

LEMMA InitScript ==
  ASSUME NEW without
  PROVE  /\ GoodScript(InitProject(without))
         /\ {Op("need", CargoToml), Op("cargo_add", CargoToml), Op("write", BinRs), WriteBuildRs}
              \cup Range(CopyMigrations(without)) \subseteq Range(InitProject(without))
  <1> DEFINE a == <<Op("need", CargoToml), Op("no_bin_section", CargoToml), Op("ensure_dir", "bin"),
                    Op("need_absent", BinRs), Op("ensure_dir", "migrations"),
                    Op("cargo_add", CargoToml), Op("update_bin", CargoToml), Op("write", BinRs),
                    WriteBuildRs>>
             c == CopyMigrations(without)
             l == a \o c
  <1>1. InitProject(without) = l
    BY DEF InitProject
  <1>2. /\ a \in Seq(Ops) /\ Len(a) = 9
        /\ \A i \in 1..9 : Guarded(a, i) /\ (a[i].kind = "update_bin" => a[i].on = CargoToml)
        /\ {Op("need", CargoToml), Op("cargo_add", CargoToml), Op("write", BinRs), WriteBuildRs}
             \subseteq Range(a)
    BY InitHead
  <1> HIDE DEF a
  <1>3. c \in Seq(Ops) /\ Range(c) \subseteq {Op("write", f) : f \in Migrations}
    BY CopyParts
  <1> HIDE DEF c
  <1>4. /\ l \in Seq(Ops) /\ Range(l) = Range(a) \cup Range(c) /\ Len(l) = Len(a) + Len(c)
        /\ \A i \in 1..Len(a) : l[i] = a[i]
        /\ \A i \in DOMAIN l : i \notin 1..Len(a) => l[i] \in Range(c)
    <2>1. a \in Seq(Ops) /\ c \in Seq(Ops)
      BY <1>2, <1>3
    <2> QED BY <2>1, ConcatParts
  <1> HIDE DEF l
  <1>5. ASSUME NEW i \in 1..9
        PROVE  Guarded(l, i) /\ (l[i].kind = "update_bin" => l[i].on = CargoToml)
    <2>1. l[i] = a[i] /\ \A j \in 1..(i - 1) : j \in 1..9 /\ l[j] = a[j]
      BY <1>2, <1>4
    <2> QED BY <1>2, <2>1 DEF Guarded
  <1>6. ASSUME NEW i \in DOMAIN l, i \notin 1..9
        PROVE  Guarded(l, i) /\ (l[i].kind = "update_bin" => l[i].on = CargoToml)
    <2>1. l[i] \in {Op("write", f) : f \in Migrations}
      BY <1>2, <1>3, <1>4, <1>6
    <2>2. l[i].kind = "write" /\ l[i].on \in Migrations
      BY <2>1, Migrating
    <2> QED BY <2>2 DEF Guarded
  <1>7. l # <<>>
    <2>1. Len(c) \in Nat
      BY <1>3, LenProperties
    <2>2. Len(l) # 0
      BY <1>2, <1>4, <2>1
    <2> QED BY <2>2, EmptySeq
  <1>8. GoodScript(l)
    BY <1>4, <1>5, <1>6, <1>7 DEF GoodScript
  <1> QED BY <1>1, <1>2, <1>4, <1>8 DEF c

LEMMA SyncScript ==
  /\ GoodScript(SyncMigrations(FALSE)) /\ GoodScript(SyncMigrations(TRUE))
  /\ {Op("need", CargoToml), Op("metadata", CargoToml)} \subseteq Range(SyncMigrations(FALSE))
  /\ \A f \in Range(CrateSql) : Op("write_if_missing", f) \in Range(SyncMigrations(FALSE))
  <1> DEFINE o1 == Op("need", CargoToml)
             o2 == Op("ensure_dir", "migrations")
             o3 == Op("metadata", CargoToml)
             t == <<o1>> \o <<>> \o <<o3>> \o <<>>
             h == <<o1>> \o <<o2>> \o <<o3>>
             m == Each("write_if_missing", CrateSql)
             M == {Op("write_if_missing", f) : f \in Range(CrateSql)}
  <1>1. o1 \in Ops /\ o2 \in Ops /\ o3 \in Ops
    BY FilesThere, OpsTyped DEF FileKinds, DirKinds, Dirs
  <1>2. \A o \in {o1, o2, o3} \cup M : o.kind \notin {"write", "update_bin"}
    BY OpFields
  <1>3. m \in Seq(Ops) /\ Range(m) = M
    <2>1. "write_if_missing" \in FileKinds /\ Range(CrateSql) \in SUBSET ProjectFiles
      BY FilesThere DEF FileKinds
    <2> QED BY <2>1, MigrationLists, WritesTyped, EachParts
  <1>4. SyncMigrations(FALSE) = h \o m /\ SyncMigrations(TRUE) = t
    BY DEF SyncMigrations
  <1> HIDE DEF o1, o2, o3, m, M
  <1>5. \A o \in Ops : <<o>> \in Seq(Ops) /\ Range(<<o>>) = {o}
    BY DEF Range
  <1>6. <<>> \in Seq(Ops) /\ Range(<<>>) = {}
    BY DEF Range
  <1>7. \A a, b \in Seq(Ops) : a \o b \in Seq(Ops) /\ Range(a \o b) = Range(a) \cup Range(b)
    BY ConcatParts
  <1> DEFINE s1 == <<o1>>
             s2 == <<o2>>
             s3 == <<o3>>
             e == <<>>
             t2 == s1 \o e
             t3 == t2 \o s3
             h2 == s1 \o s2
  <1>8. /\ s1 \in Seq(Ops) /\ Range(s1) = {o1} /\ s2 \in Seq(Ops) /\ Range(s2) = {o2}
        /\ s3 \in Seq(Ops) /\ Range(s3) = {o3} /\ e \in Seq(Ops) /\ Range(e) = {}
        /\ t = t3 \o e /\ h = h2 \o s3
    BY <1>1, <1>5, <1>6
  <1> HIDE DEF s1, s2, s3, e, t, h
  <1>9. t2 \in Seq(Ops) /\ Range(t2) = {o1} /\ h2 \in Seq(Ops) /\ Range(h2) = {o1, o2}
    <2>1. t2 \in Seq(Ops) /\ Range(t2) = Range(s1) \cup Range(e)
      BY <1>7, <1>8, Zenon
    <2>2. h2 \in Seq(Ops) /\ Range(h2) = Range(s1) \cup Range(s2)
      BY <1>7, <1>8, Zenon
    <2> HIDE DEF t2, h2
    <2> QED BY <1>8, <2>1, <2>2
  <1> HIDE DEF t2, h2
  <1>10. t3 \in Seq(Ops) /\ Range(t3) = {o1, o3} /\ h \in Seq(Ops) /\ Range(h) = {o1, o2, o3}
    <2>1. t3 \in Seq(Ops) /\ Range(t3) = Range(t2) \cup Range(s3)
      BY <1>7, <1>8, <1>9, Zenon
    <2>2. h2 \o s3 \in Seq(Ops) /\ Range(h2 \o s3) = Range(h2) \cup Range(s3)
      BY <1>7, <1>8, <1>9, Zenon
    <2>3. h \in Seq(Ops) /\ Range(h) = Range(h2) \cup Range(s3)
      BY <1>8, <2>2, Zenon
    <2> HIDE DEF t3
    <2> QED BY <1>8, <1>9, <2>1, <2>3
  <1> HIDE DEF t3
  <1>11. t \in Seq(Ops) /\ Range(t) = {o1, o3}
    <2>1. t3 \o e \in Seq(Ops) /\ Range(t3 \o e) = Range(t3) \cup Range(e)
      BY <1>7, <1>8, <1>10, Zenon
    <2>2. t \in Seq(Ops) /\ Range(t) = Range(t3) \cup Range(e)
      BY <1>8, <2>1, Zenon
    <2> QED BY <1>8, <1>10, <2>2
  <1>12. h \o m \in Seq(Ops) /\ Range(h \o m) = {o1, o2, o3} \cup M
    BY <1>3, <1>7, <1>10
  <1>13. h \o m # <<>> /\ t # <<>>
    BY <1>6, <1>11, <1>12
  <1>14. ASSUME NEW l, l \in Seq(Ops), l # <<>>, Range(l) \subseteq {o1, o2, o3} \cup M
        PROVE  GoodScript(l)
    <2>1. \A i \in DOMAIN l : l[i].kind \notin {"write", "update_bin"}
      BY <1>2, <1>14 DEF Range, o1, o2, o3, M
    <2> QED BY <1>14, <2>1 DEF GoodScript, Guarded
  <1>15. GoodScript(h \o m) /\ GoodScript(t)
    BY <1>14, <1>11, <1>12, <1>13
  <1> QED BY <1>4, <1>15, <1>12 DEF o1, o3, M

Ends == {"none", "running", "ok", "error", "killed"}
Commands == [name : {"none", "new", "init", "sync", "dry_run"}, without : SUBSET Features, end : Ends]

Shaped ==
  /\ files \in [ProjectFiles -> {"none", "user", "cja", "torn"}] /\ dirs \subseteq Dirs
  /\ binSection \in BOOLEAN /\ depends \in BOOLEAN /\ command \in Commands
  /\ plan \in Seq(Ops) /\ lost \subseteq ProjectFiles \X {"cja", "torn"}
Bounded == commands \in 0..MaxCommands /\ userEdits \in 0..MaxUserEdits

\* What is left of a command writes over nothing of the user's.
SafeAt(i) ==
  /\ plan[i].kind = "write" =>
       \/ plan[i].on \in Migrations \/ files[plan[i].on] # "user"
       \/ \E j \in 1..(i - 1) : Clears(plan[j], plan[i].on)
  /\ plan[i].kind = "update_bin" => plan[i].on = CargoToml
SafePlan == \A i \in DOMAIN plan : SafeAt(i)

NothingOutside == "project" \notin dirs => \A f \in ProjectFiles : files[f] # "user"

\* Each operation of a command is done, for good, or still planned.
Done(op, there, has) ==
  /\ op.kind = "write" => there[op.on] = "cja" /\ (op.on = CargoToml => has)
  /\ op.kind \in {"need", "write_if_missing"} => there[op.on] # "none"
  /\ op.kind \in {"cargo_add", "metadata"} => has
InOrder ==
  /\ plan # <<>> => command.end = "running"
  /\ command.end = "ok" => plan = <<>>
  /\ command.end \in {"running", "ok"} =>
       /\ command.name # "none"
       /\ \A op \in Range(Script(command.name, command.without)) : Done(op, files, depends) \/ op \in Range(plan)

ScaffoldInv == Shaped /\ Bounded /\ UserFilesKept /\ SafePlan /\ NothingOutside /\ InOrder

LEMMA TailParts ==
  ASSUME NEW S, NEW l \in Seq(S), l # <<>>
  PROVE  /\ Head(l) \in S /\ Head(l) = l[1] /\ Tail(l) \in Seq(S) /\ 1 \in DOMAIN l
         /\ Range(l) = {Head(l)} \cup Range(Tail(l))
         /\ \A i \in DOMAIN Tail(l) : i \in Nat /\ i >= 1 /\ i + 1 \in DOMAIN l /\ Tail(l)[i] = l[i + 1]
         /\ Len(l) = 1 <=> Tail(l) = <<>>
  <1> DEFINE t == Tail(l)
  <1>1. /\ Head(l) \in S /\ t \in Seq(S) /\ Len(t) = Len(l) - 1
        /\ \A i \in 1..Len(t) : t[i] = l[i + 1]
    BY HeadTailProperties
  <1>2. Head(l) = l[1]
    OBVIOUS
  <1> HIDE DEF t
  <1>3. Len(l) \in Nat \ {0} /\ DOMAIN l = 1..Len(l) /\ DOMAIN t = 1..Len(t) /\ Len(t) \in Nat
    BY <1>1, EmptySeq, LenProperties
  <1>4. \A i \in DOMAIN t : i \in Nat /\ i >= 1 /\ i + 1 \in DOMAIN l /\ t[i] = l[i + 1]
    BY <1>1, <1>3
  <1>5. \A i \in DOMAIN l : i = 1 \/ (i - 1 \in DOMAIN t /\ t[i - 1] = l[i])
    BY <1>1, <1>3
  <1>6. 1 \in DOMAIN l
    BY <1>3
  <1>7. Range(l) = {Head(l)} \cup Range(t)
    <2>1. Range(l) \subseteq {Head(l)} \cup Range(t)
      BY <1>2, <1>5 DEF Range
    <2>2. Range(t) \subseteq Range(l)
      BY <1>4 DEF Range
    <2>3. Head(l) \in Range(l)
      BY <1>2, <1>6 DEF Range
    <2> QED BY <2>1, <2>2, <2>3
  <1>8. Len(l) = 1 <=> t = <<>>
    <2>1. Len(t) = 0 <=> t = <<>>
      BY <1>1, EmptySeq
    <2> QED BY <1>1, <1>3, <2>1
  <1> QED BY <1>1, <1>2, <1>4, <1>6, <1>7, <1>8 DEF t

LEMMA ScaffoldInitInv == ScaffoldInit => ScaffoldInv
  <1> SUFFICES ASSUME ScaffoldInit PROVE ScaffoldInv
    OBVIOUS
  <1>1. PICK mine \in {{}, {CargoToml}, {CargoToml, BuildRs, MainRs}} :
          /\ files = [f \in ProjectFiles |-> IF f \in mine THEN "user" ELSE "none"]
          /\ dirs = IF mine = {} THEN {} ELSE {"project", "src"}
    BY DEF ScaffoldInit
  <1>2. /\ plan = <<>> /\ lost = {} /\ command = NoCommand /\ binSection = FALSE /\ depends = FALSE
    BY DEF ScaffoldInit
  <1>3. command \in Commands /\ command.end = "none"
    BY <1>2 DEF NoCommand, Commands, Ends
  <1>4. Shaped
    <2>1. files \in [ProjectFiles -> {"none", "user", "cja", "torn"}]
      BY <1>1
    <2>2. dirs \subseteq Dirs
      BY <1>1 DEF Dirs
    <2>3. plan \in Seq(Ops) /\ lost \subseteq ProjectFiles \X {"cja", "torn"}
      BY <1>2, EmptySeq
    <2> QED BY <1>2, <1>3, <2>1, <2>2, <2>3 DEF Shaped
  <1>5. Bounded
    BY ScaffoldAssumption DEF ScaffoldInit, Bounded
  <1>6. UserFilesKept
    BY <1>2 DEF UserFilesKept
  <1>7. SafePlan
    BY <1>2 DEF SafePlan
  <1>8. NothingOutside
    BY <1>1 DEF NothingOutside
  <1>9. InOrder
    BY <1>2, <1>3 DEF InOrder
  <1> QED BY <1>4, <1>5, <1>6, <1>7, <1>8, <1>9 DEF ScaffoldInv

\* A command begins with all of its script before it.
LEMMA BeginInv ==
  ASSUME ScaffoldInv, NEW name \in {"new", "init", "sync", "dry_run"}, NEW without \in SUBSET Features,
         GoodScript(Script(name, without)), Begin(name, without, Script(name, without))
  PROVE  ScaffoldInv'
  <1> DEFINE l == Script(name, without)
  <1>0. l \in Seq(Ops) /\ l # <<>> /\ GoodScript(l)
    BY DEF GoodScript
  <1>1. plan' = l /\ UNCHANGED <<files, dirs, binSection, depends, lost, userEdits>>
    BY DEF Begin
  <1>2. command' \in Commands /\ command'.name = name /\ command'.without = without
        /\ command'.end = "running"
    BY DEF Begin, Commands, Ends
  <1>3. Shaped'
    BY <1>0, <1>1, <1>2 DEF ScaffoldInv, Shaped
  <1>4. Bounded'
    BY <1>1, ScaffoldAssumption DEF ScaffoldInv, Bounded, Begin
  <1>5. UserFilesKept'
    BY <1>1 DEF ScaffoldInv, UserFilesKept
  <1>6. NothingOutside'
    BY <1>1 DEF ScaffoldInv, NothingOutside
  <1>7. InOrder'
    BY <1>0, <1>1, <1>2 DEF InOrder
  <1>8. SafePlan'
    <2> SUFFICES ASSUME NEW i \in DOMAIN l PROVE SafeAt(i)'
      BY <1>1 DEF SafePlan
    <2>1. Guarded(l, i) /\ (l[i].kind = "update_bin" => l[i].on = CargoToml)
      BY <1>0 DEF GoodScript
    <2> HIDE DEF l
    <2> QED BY <1>1, <2>1 DEF SafeAt, Guarded
  <1> QED BY <1>3, <1>4, <1>5, <1>6, <1>7, <1>8 DEF ScaffoldInv

LEMMA MainInv == ScaffoldInv /\ Main => ScaffoldInv'
  <1> SUFFICES ASSUME ScaffoldInv, Main PROVE ScaffoldInv'
    OBVIOUS
  <1>1. ASSUME NEW without \in SUBSET Features, Begin("new", without, CreateProject(without))
        PROVE  ScaffoldInv'
    <2>1. Script("new", without) = CreateProject(without)
      BY DEF Script
    <2> QED BY <1>1, <2>1, CreateScript, BeginInv
  <1>2. ASSUME NEW without \in SUBSET Features, Begin("init", without, InitProject(without))
        PROVE  ScaffoldInv'
    <2>1. Script("init", without) = InitProject(without)
      BY DEF Script
    <2> QED BY <1>2, <2>1, InitScript, BeginInv
  <1>3. {} \in SUBSET Features
    OBVIOUS
  <1>4. CASE Begin("sync", {}, SyncMigrations(FALSE))
    <2>1. Script("sync", {}) = SyncMigrations(FALSE)
      BY DEF Script
    <2> QED BY <1>3, <1>4, <2>1, SyncScript, BeginInv
  <1>5. CASE Begin("dry_run", {}, SyncMigrations(TRUE))
    <2>1. Script("dry_run", {}) = SyncMigrations(TRUE)
      BY DEF Script
    <2> QED BY <1>3, <1>5, <2>1, SyncScript, BeginInv
  <1> QED BY <1>1, <1>2, <1>4, <1>5 DEF Main

LEMMA OpKinds ==
  ASSUME NEW op \in Ops
  PROVE  \/ op.kind \in DirKinds /\ op.on \in Dirs
         \/ op.kind \in FileKinds /\ op.on \in ProjectFiles
  BY OpFields DEF Ops

LEMMA ClearsKinds ==
  ASSUME NEW op, NEW f, Clears(op, f)
  PROVE  \/ op.kind = "need_absent" /\ op.on = f
         \/ op.kind = "create_dir" /\ op.on = "project"
  BY OpFields DEF Clears

\* A file that is written is none of the user's, or one of cja's migrations.
LEMMA WriteIsSafe ==
  ASSUME ScaffoldInv, plan # <<>>, Head(plan).kind = "write"
  PROVE  Head(plan).on \in Migrations \/ files[Head(plan).on] # "user"
  <1>1. plan \in Seq(Ops)
    BY DEF ScaffoldInv, Shaped
  <1>2. Head(plan) = plan[1] /\ 1 \in DOMAIN plan
    BY <1>1, TailParts
  <1>3. SafeAt(1) /\ 1..(1 - 1) = {}
    BY <1>2 DEF ScaffoldInv, SafePlan
  <1> QED BY <1>2, <1>3 DEF SafeAt

\* One operation of a command.
LEMMA PerformEffect ==
  ASSUME ScaffoldInv, Perform
  PROVE  LET op == Head(plan)
         IN  /\ plan # <<>> /\ op \in Ops /\ plan' = Tail(plan)
             /\ dirs \subseteq dirs' /\ dirs' \subseteq Dirs
             /\ binSection' \in BOOLEAN /\ depends' \in BOOLEAN /\ (depends => depends')
             /\ \/ UNCHANGED <<files, lost>>
                \/ /\ op.kind \in {"write", "write_if_missing"} /\ op.on \in ProjectFiles
                   /\ op.kind = "write_if_missing" => files[op.on] = "none"
                   /\ Written(op.on, "cja")
             /\ Done(op, files', depends')
             /\ \A f \in ProjectFiles : Clears(op, f) => files'[f] # "user"
             /\ op.kind = "create_dir" => op.on \notin dirs
  <1> DEFINE op == Head(plan)
  <1>0. plan # <<>> /\ plan \in Seq(Ops) /\ plan' = Tail(plan)
    BY DEF Perform, Idle, ScaffoldInv, Shaped
  <1>1. op \in Ops
    BY <1>0, TailParts
  <1>2. /\ files \in [ProjectFiles -> {"none", "user", "cja", "torn"}] /\ dirs \subseteq Dirs
        /\ binSection \in BOOLEAN /\ depends \in BOOLEAN
    BY DEF ScaffoldInv, Shaped
  <1>3. (op.kind \in DirKinds /\ op.on \in Dirs) \/ (op.kind \in FileKinds /\ op.on \in ProjectFiles)
    BY <1>1, OpKinds
  <1> HIDE DEF op
  <1>4. CASE /\ op.kind \in {"create_dir", "ensure_dir"} /\ (op.kind = "create_dir" => op.on \notin dirs)
             /\ dirs' = dirs \cup {op.on} /\ UNCHANGED <<files, binSection, depends, lost>>
    <2>1. Done(op, files', depends')
      BY <1>4 DEF Done
    <2>2. op.on \in Dirs
      BY <1>3, <1>4 DEF FileKinds
    <2>3. ASSUME NEW f \in ProjectFiles, Clears(op, f) PROVE files'[f] # "user"
      <3>1. "project" \notin dirs
        BY <1>4, <2>3, ClearsKinds
      <3> QED BY <1>4, <3>1 DEF ScaffoldInv, NothingOutside
    <2> QED BY <1>0, <1>1, <1>2, <1>4, <2>1, <2>2, <2>3 DEF op
  <1>5. CASE /\ \/ op.kind = "need" /\ files[op.on] # "none"
                \/ op.kind = "need_absent" /\ files[op.on] = "none"
                \/ op.kind = "no_bin_section" /\ ~binSection /\ files[op.on] # "torn"
                \/ op.kind = "metadata" /\ depends /\ files[op.on] # "torn"
                \/ op.kind = "write_if_missing" /\ files[op.on] # "none"
             /\ UNCHANGED <<files, dirs, binSection, depends, lost>>
    <2>1. Done(op, files', depends')
      BY <1>5 DEF Done
    <2>2. \A f \in ProjectFiles : Clears(op, f) => files'[f] # "user"
      BY <1>5, ClearsKinds
    <2>3. op.kind # "create_dir"
      BY <1>5
    <2> QED BY <1>0, <1>1, <1>2, <1>5, <2>1, <2>2, <2>3 DEF op
  <1>6. CASE op.kind = "cargo_add" /\ depends' = TRUE /\ UNCHANGED <<files, dirs, binSection, lost>>
    <2>1. Done(op, files', depends')
      BY <1>6 DEF Done
    <2>2. \A f \in ProjectFiles : ~Clears(op, f)
      BY <1>6, ClearsKinds
    <2> QED BY <1>0, <1>1, <1>2, <1>6, <2>1, <2>2 DEF op
  <1>7. CASE op.kind = "update_bin" /\ binSection' = TRUE /\ UNCHANGED <<files, dirs, depends, lost>>
    <2>1. Done(op, files', depends')
      BY <1>7 DEF Done
    <2>2. \A f \in ProjectFiles : ~Clears(op, f)
      BY <1>7, ClearsKinds
    <2> QED BY <1>0, <1>1, <1>2, <1>7, <2>1, <2>2 DEF op
  <1>8. CASE /\ op.kind = "write" \/ (op.kind = "write_if_missing" /\ files[op.on] = "none")
             /\ Written(op.on, "cja")
             /\ binSection' = (binSection /\ op.on # CargoToml)
             /\ depends' = (depends \/ op.on = CargoToml)
             /\ UNCHANGED dirs
    <2>1. op.on \in ProjectFiles /\ op.kind # "create_dir"
      BY <1>3, <1>8 DEF DirKinds
    <2>2. files'[op.on] = "cja"
      BY <1>2, <1>8, <2>1 DEF Written
    <2>3. Done(op, files', depends')
      BY <1>8, <2>2 DEF Done
    <2>4. \A f \in ProjectFiles : ~Clears(op, f)
      BY <1>8, ClearsKinds
    <2>5. binSection' \in BOOLEAN /\ depends' \in BOOLEAN /\ (depends => depends')
      BY <1>2, <1>8
    <2> QED BY <1>0, <1>1, <1>2, <1>8, <2>1, <2>3, <2>4, <2>5 DEF op
  <1> QED BY <1>4, <1>5, <1>6, <1>7, <1>8 DEF Perform, op

\* What a write does to the files and to the history.
LEMMA WrittenFacts ==
  ASSUME ScaffoldInv, NEW f \in ProjectFiles, NEW how \in {"cja", "torn"}, Written(f, how),
         f \in Migrations \/ files[f] # "user" \/ (f = CargoToml /\ how = "torn")
  PROVE  /\ files' \in [ProjectFiles -> {"none", "user", "cja", "torn"}]
         /\ files'[f] = how /\ \A g \in ProjectFiles : g # f => files'[g] = files[g]
         /\ lost' \subseteq ProjectFiles \X {"cja", "torn"} /\ UserFilesKept'
  <1>1. files \in [ProjectFiles -> {"none", "user", "cja", "torn"}]
        /\ lost \subseteq ProjectFiles \X {"cja", "torn"}
    BY DEF ScaffoldInv, Shaped
  <1>2. /\ files' \in [ProjectFiles -> {"none", "user", "cja", "torn"}]
        /\ files'[f] = how /\ \A g \in ProjectFiles : g # f => files'[g] = files[g]
    BY <1>1 DEF Written
  <1>3. lost' \subseteq ProjectFiles \X {"cja", "torn"}
    BY <1>1 DEF Written
  <1>4. \A l \in lost' : l \in lost \/ (l = <<f, how>> /\ files[f] = "user")
    BY DEF Written
  <1>5. UserFilesKept'
    BY <1>4 DEF ScaffoldInv, UserFilesKept, Migrations
  <1> QED BY <1>2, <1>3, <1>5

LEMMA ScriptTyped ==
  ASSUME NEW name, NEW without
  PROVE  Range(Script(name, without)) \subseteq Ops
  <1>1. GoodScript(Script(name, without))
    BY CreateScript, InitScript, SyncScript DEF Script
  <1>2. Script(name, without) \in Seq(Ops)
    BY <1>1 DEF GoodScript
  <1> HIDE DEF Script
  <1>3. DOMAIN Script(name, without) = 1..Len(Script(name, without))
        /\ \A i \in 1..Len(Script(name, without)) : Script(name, without)[i] \in Ops
    BY <1>2, LenProperties
  <1> QED BY <1>3 DEF Range

LEMMA PerformInv == ScaffoldInv /\ Perform => ScaffoldInv'
  <1> SUFFICES ASSUME ScaffoldInv, Perform PROVE ScaffoldInv'
    OBVIOUS
  <1> DEFINE op == Head(plan)
  <1>0. /\ plan # <<>> /\ op \in Ops /\ plan' = Tail(plan)
        /\ dirs \subseteq dirs' /\ dirs' \subseteq Dirs
        /\ binSection' \in BOOLEAN /\ depends' \in BOOLEAN /\ (depends => depends')
        /\ Done(op, files', depends')
        /\ \A f \in ProjectFiles : Clears(op, f) => files'[f] # "user"
        /\ op.kind = "create_dir" => op.on \notin dirs
    BY PerformEffect
  <1>1. /\ plan \in Seq(Ops) /\ files \in [ProjectFiles -> {"none", "user", "cja", "torn"}]
        /\ command \in Commands /\ depends \in BOOLEAN
    BY DEF ScaffoldInv, Shaped
  <1>2. /\ plan' \in Seq(Ops) /\ Range(plan) = {op} \cup Range(plan')
        /\ \A i \in DOMAIN plan' : i \in Nat /\ i >= 1 /\ i + 1 \in DOMAIN plan /\ plan'[i] = plan[i + 1]
        /\ (Len(plan) = 1 <=> plan' = <<>>) /\ op = plan[1]
    BY <1>0, <1>1, TailParts
  <1>3. /\ files' \in [ProjectFiles -> {"none", "user", "cja", "torn"}]
        /\ lost' \subseteq ProjectFiles \X {"cja", "torn"} /\ UserFilesKept'
        /\ \A f \in ProjectFiles : files'[f] = files[f] \/ files'[f] = "cja"
    <2>1. CASE UNCHANGED <<files, lost>>
      BY <2>1 DEF ScaffoldInv, Shaped, UserFilesKept
    <2>2. CASE /\ op.kind \in {"write", "write_if_missing"} /\ op.on \in ProjectFiles
               /\ op.kind = "write_if_missing" => files[op.on] = "none"
               /\ Written(op.on, "cja")
      <3>1. op.on \in Migrations \/ files[op.on] # "user"
        BY <1>0, <2>2, WriteIsSafe
      <3> HIDE DEF op
      <3> QED BY <2>2, <3>1, WrittenFacts
    <2> QED BY <2>1, <2>2, PerformEffect
  <1> HIDE DEF op
  <1>4. /\ command' \in Commands /\ command'.name = command.name /\ command'.without = command.without
        /\ command'.end = IF Len(plan) = 1 THEN "ok" ELSE command.end
    BY <1>1 DEF Perform, Commands, Ends
  <1>5. Shaped'
    BY <1>0, <1>2, <1>3, <1>4 DEF Shaped
  <1>6. Bounded'
    BY DEF ScaffoldInv, Bounded, Perform
  <1>7. NothingOutside'
    BY <1>0, <1>3 DEF ScaffoldInv, NothingOutside
  <1>8. SafePlan'
    <2> SUFFICES ASSUME NEW i \in DOMAIN plan' PROVE SafeAt(i)'
      BY DEF SafePlan
    <2>1. i \in Nat /\ i >= 1 /\ i + 1 \in DOMAIN plan /\ plan'[i] = plan[i + 1] /\ plan[i + 1] \in Ops
      BY <1>1, <1>2
    <2>2. SafeAt(i + 1)
      BY <2>1 DEF ScaffoldInv, SafePlan
    <2>3. ASSUME plan'[i].kind = "write"
          PROVE  \/ plan'[i].on \in Migrations \/ files'[plan'[i].on] # "user"
                 \/ \E j \in 1..(i - 1) : Clears(plan'[j], plan'[i].on)
      <3> DEFINE f == plan'[i].on
      <3>1. f \in ProjectFiles
        BY <2>1, <2>3, OpKinds DEF DirKinds
      <3> HIDE DEF f
      <3>2. f \in Migrations \/ files[f] # "user" \/ \E j \in 1..((i + 1) - 1) : Clears(plan[j], f)
        BY <2>1, <2>2, <2>3 DEF SafeAt, f
      <3>3. CASE f \in Migrations
        BY <3>3 DEF f
      <3>4. CASE files[f] # "user"
        BY <1>3, <3>1, <3>4 DEF f
      <3>5. ASSUME NEW j \in 1..((i + 1) - 1), Clears(plan[j], f)
            PROVE  files'[f] # "user" \/ \E n \in 1..(i - 1) : Clears(plan'[n], f)
        <4>1. CASE j = 1
          <5>1. Clears(op, f)
            BY <1>2, <3>5, <4>1
          <5> QED BY <1>0, <3>1, <5>1
        <4>2. CASE j # 1
          <5>1. j - 1 \in 1..(i - 1) /\ j - 1 \in DOMAIN plan' /\ (j - 1) + 1 = j
            <6>1. DOMAIN plan' = 1..Len(plan') /\ Len(plan') \in Nat
              BY <1>2, LenProperties
            <6> QED BY <2>1, <4>2, <6>1
          <5>2. plan'[j - 1] = plan[j]
            BY <1>2, <5>1
          <5> QED BY <3>5, <5>1, <5>2
        <4> QED BY <4>1, <4>2
      <3> QED BY <3>2, <3>3, <3>4, <3>5 DEF f
    <2>4. plan'[i].kind = "update_bin" => plan'[i].on = CargoToml
      BY <2>1, <2>2 DEF SafeAt
    <2> QED BY <2>3, <2>4 DEF SafeAt
  <1>9. InOrder'
    <2>1. command.end = "running" /\ command.name # "none"
      BY <1>0 DEF ScaffoldInv, InOrder
    <2>2. (plan' # <<>> => command'.end = "running") /\ (command'.end = "ok" => plan' = <<>>)
      BY <1>2, <1>4, <2>1
    <2>3. ASSUME NEW o \in Range(Script(command.name, command.without))
          PROVE  Done(o, files', depends') \/ o \in Range(plan')
      <3>1. Done(o, files, depends) \/ o = op \/ o \in Range(plan')
        BY <1>2, <2>1, <2>3 DEF ScaffoldInv, InOrder
      <3>2. CASE Done(o, files, depends)
        <4>1. o \in Ops
          BY <2>1, <2>3, ScriptTyped
        <4>2. o.kind \in FileKinds => o.on \in ProjectFiles
          BY <4>1, OpKinds DEF DirKinds, FileKinds
        <4>3. o.kind \in {"write", "need", "write_if_missing"} => o.on \in ProjectFiles
          BY <4>2 DEF FileKinds
        <4> QED BY <1>0, <1>3, <3>2, <4>3 DEF Done
      <3> QED BY <1>0, <3>1, <3>2
    <2> QED BY <1>4, <2>1, <2>2, <2>3 DEF InOrder
  <1> QED BY <1>3, <1>5, <1>6, <1>7, <1>8, <1>9 DEF ScaffoldInv

LEMMA BailInv == ScaffoldInv /\ Bail => ScaffoldInv'
  <1> SUFFICES ASSUME ScaffoldInv, Bail PROVE ScaffoldInv'
    OBVIOUS
  <1>1. plan' = <<>> /\ UNCHANGED <<files, dirs, binSection, lost, commands, userEdits>>
    BY DEF Bail
  <1>2. command' \in Commands /\ command'.end = "error"
    <2>1. command \in Commands
      BY DEF ScaffoldInv, Shaped
    <2> QED BY <2>1 DEF Bail, Commands, Ends
  <1>3. depends' \in BOOLEAN
    BY DEF Bail, ScaffoldInv, Shaped
  <1>4. Shaped'
    BY <1>1, <1>2, <1>3, EmptySeq DEF ScaffoldInv, Shaped
  <1>5. SafePlan' /\ InOrder'
    BY <1>1, <1>2 DEF SafePlan, InOrder
  <1> QED BY <1>1, <1>4, <1>5 DEF ScaffoldInv, Bounded, UserFilesKept, NothingOutside

LEMMA CutInv == ScaffoldInv /\ Cut => ScaffoldInv'
  <1> SUFFICES ASSUME ScaffoldInv, Cut PROVE ScaffoldInv'
    OBVIOUS
  <1> DEFINE op == Head(plan)
  <1>1. /\ plan # <<>> /\ op.kind \in {"write", "write_if_missing", "update_bin"}
        /\ op.kind = "write_if_missing" => files[op.on] = "none"
        /\ Written(op.on, "torn")
        /\ plan' = <<>> /\ UNCHANGED <<dirs, binSection, depends, commands, userEdits>>
    BY DEF Cut, Idle
  <1>2. plan \in Seq(Ops) /\ command \in Commands
    BY DEF ScaffoldInv, Shaped
  <1>3. op \in Ops /\ op = plan[1] /\ 1 \in DOMAIN plan
    BY <1>1, <1>2, TailParts
  <1>4. op.on \in Migrations \/ files[op.on] # "user" \/ op.on = CargoToml
    <2>1. CASE op.kind = "write"
      BY <1>1, <2>1, WriteIsSafe
    <2>2. CASE op.kind = "update_bin"
      BY <1>3, <2>2 DEF ScaffoldInv, SafePlan, SafeAt
    <2> QED BY <1>1, <2>1, <2>2
  <1> HIDE DEF op
  <1>5. op.on \in ProjectFiles
    BY <1>1, <1>3, OpKinds DEF DirKinds
  <1>6. /\ files' \in [ProjectFiles -> {"none", "user", "cja", "torn"}]
        /\ files'[op.on] = "torn" /\ \A g \in ProjectFiles : g # op.on => files'[g] = files[g]
        /\ lost' \subseteq ProjectFiles \X {"cja", "torn"} /\ UserFilesKept'
    BY <1>1, <1>4, <1>5, WrittenFacts
  <1>7. command' \in Commands /\ command'.end = "killed"
    BY <1>2 DEF Cut, Commands, Ends
  <1>8. Shaped'
    BY <1>1, <1>6, <1>7, EmptySeq DEF ScaffoldInv, Shaped
  <1>9. SafePlan' /\ InOrder'
    BY <1>1, <1>7 DEF SafePlan, InOrder
  <1>10. NothingOutside'
    BY <1>1, <1>6 DEF ScaffoldInv, NothingOutside
  <1> QED BY <1>1, <1>6, <1>8, <1>9, <1>10 DEF ScaffoldInv, Bounded

LEMMA UserEditsInv == ScaffoldInv /\ UserEdits => ScaffoldInv'
  <1> SUFFICES ASSUME ScaffoldInv, UserEdits PROVE ScaffoldInv'
    OBVIOUS
  <1>1. /\ plan = <<>> /\ "project" \in dirs /\ command' = NoCommand
        /\ UNCHANGED <<dirs, binSection, depends, plan, lost, commands>>
    BY DEF UserEdits, Idle
  <1>2. files' \in [ProjectFiles -> {"none", "user", "cja", "torn"}]
    BY DEF ScaffoldInv, Shaped, UserEdits
  <1>3. command' \in Commands /\ command'.end = "none"
    BY <1>1 DEF NoCommand, Commands, Ends
  <1>4. Shaped'
    BY <1>1, <1>2, <1>3 DEF ScaffoldInv, Shaped
  <1>5. Bounded'
    BY <1>1, ScaffoldAssumption DEF ScaffoldInv, Bounded, UserEdits
  <1>6. SafePlan' /\ InOrder'
    BY <1>1, <1>3 DEF SafePlan, InOrder
  <1> QED BY <1>1, <1>4, <1>5, <1>6 DEF ScaffoldInv, UserFilesKept, NothingOutside

LEMMA ScaffoldNextInv == ScaffoldInv /\ [ScaffoldNext]_scaffoldVars => ScaffoldInv'
  <1> SUFFICES ASSUME ScaffoldInv, [ScaffoldNext]_scaffoldVars PROVE ScaffoldInv'
    OBVIOUS
  <1>1. CASE UNCHANGED scaffoldVars
    <2>1. UNCHANGED <<files, dirs, binSection, depends, command, plan, lost, commands, userEdits>>
      BY <1>1 DEF scaffoldVars
    <2>2. Shaped' /\ Bounded' /\ UserFilesKept' /\ NothingOutside'
      BY <2>1 DEF ScaffoldInv, Shaped, Bounded, UserFilesKept, NothingOutside
    <2>3. SafePlan'
      BY <2>1 DEF ScaffoldInv, SafePlan, SafeAt
    <2>4. InOrder'
      BY <2>1 DEF ScaffoldInv, InOrder
    <2> QED BY <2>2, <2>3, <2>4 DEF ScaffoldInv
  <1> QED BY <1>1, MainInv, PerformInv, BailInv, CutInv, UserEditsInv DEF ScaffoldNext

\* With nothing left to do, everything in the script is done.
LEMMA ScaffoldReports == ScaffoldInv => ReportedWhole
  <1> SUFFICES ASSUME ScaffoldInv, command.end = "ok", command.name # "dry_run"
               PROVE  /\ depends /\ files[CargoToml] # "none"
                      /\ command.name = "sync" => \A f \in Range(CrateSql) : files[f] # "none"
                      /\ command.name \in {"new", "init"} =>
                           /\ \A op \in Range(CopyMigrations(command.without)) : files[op.on] = "cja"
                           /\ files[BuildRs] # "none"
                           /\ files[IF command.name = "new" THEN MainRs ELSE BinRs] = "cja"
    BY DEF ReportedWhole
  <1> DEFINE name == command.name
             without == command.without
  <1>1. /\ name \in {"new", "init", "sync"} /\ without \in SUBSET Features
        /\ \A op \in Range(Script(name, without)) : Done(op, files, depends)
    <2>1. name \in {"none", "new", "init", "sync", "dry_run"} /\ without \in SUBSET Features
      BY DEF ScaffoldInv, Shaped, Commands
    <2>2. plan = <<>> /\ Range(plan) = {}
      BY DEF ScaffoldInv, InOrder, Range
    <2> QED BY <2>1, <2>2 DEF ScaffoldInv, InOrder
  <1> HIDE DEF name, without
  <1>2. ASSUME NEW op \in Range(CopyMigrations(without)), Done(op, files, depends)
        PROVE  files[op.on] = "cja"
    <2>1. op.kind = "write"
      BY <1>2, CopyParts, Migrating
    <2> QED BY <1>2, <2>1 DEF Done
  <1>3. CASE name = "new"
    <2>1. Script(name, without) = CreateProject(without)
      BY <1>3 DEF Script
    <2>2. /\ Done(Op("write", CargoToml), files, depends) /\ Done(Op("write", MainRs), files, depends)
          /\ Done(Op("write", BuildRs), files, depends)
          /\ \A op \in Range(CopyMigrations(without)) : Done(op, files, depends)
      BY <1>1, <2>1, CreateScript
    <2>3. depends /\ files[CargoToml] = "cja" /\ files[MainRs] = "cja" /\ files[BuildRs] = "cja"
      BY <2>2, OpFields DEF Done
    <2>4. \A op \in Range(CopyMigrations(without)) : files[op.on] = "cja"
      BY <1>2, <2>2
    <2> QED BY <1>3, <2>3, <2>4 DEF name, without
  <1>4. CASE name = "init"
    <2>1. Script(name, without) = InitProject(without)
      BY <1>4 DEF Script
    <2>2. /\ Done(Op("need", CargoToml), files, depends) /\ Done(Op("cargo_add", CargoToml), files, depends)
          /\ Done(Op("write", BinRs), files, depends) /\ Done(WriteBuildRs, files, depends)
          /\ \A op \in Range(CopyMigrations(without)) : Done(op, files, depends)
      BY <1>1, <2>1, InitScript
    <2>3. depends /\ files[CargoToml] # "none" /\ files[BinRs] = "cja" /\ files[BuildRs] # "none"
      BY <2>2, OpFields DEF Done, WriteBuildRs
    <2>4. \A op \in Range(CopyMigrations(without)) : files[op.on] = "cja"
      BY <1>2, <2>2
    <2> QED BY <1>4, <2>3, <2>4 DEF name, without
  <1>5. CASE name = "sync"
    <2>1. Script(name, without) = SyncMigrations(FALSE)
      BY <1>5 DEF Script
    <2>2. /\ Done(Op("need", CargoToml), files, depends) /\ Done(Op("metadata", CargoToml), files, depends)
          /\ \A f \in Range(CrateSql) : Done(Op("write_if_missing", f), files, depends)
      BY <1>1, <2>1, SyncScript
    <2>3. depends /\ files[CargoToml] # "none"
      BY <2>2, OpFields DEF Done
    <2>4. \A f \in Range(CrateSql) : files[f] # "none"
      BY <2>2, OpFields DEF Done
    <2> QED BY <1>5, <2>3, <2>4 DEF name
  <1> QED BY <1>1, <1>3, <1>4, <1>5

LEMMA ScaffoldTyped == ScaffoldInv => ScaffoldTypeOK
  <1> SUFFICES ASSUME ScaffoldInv PROVE ScaffoldTypeOK
    OBVIOUS
  <1>1. command.end \in Ends /\ command.without \subseteq Features
    BY DEF ScaffoldInv, Shaped, Commands
  <1> QED BY <1>1 DEF ScaffoldInv, Shaped, Bounded, ScaffoldTypeOK, Ends, Dirs

\* However often new, init and sync-migrations are run, wherever they fail or are
\* killed and whatever is edited between them, no file somebody wrote is overwritten
\* but a migration under one of cja's own names, or a Cargo.toml torn by a kill.
THEOREM CommandsKeepUserFiles == ScaffoldSpec => []UserFilesKept
  <1>1. ScaffoldInv => UserFilesKept
    BY DEF ScaffoldInv
  <1> QED BY <1>1, ScaffoldInitInv, ScaffoldNextInv, PTL DEF ScaffoldSpec

\* A command that exits without an error has left the files it stands for, the
\* dependency, the main file, build.rs and the migrations of the features that were not
\* left out, however far the commands before it came.
THEOREM CommandsReportWhole == ScaffoldSpec => []ReportedWhole
  BY ScaffoldInitInv, ScaffoldNextInv, ScaffoldReports, PTL DEF ScaffoldSpec
-----------------------------------------------------------------------------
(* The types of the front-end build *)

\* The files left for a step are the step's own.
TodoAt ==
  /\ at = "read" => todo \in Seq(Statics) /\ todo # <<>>
  /\ at = "visit" => todo \in Seq(Sheets) /\ todo # <<>>
  /\ at \notin {"read", "visit"} => todo = <<>>
\* Nothing asks for a Tailwind config to be watched.
Watchable == Files \ {Legacy}
Placing ==
  /\ at \in {"idle", "unlist", "static", "read", "config", "types", "bundle", "validate",
             "visit", "tailwind", "write", "rename"}
  /\ TodoAt /\ watched \subseteq Watchable /\ seenCss \subseteq Sheets
  /\ disk \subseteq FirstFiles(outputs, Len(outputs))
Editing ==
  /\ content \in [Files -> Versions] /\ dirty \subseteq Files
  /\ verdict \in {"never ran", "running", "ok", "error", "killed"}
  /\ edits \in 0..MaxEdits /\ runs \in 0..MaxRuns

AssetsInv == ManifestInv /\ Placing /\ Editing

LEMMA FilesParts ==
  /\ Statics \subseteq Tracked /\ Sources \subseteq Listed /\ Listed \subseteq Tracked
  /\ Configs \subseteq Tracked /\ Sheets \subseteq Tracked /\ View \in Tracked /\ Env \in Tracked
  /\ Tracked \subseteq Watchable /\ Watchable \subseteq Files
  /\ Stray \in Watchable /\ Ignore \in Watchable /\ Legacy \in Files
  /\ Stray \notin Tracked /\ Ignore \notin Tracked /\ Stray # Ignore
  <1>1. Tracked \cap Sometimes = {} /\ Stray # Ignore /\ Stray # Legacy /\ Ignore # Legacy
    BY AssetsAssumption
  <1> QED BY <1>1 DEF Tracked, Sometimes, Files, Watchable, Listed

LEMMA AssetsTyped == AssetsInv => AssetsTypeOK
  <1> SUFFICES ASSUME AssetsInv PROVE AssetsTypeOK
    OBVIOUS
  <1>1. todo \in Seq(Files)
    <2>1. Statics \subseteq Files /\ Sheets \subseteq Files
      BY FilesParts
    <2>2. \A l \in Seq(Statics) : l \in Seq(Files)
      BY <2>1
    <2>3. \A l \in Seq(Sheets) : l \in Seq(Files)
      BY <2>1
    <2> QED BY <2>2, <2>3, EmptySeq DEF AssetsInv, Placing, TodoAt
  <1>2. disk \subseteq {<<outputs[i].hashed, outputs[i].bytes>> : i \in 1..Len(outputs)}
    BY DEF AssetsInv, Placing, FirstFiles, File
  <1>3. watched \subseteq Files
    BY FilesParts DEF AssetsInv, Placing
  <1> QED BY <1>1, <1>2, <1>3 DEF AssetsInv, Placing, Editing, AssetsTypeOK

LEMMA AssetsStart == AssetsInit => AssetsInv
  <1> SUFFICES ASSUME AssetsInit PROVE AssetsInv
    OBVIOUS
  <1>1. 0 \in Versions /\ 1 \in Versions /\ 0 \in 0..MaxEdits /\ 0 \in 0..MaxRuns
    BY AssetsAssumption DEF Versions, Absent
  <1>2. content \in [Files -> Versions]
    BY <1>1 DEF AssetsInit, Absent
  <1>3. Editing
    BY <1>1, <1>2 DEF AssetsInit, Editing
  <1>4. Placing
    BY DEF AssetsInit, Placing, TodoAt
  <1> QED BY <1>3, <1>4, AssetsInitInv DEF AssetsInv

LEMMA SetToSeqParts ==
  ASSUME NEW S, IsFiniteSet(S), S # {}
  PROVE  SetToSeq(S) \in Seq(S) /\ SetToSeq(S) # <<>>
  <1>1. Cardinality(S) \in Nat /\ ExistsBijection(1..Cardinality(S), S)
    BY FS_CardinalityType
  <1>2. \E f \in [1..Cardinality(S) -> S] : IsInjective(f)
    BY <1>1 DEF ExistsBijection, Bijection, Injection
  <1> DEFINE l == SetToSeq(S)
  <1>3. l \in [1..Cardinality(S) -> S]
    BY <1>2 DEF SetToSeq
  <1> HIDE DEF l
  <1>4. l \in Seq(S)
    BY <1>1, <1>3, SeqDef
  <1>5. Cardinality(S) # 0
    BY FS_EmptySet
  <1>6. l # <<>>
    <2>1. DOMAIN l = 1..Cardinality(S) /\ DOMAIN l = 1..Len(l) /\ Len(l) \in Nat
      BY <1>3, <1>4, LenProperties
    <2>2. Len(l) # 0
      BY <1>1, <1>5, <2>1
    <2> QED BY <2>2, EmptySeq
  <1> QED BY <1>4, <1>6 DEF l

\* A step that gathers records writes nothing and is started with its files.
LEMMA GathersPlaced ==
  ASSUME AssetsInv, at \notin {"idle", "unlist", "write", "rename"}, NEW next, Gathers(next),
         TodoAt', watched' \subseteq Watchable, seenCss' \subseteq Sheets
  PROVE  Placing'
  <1>1. disk' = {}
    BY DEF AssetsInv, ManifestInv, OutDirAt, Gathers, outDir
  <1> QED BY <1>1 DEF Gathers, Placing

LEMMA ConfigsThere ==
  ASSUME AssetsInv
  PROVE  ConfigChain(content) \subseteq Configs
  <1>1. \A g \in Configs : content[g] \in Versions
    BY FilesParts DEF AssetsInv, Editing
  <1>2. \A g \in Configs : Extends(g, content[g]) \subseteq Configs
    BY <1>1, AssetsAssumption
  <1>3. Config \in Configs
    BY DEF Configs
  <1> QED BY <1>2, <1>3 DEF ConfigChain

LEMMA VisitPlaced ==
  ASSUME AssetsInv, Visit
  PROVE  TodoAt' /\ watched' \subseteq Watchable /\ seenCss' \subseteq Sheets
  <1> DEFINE f == Head(todo)
             imports == Css(f, content[f]).imports
             next == imports \o Tail(todo)
  <1>1. todo \in Seq(Sheets) /\ todo # <<>> /\ watched \subseteq Watchable /\ seenCss \subseteq Sheets
    BY DEF AssetsInv, Placing, TodoAt, Visit
  <1>2. f \in Sheets /\ Tail(todo) \in Seq(Sheets)
    BY <1>1, HeadTailProperties
  <1>3. content[f] \in Versions
    BY <1>2, FilesParts DEF AssetsInv, Editing
  <1>4. imports \in Seq(Sheets)
    BY <1>2, <1>3, AssetsAssumption
  <1>5. /\ seenCss' = seenCss \cup {f} /\ watched' = watched \cup ({f} \cup SourceWatches(f))
        /\ IF next = <<>> THEN at' = "tailwind" /\ todo' = <<>> ELSE at' = "visit" /\ todo' = next
    BY DEF Visit, WatchDir, ToStep
  <1> HIDE DEF f, imports
  <1>6. next \in Seq(Sheets)
    BY <1>2, <1>4, ConcatProperties
  <1> HIDE DEF next
  <1>7. {f} \cup SourceWatches(f) \subseteq Watchable
    BY <1>2, FilesParts DEF SourceWatches, Present
  <1> QED BY <1>1, <1>2, <1>5, <1>6, <1>7 DEF TodoAt

LEMMA GatheringPlaced ==
  ASSUME AssetsInv,
         \/ CollectFiles \/ ReadStatic \/ WatchConfig \/ CheckTypes \/ BundleEntry \/ ValidateCss
         \/ Visit \/ RunTailwind,
         NEW next, Gathers(next)
  PROVE  Placing'
  <1>0. watched \subseteq Watchable /\ seenCss \subseteq Sheets /\ TodoAt
    BY DEF AssetsInv, Placing
  <1>1. CASE CollectFiles
    <2>1. watched' \subseteq Watchable /\ seenCss' \subseteq Sheets /\ at = "static"
      BY <1>0, <1>1, FilesParts DEF CollectFiles, WatchDir
    <2>2. IsFiniteSet(Present(Statics)) /\ Present(Statics) \subseteq Statics
      BY AssetsAssumption, FS_Subset DEF Present
    <2>3. Present(Statics) # {} =>
            SetToSeq(Present(Statics)) \in Seq(Statics) /\ SetToSeq(Present(Statics)) # <<>>
      <3>1. \A l \in Seq(Present(Statics)) : l \in Seq(Statics)
        BY <2>2
      <3> QED BY <2>2, <3>1, SetToSeqParts
    <2>4. TodoAt'
      BY <1>1, <2>3 DEF CollectFiles, ToStep, TodoAt
    <2> QED BY <2>1, <2>4, GathersPlaced
  <1>2. CASE ReadStatic
    <2>1. at = "read" /\ todo \in Seq(Statics) /\ todo # <<>> /\ UNCHANGED <<watched, seenCss>>
      BY <1>0, <1>2 DEF ReadStatic, TodoAt
    <2>2. Tail(todo) \in Seq(Statics) /\ (Len(todo) = 1 <=> Tail(todo) = <<>>)
      BY <2>1, TailParts
    <2>3. TodoAt'
      BY <1>2, <2>2 DEF ReadStatic, ToStep, TodoAt
    <2> QED BY <1>0, <2>1, <2>3, GathersPlaced
  <1>3. CASE WatchConfig
    <2>1. watched' \subseteq Watchable /\ seenCss' \subseteq Sheets /\ at = "config"
      BY <1>0, <1>3, ConfigsThere, FilesParts DEF WatchConfig, WatchDir, Configs
    <2>2. TodoAt'
      BY <1>3 DEF WatchConfig, ToStep, TodoAt
    <2> QED BY <2>1, <2>2, GathersPlaced
  <1>4. CASE CheckTypes
    <2>1. watched' \subseteq Watchable /\ seenCss' \subseteq Sheets /\ at = "types"
      BY <1>0, <1>4, FilesParts DEF CheckTypes, WatchDir, Program
    <2>2. TodoAt'
      BY <1>4 DEF CheckTypes, ToStep, TodoAt
    <2> QED BY <2>1, <2>2, GathersPlaced
  <1>5. CASE BundleEntry
    <2>1. watched' \subseteq Watchable /\ seenCss' \subseteq Sheets /\ at = "bundle"
      BY <1>0, <1>5, FilesParts DEF BundleEntry, WatchDir
    <2>2. TodoAt'
      BY <1>5 DEF BundleEntry, ToStep, TodoAt
    <2> QED BY <2>1, <2>2, GathersPlaced
  <1>6. CASE Visit
    <2>1. at = "visit"
      BY <1>6 DEF Visit
    <2> QED BY <1>6, <2>1, VisitPlaced, GathersPlaced
  <1>7. CASE RunTailwind
    <2>1. watched' \subseteq Watchable /\ seenCss' \subseteq Sheets /\ at = "tailwind"
      BY <1>0, <1>7 DEF RunTailwind
    <2>2. TodoAt'
      BY <1>7 DEF RunTailwind, ToStep, TodoAt
    <2> QED BY <2>1, <2>2, GathersPlaced
  <1>8. CASE ValidateCss
    <2>1. watched' \subseteq Watchable /\ seenCss' \subseteq Sheets /\ at = "validate"
      BY <1>0, <1>8 DEF ValidateCss
    <2>2. at' = "visit" /\ todo' = <<Sheet>> /\ Sheet \in Sheets
      BY <1>8 DEF ValidateCss, ToStep, Sheets
    <2>3. <<Sheet>> \in Seq(Sheets) /\ <<Sheet>> # <<>>
      BY <2>2
    <2>4. TodoAt'
      BY <2>2, <2>3 DEF TodoAt
    <2> QED BY <2>1, <2>4, GathersPlaced
  <1> QED BY <1>1, <1>2, <1>3, <1>4, <1>5, <1>6, <1>7, <1>8

LEMMA RunPlaced ==
  ASSUME AssetsInv, CargoRuns \/ Stopped \/ RemoveManifest
  PROVE  Placing'
  <1>0. Placing
    BY DEF AssetsInv
  <1>1. CASE CargoRuns
    BY <1>1 DEF CargoRuns, Placing, TodoAt
  <1>2. CASE Stopped
    BY <1>0, <1>2 DEF Stopped, ToStep, outDir, Placing, TodoAt
  <1>3. CASE RemoveManifest
    BY <1>0, <1>3, FilesParts DEF RemoveManifest, ToStep, WatchDir, EnvWatchKeys, Placing, TodoAt
  <1> QED BY <1>1, <1>2, <1>3

LEMMA WritePlaced ==
  ASSUME AssetsInv, WriteRecord \/ WritePending \/ RenameManifest
  PROVE  Placing'
  <1>0. Placing
    BY DEF AssetsInv
  <1>1. CASE WriteRecord
    <2>1. UNCHANGED <<at, todo, outputs, watched, seenCss>>
      BY <1>1 DEF WriteRecord, build
    <2>2. PICK i \in 1..Len(outputs) : disk' = disk \cup {File(outputs[i])}
      BY <1>1 DEF WriteRecord, File
    <2>3. disk' \subseteq FirstFiles(outputs, Len(outputs))
      BY <1>0, <2>2 DEF Placing, FirstFiles
    <2> QED BY <1>0, <2>1, <2>3 DEF Placing, TodoAt
  <1>2. CASE WritePending
    BY <1>0, <1>2 DEF WritePending, ToStep, Placing, TodoAt
  <1>3. CASE RenameManifest
    BY <1>0, <1>3 DEF RenameManifest, ToStep, Placing, TodoAt
  <1> QED BY <1>1, <1>2, <1>3

LEMMA StillEditing ==
  ASSUME Editing, UNCHANGED <<content, dirty, edits, runs>>,
         verdict' \in {"never ran", "running", "ok", "error", "killed"}
  PROVE  Editing'
  BY DEF Editing

LEMMA BuildEdits ==
  ASSUME AssetsInv, BuildStep \/ Stopped
  PROVE  Editing'
  <1>0. Editing /\ verdict \in {"never ran", "running", "ok", "error", "killed"}
    BY DEF AssetsInv, Editing
  <1>1. UNCHANGED <<content, dirty, edits, runs>>
    BY DEF BuildStep, Stopped, RemoveManifest, CollectFiles, ReadStatic, WatchConfig, CheckTypes,
           BundleEntry, ValidateCss, Visit, RunTailwind, WriteRecord, WritePending, RenameManifest, Continue
  <1>2. verdict' = verdict \/ verdict' \in {"ok", "error", "killed"}
    BY DEF BuildStep, Stopped, RemoveManifest, CollectFiles, ReadStatic, WatchConfig, CheckTypes,
           BundleEntry, ValidateCss, Visit, RunTailwind, WriteRecord, WritePending, RenameManifest, Continue
  <1> QED BY <1>0, <1>1, <1>2, StillEditing

LEMMA AssetsStep == AssetsInv /\ [AssetsNext]_assetsVars => AssetsInv'
  <1> SUFFICES ASSUME AssetsInv, [AssetsNext]_assetsVars PROVE AssetsInv'
    OBVIOUS
  <1>0. ManifestInv' /\ Placing /\ Editing /\ ManifestInv
    BY AssetsNextInv DEF AssetsInv
  <1>1. CASE CargoRuns
    <2>1. Editing'
      <3>1. runs' \in 0..MaxRuns
        <4>1. runs \in 0..MaxRuns /\ runs < MaxRuns /\ runs' = runs + 1 /\ MaxRuns \in Nat
          BY <1>0, <1>1, AssetsAssumption DEF CargoRuns, Editing
        <4> QED BY <4>1
      <3> QED BY <1>0, <1>1, <3>1 DEF CargoRuns, Editing
    <2> QED BY <1>0, <1>1, <2>1, RunPlaced DEF AssetsInv
  <1>2. CASE Stopped
    BY <1>0, <1>2, RunPlaced, BuildEdits DEF AssetsInv
  <1>3. CASE BuildStep
    <2>1. Editing'
      BY <1>3, BuildEdits
    <2>2. CASE RemoveManifest
      BY <1>0, <2>1, <2>2, RunPlaced DEF AssetsInv
    <2>3. CASE \/ CollectFiles \/ ReadStatic \/ WatchConfig \/ CheckTypes \/ BundleEntry \/ ValidateCss
               \/ Visit \/ RunTailwind
      <3>1. Gathers(at')
        BY <1>0, <2>3, GatheringGathers
      <3>2. Placing'
        BY <2>3, <3>1, GatheringPlaced
      <3> QED BY <1>0, <2>1, <3>2 DEF AssetsInv
    <2>4. CASE WriteRecord \/ WritePending \/ RenameManifest
      BY <1>0, <2>1, <2>4, WritePlaced DEF AssetsInv
    <2> QED BY <1>3, <2>2, <2>3, <2>4 DEF BuildStep
  <1>4. ASSUME NEW f \in Files, NEW v \in Versions, Edit(f, v) PROVE AssetsInv'
    <2>1. Placing'
      BY <1>0, <1>4 DEF Edit, build, outDir, Placing, TodoAt
    <2>2. edits' \in 0..MaxEdits
      <3>1. edits \in 0..MaxEdits /\ edits < MaxEdits /\ edits' = edits + 1 /\ MaxEdits \in Nat
        BY <1>0, <1>4, AssetsAssumption DEF Edit, Editing
      <3> QED BY <3>1
    <2>3. Editing'
      BY <1>0, <1>4, <2>2 DEF Edit, Editing
    <2> QED BY <1>0, <2>1, <2>3 DEF AssetsInv
  <1>5. CASE UNCHANGED assetsVars
    <2>1. Placing'
      BY <1>0, <1>5 DEF assetsVars, build, outDir, Placing, TodoAt
    <2>2. Editing'
      BY <1>0, <1>5 DEF assetsVars, Editing
    <2> QED BY <1>0, <2>1, <2>2 DEF AssetsInv
  <1> QED BY <1>1, <1>2, <1>3, <1>4, <1>5 DEF AssetsNext
-----------------------------------------------------------------------------
(* Whether the front-end build is up to date *)

\* The places of g in a sequence, and among the imports of a set of sheets.
Occurs(l, g) == {i \in DOMAIN l : l[i] = g}
ImportsOf(c, f) == Css(f, c[f]).imports
ImportedBy(c, S, g) == UNION {{<<f, i>> : i \in Occurs(ImportsOf(c, f), g)} : f \in S}

LEMMA OccursFinite ==
  ASSUME NEW S, NEW l \in Seq(S), NEW g
  PROVE  IsFiniteSet(Occurs(l, g)) /\ Cardinality(Occurs(l, g)) \in Nat
  <1>1. Occurs(l, g) \subseteq 1..Len(l) /\ Len(l) \in Nat
    BY LenProperties DEF Occurs
  <1>2. IsFiniteSet(1..Len(l))
    BY <1>1, FS_Interval
  <1> QED BY <1>1, <1>2, FS_Subset, FS_CardinalityType

LEMMA OccursConcat ==
  ASSUME NEW S, NEW l \in Seq(S), NEW m \in Seq(S), NEW g
  PROVE  Cardinality(Occurs(l \o m, g)) = Cardinality(Occurs(l, g)) + Cardinality(Occurs(m, g))
  <1> DEFINE n == Len(l)
             A == Occurs(l, g)
             B == Occurs(m, g)
             C == {n + i : i \in B}
             h == [i \in B |-> n + i]
             both == l \o m
  <1>1. /\ both \in Seq(S) /\ Len(both) = n + Len(m) /\ n \in Nat /\ Len(m) \in Nat
        /\ \A i \in 1..(n + Len(m)) : both[i] = IF i <= n THEN l[i] ELSE m[i - n]
    BY ConcatProperties, LenProperties
  <1>2. DOMAIN l = 1..n /\ DOMAIN m = 1..Len(m) /\ DOMAIN both = 1..(n + Len(m))
    BY <1>1, LenProperties
  <1> HIDE DEF both
  <1>3. B \subseteq 1..Len(m) /\ A \subseteq 1..n
    BY <1>2 DEF Occurs
  <1>4. Occurs(both, g) \subseteq A \cup C
    <2> SUFFICES ASSUME NEW i \in Occurs(both, g) PROVE i \in A \cup C
      OBVIOUS
    <2>1. i \in 1..(n + Len(m)) /\ both[i] = g
      BY <1>2 DEF Occurs
    <2>2. CASE i <= n
      BY <1>1, <1>2, <2>1, <2>2 DEF Occurs
    <2>3. CASE i > n
      <3>1. i - n \in 1..Len(m) /\ m[i - n] = g /\ i = n + (i - n)
        BY <1>1, <2>1, <2>3
      <3> QED BY <1>2, <3>1 DEF Occurs
    <2> QED BY <1>1, <2>1, <2>2, <2>3
  <1>5. A \subseteq Occurs(both, g)
    BY <1>1, <1>2 DEF Occurs
  <1>6. C \subseteq Occurs(both, g)
    <2> SUFFICES ASSUME NEW i \in B PROVE n + i \in Occurs(both, g)
      OBVIOUS
    <2>1. i \in 1..Len(m) /\ m[i] = g
      BY <1>2 DEF Occurs
    <2>2. n + i \in 1..(n + Len(m)) /\ ~(n + i <= n) /\ (n + i) - n = i
      BY <1>1, <2>1
    <2> QED BY <1>1, <1>2, <2>1, <2>2 DEF Occurs
  <1>7. A \cap C = {}
    BY <1>1, <1>3
  <1>8. /\ IsFiniteSet(A) /\ IsFiniteSet(B) /\ Cardinality(A) \in Nat /\ Cardinality(B) \in Nat
    BY OccursFinite
  <1>9. h \in Bijection(B, C)
    <2>1. h \in [B -> C] /\ \A i \in B : h[i] = n + i
      OBVIOUS
    <2>2. \A i, j \in B : n + i = n + j => i = j
      BY <1>1, <1>3
    <2> QED BY <2>1, <2>2 DEF Bijection, Injection, Surjection, IsInjective
  <1> HIDE DEF A, B, C, h
  <1>10. IsFiniteSet(C) /\ Cardinality(C) = Cardinality(B)
    BY <1>8, <1>9, FS_Bijection DEF ExistsBijection
  <1>11. Cardinality(A \cup C) = Cardinality(A) + Cardinality(C) - Cardinality(A \cap C)
    BY <1>8, <1>10, FS_Union
  <1>12. Cardinality(A \cap C) = 0
    BY <1>7, FS_EmptySet
  <1>13. Occurs(both, g) = A \cup C
    BY <1>4, <1>5, <1>6
  <1> QED BY <1>8, <1>10, <1>11, <1>12, <1>13 DEF A, B, both

LEMMA OccursSingle ==
  ASSUME NEW h, NEW g
  PROVE  Cardinality(Occurs(<<h>>, g)) = One(h = g)
  <1>1. DOMAIN <<h>> = {1} /\ <<h>>[1] = h
    OBVIOUS
  <1>2. CASE h = g
    <2>1. Occurs(<<h>>, g) = {1}
      BY <1>1, <1>2 DEF Occurs
    <2> QED BY <1>2, <2>1, FS_Singleton DEF One
  <1>3. CASE h # g
    <2>1. Occurs(<<h>>, g) = {}
      BY <1>1, <1>3 DEF Occurs
    <2> QED BY <1>3, <2>1, FS_EmptySet DEF One
  <1> QED BY <1>2, <1>3

LEMMA OccursTail ==
  ASSUME NEW S, NEW l \in Seq(S), l # <<>>, NEW g
  PROVE  Cardinality(Occurs(l, g)) = One(Head(l) = g) + Cardinality(Occurs(Tail(l), g))
  <1>1. Head(l) \in S /\ Tail(l) \in Seq(S) /\ <<Head(l)>> \in Seq(S)
    BY HeadTailProperties
  <1>2. l = <<Head(l)>> \o Tail(l)
    BY HeadTailProperties
  <1>3. Cardinality(Occurs(<<Head(l)>> \o Tail(l), g))
          = Cardinality(Occurs(<<Head(l)>>, g)) + Cardinality(Occurs(Tail(l), g))
    BY <1>1, OccursConcat
  <1>4. Cardinality(Occurs(l, g)) = Cardinality(Occurs(<<Head(l)>> \o Tail(l), g))
    BY <1>2, Zenon
  <1>5. Cardinality(Occurs(<<Head(l)>>, g)) = One(Head(l) = g)
    BY OccursSingle
  <1> QED BY <1>3, <1>4, <1>5

\* A sheet that joins adds its own imports.
LEMMA ImportedByMore ==
  ASSUME NEW c, NEW F, NEW f, f \notin F, NEW S, ImportsOf(c, f) \in Seq(S), NEW g,
         IsFiniteSet(ImportedBy(c, F, g))
  PROVE  /\ IsFiniteSet(ImportedBy(c, F \cup {f}, g))
         /\ Cardinality(ImportedBy(c, F \cup {f}, g))
              = Cardinality(ImportedBy(c, F, g)) + Cardinality(Occurs(ImportsOf(c, f), g))
  <1> DEFINE A == ImportedBy(c, F, g)
             B == Occurs(ImportsOf(c, f), g)
             C == {<<f, i>> : i \in B}
             h == [i \in B |-> <<f, i>>]
  <1>1. ImportedBy(c, F \cup {f}, g) = A \cup C
    BY DEF ImportedBy
  <1>2. A \cap C = {}
    BY DEF ImportedBy
  <1>3. IsFiniteSet(B) /\ Cardinality(B) \in Nat /\ Cardinality(A) \in Nat
    BY OccursFinite, FS_CardinalityType
  <1>4. h \in Bijection(B, C)
    <2>1. h \in [B -> C] /\ \A i \in B : h[i] = <<f, i>>
      OBVIOUS
    <2>2. \A i, j \in B : <<f, i>> = <<f, j>> => i = j
      OBVIOUS
    <2> QED BY <2>1, <2>2 DEF Bijection, Injection, Surjection, IsInjective
  <1> HIDE DEF A, B, C, h
  <1>5. IsFiniteSet(C) /\ Cardinality(C) = Cardinality(B)
    BY <1>3, <1>4, FS_Bijection DEF ExistsBijection
  <1>6. IsFiniteSet(A \cup C) /\ Cardinality(A \cup C) = Cardinality(A) + Cardinality(C) - Cardinality(A \cap C)
    BY <1>5, FS_Union DEF A
  <1>7. Cardinality(A \cap C) = 0
    BY <1>2, FS_EmptySet
  <1>8. Cardinality(A \cup C) = Cardinality(A) + Cardinality(B)
    BY <1>3, <1>5, <1>6, <1>7
  <1> QED BY <1>1, <1>6, <1>8, Zenon DEF A, B

\* The steps of a run from a given one on.
FromWrite == {"write", "rename"}
FromVisit == {"visit", "tailwind", "write", "rename"}
FromValidate == {"validate"} \cup FromVisit
FromBundle == {"bundle"} \cup FromValidate
FromTypes == {"types"} \cup FromBundle
FromRead == {"read", "config"} \cup FromTypes
FromStatic == {"static"} \cup FromRead

\* The run is at one of the steps, or was the last one and ended well.
Reached(steps) == at \in steps \/ (at = "idle" /\ verdict = "ok")

StaticRecord(c, f) == Record(Logical(f), Bytes(c, "file", {f}, {}))
StaticRecords(c) == {StaticRecord(c, f) : f \in {g \in Statics : c[g] # Absent}}
\* The style sheet made of the versions c and version v of the ignore file.
CssRecord(c, v) ==
  Record(Logical(Sheet),
         [kind |-> "css", of |-> {<<f, c[f]>> : f \in Reach(c) \cup {View}} \cup {<<Ignore, v>>}, link |-> {}])

\* What a run has found out by now, as a statement about the versions c: what it has
\* read is watched, was acceptable and is in the outputs.
EnvKept == Reached(FromStatic) => Env \in watched

StaticsKept(c) ==
  Reached(FromRead) => Statics \subseteq watched /\ \A f \in Statics : c[f] # Absent => c[f] \notin Odd

\* The ignore file was read when Tailwind ran, watched or not.
MadeOf(c, v) ==
  /\ Ignore \in watched => v = c[Ignore]
  /\ ToSet(outputs) = (StaticRecords(c) \cup ToSet(Bundle(c))) \cup {CssRecord(c, v)}

OutputsKept(c) ==
  /\ at = "read" => ToSet(outputs) \cup {StaticRecord(c, f) : f \in ToSet(todo)} = StaticRecords(c)
  /\ at \in {"config", "types", "bundle"} => ToSet(outputs) = StaticRecords(c)
  /\ at \in {"validate", "visit", "tailwind"} => ToSet(outputs) = StaticRecords(c) \cup ToSet(Bundle(c))
  /\ Reached(FromWrite) => \E v \in Versions : MadeOf(c, v)

ConfigsKept(c) ==
  Reached(FromTypes) =>
    /\ Sources \subseteq watched /\ ConfigChain(c) \subseteq watched
    /\ \A g \in ConfigChain(c) : c[g] # Absent

\* What is watched of the program was accepted; a declaration that came later is not.
ProgramKept(c) ==
  /\ Reached(FromBundle) =>
       /\ Listed \subseteq watched /\ c[Env] # Absent
       /\ \A f \in Program(c) \cap watched : c[f] # Absent /\ TypeChecks(f, c[f])
  /\ Reached(FromValidate) => Resolves(c)

\* The sheets seen so far are reached from the root, those they import are seen or
\* will be, and each was met as often as it was imported.
ClosedSoFar(c, S) == Sheet \in S /\ \A f \in S \cap seenCss : Imports(c, f) \subseteq S

SeenFit(c) ==
  /\ seenCss \subseteq watched /\ Sheet \in seenCss \cup ToSet(todo)
  /\ Sheet \in seenCss => View \in watched /\ c[View] # Absent /\ c[View] \notin Odd
  /\ \A f \in seenCss : /\ c[f] # Absent /\ InPlace(f, Css(f, c[f]))
                        /\ Imports(c, f) \subseteq seenCss \cup ToSet(todo)
SeenReached(c) ==
  \A S \in SUBSET Sheets : ClosedSoFar(c, S) => seenCss \cup ToSet(todo) \subseteq S
SeenCounted(c) ==
  \A g \in Sheets :
    /\ IsFiniteSet(ImportedBy(c, seenCss, g))
    /\ Cardinality(ImportedBy(c, seenCss, g)) + One(g = Sheet)
         = Cardinality(Occurs(todo, g)) + One(g \in seenCss)

SheetsKept(c) == Reached(FromVisit) => SeenFit(c) /\ SeenReached(c) /\ SeenCounted(c)

Kept(c) == EnvKept /\ StaticsKept(c) /\ OutputsKept(c) /\ ConfigsKept(c) /\ ProgramKept(c) /\ SheetsKept(c)

\* What has not begun has left nothing.
Begun ==
  /\ at \in {"unlist", "static"} => outputs = <<>>
  /\ at \in {"unlist", "static", "read", "config", "types", "bundle", "validate"} => seenCss = {}

Clean == watched \cap dirty = {}

\* Either something that was read has been edited since the run began, or all that it
\* has found out holds of the files as they are now.
FreshInv == AssetsInv /\ Begun /\ (Clean => Kept(content))
-----------------------------------------------------------------------------
\* Once nothing is left to visit, what was seen is what the root reaches.
LEMMA ReachIsSeen ==
  ASSUME NEW c, seenCss \subseteq Sheets, todo = <<>>, SeenFit(c), SeenReached(c)
  PROVE  Reach(c) = seenCss
  <1>1. ToSet(todo) = {}
    BY EmptySeq DEF ToSet
  <1>2. Closed(c, seenCss)
    BY <1>1 DEF Closed, SeenFit
  <1>3. \A S \in SUBSET Sheets : Closed(c, S) => ClosedSoFar(c, S)
    BY DEF Closed, ClosedSoFar
  <1>4. \A S \in SUBSET Sheets : Closed(c, S) => seenCss \subseteq S
    BY <1>3 DEF SeenReached
  <1> QED BY <1>2, <1>4 DEF Reach

LEMMA BytesAgree ==
  ASSUME NEW c, NEW d, NEW F, \A f \in F : d[f] = c[f], NEW k, NEW L
  PROVE  Bytes(d, k, F, L) = Bytes(c, k, F, L)
  BY DEF Bytes

LEMMA RecordsAgree ==
  ASSUME NEW c, NEW d
  PROVE  /\ (\A f \in Statics : d[f] = c[f]) =>
              /\ StaticRecords(d) = StaticRecords(c)
              /\ \A f \in Statics : StaticRecord(d, f) = StaticRecord(c, f)
         /\ (\A f \in Sources : d[f] = c[f]) => Bundle(d) = Bundle(c)
         /\ Reach(d) = Reach(c) /\ (\A f \in Reach(c) \cup {View} : d[f] = c[f]) =>
              \A v : CssRecord(d, v) = CssRecord(c, v)
  <1>1. ASSUME \A f \in Statics : d[f] = c[f]
        PROVE  \A f \in Statics : StaticRecord(d, f) = StaticRecord(c, f)
    <2> SUFFICES ASSUME NEW f \in Statics PROVE StaticRecord(d, f) = StaticRecord(c, f)
      OBVIOUS
    <2>1. Bytes(d, "file", {f}, {}) = Bytes(c, "file", {f}, {})
      BY <1>1, BytesAgree
    <2> QED BY <2>1 DEF StaticRecord
  <1>2. ASSUME \A f \in Statics : d[f] = c[f]
        PROVE  StaticRecords(d) = StaticRecords(c)
    BY <1>1, <1>2 DEF StaticRecords
  <1>3. ASSUME \A f \in Sources : d[f] = c[f]
        PROVE  Bundle(d) = Bundle(c)
    <2>1. \A k, L : Bytes(d, k, Sources, L) = Bytes(c, k, Sources, L)
      BY <1>3, BytesAgree
    <2> QED BY <2>1 DEF Bundle
  <1>4. ASSUME Reach(d) = Reach(c), \A f \in Reach(c) \cup {View} : d[f] = c[f]
        PROVE  \A v : CssRecord(d, v) = CssRecord(c, v)
    <2>1. {<<f, d[f]>> : f \in Reach(c) \cup {View}} = {<<f, c[f]>> : f \in Reach(c) \cup {View}}
      BY <1>4
    <2> QED BY <1>4, <2>1 DEF CssRecord
  <1> QED BY <1>1, <1>2, <1>3, <1>4

LEMMA ChainAgrees ==
  ASSUME NEW c, NEW d, \A g \in watched : d[g] = c[g], ConfigChain(c) \subseteq watched
  PROVE  ConfigChain(d) = ConfigChain(c)
  <1>1. Config \in watched /\ Extends(Config, c[Config]) \subseteq watched
    BY DEF ConfigChain
  <1>2. d[Config] = c[Config] /\ \A g \in Extends(Config, c[Config]) : d[g] = c[g]
    BY <1>1
  <1> QED BY <1>2 DEF ConfigChain

\* What was found out depends only on versions of files that are watched.
LEMMA KeptAgrees ==
  ASSUME NEW c, NEW d, \A g \in watched : d[g] = c[g], Placing, Kept(c)
  PROVE  Kept(d) /\ (Reached(FromWrite) => \A v : MadeOf(c, v) => MadeOf(d, v))
  <1>0. TodoAt /\ seenCss \subseteq Sheets
    BY DEF Placing
  <1>1. EnvKept
    BY DEF Kept
  <1>2. StaticsKept(d)
    BY DEF Kept, StaticsKept
  <1>3. ConfigsKept(d)
    <2> SUFFICES ASSUME Reached(FromTypes)
                 PROVE  /\ Sources \subseteq watched /\ ConfigChain(d) \subseteq watched
                        /\ \A g \in ConfigChain(d) : d[g] # Absent
      BY DEF ConfigsKept
    <2>1. /\ Sources \subseteq watched /\ ConfigChain(c) \subseteq watched
          /\ \A g \in ConfigChain(c) : c[g] # Absent
      BY DEF Kept, ConfigsKept
    <2>2. ConfigChain(d) = ConfigChain(c)
      BY <2>1, ChainAgrees
    <2> QED BY <2>1, <2>2
  <1>4. ProgramKept(d)
    <2>1. Reached(FromBundle) => Env \in watched
      BY DEF Kept, EnvKept, Reached, FromStatic, FromRead, FromTypes
    <2>2. ASSUME Reached(FromBundle)
          PROVE  /\ Listed \subseteq watched /\ d[Env] # Absent
                 /\ \A f \in Program(d) \cap watched : d[f] # Absent /\ TypeChecks(f, d[f])
      <3>1. /\ Listed \subseteq watched /\ c[Env] # Absent
            /\ \A f \in Program(c) \cap watched : c[f] # Absent /\ TypeChecks(f, c[f])
        BY <2>2 DEF Kept, ProgramKept
      <3>2. ConfigChain(c) \subseteq watched
        BY <2>2 DEF Kept, ConfigsKept, Reached, FromTypes
      <3>3. ConfigChain(d) = ConfigChain(c)
        BY <3>2, ChainAgrees
      <3>4. Program(d) \cap watched = Program(c) \cap watched
        BY <3>3 DEF Program
      <3> QED BY <2>1, <2>2, <3>1, <3>4
    <2>3. Reached(FromValidate) => Sources \subseteq watched
      BY <1>3 DEF ConfigsKept, Reached, FromTypes, FromBundle
    <2>4. Reached(FromValidate) => Resolves(d)
      BY <2>3 DEF Kept, ProgramKept, Resolves
    <2> QED BY <2>2, <2>4 DEF ProgramKept
  <1>5. SheetsKept(d)
    <2> SUFFICES ASSUME Reached(FromVisit) PROVE SeenFit(d) /\ SeenReached(d) /\ SeenCounted(d)
      BY DEF SheetsKept
    <2>1. SeenFit(c) /\ SeenReached(c) /\ SeenCounted(c)
      BY DEF Kept, SheetsKept
    <2>2. \A f \in seenCss : d[f] = c[f]
      BY <2>1 DEF SeenFit
    <2>3. \A f \in seenCss : Imports(d, f) = Imports(c, f)
      BY <2>2 DEF Imports
    <2>4. SeenFit(d)
      BY <2>1, <2>2, <2>3 DEF SeenFit
    <2>5. \A S : ClosedSoFar(d, S) <=> ClosedSoFar(c, S)
      BY <2>3 DEF ClosedSoFar
    <2>6. SeenReached(d)
      BY <2>1, <2>5 DEF SeenReached
    <2>7. \A f \in seenCss : ImportsOf(d, f) = ImportsOf(c, f)
      BY <2>2 DEF ImportsOf
    <2>8. \A g : ImportedBy(d, seenCss, g) = ImportedBy(c, seenCss, g)
      BY <2>7 DEF ImportedBy
    <2>9. SeenCounted(d)
      BY <2>1, <2>8 DEF SeenCounted
    <2> QED BY <2>4, <2>6, <2>9
  <1>6. OutputsKept(d) /\ (Reached(FromWrite) => \A v : MadeOf(c, v) => MadeOf(d, v))
    <2>1. Reached(FromRead) => StaticRecords(d) = StaticRecords(c)
                               /\ \A f \in Statics : StaticRecord(d, f) = StaticRecord(c, f)
      BY RecordsAgree DEF Kept, StaticsKept
    <2>2. Reached(FromTypes) => Bundle(d) = Bundle(c)
      BY RecordsAgree DEF Kept, ConfigsKept
    <2>3. ASSUME Reached(FromWrite) PROVE \A v : CssRecord(d, v) = CssRecord(c, v)
      <3>1. Reached(FromVisit) /\ todo = <<>>
        BY <1>0, <2>3 DEF Reached, FromWrite, FromVisit, TodoAt
      <3>2. SeenFit(c) /\ SeenReached(c) /\ SeenFit(d) /\ SeenReached(d)
        BY <1>5, <3>1 DEF Kept, SheetsKept
      <3>3. Reach(c) = seenCss /\ Reach(d) = seenCss
        BY <1>0, <3>1, <3>2, ReachIsSeen
      <3>4. Sheet \in seenCss
        BY <3>1, <3>2, EmptySeq DEF SeenFit, ToSet
      <3>5. \A f \in Reach(c) \cup {View} : d[f] = c[f]
        BY <3>2, <3>3, <3>4 DEF SeenFit
      <3> QED BY <3>3, <3>5, RecordsAgree
    <2>4. at = "read" => ToSet(todo) \subseteq Statics
      BY <1>0 DEF TodoAt, ToSet
    <2>5. /\ at = "read" => Reached(FromRead)
          /\ at \in {"config", "types", "bundle"} => Reached(FromRead)
          /\ at \in {"validate", "visit", "tailwind"} => Reached(FromRead) /\ Reached(FromTypes)
          /\ Reached(FromWrite) => Reached(FromRead) /\ Reached(FromTypes)
      BY DEF Reached, FromRead, FromTypes, FromBundle, FromValidate, FromVisit, FromWrite
    <2>6. OutputsKept(c)
      BY DEF Kept
    <2>7. at = "read" => ToSet(outputs) \cup {StaticRecord(d, f) : f \in ToSet(todo)} = StaticRecords(d)
      <3> SUFFICES ASSUME at = "read"
                   PROVE ToSet(outputs) \cup {StaticRecord(d, f) : f \in ToSet(todo)} = StaticRecords(d)
        OBVIOUS
      <3>1. \A f \in ToSet(todo) : StaticRecord(d, f) = StaticRecord(c, f)
        BY <2>1, <2>4, <2>5
      <3>2. {StaticRecord(d, f) : f \in ToSet(todo)} = {StaticRecord(c, f) : f \in ToSet(todo)}
        BY <3>1
      <3> QED BY <2>1, <2>5, <2>6, <3>2 DEF OutputsKept
    <2>8. Reached(FromWrite) => \A v : MadeOf(c, v) => MadeOf(d, v)
      BY <2>1, <2>2, <2>3, <2>5 DEF MadeOf
    <2> QED BY <2>1, <2>2, <2>5, <2>6, <2>7, <2>8 DEF OutputsKept
  <1> QED BY <1>1, <1>2, <1>3, <1>4, <1>5, <1>6 DEF Kept

LEMMA EditFresh ==
  ASSUME FreshInv, NEW f \in Files, NEW v \in Versions, Edit(f, v), AssetsInv'
  PROVE  FreshInv'
  <1>1. UNCHANGED <<at, todo, outputs, watched, seenCss, verdict>> /\ dirty' = dirty \cup {f}
    BY DEF Edit, build
  <1>2. Begun'
    BY <1>1 DEF FreshInv, Begun
  <1>3. ASSUME Clean' PROVE Kept(content)'
    <2>1. f \notin watched /\ Clean
      BY <1>1, <1>3 DEF Clean
    <2>2. content \in [Files -> Versions] /\ watched \subseteq Files /\ Placing
      BY FilesParts DEF FreshInv, AssetsInv, Editing, Placing
    <2>3. \A g \in watched : content'[g] = content[g]
      BY <2>1, <2>2 DEF Edit
    <2>4. Kept(content')
      BY <2>1, <2>2, <2>3, KeptAgrees DEF FreshInv
    <2> DEFINE c == content'
    <2> HIDE DEF c
    <2>5. EnvKept' /\ (StaticsKept(content))' /\ (OutputsKept(content))' /\ (ConfigsKept(content))' /\ (ProgramKept(content))'
      BY <1>1, <2>4 DEF Kept, EnvKept, StaticsKept, OutputsKept, MadeOf, ConfigsKept, ProgramKept, Reached
    <2>6. (SheetsKept(content))'
      BY <1>1, <2>4 DEF Kept, SheetsKept, SeenFit, SeenReached, ClosedSoFar, SeenCounted, Reached
    <2> QED BY <2>5, <2>6 DEF Kept
  <1> QED BY <1>2, <1>3 DEF FreshInv

\* A step inside a run keeps what it does not touch: what is watched stays watched.
LEMMA Carried ==
  ASSUME Kept(content), UNCHANGED <<content, verdict>>, watched \subseteq watched', at # "idle", at' # "idle"
  PROVE  /\ at \in FromStatic => EnvKept'
         /\ (at \in FromRead \/ at' \notin FromRead) => (StaticsKept(content))'
         /\ (at \in FromTypes \/ at' \notin FromTypes) => (ConfigsKept(content))'
         /\ ((at \in FromBundle /\ (Stray \in watched' => Stray \in watched)) \/ at' \notin FromBundle)
              /\ (at \in FromValidate \/ at' \notin FromValidate) => (ProgramKept(content))'
         /\ at' \notin FromVisit => (SheetsKept(content))'
         /\ at \in FromVisit /\ UNCHANGED <<seenCss, todo>> => (SheetsKept(content))'
  <1>1. at \in FromStatic => EnvKept'
    BY DEF Kept, EnvKept, Reached
  <1>2. (at \in FromRead \/ at' \notin FromRead) => (StaticsKept(content))'
    BY DEF Kept, StaticsKept, Reached
  <1>3. (at \in FromTypes \/ at' \notin FromTypes) => (ConfigsKept(content))'
    BY DEF Kept, ConfigsKept, Reached
  <1>4. ((at \in FromBundle /\ (Stray \in watched' => Stray \in watched)) \/ at' \notin FromBundle)
          /\ (at \in FromValidate \/ at' \notin FromValidate) => (ProgramKept(content))'
    <2>1. \A f \in Program(content) : f \in Listed \/ f = Stray
      BY DEF Program
    <2> QED BY <2>1 DEF Kept, ProgramKept, Reached
  <1>5. at' \notin FromVisit => (SheetsKept(content))'
    BY DEF SheetsKept, Reached
  <1>6. at \in FromVisit /\ UNCHANGED <<seenCss, todo>> => (SheetsKept(content))'
    <2> SUFFICES ASSUME at \in FromVisit, UNCHANGED <<seenCss, todo>> PROVE (SheetsKept(content))'
      OBVIOUS
    <2>1. SeenFit(content) /\ SeenReached(content) /\ SeenCounted(content)
      BY DEF Kept, SheetsKept, Reached
    <2>2. (SeenFit(content))'
      BY <2>1 DEF SeenFit
    <2>3. (SeenReached(content))' /\ (SeenCounted(content))'
      BY <2>1 DEF SeenReached, ClosedSoFar, SeenCounted
    <2> QED BY <2>2, <2>3 DEF SheetsKept
  <1> QED BY <1>1, <1>2, <1>3, <1>4, <1>5, <1>6

LEMMA RunFresh ==
  ASSUME FreshInv, CargoRuns \/ Stopped \/ RemoveManifest
  PROVE  Begun' /\ (Clean' => (Kept(content))')
  <1>1. CASE CargoRuns \/ Stopped
    <2>1. at' \in {"unlist", "idle"} /\ (at' = "idle" => verdict' # "ok")
      BY <1>1 DEF CargoRuns, Stopped, ToStep
    <2>2. at' = "unlist" => outputs' = <<>> /\ seenCss' = {}
      BY <1>1 DEF CargoRuns, Stopped, ToStep
    <2> QED BY <2>1, <2>2 DEF Begun, Kept, EnvKept, StaticsKept, OutputsKept, ConfigsKept, ProgramKept, SheetsKept,
                Reached, FromStatic, FromRead, FromTypes, FromBundle, FromValidate, FromVisit, FromWrite
  <1>2. CASE RemoveManifest
    <2>1. at = "unlist" /\ at' = "static" /\ Env \in watched' /\ UNCHANGED <<outputs, seenCss>>
      BY <1>2 DEF RemoveManifest, ToStep, WatchDir, EnvWatchKeys
    <2>2. Begun'
      BY <2>1 DEF FreshInv, Begun
    <2> QED BY <2>1, <2>2 DEF Kept, EnvKept, StaticsKept, OutputsKept, ConfigsKept, ProgramKept, SheetsKept,
                Reached, FromStatic, FromRead, FromTypes, FromBundle, FromValidate, FromVisit, FromWrite
  <1> QED BY <1>1, <1>2

\* SetToSeq leaves nothing out.
LEMMA SetToSeqRange ==
  ASSUME NEW S, IsFiniteSet(S)
  PROVE  ToSet(SetToSeq(S)) = S
  <1>1. Cardinality(S) \in Nat /\ ExistsBijection(1..Cardinality(S), S)
    BY FS_CardinalityType
  <1>2. \E f \in [1..Cardinality(S) -> S] : IsInjective(f)
    BY <1>1 DEF ExistsBijection, Bijection, Injection
  <1> DEFINE l == SetToSeq(S)
             D == 1..Cardinality(S)
  <1>3. l \in [D -> S] /\ IsInjective(l)
    BY <1>2 DEF SetToSeq
  <1> HIDE DEF l
  <1>4. IsFiniteSet(D) /\ Cardinality(D) = Cardinality(S)
    <2>1. 1 \in Int /\ Cardinality(S) \in Int /\ (IF 1 > Cardinality(S) THEN 0 ELSE Cardinality(S) - 1 + 1) = Cardinality(S)
      BY <1>1
    <2> QED BY <2>1, FS_Interval
  <1> HIDE DEF D
  <1>5. l \in Injection(D, S)
    BY <1>3 DEF Injection, IsInjective
  <1>6. l \in Surjection(D, S)
    BY <1>4, <1>5, FS_Injection
  <1>7. ToSet(l) = S
    BY <1>3, <1>6 DEF Surjection, ToSet
  <1> QED BY <1>7 DEF l

LEMMA CollectFresh ==
  ASSUME FreshInv, CollectFiles
  PROVE  Begun' /\ (Clean' => (Kept(content))')
  <1>1. /\ at = "static" /\ at' \in {"config", "read"} /\ watched' = watched \cup Statics
        /\ UNCHANGED <<outputs, seenCss, content, verdict, dirty>>
        /\ \A f \in Present(Statics) : Regular(f)
        /\ at' = "config" => Present(Statics) = {}
        /\ at' = "read" => todo' = SetToSeq(Present(Statics))
    BY DEF CollectFiles, WatchDir, ToStep, Continue
  <1>2. outputs' = <<>> /\ seenCss' = {}
    BY <1>1 DEF FreshInv, Begun
  <1>3. ASSUME Clean' PROVE (Kept(content))'
    <2>1. Kept(content)
      BY <1>1, <1>3 DEF FreshInv, Clean
    <2>2. /\ EnvKept' /\ (ConfigsKept(content))' /\ (ProgramKept(content))' /\ (SheetsKept(content))'
      BY <1>1, <2>1, Carried DEF FromStatic, FromRead, FromTypes, FromBundle, FromValidate, FromVisit
    <2>3. (StaticsKept(content))'
      BY <1>1 DEF StaticsKept, Present, Regular
    <2>4. ToSet(outputs') = {}
      BY <1>2, EmptySeq DEF ToSet
    <2>5. StaticRecords(content') = {StaticRecord(content', f) : f \in Present(Statics)}
      BY <1>1 DEF StaticRecords, Present
    <2>6. at' = "read" => ToSet(todo') = Present(Statics)
      <3>1. IsFiniteSet(Present(Statics))
        BY AssetsAssumption, FS_Subset DEF Present
      <3> QED BY <1>1, <3>1, SetToSeqRange
    <2>7. at' = "read" => ToSet(outputs') \cup {StaticRecord(content', f) : f \in ToSet(todo')} = StaticRecords(content')
      BY <2>4, <2>5, <2>6
    <2>8. at' = "config" => ToSet(outputs') = StaticRecords(content')
      BY <1>1, <2>4, <2>5
    <2>9. (OutputsKept(content))'
      BY <1>1, <2>7, <2>8 DEF OutputsKept, Reached, FromWrite
    <2> QED BY <2>2, <2>3, <2>9 DEF Kept
  <1> QED BY <1>1, <1>2, <1>3 DEF Begun

\* The range of a record list grows by what is added, that of a list of files loses
\* its head.
LEMMA RangeAppend ==
  ASSUME NEW S, NEW l \in Seq(S), NEW r
  PROVE  ToSet(Append(l, r)) = ToSet(l) \cup {r}
  <1>1. l \in Seq(S \cup {r}) /\ Len(l) \in Nat /\ DOMAIN l = 1..Len(l)
    BY LenProperties
  <1> DEFINE m == Append(l, r)
  <1>2. /\ m \in Seq(S \cup {r}) /\ Len(m) = Len(l) + 1
        /\ (\A i \in 1..Len(l) : m[i] = l[i]) /\ m[Len(l) + 1] = r
    BY <1>1, AppendProperties
  <1>3. DOMAIN m = 1..(Len(l) + 1)
    BY <1>2, LenProperties
  <1> HIDE DEF m
  <1>4. 1..(Len(l) + 1) = (1..Len(l)) \cup {Len(l) + 1}
    BY <1>1
  <1> QED BY <1>1, <1>2, <1>3, <1>4 DEF ToSet, m

LEMMA RangeTail ==
  ASSUME NEW S, NEW l \in Seq(S), l # <<>>
  PROVE  ToSet(l) = {Head(l)} \cup ToSet(Tail(l)) /\ (Len(l) = 1 => ToSet(Tail(l)) = {})
  <1>1. /\ Head(l) = l[1] /\ 1 \in DOMAIN l
        /\ Range(l) = {Head(l)} \cup Range(Tail(l))
        /\ Len(l) = 1 <=> Tail(l) = <<>>
    BY TailParts
  <1>2. ToSet(l) = Range(l) /\ ToSet(Tail(l)) = Range(Tail(l))
    BY DEF ToSet, Range
  <1>3. ToSet(<<>>) = {}
    BY DEF ToSet
  <1> QED BY <1>1, <1>2, <1>3, Zenon

LEMMA RecordsSeq ==
  ASSUME AssetsInv
  PROVE  \E S : outputs \in Seq(S)
  BY DEF AssetsInv, ManifestInv, Whole

LEMMA ReadFresh ==
  ASSUME FreshInv, ReadStatic
  PROVE  Begun' /\ (Clean' => (Kept(content))')
  <1> DEFINE h == Head(todo)
             r == StaticRecord(content, h)
  <1>1. /\ at = "read" /\ at' \in {"config", "read"}
        /\ UNCHANGED <<watched, seenCss, content, verdict, dirty>>
        /\ outputs' = Append(outputs, r)
        /\ at' = "config" => Len(todo) = 1
        /\ at' = "read" => todo' = Tail(todo)
    BY DEF ReadStatic, ToStep, Continue, AddOutput, StaticRecord
  <1>2. Begun'
    BY <1>1 DEF FreshInv, Begun
  <1>3. ASSUME Clean' PROVE (Kept(content))'
    <2>1. Kept(content)
      BY <1>1, <1>3 DEF FreshInv, Clean
    <2>2. /\ EnvKept' /\ (StaticsKept(content))' /\ (ConfigsKept(content))' /\ (ProgramKept(content))' /\ (SheetsKept(content))'
      BY <1>1, <2>1, Carried DEF FromStatic, FromRead, FromTypes, FromBundle, FromValidate, FromVisit
    <2>3. ToSet(outputs) \cup {StaticRecord(content, f) : f \in ToSet(todo)} = StaticRecords(content)
      BY <1>1, <2>1 DEF Kept, OutputsKept
    <2>4. todo \in Seq(Statics) /\ todo # <<>>
      BY <1>1 DEF FreshInv, AssetsInv, Placing, TodoAt
    <2>5. ToSet(todo) = {h} \cup ToSet(Tail(todo)) /\ (Len(todo) = 1 => ToSet(Tail(todo)) = {})
      BY <2>4, RangeTail
    <2>6. ToSet(Append(outputs, r)) = ToSet(outputs) \cup {r}
      BY RecordsSeq, RangeAppend DEF FreshInv
    <2>7. {StaticRecord(content, f) : f \in ToSet(todo)}
            = {r} \cup {StaticRecord(content, f) : f \in ToSet(Tail(todo))}
      BY <2>5
    <2> HIDE DEF r, h
    <2>8. ToSet(outputs') \cup {StaticRecord(content, f) : f \in ToSet(Tail(todo))} = StaticRecords(content)
      BY <1>1, <2>3, <2>6, <2>7
    <2>9. at' = "config" => ToSet(outputs') = StaticRecords(content)
      BY <1>1, <2>5, <2>8
    <2>10. StaticRecords(content') = StaticRecords(content) /\ content' = content
      BY <1>1
    <2>11. (OutputsKept(content))'
      BY <1>1, <2>8, <2>9, <2>10 DEF OutputsKept, Reached, FromWrite
    <2> QED BY <2>2, <2>11 DEF Kept
  <1> QED BY <1>2, <1>3

LEMMA ConfigFresh ==
  ASSUME FreshInv, WatchConfig
  PROVE  Begun' /\ (Clean' => (Kept(content))')
  <1>1. /\ at = "config" /\ at' = "types"
        /\ watched' = watched \cup (Sources \cup {Config} \cup ConfigChain(content))
        /\ UNCHANGED <<seenCss, content, verdict, dirty, outputs>>
        /\ \A g \in ConfigChain(content) : content[g] # Absent
    BY DEF WatchConfig, WatchDir, ToStep, Continue
  <1>2. Begun'
    BY <1>1 DEF FreshInv, Begun
  <1>3. ASSUME Clean' PROVE (Kept(content))'
    <2>1. Kept(content)
      BY <1>1, <1>3 DEF FreshInv, Clean
    <2>2. /\ EnvKept' /\ (StaticsKept(content))' /\ (ProgramKept(content))' /\ (SheetsKept(content))'
      BY <1>1, <2>1, Carried DEF FromStatic, FromRead, FromTypes, FromBundle, FromValidate, FromVisit
    <2>3. (ConfigsKept(content))'
      BY <1>1 DEF ConfigsKept
    <2>4. (OutputsKept(content))'
      BY <1>1, <2>1 DEF Kept, OutputsKept, Reached, FromWrite
    <2> QED BY <2>2, <2>3, <2>4 DEF Kept
  <1> QED BY <1>2, <1>3

LEMMA TypesFresh ==
  ASSUME FreshInv, CheckTypes
  PROVE  Begun' /\ (Clean' => (Kept(content))')
  <1>1. /\ at = "types" /\ at' = "bundle" /\ watched' = watched \cup Program(content)
        /\ UNCHANGED <<seenCss, content, verdict, dirty, outputs>>
        /\ content[Env] # Absent /\ WellTyped(content)
    BY DEF CheckTypes, WatchDir, ToStep, Continue
  <1>2. Begun'
    BY <1>1 DEF FreshInv, Begun
  <1>3. ASSUME Clean' PROVE (Kept(content))'
    <2>1. Kept(content)
      BY <1>1, <1>3 DEF FreshInv, Clean
    <2>2. /\ EnvKept' /\ (StaticsKept(content))' /\ (ConfigsKept(content))' /\ (SheetsKept(content))'
      BY <1>1, <2>1, Carried DEF FromStatic, FromRead, FromTypes, FromBundle, FromValidate, FromVisit
    <2>3. (ProgramKept(content))'
      <3>1. Listed \subseteq watched'
        BY <1>1 DEF Program
      <3>2. \A f \in Program(content) : content[f] # Absent /\ TypeChecks(f, content[f])
        BY <1>1 DEF WellTyped
      <3> QED BY <1>1, <3>1, <3>2 DEF ProgramKept, Reached, FromValidate, FromVisit
    <2>4. (OutputsKept(content))'
      BY <1>1, <2>1 DEF Kept, OutputsKept, Reached, FromWrite
    <2> QED BY <2>2, <2>3, <2>4 DEF Kept
  <1> QED BY <1>2, <1>3

\* The first sheet to visit is the root, which nobody has imported.
LEMMA VisitBegins ==
  ASSUME NEW c
  PROVE  /\ \A g : ImportedBy(c, {}, g) = {} /\ Cardinality(ImportedBy(c, {}, g)) = 0
         /\ \A g : Cardinality(Occurs(<<Sheet>>, g)) = One(g = Sheet)
         /\ ToSet(<<Sheet>>) = {Sheet}
  <1>1. \A g : ImportedBy(c, {}, g) = {}
    BY DEF ImportedBy
  <1>2. \A g : Cardinality(Occurs(<<Sheet>>, g)) = One(g = Sheet)
    <2> SUFFICES ASSUME NEW g PROVE Cardinality(Occurs(<<Sheet>>, g)) = One(g = Sheet)
      OBVIOUS
    <2>1. Cardinality(Occurs(<<Sheet>>, g)) = One(Sheet = g)
      BY OccursSingle
    <2> QED BY <2>1 DEF One
  <1>3. ToSet(<<Sheet>>) = {Sheet}
    BY DEF ToSet
  <1> QED BY <1>1, <1>2, <1>3, FS_EmptySet

LEMMA BundleFresh ==
  ASSUME FreshInv, BundleEntry
  PROVE  Begun' /\ (Clean' => (Kept(content))')
  <1> DEFINE made == Bundle(content)
  <1>1. /\ at = "bundle" /\ at' = "validate" /\ watched' = watched \cup Sources
        /\ UNCHANGED <<seenCss, content, verdict, dirty>>
        /\ outputs' = Append(Append(outputs, made[1]), made[2])
        /\ Resolves(content)
    BY DEF BundleEntry, WatchDir, ToStep, Continue
  <1>2. Begun'
    BY <1>1 DEF FreshInv, Begun
  <1>3. ASSUME Clean' PROVE (Kept(content))'
    <2>1. Kept(content)
      BY <1>1, <1>3 DEF FreshInv, Clean
    <2>2. /\ EnvKept' /\ (StaticsKept(content))' /\ (ConfigsKept(content))' /\ (SheetsKept(content))'
      BY <1>1, <2>1, Carried DEF FromStatic, FromRead, FromTypes, FromBundle, FromValidate, FromVisit
    <2>3. (ProgramKept(content))'
      <3>1. /\ Listed \subseteq watched /\ content[Env] # Absent
            /\ \A f \in Program(content) \cap watched : content[f] # Absent /\ TypeChecks(f, content[f])
        BY <1>1, <2>1 DEF Kept, ProgramKept, Reached, FromBundle
      <3>2. watched' = watched
        BY <1>1, <3>1, FilesParts
      <3> QED BY <1>1, <3>1, <3>2 DEF ProgramKept
    <2>4. ToSet(outputs') = StaticRecords(content) \cup ToSet(made)
      <3>1. PICK S : outputs \in Seq(S)
        BY RecordsSeq DEF FreshInv
      <3>2. Append(outputs, made[1]) \in Seq(S \cup {made[1]})
        BY <3>1, AppendProperties
      <3>3. ToSet(outputs') = (ToSet(outputs) \cup {made[1]}) \cup {made[2]}
        BY <1>1, <3>1, <3>2, RangeAppend, ZenonT(30)
      <3>4. ToSet(made) = {made[1], made[2]}
        BY DEF Bundle, ToSet
      <3> QED BY <1>1, <2>1, <3>3, <3>4 DEF Kept, OutputsKept
    <2>5. (OutputsKept(content))'
      BY <1>1, <2>4 DEF OutputsKept, Reached, FromWrite
    <2> QED BY <2>2, <2>3, <2>5 DEF Kept
  <1> QED BY <1>2, <1>3

LEMMA ValidateFresh ==
  ASSUME FreshInv, ValidateCss
  PROVE  Begun' /\ (Clean' => (Kept(content))')
  <1>1. /\ at = "validate" /\ at' = "visit" /\ todo' = <<Sheet>>
        /\ UNCHANGED <<watched, outputs, seenCss, content, verdict, dirty>>
    BY DEF ValidateCss, ToStep, Continue
  <1>2. Begun' /\ seenCss = {} /\ seenCss' = {}
    BY <1>1 DEF FreshInv, Begun
  <1>3. ASSUME Clean' PROVE (Kept(content))'
    <2>1. Kept(content)
      BY <1>1, <1>3 DEF FreshInv, Clean
    <2>2. /\ EnvKept' /\ (StaticsKept(content))' /\ (ConfigsKept(content))' /\ (ProgramKept(content))'
      BY <1>1, <2>1, Carried DEF FromStatic, FromRead, FromTypes, FromBundle, FromValidate, FromVisit
    <2>3. (OutputsKept(content))'
      BY <1>1, <2>1 DEF Kept, OutputsKept, Reached, FromWrite
    <2>4. (SeenFit(content))'
      BY <1>1, <1>2, VisitBegins DEF SeenFit
    <2>5. (SeenReached(content))'
      BY <1>1, <1>2, VisitBegins DEF SeenReached, ClosedSoFar
    <2>6. (SeenCounted(content))'
      <3>1. \A g : /\ IsFiniteSet(ImportedBy(content', seenCss', g))
                   /\ Cardinality(ImportedBy(content', seenCss', g)) = 0
        BY <1>2, VisitBegins, FS_EmptySet
      <3>2. \A g : Cardinality(Occurs(todo', g)) = One(g = Sheet) /\ One(g = Sheet) \in Nat
        BY <1>1, VisitBegins DEF One
      <3>3. \A g : One(g \in seenCss') = 0
        BY <1>2 DEF One
      <3> SUFFICES ASSUME NEW g \in Sheets
                   PROVE  /\ IsFiniteSet(ImportedBy(content', seenCss', g))
                          /\ Cardinality(ImportedBy(content', seenCss', g)) + One(g = Sheet)
                               = Cardinality(Occurs(todo', g)) + One(g \in seenCss')
        BY DEF SeenCounted
      <3>4. One(g = Sheet) \in Nat
        BY <3>2
      <3>5. 0 + One(g = Sheet) = One(g = Sheet) + 0
        BY <3>4
      <3> QED BY <3>1, <3>2, <3>3, <3>5
    <2> QED BY <2>2, <2>3, <2>4, <2>5, <2>6 DEF Kept, SheetsKept
  <1> QED BY <1>2, <1>3

\* A sheet that is visited leaves the list for its imports.
LEMMA VisitMoves ==
  ASSUME AssetsInv, Visit
  PROVE  LET f == Head(todo) IN
         /\ todo \in Seq(Sheets) /\ todo # <<>> /\ f \in Sheets /\ f \notin seenCss
         /\ ImportsOf(content, f) \in Seq(Sheets) /\ Tail(todo) \in Seq(Sheets)
         /\ todo' = ImportsOf(content, f) \o Tail(todo)
         /\ at = "visit" /\ at' \in {"visit", "tailwind"}
         /\ seenCss' = seenCss \cup {f} /\ watched' = watched \cup ({f} \cup SourceWatches(f))
         /\ UNCHANGED <<content, verdict, dirty, outputs>>
         /\ content[f] # Absent /\ InPlace(f, Css(f, content[f]))
         /\ f = Sheet => content[View] # Absent /\ content[View] \notin Odd
  <1> DEFINE f == Head(todo)
             next == ImportsOf(content, f) \o Tail(todo)
  <1>1. todo \in Seq(Sheets) /\ todo # <<>>
    BY DEF AssetsInv, Placing, TodoAt, Visit
  <1>2. f \in Sheets /\ Tail(todo) \in Seq(Sheets)
    BY <1>1, HeadTailProperties
  <1>3. content[f] \in Versions
    BY <1>2, FilesParts DEF AssetsInv, Editing
  <1>4. ImportsOf(content, f) \in Seq(Sheets)
    BY <1>2, <1>3, AssetsAssumption DEF ImportsOf
  <1>5. /\ at = "visit" /\ f \notin seenCss
        /\ seenCss' = seenCss \cup {f} /\ watched' = watched \cup ({f} \cup SourceWatches(f))
        /\ IF next = <<>> THEN at' = "tailwind" /\ todo' = <<>> ELSE at' = "visit" /\ todo' = next
        /\ UNCHANGED <<content, verdict, dirty, outputs>>
        /\ content[f] # Absent /\ InPlace(f, Css(f, content[f]))
        /\ f = Sheet => content[View] # Absent /\ content[View] \notin Odd
    BY DEF Visit, WatchDir, ToStep, Continue, Confined, Regular, ImportsOf
  <1> HIDE DEF f, next
  <1>6. todo' = next /\ at' \in {"visit", "tailwind"}
    BY <1>5
  <1> QED BY <1>1, <1>2, <1>4, <1>5, <1>6 DEF f, next

\* The range of two lists joined.
LEMMA RangeConcat ==
  ASSUME NEW S, NEW l \in Seq(S), NEW m \in Seq(S)
  PROVE  ToSet(l \o m) = ToSet(l) \cup ToSet(m)
  <1>1. Range(l \o m) = Range(l) \cup Range(m)
    BY ConcatParts
  <1>2. ToSet(l \o m) = Range(l \o m) /\ ToSet(l) = Range(l) /\ ToSet(m) = Range(m)
    BY DEF ToSet, Range
  <1> QED BY <1>1, <1>2, Zenon

LEMMA VisitFresh ==
  ASSUME FreshInv, Visit
  PROVE  Begun' /\ (Clean' => (Kept(content))')
  <1> DEFINE f == Head(todo)
             own == ImportsOf(content, f)
             rest == Tail(todo)
  <1>1. /\ todo \in Seq(Sheets) /\ todo # <<>> /\ f \in Sheets /\ f \notin seenCss
        /\ own \in Seq(Sheets) /\ rest \in Seq(Sheets) /\ todo' = own \o rest
        /\ at = "visit" /\ at' \in {"visit", "tailwind"}
        /\ seenCss' = seenCss \cup {f} /\ watched' = watched \cup ({f} \cup SourceWatches(f))
        /\ UNCHANGED <<content, verdict, dirty, outputs>>
        /\ content[f] # Absent /\ InPlace(f, Css(f, content[f]))
        /\ f = Sheet => content[View] # Absent /\ content[View] \notin Odd
    BY VisitMoves DEF FreshInv
  <1>2. Begun'
    BY <1>1 DEF Begun
  <1>3. ToSet(todo) = {f} \cup ToSet(rest)
    BY <1>1, RangeTail
  <1>4. ToSet(todo') = Imports(content, f) \cup ToSet(rest)
    <2>1. Imports(content, f) = ToSet(own)
      BY DEF Imports, ImportsOf, ToSet, Range
    <2>2. own \in Seq(Sheets) /\ rest \in Seq(Sheets) /\ todo' = own \o rest
      BY <1>1
    <2> HIDE DEF own, rest
    <2>3. ToSet(own \o rest) = ToSet(own) \cup ToSet(rest)
      BY <2>2, RangeConcat
    <2> QED BY <2>1, <2>2, <2>3, Zenon
  <1>5. \A g : Cardinality(Occurs(todo, g)) = One(f = g) + Cardinality(Occurs(rest, g))
    BY <1>1, OccursTail
  <1>6. \A g : Cardinality(Occurs(todo', g)) = Cardinality(Occurs(own, g)) + Cardinality(Occurs(rest, g))
    BY <1>1, OccursConcat
  <1>7. \A g : Cardinality(Occurs(own, g)) \in Nat /\ Cardinality(Occurs(rest, g)) \in Nat
    BY <1>1, OccursFinite
  <1>8. \A g : IsFiniteSet(ImportedBy(content, seenCss, g)) =>
          /\ IsFiniteSet(ImportedBy(content, seenCss \cup {f}, g))
          /\ Cardinality(ImportedBy(content, seenCss \cup {f}, g))
               = Cardinality(ImportedBy(content, seenCss, g)) + Cardinality(Occurs(own, g))
    <2> SUFFICES ASSUME NEW g, IsFiniteSet(ImportedBy(content, seenCss, g))
                 PROVE  /\ IsFiniteSet(ImportedBy(content, seenCss \cup {f}, g))
                        /\ Cardinality(ImportedBy(content, seenCss \cup {f}, g))
                             = Cardinality(ImportedBy(content, seenCss, g)) + Cardinality(Occurs(own, g))
      OBVIOUS
    <2>1. f \notin seenCss /\ ImportsOf(content, f) \in Seq(Sheets)
      BY <1>1
    <2> HIDE DEF f
    <2> QED BY <2>1, ImportedByMore
  <1>9. (f = Sheet => View \in SourceWatches(f)) /\ (Stray \in watched' => Stray \in watched)
    BY <1>1, FilesParts DEF SourceWatches, Present
  <1> HIDE DEF f, own, rest
  <1>10. ASSUME Clean' PROVE (Kept(content))'
    <2>1. Kept(content)
      BY <1>1, <1>10 DEF FreshInv, Clean
    <2>2. /\ EnvKept' /\ (StaticsKept(content))' /\ (ConfigsKept(content))' /\ (ProgramKept(content))'
      BY <1>1, <1>9, <2>1, Carried DEF FromStatic, FromRead, FromTypes, FromBundle, FromValidate, FromVisit
    <2>3. (OutputsKept(content))'
      BY <1>1, <2>1 DEF Kept, OutputsKept, Reached, FromWrite
    <2>4. SeenFit(content) /\ SeenReached(content) /\ SeenCounted(content)
      BY <1>1, <2>1 DEF Kept, SheetsKept, Reached, FromVisit
    <2>5. (SeenFit(content))'
      <3>1. seenCss' \subseteq watched' /\ Sheet \in seenCss' \cup ToSet(todo')
        BY <1>1, <1>3, <1>4, <2>4 DEF SeenFit
      <3>2. Sheet \in seenCss' => View \in watched' /\ content[View] # Absent /\ content[View] \notin Odd
        BY <1>1, <1>9, <2>4 DEF SeenFit
      <3>3. \A g \in seenCss' : /\ content[g] # Absent /\ InPlace(g, Css(g, content[g]))
                                /\ Imports(content, g) \subseteq seenCss' \cup ToSet(todo')
        BY <1>1, <1>3, <1>4, <2>4 DEF SeenFit
      <3> QED BY <1>1, <3>1, <3>2, <3>3 DEF SeenFit
    <2>6. (SeenReached(content))'
      <3> SUFFICES ASSUME NEW S \in SUBSET Sheets, Sheet \in S,
                          \A g \in S \cap seenCss' : Imports(content, g) \subseteq S
                   PROVE  seenCss' \cup ToSet(todo') \subseteq S
        BY <1>1 DEF SeenReached, ClosedSoFar
      <3>1. seenCss \cup ToSet(todo) \subseteq S
        BY <1>1, <2>4 DEF SeenReached, ClosedSoFar
      <3> QED BY <1>1, <1>3, <1>4, <3>1
    <2>7. (SeenCounted(content))'
      <3> SUFFICES ASSUME NEW g \in Sheets
                   PROVE  /\ IsFiniteSet(ImportedBy(content, seenCss', g))
                          /\ Cardinality(ImportedBy(content, seenCss', g)) + One(g = Sheet)
                               = Cardinality(Occurs(todo', g)) + One(g \in seenCss')
        BY <1>1 DEF SeenCounted
      <3>1. /\ IsFiniteSet(ImportedBy(content, seenCss, g))
            /\ Cardinality(ImportedBy(content, seenCss, g)) + One(g = Sheet)
                 = Cardinality(Occurs(todo, g)) + One(g \in seenCss)
        BY <2>4 DEF SeenCounted
      <3>2. Cardinality(ImportedBy(content, seenCss, g)) \in Nat
        BY <3>1, FS_CardinalityType
      <3>3. One(g \in seenCss') = One(g \in seenCss) + One(f = g)
        BY <1>1 DEF One
      <3>4. /\ IsFiniteSet(ImportedBy(content, seenCss', g))
            /\ Cardinality(ImportedBy(content, seenCss', g))
                 = Cardinality(ImportedBy(content, seenCss, g)) + Cardinality(Occurs(own, g))
        BY <1>1, <1>8, <3>1
      <3>5. One(g = Sheet) \in Nat /\ One(g \in seenCss) \in Nat /\ One(f = g) \in Nat
        BY DEF One
      <3>6. /\ Cardinality(Occurs(own, g)) \in Nat /\ Cardinality(Occurs(rest, g)) \in Nat
            /\ Cardinality(Occurs(todo, g)) = One(f = g) + Cardinality(Occurs(rest, g))
            /\ Cardinality(Occurs(todo', g)) = Cardinality(Occurs(own, g)) + Cardinality(Occurs(rest, g))
        BY <1>5, <1>6, <1>7
      <3> QED BY <3>1, <3>2, <3>3, <3>4, <3>5, <3>6
    <2> QED BY <1>1, <2>2, <2>3, <2>5, <2>6, <2>7 DEF Kept, SheetsKept
  <1> QED BY <1>2, <1>10

LEMMA TailwindFresh ==
  ASSUME FreshInv, RunTailwind
  PROVE  Begun' /\ (Clean' => (Kept(content))')
  <1> DEFINE v == content[Ignore]
             r == CssRecord(content, v)
  <1>0. r = Record(Logical(Sheet), Bytes(content, "css", CssInputs(content), {}))
    <2>1. {<<f, content[f]>> : f \in Reach(content) \cup {View, Ignore}}
            = {<<f, content[f]>> : f \in Reach(content) \cup {View}} \cup {<<Ignore, content[Ignore]>>}
      OBVIOUS
    <2> QED BY <2>1 DEF CssRecord, Bytes, CssInputs
  <1>1. /\ at = "tailwind" /\ at' = "write" /\ todo' = <<>>
        /\ UNCHANGED <<watched, seenCss, content, verdict, dirty>>
        /\ outputs' = Append(outputs, r)
    BY <1>0 DEF RunTailwind, ToStep, Continue, AddOutput
  <1>2. todo = <<>>
    BY <1>1 DEF FreshInv, AssetsInv, Placing, TodoAt
  <1>3. Begun'
    BY <1>1 DEF Begun
  <1>4. ToSet(outputs') = ToSet(outputs) \cup {r}
    BY <1>1, RecordsSeq, RangeAppend DEF FreshInv
  <1>5. v \in Versions /\ (CssRecord(content, v))' = r
    BY <1>1, FilesParts DEF FreshInv, AssetsInv, Editing
  <1> HIDE DEF r
  <1>6. ASSUME Clean' PROVE (Kept(content))'
    <2>1. Kept(content)
      BY <1>1, <1>6 DEF FreshInv, Clean
    <2>2. /\ EnvKept' /\ (StaticsKept(content))' /\ (ConfigsKept(content))' /\ (ProgramKept(content))'
          /\ (SheetsKept(content))'
      BY <1>1, <1>2, <2>1, Carried DEF FromStatic, FromRead, FromTypes, FromBundle, FromValidate, FromVisit
    <2>3. ToSet(outputs) = StaticRecords(content) \cup ToSet(Bundle(content))
      BY <1>1, <2>1 DEF Kept, OutputsKept
    <2>4. MadeOf(content, v)'
      BY <1>1, <1>4, <1>5, <2>3 DEF MadeOf
    <2>5. \E w \in Versions : MadeOf(content, w)'
      BY <1>1, <1>5, <2>4
    <2>6. (OutputsKept(content))'
      BY <1>1, <2>5 DEF OutputsKept
    <2> QED BY <2>2, <2>6 DEF Kept
  <1> QED BY <1>3, <1>6

\* What is written to OUT_DIR is what was found.
LEMMA WriteFresh ==
  ASSUME FreshInv, WriteRecord \/ WritePending \/ RenameManifest
  PROVE  Begun' /\ (Clean' => (Kept(content))')
  <1>1. /\ at \in FromWrite /\ (at' \in FromWrite \/ (at' = "idle" /\ verdict' = "ok"))
        /\ at' \notin {"validate", "visit", "tailwind"}
        /\ UNCHANGED <<watched, seenCss, content, dirty, outputs>>
    BY DEF WriteRecord, WritePending, RenameManifest, ToStep, FromWrite, build
  <1>2. todo = <<>> /\ todo' = <<>>
    BY <1>1 DEF FreshInv, AssetsInv, Placing, TodoAt, WriteRecord, WritePending, RenameManifest, ToStep,
                FromWrite, build
  <1>3. Begun'
    BY <1>1 DEF Begun, FromWrite
  <1>4. \A steps : FromWrite \subseteq steps => Reached(steps) /\ (Reached(steps))'
    BY <1>1 DEF Reached
  <1>5. /\ FromWrite \subseteq FromStatic /\ FromWrite \subseteq FromRead /\ FromWrite \subseteq FromTypes
        /\ FromWrite \subseteq FromBundle /\ FromWrite \subseteq FromValidate /\ FromWrite \subseteq FromVisit
    BY DEF FromWrite, FromStatic, FromRead, FromTypes, FromBundle, FromValidate, FromVisit
  <1>6. ASSUME Clean' PROVE (Kept(content))'
    <2>1. Kept(content)
      BY <1>1, <1>6 DEF FreshInv, Clean
    <2>2. EnvKept' /\ (StaticsKept(content))' /\ (ConfigsKept(content))' /\ (ProgramKept(content))'
      BY <1>1, <1>4, <1>5, <2>1 DEF Kept, EnvKept, StaticsKept, ConfigsKept, ProgramKept
    <2>3. \E v \in Versions : MadeOf(content, v)
      BY <1>4, <1>5, <2>1 DEF Kept, OutputsKept
    <2>4. (OutputsKept(content))'
      BY <1>1, <2>3 DEF OutputsKept, MadeOf, FromWrite
    <2>5. SeenFit(content) /\ SeenReached(content) /\ SeenCounted(content)
      BY <1>4, <1>5, <2>1 DEF Kept, SheetsKept
    <2>6. (SeenFit(content))' /\ (SeenReached(content))' /\ (SeenCounted(content))'
      BY <1>1, <1>2, <2>5 DEF SeenFit, SeenReached, ClosedSoFar, SeenCounted
    <2> QED BY <2>2, <2>4, <2>6 DEF Kept, SheetsKept
  <1> QED BY <1>3, <1>6

LEMMA FreshStep == FreshInv /\ [AssetsNext]_assetsVars => FreshInv'
  <1> SUFFICES ASSUME FreshInv, [AssetsNext]_assetsVars PROVE FreshInv'
    OBVIOUS
  <1>1. AssetsInv'
    BY AssetsStep DEF FreshInv
  <1>2. CASE CargoRuns \/ Stopped
    BY <1>1, <1>2, RunFresh DEF FreshInv
  <1>3. CASE BuildStep
    BY <1>1, <1>3, RunFresh, CollectFresh, ReadFresh, ConfigFresh, TypesFresh, BundleFresh, ValidateFresh, VisitFresh,
       TailwindFresh, WriteFresh DEF FreshInv, BuildStep
  <1>4. ASSUME NEW f \in Files, NEW v \in Versions, Edit(f, v) PROVE FreshInv'
    BY <1>1, <1>4, EditFresh
  <1>5. CASE UNCHANGED assetsVars
    <2>1. UNCHANGED <<content, at, todo, outputs, watched, seenCss, verdict, dirty>>
      BY <1>5 DEF assetsVars, build
    <2>2. Begun' /\ (Clean' <=> Clean)
      BY <2>1 DEF FreshInv, Begun, Clean
    <2>3. Kept(content) => EnvKept' /\ (StaticsKept(content))' /\ (OutputsKept(content))'
      BY <2>1 DEF Kept, EnvKept, StaticsKept, OutputsKept, MadeOf, Reached
    <2>4. Kept(content) => (ConfigsKept(content))' /\ (ProgramKept(content))' /\ (SheetsKept(content))'
      BY <2>1 DEF Kept, ConfigsKept, ProgramKept, SheetsKept, SeenFit, SeenReached, ClosedSoFar, SeenCounted,
                  Reached
    <2> QED BY <1>1, <2>2, <2>3, <2>4 DEF FreshInv, Kept
  <1> QED BY <1>2, <1>3, <1>4, <1>5 DEF AssetsNext

LEMMA FreshStart == AssetsInit => FreshInv
  <1> SUFFICES ASSUME AssetsInit PROVE FreshInv
    OBVIOUS
  <1>1. at = "idle" /\ verdict = "never ran"
    BY DEF AssetsInit
  <1>2. Kept(content)
    BY <1>1 DEF Kept, EnvKept, StaticsKept, OutputsKept, ConfigsKept, ProgramKept, SheetsKept, Reached,
                FromStatic, FromRead, FromTypes, FromBundle, FromValidate, FromVisit, FromWrite
  <1>3. Begun
    BY <1>1 DEF Begun
  <1> QED BY <1>2, <1>3, AssetsStart DEF FreshInv

\* Two records of the outputs that share a name are one.
LEMMA OneRecordPerName ==
  ASSUME Whole(outputs), NEW r \in ToSet(outputs), NEW s \in ToSet(outputs), r.logical = s.logical
  PROVE  r = s
  <1>1. PICK S : outputs \in Seq(S)
    BY DEF Whole
  <1>2. DOMAIN outputs = 1..Len(outputs)
    BY <1>1, LenProperties
  <1>3. PICK i \in Slots(outputs) : r = outputs[i]
    BY <1>2 DEF ToSet, Slots
  <1>4. PICK j \in Slots(outputs) : s = outputs[j]
    BY <1>2 DEF ToSet, Slots
  <1>5. i = j
    BY <1>3, <1>4 DEF Whole, Apart
  <1> QED BY <1>3, <1>4, <1>5

\* The names of the records, and what they are made of.
LEMMA RecordNames ==
  ASSUME NEW c
  PROVE  /\ \A f : /\ StaticRecord(c, f).logical = Logical(f)
                   /\ StaticRecord(c, f).bytes.kind = "file"
                   /\ StaticRecord(c, f).bytes.of = {<<f, c[f]>>}
         /\ \A v : CssRecord(c, v).logical = Logical(Sheet) /\ CssRecord(c, v).bytes.kind = "css"
         /\ \E m, j \in ToSet(Bundle(c)) : /\ m.logical = MapName /\ m.bytes.kind = "map"
                                           /\ j.logical = Logical(Entry) /\ j.bytes.kind = "js"
  <1>1. \A f : /\ StaticRecord(c, f).logical = Logical(f)
               /\ StaticRecord(c, f).bytes.kind = "file"
               /\ StaticRecord(c, f).bytes.of = {<<f, c[f]>>}
    BY DEF StaticRecord, Record, Bytes
  <1>2. \A v : CssRecord(c, v).logical = Logical(Sheet) /\ CssRecord(c, v).bytes.kind = "css"
    BY DEF CssRecord, Record
  <1> DEFINE map == Record(MapName, Bytes(c, "map", Sources, {}))
             js == Record(Logical(Entry), Bytes(c, "js", Sources, {map.hashed}))
  <1>3. map.logical = MapName /\ map.bytes.kind = "map" /\ js.logical = Logical(Entry) /\ js.bytes.kind = "js"
    BY DEF Record, Bytes
  <1>4. Bundle(c) = <<map, js>>
    BY DEF Bundle
  <1> HIDE DEF map, js
  <1>5. map \in ToSet(Bundle(c)) /\ js \in ToSet(Bundle(c))
    BY <1>4 DEF ToSet
  <1> QED BY <1>1, <1>2, <1>3, <1>5

\* No name of a static file is taken twice or by the bundle or the style sheet.
LEMMA NamesApart ==
  ASSUME NEW c, NEW v, Whole(outputs), MadeOf(c, v)
  PROVE  /\ \A f \in Statics : c[f] # Absent => Logical(f) \notin {Logical(Entry), MapName, Logical(Sheet)}
         /\ \A f, g \in Statics : c[f] # Absent /\ c[g] # Absent /\ Logical(f) = Logical(g) => f = g
  <1>1. \A f \in Statics : c[f] # Absent => StaticRecord(c, f) \in ToSet(outputs)
    BY DEF MadeOf, StaticRecords
  <1>2. \A f : /\ StaticRecord(c, f).logical = Logical(f)
               /\ StaticRecord(c, f).bytes.kind = "file"
               /\ StaticRecord(c, f).bytes.of = {<<f, c[f]>>}
    BY RecordNames
  <1>3. /\ CssRecord(c, v) \in ToSet(outputs)
        /\ CssRecord(c, v).logical = Logical(Sheet) /\ CssRecord(c, v).bytes.kind = "css"
    BY RecordNames DEF MadeOf
  <1>4. PICK m, j \in ToSet(outputs) : /\ m.logical = MapName /\ m.bytes.kind = "map"
                                       /\ j.logical = Logical(Entry) /\ j.bytes.kind = "js"
    <2>1. ToSet(Bundle(c)) \subseteq ToSet(outputs)
      BY DEF MadeOf
    <2>2. \E m, j \in ToSet(Bundle(c)) : /\ m.logical = MapName /\ m.bytes.kind = "map"
                                         /\ j.logical = Logical(Entry) /\ j.bytes.kind = "js"
      BY RecordNames
    <2> QED BY <2>1, <2>2
  <1>5. ASSUME NEW f \in Statics, c[f] # Absent, NEW r \in ToSet(outputs), r.logical = Logical(f)
        PROVE  r.bytes.kind = "file"
    <2>1. StaticRecord(c, f) \in ToSet(outputs) /\ StaticRecord(c, f).logical = r.logical
      BY <1>1, <1>2, <1>5
    <2>2. r = StaticRecord(c, f)
      BY <2>1, OneRecordPerName
    <2> QED BY <1>2, <2>2
  <1>6. ASSUME NEW f \in Statics, NEW g \in Statics, c[f] # Absent, c[g] # Absent, Logical(f) = Logical(g)
        PROVE  f = g
    <2>1. /\ StaticRecord(c, f) \in ToSet(outputs) /\ StaticRecord(c, g) \in ToSet(outputs)
          /\ StaticRecord(c, f).logical = StaticRecord(c, g).logical
      BY <1>1, <1>2, <1>6
    <2>2. StaticRecord(c, f) = StaticRecord(c, g)
      BY <2>1, OneRecordPerName
    <2>3. {<<f, c[f]>>} = {<<g, c[g]>>}
      BY <1>2, <2>2
    <2>4. <<f, c[f]>> \in {<<g, c[g]>>}
      BY <2>3
    <2>5. <<f, c[f]>> = <<g, c[g]>>
      BY <2>4
    <2> QED BY <2>5
  <1> QED BY <1>3, <1>4, <1>5, <1>6

LEMMA FreshImplies == FreshInv => NeverStale
  <1> SUFFICES ASSUME FreshInv, at = "idle", UpToDate
               PROVE  \E v \in Versions :
                        Acceptable(AsNoticed(v)) /\ ToSet(manifest) = Expected(AsNoticed(v))
    BY DEF NeverStale
  <1>1. /\ verdict = "ok" /\ Kept(content) /\ \A steps : Reached(steps)
        /\ Whole(outputs) /\ manifest = outputs /\ todo = <<>> /\ seenCss \subseteq Sheets
        /\ Placing /\ watched \subseteq Watchable
    BY DEF FreshInv, UpToDate, Clean, AssetsInv, ManifestInv, OutDirAt, Placing, TodoAt, Reached
  <1>2. PICK v \in Versions : MadeOf(content, v)
    BY <1>1 DEF Kept, OutputsKept
  <1> DEFINE c == AsNoticed(v)
  <1>3. /\ \A f \in watched : c[f] = content[f]
        /\ c[Ignore] = v /\ c[Legacy] = Absent /\ (Stray \in watched \/ c[Stray] = Absent)
    <2>1. watched \subseteq Files /\ {Ignore, Legacy, Stray} \subseteq Files /\ Legacy \notin watched
      BY <1>1, FilesParts DEF Watchable
    <2>2. \A f \in Files : c[f] = IF f \notin Sometimes \ watched THEN content[f]
                                  ELSE IF f = Ignore THEN v ELSE Absent
      BY DEF AsNoticed
    <2>3. {Ignore, Legacy, Stray} \subseteq Sometimes /\ Legacy # Ignore /\ Stray # Ignore
      BY AssetsAssumption DEF Sometimes
    <2>4. Ignore \in watched => v = content[Ignore]
      BY <1>2 DEF MadeOf
    <2> HIDE DEF c
    <2> QED BY <2>1, <2>2, <2>3, <2>4
  <1> HIDE DEF c
  <1>4. Kept(c) /\ MadeOf(c, v)
    BY <1>1, <1>2, <1>3, KeptAgrees
  <1>5. /\ StaticsKept(c) /\ ConfigsKept(c) /\ ProgramKept(c)
        /\ SeenFit(c) /\ SeenReached(c) /\ SeenCounted(c)
    BY <1>1, <1>4 DEF Kept, SheetsKept
  <1>6. Reach(c) = seenCss /\ Sheet \in seenCss
    <2>1. ToSet(todo) = {}
      BY <1>1, EmptySeq DEF ToSet
    <2> QED BY <1>1, <1>5, <2>1, ReachIsSeen DEF SeenFit
  <1>7. CssRecord(c, v) = Record(Logical(Sheet), Bytes(c, "css", CssInputs(c), {}))
    <2>1. {<<f, c[f]>> : f \in Reach(c) \cup {View, Ignore}}
            = {<<f, c[f]>> : f \in Reach(c) \cup {View}} \cup {<<Ignore, v>>}
      BY <1>3
    <2> QED BY <2>1 DEF CssRecord, Bytes, CssInputs
  <1>8. ToSet(manifest) = Expected(c)
    BY <1>1, <1>7, <1>4 DEF MadeOf, Expected, StaticRecords, StaticRecord
  <1>9. ASSUME NEW g \in Reach(c)
        PROVE  Cardinality(Imported(c, g)) = IF g = Sheet THEN 0 ELSE 1
    <2>1. Imported(c, g) = ImportedBy(c, seenCss, g)
      BY <1>6 DEF Imported, ImportedBy, Occurs, ImportsOf
    <2>2. /\ IsFiniteSet(Imported(c, g))
          /\ Cardinality(Imported(c, g)) + One(g = Sheet) = Cardinality(Occurs(todo, g)) + One(g \in seenCss)
      BY <1>1, <1>5, <1>6, <2>1 DEF SeenCounted
    <2>3. Cardinality(Occurs(todo, g)) = 0
      <3>1. Occurs(todo, g) = {}
        BY <1>1 DEF Occurs
      <3> QED BY <3>1, FS_EmptySet
    <2>4. Cardinality(Imported(c, g)) \in Nat /\ g \in seenCss
      BY <1>6, <2>2, FS_CardinalityType
    <2> QED BY <2>2, <2>3, <2>4 DEF One
  <1>10. Acceptable(c)
    <2>1. WellTyped(c) /\ Resolves(c) /\ c[Env] # Absent
      <3>1. /\ Listed \subseteq watched /\ Resolves(c) /\ c[Env] # Absent
            /\ \A f \in Program(c) \cap watched : c[f] # Absent /\ TypeChecks(f, c[f])
        BY <1>1, <1>5 DEF ProgramKept
      <3>2. Program(c) \subseteq watched
        BY <1>3, <3>1 DEF Program
      <3> QED BY <3>1, <3>2 DEF WellTyped
    <2>2. c[View] # Absent /\ c[View] \notin Odd
      BY <1>5, <1>6 DEF SeenFit
    <2>3. c[Config] # Absent /\ \A g \in ConfigChain(c) : c[g] # Absent
      BY <1>1, <1>5 DEF ConfigsKept, ConfigChain
    <2>4. \A f \in Statics : c[f] # Absent => c[f] \notin Odd
      BY <1>1, <1>5 DEF StaticsKept
    <2>5. /\ \A f \in Statics : c[f] # Absent => Logical(f) \notin {Logical(Entry), MapName, Logical(Sheet)}
          /\ \A f, g \in Statics : c[f] # Absent /\ c[g] # Absent /\ Logical(f) = Logical(g) => f = g
      BY <1>1, <1>4, NamesApart
    <2>6. \A f \in Reach(c) : c[f] # Absent /\ InPlace(f, Css(f, c[f]))
      BY <1>5, <1>6 DEF SeenFit
    <2> QED BY <1>3, <1>9, <2>1, <2>2, <2>3, <2>4, <2>5, <2>6 DEF Acceptable
  <1> QED BY <1>8, <1>10 DEF c

\* Whenever cargo finds no reason to run the build script again, the list it compiles
\* against is the one that a clean build of the files as they are now would make, and
\* that build would succeed, but for three kinds of files that build_in does not watch
\* while they are missing and that have come since: a tailwind.config.* beside the
\* input, an ignore file above the @source directory and a declaration that only an
\* extended config includes. Every other path is watched no later than the last moment
\* at which an edit of it could be missed, whatever is edited and however often between
\* the static files, the type check, the bundle, the visits to the style sheets and
\* Tailwind's own reading of them, for any import graphs, versions and tools.
THEOREM BuildNeverStale == AssetsSpec => []NeverStale
  BY FreshStart, FreshStep, FreshImplies, PTL DEF AssetsSpec
-----------------------------------------------------------------------------
(* All parts together *)

LEMMA OtherInvsAlways ==
  /\ OAuthSpec => []OAuthInv
  /\ CssSpec => []CssInv
  /\ AssetsSpec => []AssetsInv
  /\ ScaffoldSpec => []ScaffoldInv
  /\ GateSpec => []GateInv
  <1>1. OAuthInv /\ [OAuthNext]_oauthVars => OAuthInv'
    BY OAuthInvStep
  <1>2. GateInv /\ [GateNext]_gateVars => GateInv'
    BY GateInvStep
  <1>3. GateInit => GateInv
    BY GateInitInv DEF GateInit
  <1>4. OAuthSpec => []OAuthInv
    BY <1>1, OAuthInitInv, PTL DEF OAuthSpec
  <1>5. CssSpec => []CssInv
    BY CssInitInv, CssNextInv, PTL DEF CssSpec
  <1>6. AssetsSpec => []AssetsInv
    BY AssetsStart, AssetsStep, PTL DEF AssetsSpec
  <1>7. ScaffoldSpec => []ScaffoldInv
    BY ScaffoldInitInv, ScaffoldNextInv, PTL DEF ScaffoldSpec
  <1>8. GateSpec => []GateInv
    BY <1>2, <1>3, PTL DEF GateSpec
  <1> QED BY <1>4, <1>5, <1>6, <1>7, <1>8

\* One part moves and the others stay as they are: all that the parts are said to keep,
\* their types included, for all values of their constants.
THEOREM PartsKeepInvariant == PartsSpec => []PartsInvariant
  <1>1. PartsInit => /\ part \in Parts /\ GatewayInit /\ GateInit /\ SignInInit /\ OAuthInit
                     /\ CssInit /\ AssetsInit /\ TestDbInit /\ ScaffoldInit
    BY DEF PartsInit
  <1>2. [PartsNext]_partsVars =>
          /\ UNCHANGED part
          /\ [GatewayNext]_gatewayVars /\ [GateNext]_gateVars /\ [SignInNext]_signInVars
          /\ [OAuthNext]_oauthVars /\ [CssNext]_cssVars /\ [AssetsNext]_assetsVars
          /\ [TestDbNext]_testDbVars /\ [ScaffoldNext]_scaffoldVars
    BY DEF PartsNext, partsVars
  <1>3. PartsSpec => /\ GatewaySpec /\ GateSpec /\ SignInSpec /\ OAuthSpec
                     /\ CssSpec /\ AssetsSpec /\ TestDbSpec /\ ScaffoldSpec
    BY <1>1, <1>2, PTL DEF PartsSpec, GatewaySpec, GateSpec, SignInSpec, OAuthSpec, CssSpec,
                           AssetsSpec, TestDbSpec, ScaffoldSpec
  <1>4. part \in Parts /\ UNCHANGED part => (part \in Parts)'
    OBVIOUS
  <1>5. PartsSpec => [](part \in Parts)
    BY <1>1, <1>2, <1>4, PTL DEF PartsSpec
  <1>6. (/\ part \in Parts /\ GatewayInv /\ GateInv /\ SignInInv /\ OAuthInv /\ CssInv /\ AssetsInv
         /\ TestDbInv /\ ScaffoldInv) => PartsInvariant
    BY CssInvImplies, AssetsTyped, ScaffoldTyped, ScaffoldReports
       DEF GatewayInv, GateInv, SignInInv, OAuthInv, TestDbInv, ScaffoldInv, PartsInvariant
  <1> QED BY <1>3, <1>5, <1>6, GatewayInvAlways, SignInInvAlways, TestDbInvAlways, OtherInvsAlways, PTL
=============================================================================
