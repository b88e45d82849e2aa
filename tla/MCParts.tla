------------------------------ MODULE MCParts ------------------------------
(* Parts whose properties are safety only, in one run: `part`, chosen once, is *)
(* the one that moves, and the others stay in their initial states.            *)
EXTENDS Gateway, IdlePollGate, SignIn, MockOAuth, CssScan, AssetsBuild, TestDatabases, Scaffold

CONSTANTS logo, clash, app, lib, types, tsconfig, base, main, side, views, env, stray, ignore,
          legacy

VARIABLE part

partsVars == <<part, gatewayVars, gateVars, signInVars, oauthVars, cssVars, assetsVars, testDbVars,
               scaffoldVars>>

Parts == {"gateway", "gate", "sign-in", "oauth", "css", "assets", "test databases", "scaffold"}

\* The front end that is built: a config that extends another, which may come to
\* extend the first; a style sheet that may come to import another twice, or be
\* imported by it.
LogicalName(f) ==
  CASE f = logo -> "logo.png" [] f = main -> "app.css" [] f \in {app, clash} -> "app.js"

ExtendsOf(f, v) ==
  CASE f = tsconfig /\ v = 1 -> {base} [] f = base /\ v = 2 -> {tsconfig} [] OTHER -> {}

\* A second version of the entry imports what Rolldown refuses, that of the others
\* has a type error.
TypeChecksOf(f, v) == f = app \/ v = 1
BundlesOf(f, v) == f = lib \/ v = 1

Rules(root, imports) == [ok |-> TRUE, roots |-> root, sources |-> root, imports |-> imports]

CssOf(f, v) ==
  CASE f = main /\ v = 1 -> Rules(1, <<side>>)
    [] f = main /\ v = 2 -> Rules(1, <<side, side>>)
    [] f = side /\ v = 2 -> Rules(0, <<main>>)
    [] OTHER -> Rules(0, <<>>)

PartsInit ==
  /\ part \in Parts
  /\ GatewayInit /\ GateInit /\ SignInInit /\ OAuthInit /\ CssInit /\ AssetsInit
  /\ TestDbInit /\ ScaffoldInit
  /\ part # "gateway" => gmode = "unary"
  /\ part # "scaffold" => dirs = {}

PartsNext ==
  /\ UNCHANGED part
  /\ \/ /\ part = "gateway" /\ GatewayNext
        /\ UNCHANGED <<gateVars, signInVars, oauthVars, cssVars, assetsVars,
                       testDbVars, scaffoldVars>>
     \/ /\ part = "gate" /\ GateNext
        /\ UNCHANGED <<gatewayVars, signInVars, oauthVars, cssVars, assetsVars,
                       testDbVars, scaffoldVars>>
     \/ /\ part = "sign-in" /\ SignInNext
        /\ UNCHANGED <<gatewayVars, gateVars, oauthVars, cssVars, assetsVars,
                       testDbVars, scaffoldVars>>
     \/ /\ part = "oauth" /\ OAuthNext
        /\ UNCHANGED <<gatewayVars, gateVars, signInVars, cssVars, assetsVars,
                       testDbVars, scaffoldVars>>
     \/ /\ part = "css" /\ CssNext
        /\ UNCHANGED <<gatewayVars, gateVars, signInVars, oauthVars, assetsVars,
                       testDbVars, scaffoldVars>>
     \/ /\ part = "assets" /\ AssetsNext
        /\ UNCHANGED <<gatewayVars, gateVars, signInVars, oauthVars, cssVars,
                       testDbVars, scaffoldVars>>
     \/ /\ part = "test databases" /\ TestDbNext
        /\ UNCHANGED <<gatewayVars, gateVars, signInVars, oauthVars, cssVars,
                       assetsVars, scaffoldVars>>
     \/ /\ part = "scaffold" /\ ScaffoldNext
        /\ UNCHANGED <<gatewayVars, gateVars, signInVars, oauthVars, cssVars,
                       assetsVars, testDbVars>>

PartsSpec == PartsInit /\ [][PartsNext]_partsVars

\* Every part keeps its types; an answered challenge is gone from every session; and a
\* command that reports success has left its files complete, while no command, done or
\* cut short, takes a file of the user's but a migration under one of cja's own names,
\* or a Cargo.toml that it was killed in the middle of rewriting.
PartsInvariant ==
  /\ part \in Parts
  /\ GatewayTypeOK /\ GateTypeOK /\ SignInTypeOK /\ OAuthTypeOK /\ CssTypeOK /\ AssetsTypeOK
  /\ TestDbTypeOK /\ ScaffoldTypeOK
  /\ SpentIsGone /\ UserFilesKept /\ ReportedWhole
=============================================================================
