SPECIFICATION PartsSpec
CONSTANTS
  MaxAttempts = 3
  InitialBackoff = 1
  MaxBackoff = 2
  ConnectTimeout = 2
  RequestTimeout = 4
  RetryAfters = {1, 3}
  Overrun = 1
  Workers = {w1, w2, w3}
  Claimers = 1
  Silent = TRUE
  MayStop = TRUE
  MaxRows = 2
  MaxErrors = 1
  Browsers = {a, b}
  Requests = {p, q}
  Usernames = {ada}
  MaxSessions = 2
  MaxNonces = 2
  MaxSignatures = 2
  OAuthStates = {s}
  MockUsers = {mock, ada}
  DefaultUser = mock
  Calls = {p, q}
  MaxFlows = 2
  MaxTokens = 7
  logo = logo
  clash = clash
  app = app
  lib = lib
  types = types
  tsconfig = tsconfig
  base = base
  main = main
  side = side
  views = views
  env = env
  stray = stray
  ignore = ignore
  legacy = legacy
  Statics = {logo, clash}
  Later = {clash, stray, ignore, legacy}
  Entry = app
  Lib = lib
  Ambient = types
  Config = tsconfig
  BaseConfig = base
  Sheet = main
  Part = side
  View = views
  Env = env
  Stray = stray
  Ignore = ignore
  Legacy = legacy
  Logical <- LogicalName
  MapName = "app.js.map"
  Extends <- ExtendsOf
  Css <- CssOf
  Odd = {2}
  TypeChecks <- TypeChecksOf
  Bundles <- BundlesOf
  MaxContent = 2
  MaxEdits = 2
  MaxRuns = 3
  Processes = {{x, y}, {z}}
  Fast = {z}
  Ahead = 1
  MaxAge = 2
  MaxClock = 2
  MaxCommands = 2
  MaxUserEdits = 1
INVARIANTS
  
  NothingLeftBehind
  ReportedOnce
  WakesNotLost
  AccountsWhole
  InUseIsKept
  FlowsKeepApart
  CountersAreTheStack
  ManifestWhole
  NeverStale
PROPERTIES
  KeepsCallPromise
CHECK_DEADLOCK FALSE
