SPECIFICATION ServiceSpec
CONSTANTS
  Tasks = {server, worker}
  Server = server
  Worker = worker
  Connections = {browser}
  JobDrain = 1
  ExitGrace = 2
  Cleanup = 1
  KillWindow = 4
  Instances = {a, b}
  MaxConnections = 2
  MaxRestarts = 2
  Workers = {w1, w2}
  Claimers = 1
  Silent = TRUE
  MayStop = TRUE
  MaxRows = 2
  MaxErrors = 1
  Names = {key, extra}
  Optional = {extra}
  Refreshers = {loop}
  Loop = loop
  Borrowers = {llm}
  Dialers = {loop, llm}
  MaxVersion = 3
  Unparseable = {2}
  MaxChanges = 2
  BootTimeout = 2
  InitialWait = 1
  MaxWait = 2
INVARIANTS
  ServiceInvariant
  RunLeavesNoTask
  LocksHandedBack
  LoadedWhole
PROPERTIES
  StopsInTheEnd
  BootsFinish
  DueJobsFound
  CatchesUp
  LeavesTailnet
CHECK_DEADLOCK FALSE
