SPECIFICATION SecretSpec
CONSTANTS
  Names = {key}
  Optional = {}
  Refreshers = {loop, caller}
  Loop = loop
  Borrowers = {}
  Dialers = {loop, caller}
  MaxVersion = 3
  Unparseable = {}
  MaxChanges = 2
  BootTimeout = 1
  InitialWait = 1
  MaxWait = 2
INVARIANT ValueMatchesVersion
CHECK_DEADLOCK FALSE
