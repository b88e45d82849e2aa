SPECIFICATION ScaffoldSpec
CONSTANTS
  MaxCommands = 2
  MaxUserEdits = 1
INVARIANT NoJobsNoCron
CHECK_DEADLOCK FALSE
