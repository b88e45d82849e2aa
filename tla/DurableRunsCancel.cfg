SPECIFICATION Spec
CONSTANTS
  a1 = a1
  a2 = a2
  j1 = j1
  j2 = j2
  j3 = j3
  final = final
  batch = batch
  wrong = wrong
  Attempts = {a1, a2}
  NoOne = NoOne
  JobIds = {j1, j2, j3}
  Responses = {final}
  Calls <- CallsOf
  Prompt = Prompt
  Result = Result
  NoMsg = NoMsg
  NoCall = NoCall
  NoJob = NoJob
  MaxTurns = 2
  MaxRetries = 1
  MaxFaults = 0
INVARIANT CancelHonoured
CHECK_DEADLOCK FALSE
