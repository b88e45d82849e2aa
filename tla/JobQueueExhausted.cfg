SPECIFICATION Spec
CONSTANTS
  Jobs = {j1}
  Workers = {w1, w2}
  NoOne = NoOne
  NoJob = NoJob
  Priority <- Flat
  MaxRetries = 0
  HalfBeat = 1
  Reclaim = 6
  Stall = 1
  Prompt = FALSE
  I32Max = 3
  LateCap = 0
  MaxFaults = 1
INVARIANT NoRunAfterExhaustion
