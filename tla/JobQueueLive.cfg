SPECIFICATION FairSpec
CONSTANTS
  Jobs = {j1}
  Workers = {w1, w2}
  NoOne = NoOne
  NoJob = NoJob
  Priority <- Flat
  MaxRetries = 1
  HalfBeat = 1
  Reclaim = 6
  Stall = 1
  Prompt = TRUE
  I32Max = 2147483647
  LateCap = 0
  MaxFaults = 1
PROPERTY EventuallySettled
