SPECIFICATION Spec
CONSTANTS
  Jobs = {j1}
  Workers = {w1, w2}
  NoOne = NoOne
  NoJob = NoJob
  Priority <- Flat
  MaxRetries = 1
  HalfBeat = 1
  Reclaim = 6
  Stall = 3
  Prompt = FALSE
  I32Max = 2
  LateCap = 0
  MaxFaults = 1
SYMMETRY Symmetric
INVARIANTS
  TypeOK
  BodyExclusion
  SettledOnce
  AbandonmentIsCharged
PROPERTIES
  NeverLost
  KeepsQueuePromise
