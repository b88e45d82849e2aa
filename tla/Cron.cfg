SPECIFICATION FairSpec
CONSTANTS
  s1 = s1
  s2 = s2
  j = j
  k = k
  Crons = {j, k}
  Callbacks = {k}
  Intervals = {k}
  Period <- OneTick
  Slots <- SlotSet
  Never = Never
  MaxTime = 1
  Schedulers = {s1, s2}
  Free = Free
  Ghost = Ghost
  NoCron = NoCron
  Skew <- Ahead
  Registries <- OneEach
  Recorded = {0}
  MaxBoots = 2
  MaxFaults = 1
  MaxBacks = 1
PROPERTIES KeepsPromise EventuallyFires
CHECK_DEADLOCK FALSE
