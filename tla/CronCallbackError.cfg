SPECIFICATION SteadySpec
CONSTANTS
  s1 = s1
  s2 = s2
  j = j
  k = k
  Crons = {k}
  Callbacks = {k}
  Intervals = {k}
  Period <- OneTick
  Slots <- SlotSet
  Never = Never
  MaxTime = 3
  Schedulers = {s1}
  Free = Free
  Ghost = Ghost
  NoCron = NoCron
  Skew <- InStep
  Registries <- OneEach
  Recorded = {0}
  MaxBoots = 1
  MaxFaults = 0
  MaxBacks = 0
PROPERTY NextIntervalFires
CHECK_DEADLOCK FALSE
