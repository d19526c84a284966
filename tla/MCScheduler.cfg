CONSTANTS
  N = 2
  MaxPriority = 2
  MaxDelay = 1
  Timed = {1}
  Fns = {f1, f2, f3, f4}
  MaxTimer = 2
  MaxLate = 3
  Submitters = {t1, t2}
  Buffers = {1, 2, 3}
  SwapPages = {4}
  Loads <- LoadsDef
  NR_REQUEST = 3
  TIME_REQUESTS = 3
  Requests = {r, s}
  Sectors = 2
  MAX_ERRORS = 3
  NR_HD = 2
SPECIFICATION Spec
INVARIANTS  LockedByOne OneTurn 
PROPERTIES RunnableRuns TimedSleepEnds NeverEarly AllFire SleepersRetry EveryRequestEnds
CHECK_DEADLOCK FALSE
