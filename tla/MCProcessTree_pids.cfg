CONSTANTS
  NR_TASKS = 5
  TaskPages = {1, 2, 3, 4, 5}
  InitTask = 1
  MaxPid = 8
  LastFork = 0
  Sent = {}
  WaitsFor = {}
  MemoryFull = TRUE
SPECIFICATION ProcSpec
INVARIANTS UniquePids
CHECK_DEADLOCK FALSE
