CONSTANTS
  Tasks = {2, 3}
  Running = {2}
  Pages = {1, 2, 3, 4}
  Code = {1}
  Data = {2}
  SwapPages = {1, 2}
  SwapInCow = FALSE
  Callers = {a, b}
  Frames = {1, 2, 3, 4}
  PAGE_SIZE = 2
  BucketSize <- Sizes
  DescPerPage = 2
  MaxObjects = 2
  NR_TASKS = 5
  TaskPages = {1, 2, 3, 4}
  InitTask = 1
  MaxPid = 5
  LastFork = 4
  Sent = {19}
  WaitsFor <- AnyNews
  MemoryFull = FALSE
SPECIFICATION Spec
INVARIANTS CountsMappings SwapAccounted  ObjectsApart Family NewsIsSignalled
PROPERTIES OrphansResumed
ACTION_CONSTRAINT PageIsPid
VIEW View
CHECK_DEADLOCK FALSE
