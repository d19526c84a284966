CONSTANTS
  Tasks = {t1}
  Inodes = {"r", "d", "l", "b", "p", "m", "n"}
  NR_OPEN = 2
  NR_FILE = 1
  Kind <- Kinds
  Device <- Devices
  Content <- Contents
  Target <- ToDir
  Paths = {}
  Elsewhere <- OtherPaths
  RootInode = "r"
  MountedRoot = "m"
  Overlap = FALSE
  Procs = {p1, p2}
  NoProc = NoProc
  PipeSetups <- OneSelect
SPECIFICATION FairSpec
PROPERTIES TimedSelectEnds
CHECK_DEADLOCK FALSE
