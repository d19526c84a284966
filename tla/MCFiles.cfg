CONSTANTS
  Tasks = {t1}
  Inodes = {"r", "d", "l", "b", "p", "m", "n"}
  NR_OPEN = 2
  NR_FILE = 1
  Kind <- Kinds
  Device <- Devices
  Content <- Contents
  Target <- ToDir
  Paths <- SomePaths
  Elsewhere <- OtherPaths
  RootInode = "r"
  MountedRoot = "m"
  Overlap = FALSE
  Procs = {p1, p2, p3}
  NoProc = NoProc
  PipeSetups <- PipeSetupsDef
SPECIFICATION Spec
INVARIANTS InodesCounted LinksCounted PipeNotStuck SelectSeesInput InOrder
SYMMETRY Symmetry
CHECK_DEADLOCK FALSE
