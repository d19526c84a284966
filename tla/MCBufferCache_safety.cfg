SPECIFICATION Spec
CONSTANTS
  Tasks = {t1, t2}
  NoTask = none
  NR_BUFFERS = 2
  Blocks = {11, 12, 21}
  InodeBlock <- OneInode
  Ops = {"bread", "breada", "sync", "write"}
  Failures = {0}
  CopySleeps = FALSE
SYMMETRY Symmetry
INVARIANTS OneCopy CountsUsers RightBlock NoLostWrite
CHECK_DEADLOCK FALSE
