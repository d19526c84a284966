SPECIFICATION Spec
CONSTANTS
  Tasks = {t1, t2}
  NoTask = none
  NR_BUFFERS = 2
  Blocks = {11, 12, 13}
  InodeBlock <- NoInodes
  Ops = {"bread", "sync", "block_write"}
  Failures = {}
  CopySleeps = FALSE
SYMMETRY Symmetry
INVARIANTS NoLostWrite
CHECK_DEADLOCK FALSE
