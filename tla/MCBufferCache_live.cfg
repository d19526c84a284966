SPECIFICATION FairSpec
CONSTANTS
  Tasks = {t1, t2}
  NoTask = none
  NR_BUFFERS = 1
  Blocks = {11, 12}
  InodeBlock <- NoInodes
  Ops = {"bread", "new", "sync", "file_write", "block_write"}
  Failures = {0}
  CopySleeps = FALSE
PROPERTIES Progress
CHECK_DEADLOCK FALSE
