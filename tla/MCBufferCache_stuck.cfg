SPECIFICATION FairSpec
CONSTANTS
  Tasks = {t1}
  NoTask = none
  NR_BUFFERS = 2
  Blocks = {11, 12, 13}
  InodeBlock <- OneInode
  Ops = {"bread", "write", "file_write"}
  Failures = {}
  CopySleeps = FALSE
PROPERTIES InodesWritten
CHECK_DEADLOCK FALSE
