SPECIFICATION Spec
CONSTANTS
  InodeUsers = {t1, t2}
  NoInodeUser = none
  NR_INODE = 2
  Numbers = {1, 2}
  OtherCalls <- ToSyncOrToUnlink
  Workers = {t1, t2}
  NoWorker = none
  Owners = {f, g}
  Zones = {1, 2, 3}
  DIRECT = 1
  PER = 2
  BlockCases <- BlockCasesDef
SYMMETRY Symmetry
INVARIANTS InodesApart InodeChangesKept BlocksApart
CHECK_DEADLOCK FALSE
