CONSTANTS
  Tasks = {t1, t2, t3, t4}
  QueueUsers = {t1, t2, t3}
  NoTask = NoTask
SPECIFICATION MCSpec
INVARIANTS WakeUpHandedOn OneHolder
PROPERTIES ImplementsStack CascadeReleases Served
