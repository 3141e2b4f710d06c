SPECIFICATION Spec
CONSTANTS
  Mounts = {m1, m2}
  Root = Root
  Songs = {s1, s2}
  MAX_UPDATE_QUEUE_SIZE = 2
  update_task_id_max = 3
  MaxJobs = 4
  ThreadMayFail = FALSE
INVARIANTS
  TypeOK
  LiveTargets
  IdleMeansDone
  BusyMeansUpdating
  RemovalsAnnounced
PROPERTIES
  ImplementsUpdateJobs
