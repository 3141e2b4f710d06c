SPECIFICATION Spec
CONSTANTS
  Mounts = {m1}
  Root = Root
  Songs = {s1}
  MAX_UPDATE_QUEUE_SIZE = 2
  update_task_id_max = 3
  MaxJobs = 3
  ThreadMayFail = TRUE
INVARIANTS BusyMeansUpdating
