SPECIFICATION FairSpec
CONSTANTS
  Job = {j1}
  Task = {t1, t2}
  None = none
  Downloads = {}
  MaxRecordings = 1
  MaxRetries = 0
  MaxRestarts = 1
  Requests = {"stop", "retry", "schedule", "recover", "delete", "work"}
PROPERTIES
  DeadlineHonored
  CancelledReleases
  ShutdownCompletes
  StoppedMaterialSettles
CHECK_DEADLOCK FALSE
