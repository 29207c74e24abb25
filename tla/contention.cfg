SPECIFICATION Spec
CONSTANTS
  Job = {j1, j2}
  Task = {t1, t2, t3}
  None = none
  Downloads = {j2}
  MaxRecordings = 1
  MaxRetries = 0
  MaxRestarts = 0
  Requests = {"stop", "recover", "files", "work"}
SYMMETRY TaskSymmetry
INVARIANTS
  RecordingLimit
  CompletedIsContinuous
