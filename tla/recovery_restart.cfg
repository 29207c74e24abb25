SPECIFICATION Spec
CONSTANTS
  Job = {j1}
  Task = {t1, t2}
  None = none
  Downloads = {}
  MaxRecordings = 1
  MaxRetries = 1
  MaxRestarts = 1
  Requests = {"stop", "retry", "protect", "schedule", "recover", "delete", "files", "work", "recovery", "install"}
PROPERTY RecoveryNeverRecords
