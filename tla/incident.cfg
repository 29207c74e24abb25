SPECIFICATION Spec
CONSTANTS
  Video = {v}
  Target = {t}
  MaxJobs = 2
  Often = 1
  Budgets <- EditedWhileScanned
  MaxTries = 2
  AlertTries = 1
  Failing = 2
  DayLength = 2
  WeekLength = 2
  Rules <- AllRules
  Limit = 20
  Kept = 0
PROPERTY IncidentAfterFailures
CHECK_DEADLOCK FALSE
