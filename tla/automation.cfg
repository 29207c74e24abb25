SPECIFICATION Spec
CONSTANTS
  Video = {v}
  Target = {t}
  MaxJobs = 2
  Often = 1
  Budgets <- Scenarios
  MaxTries = 2
  AlertTries = 1
  Failing = 2
  DayLength = 2
  WeekLength = 2
  Rules <- AllRules
  Limit = 20
  Kept = 0
INVARIANTS TypeOK OneRemoteJob OccurrenceRecordedOnce NothingUnsentForgotten
PROPERTIES EveryMessageSent StopReachesRemote ResolvedByMedia
CHECK_DEADLOCK FALSE
