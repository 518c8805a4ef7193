SPECIFICATION WatchSpec
CONSTANTS
  Schedule <- DefaultSchedule
  ResetAfter = 60
  RunTimes = {0, 59, 60}
  Limit = 8
  NoLimit = NoLimit
CHECK_DEADLOCK FALSE
INVARIANTS
  PauseFollowsFailures
  GivesUpAtLimit
