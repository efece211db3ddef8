SPECIFICATION SchedulesFairSpec
CONSTANTS
  Interval = 2
  CronStep = 2
  Start <- Starts
  Horizon = 4
  MaxPatches = 0
  MaxCrashes = 1
PROPERTIES QueuedIsDispatched
