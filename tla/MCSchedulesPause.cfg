SPECIFICATION SchedulesSpec
CONSTANTS
  Interval = 2
  CronStep = 2
  Start <- Starts
  Horizon = 4
  MaxPatches = 1
  MaxCrashes = 1
PROPERTIES PauseKeepsJobs
