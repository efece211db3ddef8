SPECIFICATION OperationsSpec
CONSTANTS
  Job = {j1}
  Value <- Values
  Seed = 12
  MinInterval = 1
  SyncEvery = 6
  OneAtATime = TRUE
  MaxTime = 16
  MaxWrites = 2
  Interval = 2
  CronStep = 2
  Start <- Starts
  Horizon = 5
  MaxPatches = 1
  MaxCrashes = 1
  referrer = referrer
  target = target
  k1 = k1
  k2 = k2
  NoKey = NoKey
  Entity = {referrer, target}
  Author = {a1}
  Editor = {d1}
  Key = {k1, k2}
  Code = {c1, c2}
  Shape <- Shapes
  MaxOpened = 2
VIEW view
CONSTRAINT Uncrossed
INVARIANTS
  DefinitionsTypeOK
  LivingWorkerKeepsJob
  LostJobIsNoticed
  CommitmentsHold
  DefinitionsAreKept
PROPERTIES
  MissedSlotsAreSkipped
CHECK_DEADLOCK FALSE
