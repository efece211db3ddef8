SPECIFICATION Spec
CONSTANTS
  Job = {j1}
  Value <- Values
  Seed = 12
  MinInterval = 1
  SyncEvery = 6
  OneAtATime = FALSE
  MaxTime = 16
  MaxWrites = 2
INVARIANTS LivingWorkerKeepsJob
