SPECIFICATION FairSpec
CONSTANTS
  Job = {quiet}
  Worker = {w1, w2}
  Chatty = {}
  NoWorker = NoWorker
  MaxCrashes = 1
PROPERTIES DispatchedIsDecided LostWorkerIsNoticed LimitEndsRun CancelStopsChild QuietJobsFollowLifecycle
