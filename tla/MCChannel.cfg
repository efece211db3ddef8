SPECIFICATION Spec
CONSTANTS
  Call = {c1, c2}
  NoCall = NoCall
  MaxInFlight = 1
  MaxResponds = 2
  MaxRuns = 3
  RetryLimit = 1
  MaxEdits = 1
  Dataset = {d1, d2}
  Ceiling = 2
  MaxChunks = 3
  MaxPasses = 2
  MaxFaults = 1
CONSTRAINT Few
SYMMETRY Slots
VIEW view
INVARIANTS
  OneRunPerEvent
  DeliveredIsReceived
  CapIsKept
  LoadsStopAtCeiling
  ChainIsOver
  StreakCountsEpisodes
  PassCleansUp
PROPERTIES
  ReplayIsTheAnswer
  SweepSparesKnown
CHECK_DEADLOCK FALSE
