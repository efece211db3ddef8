SPECIFICATION RowsSpec
CONSTANTS
  Job = {chatty}
  Worker = {w1, w2}
  Chatty = {chatty}
  NoWorker = NoWorker
  MaxCrashes = 1
  main = main
  other = other
  x1 = x1
  p1 = p1
  p2 = p2
  hourly = hourly
  Channel = {main, other}
  Requester = {q1, q2}
  Cadence = {hourly}
  Path = {p1, p2}
  NoPath = NoPath
  Account = {x1}
  NoAccount = NoAccount
  Graph <- Graphs
  MaxRevision = 3
  MaxNumber = 2
CONSTRAINT Few
SYMMETRY Slots
VIEW view
INVARIANTS
  TypeOK
  EnteredAtMostOnce
  OutcomeMatchesStatus
  NoSelfAbandon
  ChannelsAreServed
CHECK_DEADLOCK FALSE
