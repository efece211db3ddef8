SPECIFICATION Spec
CONSTANTS
  Entity = {1, 2}
  Tx = {t1, t2, t3}
  NoTx = NoTx
  MaxSeq = 2
  Graphs <- SomeGraphs
  MaxRounds = 2
  MaxTries = 2
  t1 = t1
  t2 = t2
  t3 = t3
  c1 = c1
  c2 = c2
  c3 = c3
  s1 = s1
  s2 = s2
  d1 = d1
  SourceJob = {s1, s2, d1}
  NoHolder = NoHolder
  JobKind <- Kinds
  Name = {"a", "b", "v"}
  Snapshot <- Contents
  MaxDrift = 1
  MaxHuman = 1
  Call = {c1, c2, c3}
  NoHold = NoHold
  MaxVersion = 2
  MaxShape = 2
  MaxDeaths = 1
  r1 = r1
  r2 = r2
  r3 = r3
  r4 = r4
  r5 = r5
  HttpRequest = {r1, r2, r3, r4, r5}
  Actor = {"a", "b"}
  Owner <- Owners
  MaxInflight = 4
  Slots = 3
  Share = 2
CONSTRAINT Few
VIEW view
INVARIANTS
  OutputsAreFresh
  NoWaitCycle
  CatalogIsLastCollect
  ViewSelectsHead
  SlotsCountWork
PROPERTIES
  VisibleInOrder
  FollowsDataflow
  HumanWordStands
  RowsSurvive
CHECK_DEADLOCK FALSE
