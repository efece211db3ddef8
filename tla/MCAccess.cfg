SPECIFICATION Spec
CONSTANTS
  a = a
  b = b
  x = x
  y = y
  u = u
  v = v
  system = system
  member = member
  guest = guest
  team = team
  seeded = seeded
  g1 = g1
  g2 = g2
  g3 = g3
  q = q
  Attribute = {a, b}
  DataRow = {x, y}
  Verb = {"read", "write"}
  Profile = {1, 2, 3}
  Grant = {seeded, g1, g2, g3}
  SystemGrant = seeded
  Restriction = {q}
  NoRecord = NoRecord
  Person = {u, v, system}
  System = system
  AnyRole = {member, guest}
  NoRole = NoRole
  AnyGroup = {team}
  Ladder <- Ladders
  Columns <- ProfileColumns
  GrantBody <- Grants
  RestrictionBody <- Restrictions
  Roles <- RolesOf
  Joins <- GroupsOf
  Heads <- HeadAttributes
  Cap = 1
  Key <- KeyOf
  e1 = e1
  e2 = e2
  Editor = {e1, e2}
  Caller = {c1}
  MaxEdits = 2
  MaxFaults = 1
INVARIANTS
  AccessFollowsRule
  PendingIsGenerated
PROPERTIES
  RegenerationKeepsAnswers
  NeverStale
  RetryIsAnswered
CHECK_DEADLOCK FALSE
