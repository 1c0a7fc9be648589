\* Two connectors of one project, two events (a failure and another one),
\* two slugs; retention deletes one row per call.
SPECIFICATION Spec
CONSTANTS
  User = {u1}
  Project = {p1}
  Invite = {}
  Connector = {c1, c2}
  Event = {e1, e2}
  Failure = {e1}
  Slug = {s1, s2}
  PurgeBatch = 1
  MaxCalls = 1
  MaxPurged = 1
SYMMETRY Interchangeable
INVARIANTS
  NoOrphanRows
  GroupsCountRows
  ResolvedIsSettled
  LookupsAreUnique
  PurgeDrainsBacklog
CHECK_DEADLOCK FALSE
