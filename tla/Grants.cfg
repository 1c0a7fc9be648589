\* One project with a founder and a second user, one invite, and one client
\* that is granted access twice; three tokens make two rotations, or one and
\* a second grant of the same family.  Behaviours end when the project is
\* deleted and everything has expired.
SPECIFICATION Spec
CONSTANTS
  User = {u1, u2}
  Project = {p1}
  Invite = {i1}
  Client = {c1}
  Code = {k1, k2}
  Token = {t1, t2, t3}
SYMMETRY Interchangeable
INVARIANTS
  OwnedWhileOpen
  SeatsAreEarned
  OneLiveTokenPerCode
PROPERTIES
  ImplementsGrantLife
CHECK_DEADLOCK FALSE
