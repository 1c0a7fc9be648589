\* Two requests, of two changes each, over two successive sessions.
SPECIFICATION Spec
CONSTANTS
  Rpc = {r1, r2}
  Part = {p1, p2}
  Socket = {s1, s2}
  None = None
SYMMETRY Symmetry
INVARIANTS
  CallsAreTracked
  RefusedNeverRuns
PROPERTIES
  AnsweredOnce
  ImplementsCall
CHECK_DEADLOCK FALSE
