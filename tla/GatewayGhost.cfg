\* One connector, one socket that closes during its token lookup.
SPECIFICATION Spec
CONSTANTS
  Conn = {c1}
  None = None
  MaxSockets = 2
  MaxFailures = 0
INVARIANT CloseCleansUp
CHECK_DEADLOCK FALSE
