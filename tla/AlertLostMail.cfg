\* Two rules that fire in one sweep, and one failed send.
SPECIFICATION Spec
CONSTANTS
  MaxRules = 2
  MaxSweeps = 1
  MaxFailures = 1
INVARIANT OneEmailPerTransition
CHECK_DEADLOCK FALSE
