\* Two connectors and two sockets, so that two sockets may race for one
\* connector or serve two; two failures among lookups, stamps and exits.
\* Behaviours end when every socket was used and has closed.
SPECIFICATION FairSpec
CONSTANTS
  Conn = {c1, c2}
  None = None
  MaxSockets = 2
  MaxFailures = 2
INVARIANTS
  OpenSessionIsRegistered
  GhostsOnlyFromLookup
  StampsSettle
PROPERTIES
  DeadPeersAreClosed
CHECK_DEADLOCK FALSE
