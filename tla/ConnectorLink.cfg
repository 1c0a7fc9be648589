\* Four dials: enough for the cap of the backoff (1, 2, 3, 3), and for a
\* session between failures.  Behaviours end when the dials are used up or
\* the connector is stopped.
SPECIFICATION FairSpec
CONSTANTS
  None = None
  MaxDials = 4
  Base = 1
  Cap = 3
INVARIANTS
  OneLink
  TransportIsLive
  StoppedForGood
  WaitsFollowFailures
PROPERTIES
  KeepsTrying
  StopEnds
CHECK_DEADLOCK FALSE
