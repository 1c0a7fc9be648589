\* Safety and delivery under every failure: one queue with two terminal events and a
\* snapshot, a capacity that forces drops, two sockets, one failed mutation,
\* one crash, one reader restart.  Behaviours end when the bounds are used up.
SPECIFICATION FairDelivery
CONSTANTS
  Queue = {q1}
  Arriving = {}
  MaxStream = 2
  BatchSize = 2
  MaxBatchSize = 2
  MaxBuffered = 2
  MaxArrivals = 3
  MaxSnapshots = 1
  MaxSockets = 2
  MaxFailures = 1
  MaxCrashes = 1
  MaxRestarts = 1
INVARIANTS
  NothingVanishes
  AckedIsRecorded
PROPERTIES
  ImplementsLedger
  DeliveredUnlessRefused
CHECK_DEADLOCK FALSE
