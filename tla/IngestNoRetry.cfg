\* One failed mutation, and sockets that need not break.
SPECIFICATION FairDelivery
CONSTANTS
  Queue = {q1}
  Arriving = {}
  MaxStream = 2
  BatchSize = 2
  MaxBatchSize = 2
  MaxBuffered = 2
  MaxArrivals = 4
  MaxSnapshots = 0
  MaxSockets = 2
  MaxFailures = 1
  MaxCrashes = 0
  MaxRestarts = 0
PROPERTIES
  AtLeastOnce
CHECK_DEADLOCK FALSE
