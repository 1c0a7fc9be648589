\* A buffer limit above the frame limit, so that one flush cuts two batches;
\* capacity 4 so that both branches of dropOldest run.
SPECIFICATION Spec
CONSTANTS
  q1 = q1
  q2 = q2
  Queue = {q1, q2}
  Arriving <- MCArriving
  MaxStream = 2
  BatchSize = 3
  MaxBatchSize = 2
  MaxBuffered = 4
  MaxArrivals = 5
INVARIANTS
  WithinCapacity
  ArrivalOrder
  Accounted
  CursorIsHighestAcked
  FramesAreHeldBatches
PROPERTY DropsOldestFirst
