------------------------------ MODULE EventOutbox ------------------------------
(***************************************************************************)
(* The connector's event outbox (packages/connector/src/event-outbox.ts):  *)
(* an in-memory buffer of events, the batches cut from it that the gateway *)
(* has not acknowledged yet, and one resume cursor per queue.              *)
(*                                                                         *)
(* An event object is named by its arrival number: log[r] is the r-th      *)
(* event handed to enqueue.  The Map of unacked batches, which iterates in *)
(* insertion order, is the flat sequence of its events in that order, each *)
(* with the id of its batch.  batch_id is a fresh UUID in the code and a   *)
(* counter here.  A stream id (ms-seq, ordered) is a positive number.      *)
(***************************************************************************)
EXTENDS Integers, Sequences, FiniteSets

CONSTANTS
  Queue,          \* names of the watched queues
  MaxStream,      \* bound: stream ids and snapshot times are 1..MaxStream
  Arriving,       \* the events a behaviour may enqueue
  BatchSize,      \* options.batchSize
  MaxBatchSize,   \* options.maxBatchSize
  MaxBuffered,    \* options.maxBufferedEvents
  MaxArrivals     \* bound: number of enqueue calls in a behaviour

(* A terminal event's uuid is `queue:streamId`, a snapshot's is             *)
(* `queue:snapshot:ts`; the record is the uuid.                             *)
Event == [queue : Queue, kind : {"terminal", "snapshot"}, n : 1 .. MaxStream]

ASSUME OutboxAssumption ==
  /\ MaxStream \in Nat
  /\ Arriving \subseteq Event
  /\ BatchSize \in Nat \ {0}
  /\ MaxBatchSize \in Nat \ {0}
  /\ MaxBuffered \in Nat \ {0}
  /\ MaxArrivals \in Nat

VARIABLES
  log,         \* the events enqueued so far, in order (history)
  buffer,      \* arrival numbers waiting to be cut into a batch
  unacked,     \* the events of the unacked batches, in Map order
  nextBatch,   \* the id the next batch gets
  cursor,      \* per queue the highest acked stream id, 0 when none
  attached,    \* is a transport wired?
  ticking,     \* does the flush timer run?
  out,         \* the frames handed to the transport by the last call
  acked,       \* arrivals whose batch was acked (history)
  dropped      \* arrivals dropped at capacity (history)

outboxVars == <<log, buffer, unacked, nextBatch, cursor, attached, ticking,
                out, acked, dropped>>

Entry == [batch : Nat, ref : Nat]

-----------------------------------------------------------------------------
(* What the outbox holds, in order: the unacked batches, then the buffer.   *)
Held(u, b) == [i \in 1 .. (Len(u) + Len(b)) |->
                 IF i <= Len(u) THEN u[i].ref ELSE b[i - Len(u)]]

Refs(u, b) == {u[i].ref : i \in DOMAIN u} \cup {b[i] : i \in DOMAIN b}

HeldRefs == Refs(unacked, buffer)

Positions(u, id) == {i \in DOMAIN u : u[i].batch = id}

(* The `events` frame of one batch: its id and what is left of its events.  *)
Frame(u, id) == [batch |-> id, refs |-> {u[i].ref : i \in Positions(u, id)}]

(* The frames of every batch of u numbered from `first` on.                 *)
FramesFrom(u, first) ==
  {Frame(u, u[i].batch) : i \in {j \in DOMAIN u : u[j].batch >= first}}

Highest(S) == CHOOSE x \in S : \A y \in S : y <= x

-----------------------------------------------------------------------------
(* Faulty variant: one event too many is let in.                            *)
OverCapacityLate(u, b) == Len(u) + Len(b) > MaxBuffered + 1

OverCapacity(u, b) == Len(u) + Len(b) > MaxBuffered

(* Faulty variants: the newest unacked event is dropped; the batch an event *)
(* was dropped from is put back at the end of the Map; the buffer loses its *)
(* oldest event as well.                                                    *)
KeptUnackedNewest(u, b) ==
  IF OverCapacity(u, b) /\ u # <<>> THEN SubSeq(u, 1, Len(u) - 1) ELSE u

KeptUnackedReinserted(u, b) ==
  IF OverCapacity(u, b) /\ u # <<>>
  THEN SelectSeq(Tail(u), LAMBDA x : x.batch # u[1].batch)
       \o SelectSeq(Tail(u), LAMBDA x : x.batch = u[1].batch)
  ELSE u

KeptBufferAlways(u, b) == IF OverCapacity(u, b) THEN Tail(b) ELSE b

(* dropOldest: shift the oldest event of the oldest unacked batch (an       *)
(* emptied batch is deleted); without unacked batches, shift the buffer.    *)
KeptUnacked(u, b) == IF OverCapacity(u, b) /\ u # <<>> THEN Tail(u) ELSE u

KeptBuffer(u, b) == IF OverCapacity(u, b) /\ u = <<>> THEN Tail(b) ELSE b

Discarded(u, b) == IF OverCapacity(u, b) THEN {Held(u, b)[1]} ELSE {}

(* Faulty variant: one batch however long the buffer.                       *)
CutWhole(b, first) == [i \in 1 .. Len(b) |-> [batch |-> first, ref |-> b[i]]]

(* flush cuts the buffer into chunks of at most MaxBatchSize, a batch each. *)
Cut(b, first) ==
  [i \in 1 .. Len(b) |-> [batch |-> first + ((i - 1) \div MaxBatchSize),
                          ref   |-> b[i]]]

ChunkCount(k) == (k + MaxBatchSize - 1) \div MaxBatchSize

(* flush on unacked batches u and buffer b.                                 *)
FlushInto(u, b) ==
  /\ buffer' = <<>>
  /\ unacked' = u \o Cut(b, nextBatch)
  /\ nextBatch' = nextBatch + ChunkCount(Len(b))
  /\ out' = IF attached THEN FramesFrom(unacked', nextBatch) ELSE {}

KeepInto(u, b) ==
  /\ buffer' = b
  /\ unacked' = u
  /\ out' = {}
  /\ UNCHANGED nextBatch

(* Ids of the terminal events among refs that belong to queue q: only those *)
(* carry a stream id in their uuid.                                         *)
StreamIds(refs, q) ==
  {log[r].n : r \in {s \in refs : log[s].queue = q /\ log[s].kind = "terminal"}}

(* Faulty variant: the last acked batch wins.                               *)
AdvancedToLast(refs) ==
  [q \in Queue |-> IF StreamIds(refs, q) = {} THEN cursor[q]
                   ELSE Highest(StreamIds(refs, q))]

(* updateCursor over the events left in an acked batch.                     *)
Advanced(refs) ==
  [q \in Queue |-> Highest({cursor[q]} \cup StreamIds(refs, q))]

-----------------------------------------------------------------------------
Init ==
  /\ log = <<>>
  /\ buffer = <<>>
  /\ unacked = <<>>
  /\ nextBatch = 1
  /\ cursor = [q \in Queue |-> 0]
  /\ attached = FALSE
  /\ ticking = TRUE
  /\ out = {}
  /\ acked = {}
  /\ dropped = {}

(* enqueue: push, drop one event when over capacity, flush a full buffer.   *)
Enqueue(e) ==
  /\ Len(log) < MaxArrivals
  /\ log' = Append(log, e)
  /\ LET pushed == Append(buffer, Len(log) + 1)
         u == KeptUnacked(unacked, pushed)
         b == KeptBuffer(unacked, pushed)
     IN  /\ dropped' = dropped \cup Discarded(unacked, pushed)
         /\ \/ Len(b) >= BatchSize /\ FlushInto(u, b)
            \/ Len(b) < BatchSize /\ KeepInto(u, b)
  /\ UNCHANGED <<cursor, attached, ticking, acked>>

(* The interval timer, or a call of flush: cut whatever is buffered.        *)
Tick ==
  /\ ticking
  /\ buffer # <<>>
  /\ FlushInto(unacked, buffer)
  /\ UNCHANGED <<log, cursor, attached, ticking, acked, dropped>>

(* Faulty variant: nothing is resent.                                       *)
AttachOnly ==
  /\ attached' = TRUE
  /\ out' = {}
  /\ UNCHANGED <<log, buffer, unacked, nextBatch, cursor, ticking, acked,
                 dropped>>

(* hello_ack: setTransport(send), then resendUnacked.                       *)
Attach ==
  /\ attached' = TRUE
  /\ out' = FramesFrom(unacked, 0)
  /\ UNCHANGED <<log, buffer, unacked, nextBatch, cursor, ticking, acked,
                 dropped>>

(* setTransport(null): the socket closed.                                   *)
Detach ==
  /\ attached
  /\ attached' = FALSE
  /\ out' = {}
  /\ UNCHANGED <<log, buffer, unacked, nextBatch, cursor, ticking, acked,
                 dropped>>

(* ack of a batch still held.  The batch is a run lo+1..hi of unacked.      *)
AckKnown(id) ==
  \E lo \in 0 .. Len(unacked), hi \in 1 .. Len(unacked) :
    /\ lo < hi
    /\ Positions(unacked, id) = (lo + 1) .. hi
    /\ LET refs == {unacked[i].ref : i \in (lo + 1) .. hi}
       IN  /\ unacked' = SubSeq(unacked, 1, lo)
                         \o SubSeq(unacked, hi + 1, Len(unacked))
           /\ acked' = acked \cup refs
           /\ cursor' = Advanced(refs)
    /\ out' = {}
    /\ UNCHANGED <<log, buffer, nextBatch, attached, ticking, dropped>>

(* ack of a batch acked before, or dropped entirely: ignored.               *)
AckUnknown(id) ==
  /\ Positions(unacked, id) = {}
  /\ out' = {}
  /\ UNCHANGED <<log, buffer, unacked, nextBatch, cursor, attached, ticking,
                 acked, dropped>>

Ack(id) == AckKnown(id) \/ AckUnknown(id)

(* stop: clears the flush timer.                                            *)
Stop ==
  /\ ticking
  /\ ticking' = FALSE
  /\ out' = {}
  /\ UNCHANGED <<log, buffer, unacked, nextBatch, cursor, attached, acked,
                 dropped>>

Next ==
  \/ \E e \in Arriving : Enqueue(e)
  \/ Tick
  \/ Attach
  \/ Detach
  \/ \E id \in 1 .. (nextBatch - 1) : Ack(id)
  \/ Stop

Spec == Init /\ [][Next]_outboxVars

-----------------------------------------------------------------------------
(* Every variable has its type; a batch id is used before it is counted.    *)
TypeOK ==
  /\ log \in Seq(Event)
  /\ buffer \in Seq(Nat)
  /\ unacked \in Seq(Entry)
  /\ nextBatch \in Nat \ {0}
  /\ \A i \in DOMAIN unacked : unacked[i].batch \in 1 .. (nextBatch - 1)
  /\ cursor \in [Queue -> 0 .. MaxStream]
  /\ attached \in BOOLEAN
  /\ ticking \in BOOLEAN
  /\ acked \subseteq 1 .. Len(log)
  /\ dropped \subseteq 1 .. Len(log)

(* Between calls the buffer and the unacked batches together never hold     *)
(* more than maxBufferedEvents (enqueue drops one event for each it adds).  *)
WithinCapacity == Len(unacked) + Len(buffer) <= MaxBuffered

InOrder(u, b) ==
  /\ \A i, j \in DOMAIN u : i < j =>
        u[i].ref < u[j].ref /\ u[i].batch <= u[j].batch
  /\ \A i, j \in DOMAIN b : i < j => b[i] < b[j]
  /\ \A i \in DOMAIN u, j \in DOMAIN b : u[i].ref < b[j]

(* The outbox holds events in arrival order, the batches as runs in the     *)
(* order they were cut: what resendUnacked and dropOldest rely on.          *)
ArrivalOrder == InOrder(unacked, buffer)

(* Every enqueued event is held, acked or dropped, and only one of them: no *)
(* flush, resend, late or repeated ack loses or forgets one.                *)
Accounted ==
  /\ 1 .. Len(log) = HeldRefs \cup acked \cup dropped
  /\ HeldRefs \cap acked = {}
  /\ HeldRefs \cap dropped = {}
  /\ acked \cap dropped = {}

(* getCursor(q) is the highest stream id among the acked events of q, and   *)
(* undefined (0) only when none was acked, whatever the order of the acks.  *)
CursorIsHighestAcked ==
  \A q \in Queue :
    /\ \A n \in StreamIds(acked, q) : n <= cursor[q]
    /\ cursor[q] \in StreamIds(acked, q) \cup {0}

(* A frame given to the transport is a batch the outbox still holds, whole, *)
(* and no larger than the protocol's MAX_EVENTS_PER_BATCH (a larger frame   *)
(* would be refused by the gateway's parser and never acked).               *)
FramesAreHeldBatches ==
  \A f \in out :
    /\ f = Frame(unacked, f.batch)
    /\ Cardinality(f.refs) \in 1 .. MaxBatchSize

(* Capacity evicts the oldest event the outbox knows, never a newer one.    *)
DropsOldestFirst ==
  [][\A d \in dropped' \ dropped : \A r \in HeldRefs' : d < r]_outboxVars

=============================================================================
