---------------------------- MODULE IngestDelivery ----------------------------
(***************************************************************************)
(* Event delivery end to end: BullMQ's event streams, the connector's      *)
(* readers (start-ingest.ts) and outbox (EventOutbox), its socket          *)
(* (connect.ts), the gateway's handling of `events` frames                 *)
(* (handle-connector-connection.ts) and the recordBatch mutation           *)
(* (convex/ingest.ts), with broken sockets, lost acks, failed mutations,   *)
(* a gateway crash, a connector crash and a reader restart.                *)
(*                                                                         *)
(* The handshake is one step here (Connect); GatewaySessions has it in     *)
(* detail.  A WebSocket is a FIFO each way; what a broken one still        *)
(* carried is delivered or lost.  Convex mutations of one gateway process  *)
(* run one at a time, in order: ConvexHttpClient queues them.              *)
(***************************************************************************)
EXTENDS EventOutbox

CONSTANTS
  MaxSnapshots,   \* bound: snapshots taken per queue
  MaxSockets,     \* bound: sockets opened
  MaxFailures,    \* bound: recordBatch calls that fail
  MaxCrashes,     \* bound: crashes of the connector or the gateway
  MaxRestarts     \* bound: restartQueue calls

ASSUME DeliveryAssumption ==
  /\ MaxSnapshots \in 0 .. MaxStream
  /\ MaxSockets \in Nat \ {0}
  /\ {MaxFailures, MaxCrashes, MaxRestarts} \subseteq Nat

VARIABLES
  stream,      \* per queue, the number of terminal events in its stream
  snaps,       \* per queue, the number of snapshots taken
  reader,      \* per queue, the QueueEvents instance: reading or stopped
  readPos,     \* per queue, the last stream id the instance has delivered
  looking,     \* events whose findJob lookup has not returned yet
  skipped,     \* stream entries no reader will ever see (history)
  restarts,
  sock,        \* number of the connector's current socket, 0 before any
  open,        \* is that socket OPEN?
  up,          \* per socket, the events frames under way to the gateway
  down,        \* batch ids of the events_acks under way on the open socket
  mutations,   \* recordBatch calls of the gateway, in order
  rows,        \* rows of ingestEvents per uuid
  failures,
  booting,     \* the connector process is starting
  forgotten,   \* arrivals in memory when the connector crashed (history)
  crashes

sourceVars == <<stream, snaps, reader, readPos, looking, skipped, restarts>>
linkVars == <<sock, open, up, down>>
hubVars == <<mutations, rows, failures>>
lifeVars == <<booting, forgotten, crashes>>
vars == <<outboxVars, sourceVars, linkVars, hubVars, lifeVars>>

Sockets == 1 .. MaxSockets

Terminal(q, i) == [queue |-> q, kind |-> "terminal", n |-> i]
Snapshot(q, i) == [queue |-> q, kind |-> "snapshot", n |-> i]

EventsOf(refs) == {log[r] : r \in refs}

(* A step the outbox takes no part in.                                      *)
OutboxIdle ==
  /\ out' = {}
  /\ UNCHANGED <<log, buffer, unacked, nextBatch, cursor, attached, ticking,
                 acked, dropped>>

(* The frames of F as a sequence.                                           *)
InBatchOrder(F) ==
  {s \in [1 .. Cardinality(F) -> F] :
     \A i, j \in DOMAIN s : i < j => s[i].batch < s[j].batch}

(* sendBatch on the open socket, in batch order; nothing on a closed one.   *)
SendOut ==
  IF open
  THEN \E frames \in InBatchOrder(out') :
         up' = [up EXCEPT ![sock] = @ \o frames]
  ELSE UNCHANGED up

-----------------------------------------------------------------------------
Init2 ==
  /\ Init
  /\ stream = [q \in Queue |-> 0]
  /\ snaps = [q \in Queue |-> 0]
  /\ reader = [q \in Queue |-> "reading"]
  /\ readPos = [q \in Queue |-> 0]
  /\ looking = {}
  /\ skipped = {}
  /\ restarts = 0
  /\ sock = 0
  /\ open = FALSE
  /\ up = [s \in Sockets |-> <<>>]
  /\ down = <<>>
  /\ mutations = <<>>
  /\ rows = [e \in Event |-> 0]
  /\ failures = 0
  /\ booting = FALSE
  /\ forgotten = {}
  /\ crashes = 0

(* A job of q ends; BullMQ appends to the queue's event stream.             *)
JobEnds(q) ==
  /\ stream[q] < MaxStream
  /\ stream' = [stream EXCEPT ![q] = @ + 1]
  /\ OutboxIdle
  /\ UNCHANGED <<snaps, reader, readPos, looking, skipped, restarts, linkVars,
                 hubVars, lifeVars>>

(* QueueEvents emits the next entry; handleTerminal starts its job lookup.  *)
ReadEntry(q) ==
  /\ ~booting
  /\ reader[q] = "reading"
  /\ readPos[q] < stream[q]
  /\ readPos' = [readPos EXCEPT ![q] = @ + 1]
  /\ looking' = looking \cup
                {[event |-> Terminal(q, readPos[q] + 1), gen |-> restarts]}
  /\ OutboxIdle
  /\ UNCHANGED <<stream, snaps, reader, skipped, restarts, linkVars, hubVars,
                 lifeVars>>

(* The lookup returns or fails, in any order: the event is enqueued.        *)
LookupDone(x) ==
  /\ Enqueue(x.event)
  /\ looking' = looking \ {x}
  /\ SendOut
  /\ UNCHANGED <<stream, snaps, reader, readPos, skipped, restarts, sock,
                 open, down, hubVars, lifeVars>>

(* The snapshot timer: emitSnapshot enqueues a queue.snapshot.              *)
TakeSnapshot(q) ==
  /\ ~booting
  /\ snaps[q] < MaxSnapshots
  /\ snaps' = [snaps EXCEPT ![q] = @ + 1]
  /\ Enqueue(Snapshot(q, snaps[q] + 1))
  /\ SendOut
  /\ UNCHANGED <<stream, reader, readPos, looking, skipped, restarts, sock,
                 open, down, hubVars, lifeVars>>

FlushTimer ==
  /\ Tick
  /\ SendOut
  /\ UNCHANGED <<sourceVars, sock, open, down, hubVars, lifeVars>>

(* restartQueue: the instance is closed ...                                 *)
RestartBegins(q) ==
  /\ ~booting
  /\ restarts < MaxRestarts
  /\ reader[q] = "reading"
  /\ reader' = [reader EXCEPT ![q] = "stopped"]
  /\ restarts' = restarts + 1
  /\ OutboxIdle
  /\ UNCHANGED <<stream, snaps, readPos, looking, skipped, linkVars, hubVars,
                 lifeVars>>

(* Faulty variant: always at the end of the stream.                         *)
StartAtEnd(q) == stream[q]

(* Where a new QueueEvents starts: behind the cursor, or, without one, at   *)
(* the end of the stream ("$").                                             *)
StartPosition(q) == IF cursor[q] = 0 THEN stream[q] ELSE cursor[q]

(* What the missing cursor costs: the entries added while none was reading. *)
Passed(q) ==
  IF cursor[q] = 0
  THEN {Terminal(q, i) : i \in (readPos[q] + 1) .. stream[q]} ELSE {}

(* ... and a new one attached.                                              *)
RestartEnds(q) ==
  /\ ~booting
  /\ reader[q] = "stopped"
  /\ reader' = [reader EXCEPT ![q] = "reading"]
  /\ readPos' = [readPos EXCEPT ![q] = StartPosition(q)]
  /\ skipped' = skipped \cup Passed(q)
  /\ OutboxIdle
  /\ UNCHANGED <<stream, snaps, looking, restarts, linkVars, hubVars,
                 lifeVars>>

-----------------------------------------------------------------------------
(* A dial succeeds and hello_ack arrives: transport wired, batches resent.  *)
Connect ==
  /\ ~booting
  /\ ~open /\ ~attached
  /\ sock < MaxSockets
  /\ sock' = sock + 1
  /\ open' = TRUE
  /\ Attach
  /\ \E frames \in InBatchOrder(out') :
       up' = [up EXCEPT ![sock + 1] = frames]
  /\ UNCHANGED <<down, sourceVars, hubVars, lifeVars>>

(* The socket stops being OPEN: network, watchdog, gateway replacing it.    *)
(* The last socket the bound allows does not break.                         *)
Break ==
  /\ open
  /\ sock < MaxSockets
  /\ open' = FALSE
  /\ down' = <<>>
  /\ OutboxIdle
  /\ UNCHANGED <<sock, up, sourceVars, hubVars, lifeVars>>

(* The connector's close handler: setTransport(null).                       *)
Closed ==
  /\ ~open
  /\ Detach
  /\ UNCHANGED <<sourceVars, linkVars, hubVars, lifeVars>>

(* What a broken socket still carried never arrives.                        *)
LosePipe(s) ==
  /\ s # sock \/ ~open
  /\ up[s] # <<>>
  /\ up' = [up EXCEPT ![s] = <<>>]
  /\ OutboxIdle
  /\ UNCHANGED <<sock, open, down, sourceVars, hubVars, lifeVars>>

(* handleFrame on `events`: recordEventBatch is called and awaited.         *)
GatewayReceives(s) ==
  /\ up[s] # <<>>
  /\ mutations' = Append(mutations, [sock |-> s, frame |-> Head(up[s])])
  /\ up' = [up EXCEPT ![s] = Tail(@)]
  /\ OutboxIdle
  /\ UNCHANGED <<sock, open, down, sourceVars, rows, failures, lifeVars>>

(* Faulty variant: no dedupe.                                               *)
InsertedAgain(frame) ==
  [e \in Event |-> IF e \in EventsOf(frame.refs) THEN rows[e] + 1 ELSE rows[e]]

(* insertEvents: one row for each event of the batch that has none yet.     *)
Inserted(frame) ==
  [e \in Event |-> IF e \in EventsOf(frame.refs) /\ rows[e] = 0
                   THEN 1 ELSE rows[e]]

(* sendFrame(events_ack): a no-op unless the frame's socket is still open.  *)
AckFrame(m) ==
  down' = IF m.sock = sock /\ open THEN Append(down, m.frame.batch) ELSE down

(* recordBatch commits and its reply reaches the gateway.                   *)
RecordBatch ==
  /\ mutations # <<>>
  /\ rows' = Inserted(Head(mutations).frame)
  /\ AckFrame(Head(mutations))
  /\ mutations' = Tail(mutations)
  /\ OutboxIdle
  /\ UNCHANGED <<sock, open, up, sourceVars, failures, lifeVars>>

(* Faulty variant: the ack is sent whether or not the call succeeded.       *)
RecordFailsAcked ==
  /\ mutations # <<>>
  /\ failures < MaxFailures
  /\ failures' = failures + 1
  /\ rows' = rows
  /\ AckFrame(Head(mutations))
  /\ mutations' = Tail(mutations)
  /\ OutboxIdle
  /\ UNCHANGED <<sock, open, up, sourceVars, lifeVars>>

(* The call fails, before or after the commit: logged, and no ack.          *)
RecordFails ==
  /\ mutations # <<>>
  /\ failures < MaxFailures
  /\ failures' = failures + 1
  /\ \/ rows' = rows
     \/ rows' = Inserted(Head(mutations).frame)
  /\ mutations' = Tail(mutations)
  /\ OutboxIdle
  /\ UNCHANGED <<linkVars, sourceVars, lifeVars>>

(* events_ack reaches the connector: outbox.ack.                            *)
AckArrives ==
  /\ open
  /\ down # <<>>
  /\ Ack(Head(down))
  /\ down' = Tail(down)
  /\ UNCHANGED <<sock, open, up, sourceVars, hubVars, lifeVars>>

(* The gateway process dies: its sockets break, its calls are gone, though  *)
(* Convex may still run the one it had sent.                                *)
GatewayCrash ==
  /\ crashes < MaxCrashes
  /\ open /\ sock < MaxSockets
  /\ crashes' = crashes + 1
  /\ open' = FALSE
  /\ down' = <<>>
  /\ up' = [s \in Sockets |-> <<>>]
  /\ mutations' = <<>>
  /\ \/ rows' = rows
     \/ mutations # <<>> /\ rows' = Inserted(Head(mutations).frame)
  /\ OutboxIdle
  /\ UNCHANGED <<sock, sourceVars, failures, booting, forgotten>>

(* The connector process dies and its memory with it.                       *)
ConnectorCrash ==
  /\ crashes < MaxCrashes
  /\ sock < MaxSockets
  /\ ~booting
  /\ crashes' = crashes + 1
  /\ booting' = TRUE
  /\ forgotten' = forgotten \cup HeldRefs
  /\ buffer' = <<>> /\ unacked' = <<>>
  /\ cursor' = [q \in Queue |-> 0]
  /\ attached' = FALSE /\ ticking' = TRUE
  /\ out' = {}
  /\ skipped' = skipped \cup {x.event : x \in looking}
  /\ looking' = {}
  /\ reader' = [q \in Queue |-> "stopped"]
  /\ open' = FALSE
  /\ down' = <<>>
  /\ UNCHANGED <<log, nextBatch, acked, dropped, stream, snaps, readPos,
                 restarts, sock, up, hubVars>>

(* main: startIngest with empty cursors, awaited before connect.            *)
Boot ==
  /\ booting
  /\ booting' = FALSE
  /\ reader' = [q \in Queue |-> "reading"]
  /\ readPos' = [q \in Queue |-> StartPosition(q)]
  /\ skipped' = skipped \cup UNION {Passed(q) : q \in Queue}
  /\ OutboxIdle
  /\ UNCHANGED <<stream, snaps, looking, restarts, linkVars, hubVars,
                 forgotten, crashes>>

Next2 ==
  \/ \E q \in Queue : JobEnds(q) \/ ReadEntry(q) \/ TakeSnapshot(q)
                      \/ RestartBegins(q) \/ RestartEnds(q)
  \/ \E x \in looking : LookupDone(x)
  \/ FlushTimer
  \/ Connect \/ Break \/ Closed
  \/ \E s \in Sockets : LosePipe(s) \/ GatewayReceives(s)
  \/ RecordBatch \/ RecordFails \/ AckArrives
  \/ GatewayCrash \/ ConnectorCrash \/ Boot

DeliverySpec == Init2 /\ [][Next2]_vars

(* Timers fire, sockets that stay open deliver, promises settle, and the    *)
(* dial loop succeeds in the end.                                           *)
Fairness ==
  /\ \A q \in Queue : WF_vars(ReadEntry(q)) /\ WF_vars(RestartEnds(q))
  /\ WF_vars(\E x \in looking : LookupDone(x))
  /\ WF_vars(FlushTimer) /\ WF_vars(Connect) /\ WF_vars(Closed)
  /\ \A s \in Sockets : WF_vars(GatewayReceives(s))
  /\ WF_vars(RecordBatch) /\ WF_vars(AckArrives) /\ WF_vars(Boot)

FairDelivery == DeliverySpec /\ Fairness

-----------------------------------------------------------------------------
Produced ==
  {e \in Event :
     e.n <= IF e.kind = "terminal" THEN stream[e.queue] ELSE snaps[e.queue]}

Recorded == {e \in Event : rows[e] > 0}

Ledger == INSTANCE EventLedger WITH
            LedgerEvent <- Event, produced <- Produced, rows <- rows

(* Delivery implements the ledger: whatever is resent, re-read, duplicated  *)
(* or half-failed, ingestEvents gets at most one row per uuid, and rows     *)
(* only for events that happened.                                           *)
ImplementsLedger == Ledger!Spec

(* An event whose batch was acked is in the table: events_ack is sent only  *)
(* after recordBatch committed, and never for a batch of another event.     *)
AckedIsRecorded == EventsOf(acked) \subseteq Recorded

(* A terminal event of a stream is unread, being looked up, in the outbox,  *)
(* recorded, or was lost in one of the ways the code allows: dropped at     *)
(* capacity, in memory at a crash, or passed by a reader started without a  *)
(* cursor.  A reader restarted from the cursor passes nothing, although     *)
(* the cursor may stand above events that are still unacked.                *)
NothingVanishes ==
  \A q \in Queue : \A i \in 1 .. stream[q] :
    \/ i > readPos[q]
    \/ Terminal(q, i) \in {x.event : x \in looking} \cup Recorded \cup skipped
    \/ Terminal(q, i) \in EventsOf(HeldRefs \cup dropped \cup forgotten)

(* At-least-once delivery as README.md:112 states it: an event the outbox   *)
(* took is recorded in the end unless it was dropped at capacity or lost in *)
(* a crash.                                                                 *)
AtLeastOnce ==
  \A r \in 1 .. MaxArrivals :
    (r \in HeldRefs) ~> (r \in dropped \cup forgotten
                         \/ (r \in DOMAIN log /\ log[r] \in Recorded))

(* The one way a batch is stranded: the socket is open, and nothing is      *)
(* under way on it that could still bring a resend or an ack.               *)
Silent == open /\ up[sock] = <<>> /\ down = <<>> /\ mutations = <<>>

(* What the code does promise: whatever breaks, crashes or is evicted, an   *)
(* event the outbox took is recorded in the end, or dropped, or forgotten   *)
(* in a crash, or left behind by a recordBatch call that failed on a socket *)
(* nothing happens on any more.                                             *)
DeliveredUnlessRefused ==
  \A r \in 1 .. MaxArrivals :
    (r \in HeldRefs) ~> (\/ r \in dropped \cup forgotten
                         \/ r \in DOMAIN log /\ log[r] \in Recorded
                         \/ failures > 0 /\ Silent)
=============================================================================
