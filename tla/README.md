# Verification of superbull

superbull is a dashboard for BullMQ queues. A *connector* runs next to the
customer's Redis, reads the queues' event streams and ships events to a
*gateway* over one WebSocket; the gateway records them in Convex, the database
behind the web app. Requests travel the other way: the web app asks the gateway
to run a board request (list jobs, retry, remove ...) on the connector. Alerts,
error groups, status pages and analytics are computed from what was recorded.

This directory holds TLA+ models of that path, the TLC runs that check them,
and proofs of the properties that hold for every value of the constants. Every
definition is translated from the code under `src/`; `PROJECT.json` maps each
one to the lines it stands for, lists the mutants that show each property can
fail, and lists the hazards the properties are for.

## 1. The system

### Components, their state and operations

| component | state it keeps | operations | modelled in |
|---|---|---|---|
| Event outbox, `packages/connector/src/event-outbox.ts` | buffer, unacked batches, a cursor per queue, transport, flush timer | enqueue, flush, ack, setTransport, resendUnacked, stop | `EventOutbox` |
| Ingest readers, `start-ingest.ts` | a `QueueEvents` instance and a snapshot timer per queue | read an entry, look the job up, emit, snapshot, restart from the cursor | `IngestDelivery` |
| Connector link, `connect.ts` | socket, watchdog, reconnect timer, attempt count, stopped | dial, hello, ack, error, ping, close, reconnect, stop | `ConnectorLink` |
| Request executor, `execute-request.ts` | running handlers | run a request, answer it | `RpcBridge` |
| Gateway sessions, `handle-connector-connection.ts`, `session-registry.ts` | one session per connector, hello timers, heartbeats | handshake, replace, heartbeat, close, frames | `GatewaySessions` |
| Gateway internal API, `internal-api.ts`, `call-gateway-rpc.ts` | pending calls and timers per session | forward, settle, time out, reject | `RpcBridge` |
| Event ingestion, `convex/ingest.ts`, `crons.ts` | `ingestEvents` | recordBatch with dedupe, purge that schedules itself | `EventLedger`, `IngestDelivery`, `EventStore` |
| Connectors in Convex, `convex/connectors.ts` | row, token hash, connection stamps | create, look up, stamp, remove with its cascade | `GatewaySessions`, `EventStore` |
| Error groups, `convex/errors.ts` | one group per fingerprint | upsert, set state | `EventStore`, `Reports` |
| Status pages, deploy annotations | one page per connector, annotations | upsert, annotate, remove; the public uptime bars | `EventStore`, `Reports` |
| Analytics, `convex/analytics.ts` | none: computed per request | series, percentiles, totals, heatmap | `Reports`, `Insights` |
| Alerts, `convex/alerts.ts`, `alertNotifications.ts` | rules, their states | create, update, remove, evaluate, send; four conditions | `AlertSweeps`, `Reports`, `Insights` |
| Projects, members, invites, `convex/projects.ts`, `invites.ts` | rows in Convex | create, invite, accept, revoke, remove, delete with its cascade | `Workspace` |
| OAuth provider, `convex/oauthProvider.ts` | codes, access and refresh tokens | authorize, exchange, rotate, revoke, disconnect, clean up | `GrantLife`, `Grants` |
| Board API, `packages/api/src` | a map of queue adapters | requests that change jobs or a queue, one await after the other | `Board` |
| API keys, rate limits, saved dashboards | single rows, a counter in Redis | create, revoke, edit, count | not modelled |
| Server adapters, dashboard UI, marketing site | none of their own | render, translate HTTP | not modelled |

### How they interact

    BullMQ stream -> reader -> outbox -> socket -> gateway -> recordBatch -> ingestEvents
                                 ^                    |
                                 +---- events_ack ----+
    web app -> POST /internal/rpc -> session -> request frame -> connector -> response
    scheduler -> evaluateAndNotify -> evaluate (one transaction) -> emails, one by one
    ingestEvents -> error groups (same transaction) -> alert conditions, analytics, status pages
    project deleted -> connectors -> events, groups, pages, annotations, rules
    client -> code -> tokens, for a member of a project, until one of five things ends the grant

Inside the connector everything shares one event loop: readers call the outbox,
the link wires and unwires the outbox's transport, and frames call `ack` or the
executor. The gateway is one event loop too; it awaits Convex between a frame
and its effect, and it does not wait for the connection stamps it writes.

### What is hard

* A socket breaks with batches or acks on it: batches are sent again, and must
  not be recorded twice.
* The token lookup of a handshake is awaited: the socket may have closed, timed
  out, or been overtaken by another one when the answer comes.
* Sessions replace each other while their calls, stamps and closes are under way.
* The outbox has a capacity: the oldest event goes, perhaps out of a batch that
  is in flight.
* A request's response races a timeout, a close, a send error, an aborted caller.
* Connector and gateway keep everything in memory: a crash forgets it.
* An alert's state is committed before its email is sent.
* Rows bear the connector's clock and come late or early, retention deletes them
  by Convex's clock, and reports read a bounded number of the newest.
* Retention deletes in batches, while cascades delete the same rows, batches of
  a removed connector still arrive, and users edit what is counted from them.
* Codes and refresh tokens are presented twice, and the rows that remember their
  use are cleaned up.
* A board handler awaits between its checks and its changes, and a bulk request
  asks for all its changes at once and answers at the first error.

What makes each component correct is stated next to its model in section 3;
what could go wrong, line by line, is in `hazards` of `PROJECT.json`.

## 2. Plan

Done, in this order (the most important path first):

1. `EventOutbox` and its proofs, the heart of at-least-once delivery.
2. `EventLedger` (abstract) and `IngestDelivery`, which extends `EventOutbox`
   and composes it with readers, sockets, gateway and recordBatch.
3. `GatewaySessions`: registry, handshake, stamps.
4. `RpcCall` (abstract) and `RpcBridge` with its proofs.
5. `ConnectorLink` with its proofs.
6. `AlertSweeps` with its proofs, and the proofs of `GatewaySessions`.
7. `Workspace`, and on top of it `GrantLife` (abstract) and `Grants`, with proofs.
8. `EventStore`, also on `Workspace`: what hangs on a connector, with proofs.
9. `Board`: the handlers that change a queue.
10. `Reports`: analytics, status pages and alert conditions as operators, and
    `Insights`, which composes them with the sweeps of `AlertSweeps`.

11. Proofs of the delivery path (`FramesAreHeldBatches`, `IngestDelivery` and its
    refinement of `EventLedger`), of `Board`, of the backoff, and of the alert
    conditions and reports of `Insights`. With them every safety property that
    a run checks is proved.

Next:

12. `QueuePage`: the queue page of the dashboard, whose selection of jobs is kept
    while polls and a switch to another queue change what it is applied to.
13. `ApiKeys`: keys and the rate limit, a fixed window that lets everything pass
    when Redis fails.

## 3. Modules, runs and what they show

Bounds are CONSTANTS of the module they limit, and are marked `bound` there. A
definition headed "Faulty variant" is a plausible bug of the code next to it;
`PROJECT.json` names, for every property, the variant it catches. Each `.cfg`
says why its behaviours may end where it does not check deadlock.

### EventOutbox (`EventOutbox.cfg`, instance `MCEventOutbox`)

One action per operation: `Enqueue` (push, drop one event if over capacity,
flush a full buffer), `Tick` (timer or `flush`), `Attach` (`setTransport`, then
`resendUnacked`), `Detach`, `Ack`, `Stop`. An event is its arrival number. The
`Map` of unacked batches is the flat sequence of its events, each with its batch
id: a JavaScript `Map` iterates in insertion order, and batches are only ever
shortened from the front or deleted. UUIDs of batches are a counter.

Checked, and proved (`TypeOK` too, which needs no run any more):
`WithinCapacity`, `ArrivalOrder`, `Accounted` (each event is held, acked or
dropped, and only one of them), `CursorIsHighestAcked`, `DropsOldestFirst`, and
`FramesAreHeldBatches` (a frame is a batch the outbox still holds, no larger
than the protocol allows).

Bounds: five arrivals over two queues. With a flush threshold of 3 above a frame
limit of 2, one flush cuts two batches; capacity 4 makes both branches of
`dropOldest` run; stream ids 1 and 2 may arrive and be acked in either order.

### EventLedger, IngestDelivery (`IngestDelivery.cfg`, `IngestNoRetry.cfg`)

`EventLedger` is the promise: events happen, and `ingestEvents` gains at most
one row for each, never a row for anything else. `IngestDelivery` is the whole
path. `ReadEntry`/`LookupDone` are a stream entry and the job lookup awaited
for it; `RestartBegins`/`RestartEnds` the two halves of `restartQueue`;
`Connect`, `Break`, `Closed`, `LosePipe` the socket; `GatewayReceives`,
`RecordBatch`, `RecordFails`, `AckArrives` the way of a batch;
`GatewayCrash`, `ConnectorCrash`, `Boot` the processes. recordBatch calls of a
gateway run in order, because `ConvexHttpClient` queues mutations.

* `ImplementsLedger`: refinement of `EventLedger`, under every failure.
* `AckedIsRecorded`: what the connector forgets is in the table.
* `NothingVanishes`: a terminal event is unread, being looked up, in the outbox,
  recorded, or lost in one of the ways the code allows (capacity, crash, a
  reader started without a cursor).
* `DeliveredUnlessRefused`: under breaks, crashes and drops, each event the outbox
  took is recorded in the end, or dropped, or forgotten in a crash, or left
  behind by a recordBatch call that failed on a socket on which nothing happens
  any more.
* `IngestNoRetry` violates `AtLeastOnce`, delivery as the documentation states it:
  one failed recordBatch on a socket that stays healthy is never retried.

Bounds: one queue with two terminal events and one snapshot, capacity 2, two
sockets, one crash, one failed call, one restart: enough for a batch to be
resent after each kind of failure, with a later event in between. The last
socket the bound allows does not break, so that "in the end" means something.

### GatewaySessions (`GatewaySessions.cfg`, `GatewayGhost.cfg`)

Each socket goes through accept, hello (or timeout, or a wrong first message),
lookup, session, close. `Register` is everything that happens after the lookup's
answer. `calls` is the queue of connection stamps; `stamp` tells which of a
row's two stamps is the later one.

* `OpenSessionIsRegistered`: no open socket holds a session the registry forgot.
* `StampsSettle`: when no stamp of a connector is due any more, its row says
  connected exactly when the gateway holds a session. A call that fails, or dies
  with the gateway, is the only thing that makes the row wrong, and only until the
  next stamp of that connector is written: the history variable `missed` is true
  from the one to the other.
* `GhostsOnlyFromLookup`: the only closed sockets in the registry are those that
  closed during their lookup.
* `DeadPeersAreClosed`: a silent peer does not hold its socket for ever.
* `GatewayGhost` violates `CloseCleansUp`: a socket that closes while its token
  is looked up is registered afterwards, and nothing ever removes it.

Bounds: two connectors, two sockets, two failures: two sockets may race for one
connector, serve two, or follow each other.

### RpcCall, RpcBridge (`RpcBridge.cfg`, instance `MCRpcBridge`)

`RpcCall` is the promise to a caller. A request makes some changes (`Part`), each
at most once. "ok" is said only after all of them took effect; "rejected" (4xx)
only if none did or ever will; every other answer leaves open which ones did, or
still will. "failed" (500) is one of these: where a handler awaits several
changes with `Promise.all`, its first error is answered while the others still
run (`apply-bulk-job-action.ts:55`, `retry-queue-jobs.ts:24`).

`RpcBridge` has the web app's call, the gateway's handler with its pending map and
timers, the sessions, the frames, and the connector's handlers, step by step:
`RequestArrives` starts one, `Applies` asks for its changes, `CallEnds` is the end
of one of these, with effect or without, and `HandlerEnds` the response, which
`MayEnd` allows when. Changes that were asked for go on after the response, and
after the connector's death. A handler that stops at its first error is the case
in which the rest of the changes are refused.

* `ImplementsCall`: `RpcBridge` refines `RpcCall`.
* `CallsAreTracked`: a POST the gateway holds has one pending entry and one
  timer; nothing else has either; a closed session has no entry.
* `RefusedNeverRuns`: a refused request is never executed later.
* `AnsweredOnce`: an answer never changes.

Bounds: two requests of two changes each over two sessions, with symmetry:
requests, sockets and changes are interchangeable, nothing is chosen among them,
and no liveness is checked. Two changes are what an answer needs to come between.

### ConnectorLink (`ConnectorLink.cfg`)

`Dial`, `Opens`, `HelloAck`, `Unauthorized`, `HelloError`, `Ping`, `Silence`,
`WatchdogFires`, `CloseEvent`, `TimerFires`, `Stop`. A reconnect timer is named
by the socket whose close set it, so that two armed timers would be seen.

* `OneLink`: one live socket or one armed timer or neither, and the handles
  `stop` uses point at it.
* `TransportIsLive`: the outbox is never wired to a closed or unacknowledged
  socket, although `hello_ack` may come after `stop`.
* `StoppedForGood`, `StopEnds`: no timer, then no socket and no interval, once
  the connector is stopped or refused.
* `WaitsFollowFailures`: delays double with each dial that got no session, up to
  the cap, and start over only after one that did.
* `KeepsTrying`: a dial that is not acknowledged ends, and a close is followed
  by another dial.

Bounds: four dials with delays 1, 2, 3, 3 (base 1, cap 3): the cap is reached and
a session may fall between failures.

### AlertSweeps, Reports, Insights (`Insights.cfg`, instance `MCInsights`; `AlertLostMail.cfg`)

In `AlertSweeps`, `Evaluate` is the transaction of one sweep over all enabled
rules; `Send` and `SendFails` are the loop of emails after it; sweeps may overlap,
because the queue worker runs several jobs at once. What a rule's condition
evaluates to is an input, `TroubleBecomes`, that may change at any time: the
proofs and `AlertLostMail` are about any such changes, edits of a rule's fields
among them.

`Reports` holds what is read out of the rows, as operators over a table: the
index reads with their order and limit, buckets, percentiles, totals and heatmap
of `analytics.ts`; the bars of `statusPages.ts`; the conditions of `alerts.ts`;
and the times `upsertErrorGroup` keeps. `Insights` lets rows arrive with any
time of the connector's clock, deletes the first ones, lets time pass, and after
each step gives `AlertSweeps` what `computeRuleStatus` answers.

* `ReportsAgree`: each row read is in one bucket, with windows that begin and end
  inside one; buckets are exact unless the `truncated` flag is set, and then
  still after the oldest row read; totals, heatmap and series add up; a latency
  is the percentile of its bucket. The series may have one point more than
  `maxBuckets`, because `guardBucketMs` counts from the window's start and not
  from its first bucket.
* `UptimeReadsBack`: a page has one bar per day, of that day's rows; unless the
  page's limit was reached none is left out, and then none of the days after the
  oldest row shown; the queues' bars add up to the overall ones.
* `AlertsReadTheWindow`: a rule for new error groups finds the groups whose first
  failure is in its window, whatever was purged, but for groups of which an older
  failure came late; and time that passes starts no alert, except that a queue
  with waiting jobs is stuck once its last completion leaves the window.
* `SteadyStateIsSilent`: no transition is mailed twice; firing and resolved
  alternate by transition.
* `MailTellsTheState`: while no send fails, each transition is mailed, and the
  last mail of a rule agrees with its row if sweeps did not overlap. If they do,
  a "firing" mail may arrive after the "resolved" one that follows it.
* `AlertLostMail` violates `OneEmailPerTransition`: one failed email takes those
  of the rules behind it along, and no later sweep sends them.

Bounds: three rows of five kinds over two queues, at three times of which one is
before a page's strip and one may be a day ahead, with reads of the newest two:
a read is cut off, a bucket holds several times, a window is refused as too
fine. Once there is a rule there is one row, two rules that one failed job makes
fire, three sweeps and one failed send: a rule fires and resolves, two sweeps
overlap, a failed send has a rule behind it.

### Workspace, GrantLife, Grants (`Grants.cfg`, instance `MCGrants`)

`Workspace` has projects, members and invites, one action per mutation.
`DeleteProject` is the cascade; modules that hang rows on a project extend it.
`Grants` adds codes and token rows: `Authorize`, `ExchangeCode`, `ReplayCode`,
`RefreshTokens`, `ReplayToken`, `RevokeToken`, `DisconnectApp`, `CleanUp`, and the
three lifetimes as `CodeExpires`, `AccessExpires`, `RefreshExpires`. A row is
named by its hash.

* `OwnedWhileOpen`: an open project has its founder as an owner, and a deleted one
  no members, and no invites that could bring one.
* `SeatsAreEarned`: a membership comes from founding the project or from an invite
  for that user and role, which is spent by it.
* `OneLiveTokenPerCode`: of one code's tokens one row at most is live, and an
  access token works only while the grant is active.
* `ImplementsGrantLife`: `Grants` refines `GrantLife`: a code begins a grant once,
  and a grant that ended stays ended, whatever is replayed, and although the
  clean-up deletes the rows by which a replay is recognised.

Bounds: two users, one project, one invite; one client that is granted access
twice, three token rows: two rotations, or one and a second grant. The two codes
and the three tokens are interchangeable (symmetry).

### EventStore (`EventStore.cfg`, instance `MCEventStore`)

Connectors, `ingestEvents` as pairs of connector and uuid, the error group of a
connector's failures, its status page, its annotations, and retention.
`RecordBatch` is the whole mutation, dedupe and error group included;
`RemoveConnector` and `DeleteProjectRows` are the cascades; `RowAges` is time;
`CronCalls` and `PurgeExpired` are the cron job and its continuations.

* `NoOrphanRows`: no event, group, status page or annotation outlives its connector,
  and no connector its project. Alert rules are not among these (see section 6).
* `GroupsCountRows`: a group counts the failures in the table and those purged.
* `ResolvedIsSettled`: a resolved group has had no failure since, and a regression
  has had one.
* `LookupsAreUnique`: pages never share a slug or a connector, on which `unique()`
  would throw for ever.
* `PurgeDrainsBacklog`: when no call is due any more, nothing is left of what cron
  found.

Bounds: two connectors of one project, two events of which one is a failure, two
slugs, one row per purge call; a page can move to another slug and the old one be
taken, and an event can be resent after its row was purged.

### Board (`Board.cfg`, instance `MCBoard`)

One request, of any kind the board changes something for, step by step between
its awaits: `Arrive`, `Find`, `Check`, `Reread`, `Apply` for jobs; `ListJobs` for
retry all; `PauseFirst`, `Script`, `Ends` for a whole queue. Meanwhile jobs move,
the queue is paused, and the adapter is replaced (`Elsewhere`, `OthersPause`,
`SetQueue`). What BullMQ accepts is external.

A step is one script in Redis. A call for one job is one script; `obliterate` pauses
and then runs several, `promoteJobs` and `clean` loop, and an added job is read once
more before it is answered. An await may throw between any two (`Throws`, and the
outcomes of `Apply`): a 500 then leaves what was done, and in a bulk request what
is still being done.

* `RefusedChangesNothing`: a request answered 4xx has changed nothing and will not,
  the pause of `obliterate` included. It says nothing of a 500, after which some jobs
  may be changed and others not; for that, `ImplementsCall`.
* `OptionsHold`: a request keeps to the options of the adapter it found: read-only,
  `allowRetries`, and `allowCompletedRetries` but for one hole: a job that a bulk
  retry's check saw failed, and that ran elsewhere and completed before its state
  was read a second time, is run again though completed jobs may not be. The
  history variable `checked` holds the states the checks saw.

Bounds: two jobs in any states and every combination of options; a bulk request
names both, or one of them twice, so that one step of several fails.

## 4. Fairness

Fairness is assumed of what the runtime guarantees and of nothing else.

* `IngestDelivery`: timers fire (`FlushTimer`), promises settle (`LookupDone`,
  `RecordBatch`), an open socket delivers (`GatewayReceives`, `AckArrives`), a
  closed one emits its event (`Closed`), the readers read, a process boots, and
  a dial succeeds in the end (`Connect`; `KeepsTrying` of `ConnectorLink` is why
  there is always another dial). Nothing fair is assumed of jobs, snapshots,
  breaks, losses, failures or crashes.
* `GatewaySessions`: the hello timer and the heartbeat fire, lookups settle, and
  a closing handshake ends (`ws` destroys the socket after its own timeout).
  Peers owe nothing.
* `ConnectorLink`: time passes, intervals and timers fire, and a socket that was
  closed or terminated emits `close`. The gateway owes nothing: neither an
  answer to hello nor a ping.

All other modules are checked for safety only.

## 5. Proofs

The theorems hold for every value of the constants that satisfies the named
assumptions of the modules, which TLC evaluates in every run.

Each proof module is about one component or about two that share a proof; a
theorem `Invariance` (or one named for the component) states the inductive
invariant, and the properties follow from it.

**`DeliveryProofs`**, first about `EventOutbox` (assumes `OutboxAssumption`:
positive batch sizes and capacity). `IInv` is `OutboxInv` (`TypeOK`, which bounds
the batch ids in use by the next one, `WithinCapacity`, `ArrivalOrder`, and that
a batch is at most `MaxBatchSize` entries next to each other), `FramesWhole`,
`Accounted` and `CursorIsHighestAcked`. None is inductive without the others: the
order needs the bound on ids, the account needs the order, since a drop or an ack
removes exactly the events it names only because no event is held twice, and the
size of a frame needs that its batch lies in one piece. Lemmas about cutting,
shifting and cutting out a run of a sequence carry the steps; each operation has a
lemma of its own. From it `TypeCorrect`, `Bounded`, `Ordered`, `NothingLost`,
`ResumeCursor`, `FramesFit`, and `EvictsOldest` for the action property
`DropsOldestFirst`.

Then about `IngestDelivery`, for any queues, sockets, streams, failures and
crashes (assumes `DeliveryAssumption` too). A crash empties the outbox, so its
account does not survive; `OutboxInv` does, and `DInv` adds what is under way:
* `LinksOK`: a frame on a socket, or a mutation at Convex, names a batch that was
  cut, and carries at least what the outbox still holds of it, since evictions
  only make later frames of a batch smaller; an ack names a batch of which all
  that is still held is in the table. So an ack of an old, larger or repeated
  frame is harmless: `AckedIsRecorded`.
* `ReadersOK`: nothing below where a reader stands, or would start from if any of
  the events looked up or held were acked, is accounted for nowhere. That
  quantifies over the cursors a restart may find, not only the present one;
  `NothingVanishes` alone says nothing of where the next restart begins.

`Onward` says what the outbox's operations leave alone, so that each step of
delivery is proved from it and not from the outbox's definitions. From `DInv`:
`AckedRecorded`, `NoneVanishes`, and `LedgerImplemented`: each step is a step of
`EventLedger` or leaves it alone.

**`RequestProofs`**, first about `RpcBridge` (assumes `RpcAssumption`: `None` is
no socket). `IInv` adds to `CallsAreTracked`: a request has a session exactly when
it was forwarded, and until then nothing of it was asked or done; it is one frame
or one handler, on that session and nowhere else, and nothing was asked before its
handler applies it (`OneFrame`); a change is asked once, so it is made once
(`CallsOnce`); and after a response "ok" every change was made, after "rejected" none
was asked for, both with neither frame nor handler left to ask. Nothing is claimed
of a "failed" request but that its handler is over. From it `TypeCorrect`,
`Tracked`, `NeverQueued`, `OneAnswer`, and `Implements`: every step is a step of
`RpcCall` or a stutter.

Then about `Board` (assumes `BoardAssumption`: finitely many jobs). `BoardInv`
says of the request in progress what it has found out by its phase (`Earned`: the
adapter's options allow what it asks; a single retry that is about to be applied
has read a state it may retry from), what it may have changed (`Harmless`:
nothing before the last check, nothing with a refusal) and what its checks saw
(`Remembers`: a bulk retry that is applied without permission for completed jobs
saw each of its jobs failed). From it
`BoardTypeCorrect`, `RefusedLeaveTheQueue` and `OptionsAreKept`.

**`ConnectorLinkProofs`** (assumes `LinkAssumption`). `TypeOK`, `OneLink`,
`TransportIsLive` and `StoppedForGood` are inductive together: a timer fires only
while nothing is live, so its dial makes the only socket; a refusal finds no
timer because its socket is live; a close finds no other socket the transport
could belong to. From it the four, and `NoDialOnceStopped`. For `BacksOff`,
`Paced` adds that the socket that lives, or the one that armed the timer, was
dialled last, and that `attempt` counts the failed dials before it.

**`GatewaySessionsProofs`** (assumes `SessionsAssumption`). `IInv` is
`SessionsInv` (types; a registered socket is a session of that connector;
`OpenSessionIsRegistered`; only a socket that closed before its lookup ended can
become a session when it is closed), the timers, and `CallsTell`: the last
stamp due for a connector tells whether it has a session; if none is due and none
was missed since one was written, the row tells it. `StampsSettle` alone says
nothing while calls are queued, and no step keeps it without the rest. From it
the three safety
properties and `SessionsTypeOK`.

**`WorkspaceProofs`, `GrantsProofs`** (no assumption). `WorkspaceInv` (types,
`OwnedWhileOpen`, `SeatsAreEarned`) is kept by every step of `Workspace`, and so by
the modules that extend it. `GrantsProofs` adds `RowsInv`: a live row was issued on a
spent code, shares that code with no other live row, and its access token does not
outlive its refresh token. The refinement
`GrantsImplementGrantLife` rests on `RowsAge`: a code only moves forward, and a row
that bears a grant comes from another one or from an issued code.

**`EventStoreProofs`** (assumes `StoreAssumption`: finite sets of connectors and
events, a positive batch). The five properties are inductive together with the
types and one more part, that a connector that is not open has no purge count: the count of a group needs that no rows hang on a closed connector,
and the backlog that only aged rows are in it.

**`InsightsProofs`**, first about `AlertSweeps` (assumes `AlertAssumption`). `IInv`:
the odd turns of a rule are to firing, what waits or was mailed tells so, a
transition waits in one sweep only and was not mailed then. Then `MInv`, which
needs the first: a sweep has one notification per rule, mailed and waiting turns
add up, and while sweeps do not overlap what waits is the latest turn. From them
`SweepsAreSilent`, `MailsTellTheState` and `AlertsTypeOK`.

`InsightsImplementSweeps` shows that `Insights` implements `AlertSweeps` (the
condition read from the rows is one way it may change), so that `RealRulesAreSilent`.
`ConditionsReadTheWindow` is an action property about the conditions themselves
(assumes `InsightsAssumption`: what `guardRuleFields` accepts, and times as
numbers). It needs `Data`: what `upsertErrorGroup` keeps of a queue is its earliest
and newest failure, unless an older one came late. That time starts no alert rests
on windows that only lose rows, at their old end: a threshold that is reached
later was reached before, and the newest snapshot of a queue is the same one.

`AnalyticsAddUp` and `BarsReadBack` are invariants that no step has to preserve:
they hold of every table, clock and window of the right types (`Data`).
`InsightsAssumption` gives the fields of rows, and windows with a positive bucket,
which the dashboard's ranges (`getRangeWindow`) yield; `ReportsAssumption` finitely
many queues. Four groups of lemmas carry them:
* sums (`SumIs`, `SumOfParts`): the sum of the sizes of disjoint sets is the size of
  their union. `SumFunction` is a fold, and no induction is available; instead,
  whatever satisfies the equation of the fold is the fold, since a smallest
  set on which they differ (`Least`) leads to a smaller one;
* limited reads (`OrderIs`, `NewestIs`): `take(n)` of an index returns a set that
  is closed towards newer rows, of n rows or of all;
* periods (`InPeriod`, `BucketIs`, `StripIs`): each time lies in one bucket of a
  window, in one cell of the heatmap, and in one day, of which a strip has as
  many as it should;
* ranks (`EveryRank`, `PercentileIs`): in a finite set of rows each rank is taken
  once, so a percentile is one of the values and has the right share below it.

Model-checked only: all liveness (`DeliveredUnlessRefused`, `DeadPeersAreClosed`,
`KeepsTrying`, `StopEnds`). The prover has no support for fairness or `ENABLED`.

## 6. What is not modelled

* Contents: job data, error messages, board routes and JSON schemas are identities
  or absent. That a frame parses is assumed, except for the batch size limit.
* Authorisation and tokens' secrecy; only whether a token is known matters here.
  Registration of OAuth clients, redirect URIs and code verifiers are preconditions.
* The readers' graceful stop, and two overlapping `restartQueue` calls (nothing in
  the repository makes them).
* The daily digest, API keys, saved dashboards and logos: single rows that one
  request writes and nothing else refers to, or reads. The rate limit is a counter
  of a fixed window that lets requests pass when Redis fails.
* The connector an alert rule names (`schema.ts:156`). `removeConnector` leaves the rule,
  whose sweeps go on and find no rows of that connector, unless a user edits it;
  with its project it is deleted (`projects.ts:202`).
* Board requests that only read, `update-data` and `concurrency`.
* Server adapters, the React dashboard, the marketing site, its documentation
  pages and the OpenAPI document: about half of the repository's lines. They
  translate and render; the one place with state worth a model is the queue page
  (see the plan).

### Where documents and code differ, beyond the findings

Met while modelling; no run is about them.

* `apps/web/src/app/docs/api/content.ts:142` calls a bulk action all or nothing. All ids are checked
  first, but each job is then changed by a call of its own, all awaited together: a
  job that moves in between fails the request with the others changed, or about to
  be after the 500 went out (`apply-bulk-job-action.ts:55`).
* `apps/web/src/app/docs/alerts/content.ts` says that `new_error_group` fires when a group was first
  seen within the window. A late failure sets `lastSeenTs` back (`errors.ts:46`), and
  the rule finds groups by that index, so such a group is missed: the exception
  in `AlertsReadTheWindow`.
* `apps/web/src/app/docs/status-pages/content.ts` promises 90 days of uptime. A page reads the newest
  250 rows, snapshots included (`statusPages.ts:74`), and rows live for seven days
  (`ingest.ts:13`).
* The comment at `projects.ts:160` says that every row scoped to a project is
  deleted with it; OAuth codes and tokens stay until they expire. They resolve to
  nobody, because the membership is gone.
* `apps/web/src/app/docs/hub/content.ts:39` reserves the deletion of connectors to owners and admins;
  `removeConnectorForUser` asks for membership only.
* `truncated` is also true when a window holds exactly the 1000 rows that were read.

## 7. Running

    tlc -config EventOutbox.cfg MCEventOutbox.tla
    tlc -config IngestDelivery.cfg IngestDelivery.tla
    tlc -config GatewaySessions.cfg GatewaySessions.tla
    tlc -config RpcBridge.cfg MCRpcBridge.tla
    tlc -config ConnectorLink.cfg ConnectorLink.tla
    tlc -config Insights.cfg MCInsights.tla
    tlc -config Grants.cfg MCGrants.tla
    tlc -config EventStore.cfg MCEventStore.tla
    tlc -config Board.cfg MCBoard.tla
    for m in Delivery GatewaySessions Request ConnectorLink Insights Workspace Grants EventStore
    do tlapm ${m}Proofs.tla; done

The longest run, `IngestDelivery`, takes about three minutes on two cores, `RpcBridge`
and `Insights` two, `Board` one and a half, and `EventStore` one. `IngestNoRetry`, `GatewayGhost` and `AlertLostMail`
are expected to end in a counterexample; `findings` in `PROJECT.json` tells what
each shows.
