-------------------------------- MODULE Reports --------------------------------
(***************************************************************************)
(* What the web app reads out of the recorded events: the series, totals   *)
(* and heatmap of the analytics page (apps/web/convex/analytics.ts), the   *)
(* bars of a public status page (statusPages.ts) and the conditions of     *)
(* alert rules (alerts.ts).  All of it is computed from the rows anew for  *)
(* each request, so these are operators over a table, without state.       *)
(*                                                                         *)
(* A table holds the rows of one connector as a sequence, in the order     *)
(* they were inserted.  `ts` is the connector's clock: rows may come late, *)
(* and bear a time to come.  A report reads a set I of indices of rows.    *)
(***************************************************************************)
EXTENDS Integers, Sequences, FiniteSets

Ext == INSTANCE SequencesExt

CONSTANTS
  Queue,
  AnyQueue,    \* in place of a queue: all of them
  MaxRead,     \* maxEventsPerQuery of analytics.ts
  MaxBuckets,
  MaxShown,    \* eventLimit of a status page
  Hour, Day,
  StripDays    \* the 90 days of a status page

ASSUME ReportsAssumption ==
  /\ IsFiniteSet(Queue) /\ AnyQueue \notin Queue
  /\ {MaxRead, MaxBuckets, MaxShown, Hour, Day, StripDays} \subseteq Nat \ {0}
  /\ Day % Hour = 0

None == [none |-> TRUE]

-----------------------------------------------------------------------------
(* The index by_connector_ts, or by_connector_queue_ts.                     *)
Since(tab, q, from) ==
  {i \in DOMAIN tab : tab[i].ts >= from /\ q \in {AnyQueue, tab[i].queue}}

Within(tab, q, from, to) == {i \in Since(tab, q, from) : tab[i].ts <= to}

(* Does row i come after row j in that index?                               *)
Follows(tab, i, j) ==
  tab[i].ts > tab[j].ts \/ (tab[i].ts = tab[j].ts /\ i > j)

(* order("desc") and take(n).                                               *)
Newest(tab, I, n) ==
  {i \in I : Cardinality({j \in I : Follows(tab, j, i)}) < n}

Count(tab, I, type) == Cardinality({i \in I : tab[i].type = type})

(* A row's job is over: completed or failed.                                *)
Terminal(tab, I) == {i \in I : tab[i].type \in {"completed", "failed"}}

-----------------------------------------------------------------------------
(* queryEvents, and the flag that it may have left something out.           *)
Read(tab, q, from, to) == Newest(tab, Within(tab, q, from, to), MaxRead)

IsTruncated(I) == Cardinality(I) = MaxRead

(* guardBucketMs throws.                                                    *)
IsTooFine(from, to, size) == (to - from) \div size + 1 > MaxBuckets

BucketOf(ts, size) == (ts \div size) * size

(* Faulty variant: the loop ends before the last bucket.                    *)
BucketsOpen(from, to, size) ==
  {b \in BucketOf(from, size) .. BucketOf(to, size) - 1 : b % size = 0}

(* listBucketTimestamps.                                                    *)
Buckets(from, to, size) ==
  {b \in BucketOf(from, size) .. BucketOf(to, size) : b % size = 0}

InBucket(tab, I, b, size) == {i \in I : BucketOf(tab[i].ts, size) = b}

(* throughputSeries.                                                        *)
Throughput(tab, q, from, to, size) ==
  LET read == Read(tab, q, from, to)
      I(b) == InBucket(tab, read, b, size)
  IN [b \in Buckets(from, to, size) |->
        [completed |-> Count(tab, I(b), "completed"),
         failed    |-> Count(tab, I(b), "failed")]]

(* percentile, p in hundredths: its index in n sorted values.               *)
Percentile(n, p) == Ext!Min({n - 1, (p * n) \div 100})

(* A row need not say what its job took (None).                             *)
Timed(tab, I) == {i \in Terminal(tab, I) : tab[i].took # None}

(* Does row i come before row j when they are sorted by what they took?     *)
Shorter(tab, i, j) ==
  \/ tab[i].took.ms < tab[j].took.ms
  \/ tab[i].took.ms = tab[j].took.ms /\ i < j

(* The row with n others before it.                                         *)
Ranked(tab, I, n) ==
  CHOOSE i \in I : Cardinality({j \in I : Shorter(tab, j, i)}) = n

(* percentileOrNull of what the jobs of I took.                             *)
Latency(tab, I, p) ==
  LET timed == Timed(tab, I)
  IN IF timed = {} THEN None
     ELSE tab[Ranked(tab, timed, Percentile(Cardinality(timed), p))].took

(* latencySeries, for either of its two times.                              *)
LatencySeries(tab, q, from, to, size) ==
  LET read == Read(tab, q, from, to)
      I(b) == InBucket(tab, read, b, size)
  IN [b \in Buckets(from, to, size) |->
        [p50 |-> Latency(tab, I(b), 50), p95 |-> Latency(tab, I(b), 95)]]

(* queueTotals: a line for each queue with a job that is over.              *)
Totals(tab, from, to) ==
  LET over == Terminal(tab, Read(tab, AnyQueue, from, to))
      I(q) == {i \in over : tab[i].queue = q}
  IN [q \in {tab[i].queue : i \in over} |->
        [completed |-> Count(tab, I(q), "completed"),
         failed    |-> Count(tab, I(q), "failed")]]

(* heatmap: the day of the week (day 0 was a Thursday) and the hour.        *)
Heatmap(tab, from, to) ==
  LET over == Terminal(tab, Read(tab, AnyQueue, from, to))
      Cell(ts) == <<(ts \div Day + 4) % 7, (ts % Day) \div Hour>>
  IN [c \in (0 .. 6) \X (0 .. Day \div Hour - 1) |->
        Cardinality({i \in over : Cell(tab[i].ts) = c})]

-----------------------------------------------------------------------------
DayStart(ts) == (ts \div Day) * Day

Cutoff(now) == DayStart(now) - (StripDays - 1) * Day

(* The days of the strip, today included.                                   *)
Strip(now) == {d \in Cutoff(now) .. DayStart(now) : (d - Cutoff(now)) % Day = 0}

(* Faulty variant: without order("desc").                                   *)
ShownOldest(tab, q, now) ==
  LET I == Since(tab, q, Cutoff(now))
  IN {i \in I : Cardinality({j \in I : Follows(tab, i, j)}) < MaxShown}

(* What bucketConnectorEvents or bucketQueueEvents reads for a page.        *)
Shown(tab, q, now) == Newest(tab, Since(tab, q, Cutoff(now)), MaxShown)

(* bucketEventsByDay: rows of a day to come fall into no bucket.            *)
Bars(tab, I, now) ==
  LET Of(d) == {i \in I : DayStart(tab[i].ts) = d}
  IN [d \in Strip(now) |->
        [completed |-> Count(tab, Of(d), "completed"),
         failed    |-> Count(tab, Of(d), "failed")]]

(* getPublicUptime: the overall bars of a page for a set of queues, which   *)
(* are all if none is named.  A name listed twice would count twice.        *)
Overall(tab, names, now) ==
  Bars(tab, IF names = {} THEN Shown(tab, AnyQueue, now)
            ELSE UNION {Shown(tab, q, now) : q \in names}, now)

-----------------------------------------------------------------------------
(* latestSnapshotsByQueue, for one queue: of two with the same time, the    *)
(* first one inserted.                                                      *)
LatestSnapshot(tab, I, q) ==
  {i \in I : /\ tab[i].type = "snapshot" /\ tab[i].queue = q
             /\ \A j \in I : tab[j].type = "snapshot" /\ tab[j].queue = q =>
                  tab[j].ts < tab[i].ts \/ (tab[j].ts = tab[i].ts /\ j >= i)}

Failing(tab, I, rule) == Count(tab, I, "failed") >= rule.threshold

Stuck(tab, I, q) ==
  /\ \E i \in LatestSnapshot(tab, I, q) : tab[i].waiting > 0
  /\ ~\E i \in I : tab[i].type = "completed" /\ tab[i].queue = q

Deserted(tab, I, q) == \E i \in LatestSnapshot(tab, I, q) : tab[i].workers = 0

(* The index by_connector_last_seen, and the filter behind it.              *)
NewGroups(groups, from) ==
  {q \in Queue : /\ groups[q] # None
                 /\ groups[q].last >= from /\ groups[q].first >= from}

(* computeRuleStatus, for a rule of one connector.                          *)
Firing(rule, tab, groups, now) ==
  LET from == now - rule.window
      I == Since(tab, rule.queue, from)
  IN CASE rule.type = "failed_threshold" -> Failing(tab, I, rule)
       [] rule.type = "stuck_queue" -> Stuck(tab, I, rule.queue)
       [] rule.type = "worker_loss" -> Deserted(tab, I, rule.queue)
       [] rule.type = "new_error_group" -> NewGroups(groups, from) # {}

(* Faulty variant: the patch sets firstSeenTs too.                          *)
SeenAnew(group, ts) == [first |-> ts, last |-> ts]

(* upsertErrorGroup, one fingerprint per queue: its two times.              *)
SeenAt(group, ts) ==
  IF group = None THEN [first |-> ts, last |-> ts] ELSE [group EXCEPT !.last = ts]
=============================================================================
