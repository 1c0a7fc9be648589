------------------------------- MODULE Insights -------------------------------
(***************************************************************************)
(* The rows a connector sends, and what is told about them: recordBatch    *)
(* inserts rows and keeps the error groups, retention deletes rows, time   *)
(* passes, and with each such step the reports of Reports change, and the  *)
(* conditions of the alert rules that the sweeps of AlertSweeps evaluate.  *)
(*                                                                         *)
(* One connector; a rule for a whole project adds up, or tries in turn,    *)
(* what it finds for each.  A rule's fields are given by its number; that  *)
(* they may be edited is the subject of AlertSweeps alone.                 *)
(***************************************************************************)
EXTENDS AlertSweeps, Reports

CONSTANTS
  Content,    \* what a row says, its time apart
  Conditions, \* the fields of rules: type, queue, window and threshold
  RuleOf,     \* those of each rule
  Window,     \* analytics requests: from, to and bucket size
  Time,       \* of the connector's clock and of Convex's
  MaxAhead,   \* bound: how far the connector's clock is ahead
  MaxRows,    \* bound: rows ever inserted
  MaxWatched  \* bound: rows inserted once there is a rule

RuleType == {"failed_threshold", "stuck_queue", "worker_loss",
             "new_error_group"}

ASSUME InsightsAssumption ==
  /\ Content \subseteq
       [type : {"completed", "failed"}, queue : Queue, took : {None} \cup [ms : Int]]
       \cup [type : {"snapshot"}, queue : Queue, waiting : Nat, workers : Nat]
  /\ Time \subseteq Nat
  /\ Window \subseteq [from : Nat, to : Nat, size : Nat \ {0}]
  /\ RuleOf \in [Rule -> Conditions]
  /\ \A r \in Conditions :
       /\ r.type \in RuleType /\ r.window \in Nat \ {0}
       /\ r.type = "failed_threshold" => r.threshold \in Nat \ {0}
       /\ r.type \in {"stuck_queue", "worker_loss"} => r.queue \in Queue

VARIABLES
  now,       \* Date.now() in Convex
  inserted,  \* number of rows inserted
  table,     \* ingestEvents of the connector
  groups,    \* per queue, the times of its row of errorGroups
  earliest,  \* per queue, the earliest failure ever recorded (history)
  late       \* queues with a failure recorded after a newer one (history)

dataVars == <<now, inserted, table, groups, earliest, late>>
insightsVars == <<vars, dataVars>>

InsightsInit ==
  /\ Init
  /\ now \in Time
  /\ inserted = 0
  /\ table = <<>>
  /\ groups = [q \in Queue |-> None]
  /\ earliest = [q \in Queue |-> None]
  /\ late = {}

(* What computeRuleStatus answers after the step.                           *)
Rejudge ==
  TroubleBecomes([r \in Rule |-> Firing(RuleOf[r], table', groups', now')])

Failed(c, ts) ==
  /\ groups' = [groups EXCEPT ![c.queue] = SeenAt(@, ts)]
  /\ earliest' = [earliest EXCEPT ![c.queue] =
       IF @ = None \/ @.ts > ts THEN [ts |-> ts] ELSE @]
  /\ late' = IF groups[c.queue] # None /\ groups[c.queue].last > ts
             THEN late \cup {c.queue} ELSE late

Row(c, ts) ==
  [field \in DOMAIN c \cup {"ts"} |-> IF field = "ts" THEN ts ELSE c[field]]

(* recordBatch inserts a row, with whatever time the connector gave it.     *)
Arrive(c, ts) ==
  /\ inserted < (IF \E r \in Rule : status[r] # "new" THEN MaxWatched ELSE MaxRows)
  /\ ts <= now + MaxAhead
  /\ inserted' = inserted + 1
  /\ table' = Append(table, Row(c, ts))
  /\ IF c.type = "failed" THEN Failed(c, ts)
     ELSE UNCHANGED <<groups, earliest, late>>
  /\ UNCHANGED now
  /\ Rejudge

(* purgeExpired deletes rows, the ones inserted first; error groups stay.   *)
(* How many are past the retention is left open.                            *)
Purge(n) ==
  /\ table' = SubSeq(table, n + 1, Len(table))
  /\ UNCHANGED <<now, inserted, groups, earliest, late>>
  /\ Rejudge

Tick(t) ==
  /\ t > now
  /\ now' = t
  /\ UNCHANGED <<inserted, table, groups, earliest, late>>
  /\ Rejudge

Alerts ==
  \/ \E r \in Rule :
       \/ /\ inserted <= MaxWatched
          /\ \E as \in {"enabled", "disabled"} : Create(r, as)
       \/ \E as \in {"enabled", "disabled"} : Update(r, as)
       \/ Remove(r)
  \/ \E s \in Sweep :
       \/ Evaluate(s)
       \/ \E n \in todo[s] : Send(s, n) \/ SendFails(s, n)

InsightsNext ==
  \/ \E c \in Content, ts \in Time : Arrive(c, ts)
  \/ \E n \in 1 .. Len(table) : Purge(n)
  \/ \E t \in Time : Tick(t)
  \/ Alerts /\ UNCHANGED dataVars

InsightsSpec == InsightsInit /\ [][InsightsNext]_insightsVars

-----------------------------------------------------------------------------
(* What a reader would count himself.                                       *)
RowsOf(type, q, from, to) ==
  Cardinality({i \in Within(table, q, from, to) : table[i].type = type})

Exact(bar, q, from, to) ==
  bar = [completed |-> RowsOf("completed", q, from, to),
         failed    |-> RowsOf("failed", q, from, to)]

AtMost(bar, q, from, to) ==
  /\ bar.completed <= RowsOf("completed", q, from, to)
  /\ bar.failed <= RowsOf("failed", q, from, to)

Whole(f) == Ext!SumFunction([x \in DOMAIN f |-> f[x].completed + f[x].failed])

Over(I) == Cardinality(Terminal(table, I))

(* Is t the p-th percentile: no more than p percent of the times are below  *)
(* it, and more than p percent are not above it?                            *)
IsRank(t, I, p) ==
  LET timed == Timed(table, I)
      Below == {i \in timed : table[i].took.ms < t.ms}
      Above == {i \in timed : table[i].took.ms > t.ms}
  IN IF timed = {} THEN t = None
     ELSE /\ 100 * Cardinality(Below) <= p * Cardinality(timed)
          /\ 100 * Cardinality(timed \ Above) > p * Cardinality(timed)
          /\ \E i \in timed : table[i].took = t

(* The part of bucket b that lies in a window.                              *)
First(w, b) == IF b < w.from THEN w.from ELSE b
Last(w, b) == IF b + w.size > w.to THEN w.to ELSE b + w.size - 1

PointAgrees(w, q, b) ==
  LET point == Throughput(table, q, w.from, w.to, w.size)[b]
      read == Read(table, q, w.from, w.to)
  IN /\ AtMost(point, q, First(w, b), Last(w, b))
     /\ ~IsTruncated(read) \/ (\E i \in read : table[i].ts < b) =>
          Exact(point, q, First(w, b), Last(w, b))

TimesAgree(w, q, b) ==
  LET times == LatencySeries(table, q, w.from, w.to, w.size)[b]
      I == InBucket(table, Read(table, q, w.from, w.to), b, w.size)
  IN IsRank(times.p50, I, 50) /\ IsRank(times.p95, I, 95)

SeriesAgree(w, q) ==
  /\ Cardinality(Buckets(w.from, w.to, w.size)) <= MaxBuckets + 1
  /\ Whole(Throughput(table, q, w.from, w.to, w.size)) =
       Over(Read(table, q, w.from, w.to))
  /\ \A b \in Buckets(w.from, w.to, w.size) :
       PointAgrees(w, q, b) /\ TimesAgree(w, q, b)

(* The line of a queue has all of its jobs, unless the flag is set.         *)
LineAgrees(w, q) ==
  LET line == Totals(table, w.from, w.to)[q]
      jobs == line.completed + line.failed
      all == Whole(Throughput(table, q, w.from, w.to, w.size))
  IN /\ jobs \in 1 .. all
     /\ ~IsTruncated(Read(table, AnyQueue, w.from, w.to)) => jobs = all

(* The reports of the analytics page agree with the rows and with each      *)
(* other (apps/web/convex/analytics.ts): each row that was read falls into  *)
(* one bucket of a series, also at the edges of a window that does not      *)
(* begin or end with a bucket, of which there is one more than MaxBuckets   *)
(* at most; a bucket is exact unless the flag says that rows were left out, *)
(* and then it is if an older row was read; a latency is the percentile of  *)
(* its bucket; and the totals, the heatmap and the series add up.           *)
ReportsAgree ==
  \A w \in Window : ~IsTooFine(w.from, w.to, w.size) =>
    LET over == Over(Read(table, AnyQueue, w.from, w.to))
        totals == Totals(table, w.from, w.to)
    IN /\ \A q \in Queue \cup {AnyQueue} : SeriesAgree(w, q)
       /\ Whole(totals) = over
       /\ Ext!SumFunction(Heatmap(table, w.from, w.to)) = over
       /\ \A q \in DOMAIN totals : LineAgrees(w, q)

BarAgrees(q, d) ==
  LET shown == Shown(table, q, now)
      bar == Bars(table, shown, now)[d]
  IN /\ AtMost(bar, q, d, d + Day - 1)
     /\ Cardinality(shown) < MaxShown \/ (\E i \in shown : table[i].ts < d) =>
          Exact(bar, q, d, d + Day - 1)

BarsAddUp(names, d) ==
  LET overall == Overall(table, names, now)[d]
      bar == [q \in names |-> Bars(table, Shown(table, q, now), now)[d]]
  IN /\ overall.completed = Ext!SumFunction([q \in names |-> bar[q].completed])
     /\ overall.failed = Ext!SumFunction([q \in names |-> bar[q].failed])

(* A status page (getPublicUptime) has a bar for each of its days, today    *)
(* included, of rows of that day only; the bars leave nothing out unless    *)
(* the page's limit was reached, and then nothing of the days after the     *)
(* oldest row shown; and the bars of its queues add up to the overall ones. *)
UptimeReadsBack ==
  /\ Cardinality(Strip(now)) = StripDays
  /\ \A d \in Strip(now) :
       /\ \A q \in Queue \cup {AnyQueue} : BarAgrees(q, d)
       /\ \A names \in (SUBSET Queue) \ {{}} : BarsAddUp(names, d)

(* "an error group first seen within window_minutes exists"                 *)
(* (apps/web/src/app/docs/alerts/content.ts): what a rule finds is what was *)
(* recorded, whatever retention deleted since, but for groups of which an   *)
(* older failure came later (errors.ts moves lastSeenTs back).              *)
NewGroupsAreTold ==
  \A r \in Conditions : r.type = "new_error_group" =>
    LET from == now - r.window
        told == NewGroups(groups, from)
        new == {q \in Queue : earliest[q] # None /\ earliest[q].ts >= from}
    IN new \ late \subseteq told /\ told \ late \subseteq new

(* Time that passes without events ends alerts and starts none; but a queue *)
(* with jobs waiting is stuck once its last completion leaves the window.   *)
TimeStartsNoAlert ==
  \A t \in Time, r \in Conditions :
    Tick(t) /\ Firing(r, table, groups, now)' =>
      \/ Firing(r, table, groups, now)
      \/ /\ r.type = "stuck_queue"
         /\ \E i \in Since(table, r.queue, now - r.window) :
              table[i].type = "completed" /\ table[i].ts < t - r.window

(* The conditions of the rules (computeRuleStatus) over the life of rows.   *)
AlertsReadTheWindow ==
  [][NewGroupsAreTold' /\ TimeStartsNoAlert]_insightsVars
=============================================================================
