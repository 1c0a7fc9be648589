------------------------------ MODULE EventStore ------------------------------
(***************************************************************************)
(* What hangs on a connector in Convex: its events, the error groups       *)
(* counted from them, its status page and deploy annotations, and the      *)
(* cascades and the retention that delete them (apps/web/convex/ingest.ts, *)
(* errors.ts, connectors.ts, statusPages.ts, deployAnnotations.ts,         *)
(* crons.ts), on top of the projects of Workspace.  Every action is one    *)
(* mutation, except the ones that let time pass.                           *)
(*                                                                         *)
(* All failures of a connector have one fingerprint here: groups of        *)
(* different fingerprints share nothing.                                   *)
(***************************************************************************)
EXTENDS Workspace, FiniteSets

CONSTANTS
  Connector,   \* ids of connectors; an id is never used twice
  Event,       \* uuids a connector mints
  Failure,     \* those of job.failed events with a reason
  Slug,
  PurgeBatch,  \* PURGE_BATCH_SIZE
  MaxCalls,    \* bound: purgeExpired calls under way
  MaxPurged    \* bound: failures purged before the last batch of a connector

ASSUME StoreAssumption ==
  /\ Failure \subseteq Event
  /\ IsFiniteSet(Connector) /\ IsFiniteSet(Event)
  /\ PurgeBatch \in Nat \ {0} /\ {MaxCalls, MaxPurged} \subseteq Nat

VARIABLES
  connector,   \* per id, its row
  rows,        \* ingestEvents, as pairs of connector and uuid
  aged,        \* the rows older than the retention
  group,       \* per connector, its row of errorGroups
  page,        \* statusPageConfigs
  noted,       \* connectors with deployAnnotations
  calls,       \* purgeExpired calls that are due: cron's and continuations
  backlog,     \* rows that were aged when cron last called (history)
  purged,      \* per connector, the failures retention has deleted (history)
  unseen       \* groups with a failure since they were resolved (history)

purgeVars == <<calls, backlog>>
childVars == <<rows, aged, group, page, noted, purged, unseen>>
storeVars == <<connector, childVars, purgeVars>>
vars == <<workspaceVars, storeVars>>

NoRow == [state |-> "unused"]

ConnectorRow == [state : {"open", "removed"}, project : Project]
GroupRow == [state : {"open", "resolved", "ignored"}, count : Nat,
             regression : BOOLEAN]
PageRow == [connector : Connector, slug : Slug]

StoreTypeOK ==
  /\ connector \in [Connector -> ConnectorRow \cup {NoRow}]
  /\ rows \subseteq Connector \X Event /\ aged \subseteq rows
  /\ group \in [Connector -> GroupRow \cup {NoRow}]
  /\ page \subseteq PageRow
  /\ noted \subseteq Connector
  /\ calls \in Nat /\ backlog \subseteq aged
  /\ purged \in [Connector -> Nat]
  /\ unseen \subseteq Connector

Init ==
  /\ WorkspaceInit
  /\ connector = [c \in Connector |-> NoRow]
  /\ rows = {} /\ aged = {}
  /\ group = [c \in Connector |-> NoRow]
  /\ page = {} /\ noted = {}
  /\ calls = 0 /\ backlog = {}
  /\ purged = [c \in Connector |-> 0]
  /\ unseen = {}

-----------------------------------------------------------------------------
Open == {c \in Connector : connector[c].state = "open"}

(* connector.projectId === args.projectId, for a member of that project.    *)
Of(c, p) == c \in Open /\ connector[c].project = p

(* createConnector: any member.                                             *)
CreateConnector(u, p, c) ==
  /\ IsMember(u, p)
  /\ connector[c] = NoRow
  /\ connector' = [connector EXCEPT ![c] = [state |-> "open", project |-> p]]
  /\ UNCHANGED <<childVars, purgeVars, workspaceVars>>

(* insertEvents: the events of a batch that have no row yet.  One that is   *)
(* in the batch twice is found by the second lookup.                        *)
Fresh(c, B) == {e \in B : <<c, e>> \notin rows}

(* Faulty variant: the group is updated before the dedupe.                  *)
CountedAll(c, B) == B \cap Failure

Counted(c, B) == Fresh(c, B) \cap Failure

(* upsertErrorGroup, once for each event counted: a new group is open, a    *)
(* resolved one opens as a regression, an ignored one stays ignored.        *)
GroupAfter(c, n) ==
  IF n = 0 THEN group[c]
  ELSE IF group[c] = NoRow
       THEN [state |-> "open", count |-> n, regression |-> FALSE]
  ELSE IF group[c].state = "resolved"
       THEN [state |-> "open", count |-> group[c].count + n, regression |-> TRUE]
  ELSE [group[c] EXCEPT !.count = @ + n]

(* recordBatch; for an unknown connector it throws.                         *)
RecordBatch(c, B) ==
  /\ c \in Open
  /\ purged[c] <= MaxPurged
  /\ rows' = rows \cup ({c} \X Fresh(c, B))
  /\ group' = [group EXCEPT ![c] = GroupAfter(c, Cardinality(Counted(c, B)))]
  /\ unseen' = IF Counted(c, B) = {} THEN unseen ELSE unseen \cup {c}
  /\ UNCHANGED <<connector, aged, page, noted, purged, purgeVars, workspaceVars>>

(* Faulty variant: isRegression is left as it is.                           *)
MarkedKept(row, s) == [row EXCEPT !.state = s]

Marked(row, s) ==
  IF s = "resolved" THEN [row EXCEPT !.state = s, !.regression = FALSE]
                    ELSE [row EXCEPT !.state = s]

(* setGroupState: any member, from any state to any state.                  *)
SetGroupState(u, c, s) ==
  /\ c \in Open
  /\ IsMember(u, connector[c].project)
  /\ group[c] # NoRow
  /\ group' = [group EXCEPT ![c] = Marked(@, s)]
  /\ unseen' = IF s = "resolved" THEN unseen \ {c} ELSE unseen
  /\ UNCHANGED <<connector, rows, aged, page, noted, purged, purgeVars,
                 workspaceVars>>

(* Faulty variant: only the slug is looked up.                              *)
ExistingBySlug(c, s) == {x \in page : x.slug = s}

(* The row upsert patches: bySlug ?? by_connector.                          *)
Existing(c, s) == {x \in page : x.slug = s \/ x.connector = c}

(* statusPages.upsert; it throws if the slug is another connector's.        *)
UpsertPage(u, c, s) ==
  /\ c \in Open
  /\ IsMember(u, connector[c].project)
  /\ \A x \in page : x.slug = s => x.connector = c
  /\ page' = (page \ Existing(c, s)) \cup {[connector |-> c, slug |-> s]}
  /\ UNCHANGED <<connector, rows, aged, group, noted, purged, unseen, purgeVars,
                 workspaceVars>>

(* deployAnnotations.create and .remove, through the API.                   *)
Annotate(c) ==
  /\ c \in Open
  /\ noted' = noted \cup {c}
  /\ UNCHANGED <<connector, rows, aged, group, page, purged, unseen, purgeVars,
                 workspaceVars>>

RemoveAnnotation(c) ==
  /\ noted' = noted \ {c}
  /\ UNCHANGED <<connector, rows, aged, group, page, purged, unseen, purgeVars,
                 workspaceVars>>

-----------------------------------------------------------------------------
(* Faulty variant: annotations are left out of the cascade.                 *)
NotedKept(C) == noted

NotedAfter(C) == noted \ C

(* deleteConnectorChildren for every connector of C, and their rows.        *)
Cascade(C) ==
  /\ connector' = [c \in Connector |->
       IF c \in C THEN [connector[c] EXCEPT !.state = "removed"] ELSE connector[c]]
  /\ rows' = {r \in rows : r[1] \notin C}
  /\ aged' = {r \in aged : r[1] \notin C}
  /\ backlog' = {r \in backlog : r[1] \notin C}
  /\ group' = [c \in Connector |-> IF c \in C THEN NoRow ELSE group[c]]
  /\ page' = {x \in page : x.connector \notin C}
  /\ noted' = NotedAfter(C)
  /\ purged' = [c \in Connector |-> IF c \in C THEN 0 ELSE purged[c]]
  /\ unseen' = unseen \ C
  /\ UNCHANGED calls

(* removeConnector: owner or admin.  removeConnectorForUser, behind the API,*)
(* asks for membership only.                                                *)
RemoveConnector(u, c) ==
  /\ c \in Open
  /\ IsMember(u, connector[c].project)
  /\ Cascade({c})
  /\ UNCHANGED workspaceVars

(* deleteProjectAsOwner.                                                    *)
DeleteProjectRows(u, p) ==
  /\ DeleteProject(u, p)
  /\ Cascade({c \in Open : connector[c].project = p})

-----------------------------------------------------------------------------
(* INGEST_RETENTION_MS runs out for a row.                                  *)
RowAges(r) ==
  /\ r \in rows \ aged
  /\ aged' = aged \cup {r}
  /\ UNCHANGED <<connector, rows, group, page, noted, purged, unseen, purgeVars,
                 workspaceVars>>

(* crons.interval: every hour.                                              *)
CronCalls ==
  /\ calls < MaxCalls
  /\ calls' = calls + 1
  /\ backlog' = aged
  /\ UNCHANGED <<connector, childVars, workspaceVars>>

(* Faulty variant: a full batch is not taken for a sign that more remain.   *)
IsFullMore(D) == Cardinality(D) > PurgeBatch

(* Were there perhaps more than one call deletes?                           *)
IsFull(D) == Cardinality(D) = PurgeBatch

(* purgeExpired deletes the rows of D: PurgeBatch of the aged ones, or all  *)
(* of them if there are fewer.                                              *)
PurgeExpired(D) ==
  /\ calls > 0
  /\ D \subseteq aged
  /\ \/ Cardinality(D) = PurgeBatch
     \/ D = aged /\ Cardinality(D) < PurgeBatch
  /\ rows' = rows \ D /\ aged' = aged \ D /\ backlog' = backlog \ D
  /\ purged' = [c \in Connector |->
       purged[c] + Cardinality({r \in D : r[1] = c /\ r[2] \in Failure})]
  /\ calls' = IF IsFull(D) THEN calls ELSE calls - 1
  /\ UNCHANGED <<connector, group, page, noted, unseen, workspaceVars>>

StoreNext ==
  \/ \E u \in User, p \in Project, c \in Connector : CreateConnector(u, p, c)
  \/ \E c \in Connector, B \in SUBSET Event : RecordBatch(c, B)
  \/ \E u \in User, c \in Connector :
       \/ RemoveConnector(u, c)
       \/ \E s \in Slug : UpsertPage(u, c, s)
       \/ \E s \in {"open", "resolved", "ignored"} : SetGroupState(u, c, s)
  \/ \E c \in Connector : Annotate(c) \/ RemoveAnnotation(c)
  \/ \E r \in rows : RowAges(r)
  \/ CronCalls
  \/ \E D \in SUBSET aged : PurgeExpired(D)

Next ==
  \/ StoreNext
  \/ WorkspaceNext /\ UNCHANGED storeVars
  \/ \E u \in User, p \in Project : DeleteProjectRows(u, p)

Spec == Init /\ [][Next]_vars

-----------------------------------------------------------------------------
(* Every row of these tables hangs on a connector that exists, and every    *)
(* connector on a project that exists: no mutation outlives the cascade it  *)
(* races with, and no cascade leaves one of these rows out of reach.        *)
NoOrphanRows ==
  /\ \A c \in Open : project[connector[c].project] = "open"
  /\ \A r \in rows : r[1] \in Open
  /\ \A x \in page : x.connector \in Open
  /\ noted \subseteq Open
  /\ \A c \in Connector : group[c] # NoRow => c \in Open

FailuresOf(c) == {r \in rows : r[1] = c /\ r[2] \in Failure}

(* A group counts each failure once however often it is resent, split over  *)
(* batches or mixed with new ones: its count is the number of failures      *)
(* stored, and of those retention has deleted since.  After that deletion a *)
(* resent failure is recorded, and counted, again.                          *)
GroupsCountRows ==
  \A c \in Open :
    Cardinality(FailuresOf(c)) + purged[c]
      = IF group[c] = NoRow THEN 0 ELSE group[c].count

(* A resolved group has had no failure since, and is no regression; a       *)
(* regression has had one since it was last resolved.                       *)
ResolvedIsSettled ==
  \A c \in Connector : group[c] # NoRow =>
    /\ group[c].state = "resolved" => c \notin unseen /\ ~group[c].regression
    /\ group[c].regression => c \in unseen

(* The lookups by slug and by connector find one page at most (`unique`     *)
(* throws otherwise), also after a slug was given up and taken again.       *)
LookupsAreUnique ==
  \A x, y \in page : x.slug = y.slug \/ x.connector = y.connector => x = y

(* One call of the cron job drains the backlog it finds: when no call is    *)
(* due any more, no row is left that was too old when cron last called.     *)
PurgeDrainsBacklog == calls = 0 => backlog = {}
=============================================================================
