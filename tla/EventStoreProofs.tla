---------------------------- MODULE EventStoreProofs ----------------------------
(***************************************************************************)
(* What is proved about EventStore, for any numbers of connectors, events, *)
(* slugs, users and projects, and any size of a purge batch.               *)
(***************************************************************************)
EXTENDS EventStore, WorkspaceProofs, FiniteSetTheorems

(* Retention counts for connectors that exist: a new one starts at zero.    *)
NothingPurgedElsewhere == \A c \in Connector \ Open : purged[c] = 0

(* No promise of the store holds without its types and its owners.          *)
RowsInv == StoreTypeOK /\ NoOrphanRows

StoreInv ==
  /\ RowsInv
  /\ ResolvedIsSettled
  /\ LookupsAreUnique
  /\ PurgeDrainsBacklog
  /\ GroupsCountRows
  /\ NothingPurgedElsewhere

IInv == WorkspaceInv /\ StoreInv

-----------------------------------------------------------------------------
LEMMA InitInv == Init => IInv
<1> SUFFICES ASSUME Init PROVE IInv
  OBVIOUS
<1>1. WorkspaceInv
  BY WorkspaceInitInv DEF Init
<1>2. StoreTypeOK
  BY DEF Init, StoreTypeOK
<1>3. NoOrphanRows /\ Open = {}
  BY DEF Init, NoOrphanRows, Open, NoRow
<1>4. ResolvedIsSettled /\ LookupsAreUnique /\ PurgeDrainsBacklog
  BY DEF Init, ResolvedIsSettled, LookupsAreUnique, PurgeDrainsBacklog
<1> QED
  BY <1>1, <1>2, <1>3, <1>4 DEF IInv, StoreInv, RowsInv, GroupsCountRows,
                                NothingPurgedElsewhere, Init

LEMMA Fields ==
  ASSUME StoreTypeOK, NEW c \in Connector
  PROVE  /\ connector[c].state \in {"unused", "open", "removed"}
         /\ c \in Open => connector[c].project \in Project
         /\ group[c] # NoRow => group[c] \in GroupRow
         /\ purged[c] \in Nat
BY DEF StoreTypeOK, Open, NoRow, ConnectorRow

LEMMA FiniteRows ==
  ASSUME StoreTypeOK, NEW R \in SUBSET rows
  PROVE  IsFiniteSet(R) /\ Cardinality(R) \in Nat
<1>1. IsFiniteSet(Connector \X Event)
  BY FS_Product, StoreAssumption
<1>2. R \in SUBSET (Connector \X Event)
  BY DEF StoreTypeOK
<1> QED
  BY <1>1, <1>2, FS_Subset, FS_CardinalityType

(* The steps of Workspace leave an open project open, but for DeleteProject.*)
LEMMA StaysOpen ==
  ASSUME WorkspaceTypeOK, WorkspaceNext \/ UNCHANGED workspaceVars,
         NEW p \in Project, project[p] = "open"
  PROVE  project'[p] = "open"
BY DEF WorkspaceTypeOK, WorkspaceNext, CreateProject, SendInvite, AcceptInvite,
       RevokeInvite, InviteExpires, RemoveMember, workspaceVars

-----------------------------------------------------------------------------
(* Steps that touch neither the failures nor the groups.                    *)
LEMMA CountsStay ==
  ASSUME StoreInv, UNCHANGED <<connector, rows, group, purged>>
  PROVE  GroupsCountRows' /\ NothingPurgedElsewhere'
BY DEF StoreInv, GroupsCountRows, NothingPurgedElsewhere, FailuresOf, Open

LEMMA CreateConnectorInv ==
  ASSUME StoreInv, NEW u \in User, NEW p \in Project, NEW c \in Connector,
         CreateConnector(u, p, c)
  PROVE  StoreInv'
<1>1. /\ connector[c] = NoRow /\ project[p] = "open" /\ c \notin Open
      /\ connector'[c] = [state |-> "open", project |-> p]
      /\ \A d \in Connector \ {c} : connector'[d] = connector[d]
      /\ Open' = Open \cup {c}
      /\ UNCHANGED <<rows, aged, group, page, noted, purged, unseen, calls,
                     backlog, project>>
  BY DEF CreateConnector, IsMember, StoreInv, RowsInv, StoreTypeOK, Open, NoRow,
         childVars, purgeVars, workspaceVars
<1>2. StoreTypeOK'
  BY <1>1 DEF CreateConnector, StoreInv, RowsInv, StoreTypeOK, ConnectorRow
<1>3. NoOrphanRows'
  BY <1>1 DEF StoreInv, RowsInv, NoOrphanRows, Open
<1>4. ResolvedIsSettled' /\ LookupsAreUnique' /\ PurgeDrainsBacklog'
  BY <1>1 DEF StoreInv, ResolvedIsSettled, LookupsAreUnique, PurgeDrainsBacklog
<1>5. GroupsCountRows' /\ NothingPurgedElsewhere'
  <2>1. /\ FailuresOf(c) = {} /\ group[c] = NoRow /\ purged[c] = 0
        /\ \A d \in Connector : FailuresOf(d)' = FailuresOf(d)
    BY <1>1 DEF StoreInv, RowsInv, NoOrphanRows, NothingPurgedElsewhere,
                FailuresOf
  <2>2. Cardinality(FailuresOf(c))' = 0
    BY <2>1, FS_EmptySet
  <2>3. ASSUME NEW d \in Open'
        PROVE  Cardinality(FailuresOf(d))' + purged'[d]
                 = IF group'[d] = NoRow THEN 0 ELSE group'[d].count
    <3>1. CASE d = c
      BY <3>1, <1>1, <2>1, <2>2
    <3>2. CASE d # c
      <4>1. d \in Open /\ Cardinality(FailuresOf(d))' = Cardinality(FailuresOf(d))
        BY <3>2, <1>1, <2>1 DEF Open
      <4> QED
        BY <4>1, <1>1 DEF StoreInv, GroupsCountRows
    <3> QED
      BY <3>1, <3>2
  <2> QED
    BY <2>3, <1>1 DEF StoreInv, GroupsCountRows, NothingPurgedElsewhere
<1> QED
  BY <1>2, <1>3, <1>4, <1>5 DEF StoreInv, RowsInv

-----------------------------------------------------------------------------
LEMMA GroupAfterIs ==
  ASSUME StoreTypeOK, NEW c \in Connector, NEW n \in Nat
  PROVE  LET g == GroupAfter(c, n) IN
         /\ n = 0 => g = group[c]
         /\ n > 0 => /\ g \in GroupRow /\ g # NoRow
                     /\ g.state # "resolved"
                     /\ g.count = n + (IF group[c] = NoRow THEN 0
                                                         ELSE group[c].count)
<1> DEFINE g == GroupAfter(c, n)
<1>1. CASE n = 0
  BY <1>1 DEF GroupAfter
<1>2. CASE n > 0 /\ group[c] = NoRow
  BY <1>2 DEF GroupAfter, GroupRow, NoRow
<1>3. CASE n > 0 /\ group[c] # NoRow
  <2>1. group[c] \in GroupRow
    BY <1>3 DEF StoreTypeOK
  <2>2. CASE group[c].state = "resolved"
    BY <1>3, <2>1, <2>2 DEF GroupAfter, GroupRow, NoRow
  <2>3. CASE group[c].state # "resolved"
    <3>1. g = [group[c] EXCEPT !.count = @ + n]
      BY <1>3, <2>3 DEF GroupAfter
    <3> QED
      BY <1>3, <2>1, <2>3, <3>1 DEF GroupRow, NoRow
  <2> QED
    BY <2>2, <2>3
<1> QED
  BY <1>1, <1>2, <1>3

(* The rows a batch adds, and the failures among them.                      *)
LEMMA BatchRows ==
  ASSUME StoreInv, NEW c \in Connector, NEW B \in SUBSET Event,
         RecordBatch(c, B)
  PROVE  /\ IsFiniteSet(Counted(c, B)) /\ Cardinality(Counted(c, B)) \in Nat
         /\ Counted(c, B) = {} <=> Cardinality(Counted(c, B)) = 0
         /\ rows \subseteq rows' /\ rows' \subseteq Connector \X Event
         /\ \A d \in Connector \ {c} : FailuresOf(d)' = FailuresOf(d)
         /\ Cardinality(FailuresOf(c))'
              = Cardinality(FailuresOf(c)) + Cardinality(Counted(c, B))
<1> DEFINE S == Counted(c, B)
           F == FailuresOf(c)
<1>1. IsFiniteSet(S) /\ Cardinality(S) \in Nat
      /\ (S = {} <=> Cardinality(S) = 0)
  <2>1. S \in SUBSET Event /\ IsFiniteSet(Event)
    BY StoreAssumption DEF Counted, Fresh
  <2> QED
    BY <2>1, FS_Subset, FS_CardinalityType, FS_EmptySet
<1>2. rows' = rows \cup ({c} \X Fresh(c, B)) /\ rows \subseteq Connector \X Event
  BY DEF RecordBatch, StoreInv, RowsInv, StoreTypeOK
<1>3. FailuresOf(c)' = F \cup ({c} \X S) /\ F \cap ({c} \X S) = {}
  BY <1>2 DEF FailuresOf, Counted, Fresh
<1>4. \A d \in Connector \ {c} : FailuresOf(d)' = FailuresOf(d)
  BY <1>2 DEF FailuresOf
<1>5. IsFiniteSet({c} \X S) /\ Cardinality({c} \X S) = Cardinality(S)
  <2>1. IsFiniteSet({c}) /\ Cardinality({c}) = 1
    BY FS_Singleton
  <2>2. /\ IsFiniteSet({c} \X S)
        /\ Cardinality({c} \X S) = Cardinality({c}) * Cardinality(S)
    BY <1>1, <2>1, FS_Product
  <2> HIDE DEF S
  <2> QED
    BY <2>1, <2>2, <1>1
<1>6. IsFiniteSet(F) /\ Cardinality(F) \in Nat
  <2>1. F \in SUBSET rows
    BY DEF FailuresOf
  <2> QED
    BY <2>1, FiniteRows DEF StoreInv, RowsInv
<1>7. Cardinality(FailuresOf(c)') = Cardinality(F) + Cardinality(S)
  <2>1. Cardinality(F \cup ({c} \X S)) = Cardinality(F) + Cardinality({c} \X S)
                                        - Cardinality(F \cap ({c} \X S))
    BY <1>5, <1>6, FS_Union
  <2>2. Cardinality(F \cap ({c} \X S)) = 0
    BY <1>3, FS_EmptySet
  <2>3. Cardinality(FailuresOf(c)') = Cardinality(F \cup ({c} \X S))
    BY <1>3
  <2> HIDE DEF F, S
  <2> QED
    BY <2>1, <2>2, <2>3, <1>1, <1>5, <1>6
<1>8. rows \subseteq rows' /\ rows' \subseteq Connector \X Event
  BY <1>2 DEF Fresh
<1> QED
  BY <1>1, <1>4, <1>7, <1>8

LEMMA RecordBatchInv ==
  ASSUME StoreInv, NEW c \in Connector, NEW B \in SUBSET Event,
         RecordBatch(c, B)
  PROVE  StoreInv'
<1> DEFINE n == Cardinality(Counted(c, B))
           g == GroupAfter(c, n)
<1>1. /\ c \in Open /\ Open' = Open
      /\ group' = [group EXCEPT ![c] = g]
      /\ unseen' = IF n = 0 THEN unseen ELSE unseen \cup {c}
      /\ n \in Nat
      /\ UNCHANGED <<connector, aged, page, noted, purged, calls, backlog,
                     project>>
  BY BatchRows DEF RecordBatch, Open, purgeVars, workspaceVars
<1>2. /\ n = 0 => g = group[c]
      /\ n > 0 => /\ g \in GroupRow /\ g # NoRow
                  /\ g.state # "resolved"
                  /\ g.count = n + (IF group[c] = NoRow THEN 0
                                                      ELSE group[c].count)
  BY <1>1, GroupAfterIs DEF StoreInv, RowsInv
<1> HIDE DEF n, g
<1>3. /\ group'[c] = g
      /\ \A d \in Connector \ {c} : group'[d] = group[d]
      /\ group' \in [Connector -> GroupRow \cup {NoRow}]
  BY <1>1, <1>2 DEF StoreInv, RowsInv, StoreTypeOK
<1>4. StoreTypeOK'
  BY <1>1, <1>3, BatchRows DEF StoreInv, RowsInv, StoreTypeOK
<1>5. NoOrphanRows'
  <2>1. \A r \in rows' : r[1] \in Open
    BY <1>1 DEF RecordBatch, StoreInv, RowsInv, NoOrphanRows, StoreTypeOK
  <2> QED
    BY <2>1, <1>1, <1>3 DEF StoreInv, RowsInv, NoOrphanRows
<1>6. ResolvedIsSettled'
  BY <1>1, <1>2, <1>3 DEF StoreInv, ResolvedIsSettled
<1>7. LookupsAreUnique' /\ PurgeDrainsBacklog' /\ NothingPurgedElsewhere'
  BY <1>1 DEF StoreInv, LookupsAreUnique, PurgeDrainsBacklog,
              NothingPurgedElsewhere
<1>8. GroupsCountRows'
  <2>1. ASSUME NEW d \in Open
        PROVE  Cardinality(FailuresOf(d))' + purged'[d]
                 = IF group'[d] = NoRow THEN 0 ELSE group'[d].count
    <3>1. /\ Cardinality(FailuresOf(d)) + purged[d]
               = (IF group[d] = NoRow THEN 0 ELSE group[d].count)
          /\ d \in Connector
      BY DEF StoreInv, GroupsCountRows, Open
    <3>2. CASE d # c
      <4>1. Cardinality(FailuresOf(d))' = Cardinality(FailuresOf(d))
        BY <3>1, <3>2, BatchRows
      <4> QED
        BY <3>1, <3>2, <4>1, <1>1, <1>3
    <3>3. CASE d = c
      <4>1. Cardinality(FailuresOf(c))' = Cardinality(FailuresOf(c)) + n
        BY BatchRows DEF n
      <4>2. Cardinality(FailuresOf(c)) \in Nat /\ purged[c] \in Nat
        <5>1. FailuresOf(c) \in SUBSET rows
          BY DEF FailuresOf
        <5> QED
          BY <5>1, FiniteRows, Fields DEF StoreInv, RowsInv
      <4>3. CASE n = 0
        BY <3>1, <3>3, <4>1, <4>2, <4>3, <1>1, <1>2, <1>3
      <4>4. CASE n > 0
        <5>1. g.count = n + (IF group[c] = NoRow THEN 0 ELSE group[c].count)
              /\ g # NoRow
          BY <4>4, <1>2
        <5> QED
          BY <5>1, <3>1, <3>3, <4>1, <4>2, <1>1, <1>3
      <4> QED
        BY <4>3, <4>4, <1>1
    <3> QED
      BY <3>2, <3>3
  <2> QED
    BY <2>1, <1>1 DEF GroupsCountRows
<1> QED
  BY <1>4, <1>5, <1>6, <1>7, <1>8 DEF StoreInv, RowsInv

LEMMA SetGroupStateInv ==
  ASSUME StoreInv, NEW u \in User, NEW c \in Connector,
         NEW s \in {"open", "resolved", "ignored"}, SetGroupState(u, c, s)
  PROVE  StoreInv'
<1> DEFINE g == Marked(group[c], s)
<1>1. /\ c \in Open /\ Open' = Open /\ group[c] # NoRow
      /\ group' = [group EXCEPT ![c] = g]
      /\ unseen' = IF s = "resolved" THEN unseen \ {c} ELSE unseen
      /\ UNCHANGED <<connector, rows, aged, page, noted, purged, calls, backlog,
                     project>>
  BY DEF SetGroupState, Open, purgeVars, workspaceVars
<1>2. /\ g \in GroupRow /\ g # NoRow /\ g.state = s
      /\ g.count = group[c].count
      /\ g.regression => group[c].regression /\ s # "resolved"
  <2>1. group[c] \in GroupRow
    BY <1>1, Fields DEF StoreInv, RowsInv
  <2>2. CASE s = "resolved"
    <3>1. g = [group[c] EXCEPT !.state = s, !.regression = FALSE]
      BY <2>2 DEF Marked
    <3> QED
      BY <2>1, <2>2, <3>1 DEF GroupRow, NoRow
  <2>3. CASE s # "resolved"
    <3>1. g = [group[c] EXCEPT !.state = s]
      BY <2>3 DEF Marked
    <3> QED
      BY <2>1, <2>3, <3>1 DEF GroupRow, NoRow
  <2> QED
    BY <2>2, <2>3
<1> HIDE DEF g
<1>3. /\ group'[c] = g
      /\ \A d \in Connector \ {c} : group'[d] = group[d]
      /\ group' \in [Connector -> GroupRow \cup {NoRow}]
  BY <1>1, <1>2 DEF StoreInv, RowsInv, StoreTypeOK
<1>4. StoreTypeOK'
  BY <1>1, <1>3 DEF StoreInv, RowsInv, StoreTypeOK
<1>5. NoOrphanRows'
  BY <1>1, <1>3 DEF StoreInv, RowsInv, NoOrphanRows
<1>6. ResolvedIsSettled'
  BY <1>1, <1>2, <1>3 DEF StoreInv, ResolvedIsSettled
<1>7. LookupsAreUnique' /\ PurgeDrainsBacklog' /\ NothingPurgedElsewhere'
  BY <1>1 DEF StoreInv, LookupsAreUnique, PurgeDrainsBacklog,
              NothingPurgedElsewhere
<1>8. GroupsCountRows'
  <2>1. \A d \in Open : /\ d \in Connector
                        /\ FailuresOf(d)' = FailuresOf(d)
                        /\ group'[d] = NoRow <=> group[d] = NoRow
                        /\ group'[d].count = group[d].count
    BY <1>1, <1>2, <1>3 DEF FailuresOf, Open
  <2> QED
    BY <2>1, <1>1 DEF StoreInv, GroupsCountRows
<1> QED
  BY <1>4, <1>5, <1>6, <1>7, <1>8 DEF StoreInv, RowsInv

-----------------------------------------------------------------------------
LEMMA UpsertPageInv ==
  ASSUME StoreInv, NEW u \in User, NEW c \in Connector, NEW s \in Slug,
         UpsertPage(u, c, s)
  PROVE  StoreInv'
<1> DEFINE new == [connector |-> c, slug |-> s]
<1>1. /\ c \in Open /\ Open' = Open
      /\ new \in PageRow /\ new.connector = c /\ new.slug = s
      /\ page' = (page \ Existing(c, s)) \cup {new}
      /\ UNCHANGED <<connector, rows, aged, group, noted, purged, unseen, calls,
                     backlog, project>>
  BY DEF UpsertPage, PageRow, Open, purgeVars, workspaceVars
<1> HIDE DEF new
<1>2. StoreTypeOK'
  BY <1>1 DEF StoreInv, RowsInv, StoreTypeOK
<1>3. NoOrphanRows'
  BY <1>1 DEF StoreInv, RowsInv, NoOrphanRows
<1>4. LookupsAreUnique'
  BY <1>1 DEF StoreInv, LookupsAreUnique, Existing
<1>5. ResolvedIsSettled' /\ PurgeDrainsBacklog'
  BY <1>1 DEF StoreInv, ResolvedIsSettled, PurgeDrainsBacklog
<1> QED
  BY <1>1, <1>2, <1>3, <1>4, <1>5, CountsStay DEF StoreInv, RowsInv

(* Annotations, and time: what only changes noted, aged, calls or backlog.  *)
LEMMA MinorStepInv ==
  ASSUME StoreInv,
         UNCHANGED <<connector, rows, group, page, purged, unseen, project>>,
         noted' \subseteq Open, aged' \subseteq rows,
         calls' \in Nat, backlog' \subseteq aged',
         calls' = 0 => backlog' = {}
  PROVE  StoreInv'
<1>1. Open' = Open
  BY DEF Open
<1>2. StoreTypeOK'
  BY DEF StoreInv, RowsInv, StoreTypeOK, Open
<1>3. NoOrphanRows'
  BY <1>1 DEF StoreInv, RowsInv, NoOrphanRows
<1>4. ResolvedIsSettled' /\ LookupsAreUnique' /\ PurgeDrainsBacklog'
  BY DEF StoreInv, ResolvedIsSettled, LookupsAreUnique, PurgeDrainsBacklog
<1> QED
  BY <1>2, <1>3, <1>4, CountsStay DEF StoreInv, RowsInv

LEMMA MinorStepsInv ==
  ASSUME StoreInv,
         \/ \E c \in Connector : Annotate(c) \/ RemoveAnnotation(c)
         \/ \E r \in rows : RowAges(r)
         \/ CronCalls
  PROVE  StoreInv'
<1>1. /\ noted \subseteq Open /\ aged \subseteq rows /\ calls \in Nat
      /\ backlog \subseteq aged /\ (calls = 0 => backlog = {})
  BY DEF StoreInv, RowsInv, StoreTypeOK, NoOrphanRows, PurgeDrainsBacklog
<1>2. ASSUME NEW c \in Connector, Annotate(c) \/ RemoveAnnotation(c)
      PROVE  StoreInv'
  BY <1>1, <1>2, MinorStepInv DEF Annotate, RemoveAnnotation, purgeVars,
                                  workspaceVars
<1>3. ASSUME NEW r \in rows, RowAges(r)
      PROVE  StoreInv'
  BY <1>1, <1>3, MinorStepInv DEF RowAges, purgeVars, workspaceVars
<1>4. CASE CronCalls
  BY <1>1, <1>4, MinorStepInv DEF CronCalls, childVars, workspaceVars
<1> QED
  BY <1>2, <1>3, <1>4

-----------------------------------------------------------------------------
LEMMA CascadeInv ==
  ASSUME StoreInv, NEW C \in SUBSET Open, Cascade(C),
         \A c \in Open \ C : project'[connector[c].project] = "open"
  PROVE  StoreInv'
<1>1. /\ \A c \in C : c \in Connector /\ connector[c] \in ConnectorRow
                      /\ connector'[c]
                           = [connector[c] EXCEPT !.state = "removed"]
      /\ \A c \in Connector \ C : connector'[c] = connector[c]
      /\ connector' = [c \in Connector |-> connector'[c]]
  BY DEF Cascade, Open, StoreInv, RowsInv, StoreTypeOK, NoRow
<1>2. \A c \in C : connector'[c] \in ConnectorRow
                   /\ connector'[c].state = "removed"
  BY <1>1 DEF ConnectorRow
<1>3. Open' = Open \ C
  BY <1>1, <1>2 DEF Open
<1>4. /\ rows' = {r \in rows : r[1] \notin C}
      /\ aged' = {r \in aged : r[1] \notin C}
      /\ backlog' = {r \in backlog : r[1] \notin C}
      /\ page' = {x \in page : x.connector \notin C}
      /\ noted' = noted \ C /\ unseen' = unseen \ C /\ calls' = calls
  BY DEF Cascade, NotedAfter
<1>5. /\ \A c \in C : group'[c] = NoRow /\ purged'[c] = 0
      /\ \A c \in Connector \ C : group'[c] = group[c] /\ purged'[c] = purged[c]
      /\ group' \in [Connector -> GroupRow \cup {NoRow}]
      /\ purged' \in [Connector -> Nat]
  BY <1>1 DEF Cascade, StoreInv, RowsInv, StoreTypeOK
<1>6. StoreTypeOK'
  <2>1. connector' \in [Connector -> ConnectorRow \cup {NoRow}]
    <3>1. \A c \in Connector : connector'[c] \in ConnectorRow \cup {NoRow}
      BY <1>1, <1>2 DEF StoreInv, RowsInv, StoreTypeOK
    <3> QED
      BY <3>1, <1>1
  <2> QED
    BY <2>1, <1>4, <1>5 DEF StoreInv, RowsInv, StoreTypeOK
<1>7. NoOrphanRows'
  BY <1>1, <1>3, <1>4, <1>5 DEF StoreInv, RowsInv, NoOrphanRows, Open
<1>8. ResolvedIsSettled' /\ LookupsAreUnique' /\ PurgeDrainsBacklog'
  BY <1>4, <1>5 DEF StoreInv, ResolvedIsSettled, LookupsAreUnique,
                    PurgeDrainsBacklog
<1>9. NothingPurgedElsewhere'
  BY <1>3, <1>5 DEF StoreInv, NothingPurgedElsewhere
<1>10. GroupsCountRows'
  <2>1. \A d \in Open \ C : /\ d \in Connector
                            /\ FailuresOf(d)' = FailuresOf(d)
    BY <1>4 DEF FailuresOf, Open
  <2> QED
    BY <2>1, <1>3, <1>5 DEF StoreInv, GroupsCountRows
<1> QED
  BY <1>6, <1>7, <1>8, <1>9, <1>10 DEF StoreInv, RowsInv

LEMMA RemoveConnectorInv ==
  ASSUME StoreInv, NEW u \in User, NEW c \in Connector, RemoveConnector(u, c)
  PROVE  StoreInv'
<1>1. \A d \in Open : project'[connector[d].project] = "open"
  BY DEF RemoveConnector, workspaceVars, StoreInv, RowsInv, NoOrphanRows
<1> QED
  BY <1>1, CascadeInv DEF RemoveConnector

LEMMA DeleteProjectRowsInv ==
  ASSUME WorkspaceInv, StoreInv, NEW u \in User, NEW p \in Project,
         DeleteProjectRows(u, p)
  PROVE  StoreInv'
<1> DEFINE C == {c \in Open : connector[c].project = p}
<1>1. \A q \in Project \ {p} : project'[q] = project[q]
  BY DEF DeleteProjectRows, DeleteProject, WorkspaceInv, WorkspaceTypeOK
<1>2. ASSUME NEW c \in Open \ C
      PROVE  project'[connector[c].project] = "open"
  <2>1. connector[c].project \in Project \ {p}
    BY Fields DEF StoreInv, RowsInv, Open
  <2> QED
    BY <2>1, <1>1 DEF StoreInv, RowsInv, NoOrphanRows
<1> QED
  BY <1>2, CascadeInv DEF DeleteProjectRows

-----------------------------------------------------------------------------
LEMMA PurgeExpiredInv ==
  ASSUME StoreInv, NEW D \in SUBSET aged, PurgeExpired(D)
  PROVE  StoreInv'
<1> DEFINE gone(c) == {r \in D : r[1] = c /\ r[2] \in Failure}
<1>1. /\ calls > 0 /\ calls \in Nat /\ D \in SUBSET rows
      /\ Open' = Open
      /\ rows' = rows \ D /\ aged' = aged \ D /\ backlog' = backlog \ D
      /\ purged' = [c \in Connector |-> purged[c] + Cardinality(gone(c))]
      /\ UNCHANGED <<connector, group, page, noted, unseen, project>>
  BY DEF PurgeExpired, StoreInv, RowsInv, StoreTypeOK, Open, workspaceVars
<1>2. IsFiniteSet(D) /\ Cardinality(D) \in Nat
  BY <1>1, FiniteRows DEF StoreInv, RowsInv
<1>3. \A c \in Connector :
        /\ IsFiniteSet(gone(c)) /\ Cardinality(gone(c)) \in Nat
        /\ IsFiniteSet(FailuresOf(c)) /\ Cardinality(FailuresOf(c)) \in Nat
        /\ FailuresOf(c)' = FailuresOf(c) \ gone(c)
        /\ FailuresOf(c) \cap gone(c) = gone(c)
  <2> SUFFICES ASSUME NEW c \in Connector
        PROVE /\ IsFiniteSet(gone(c)) /\ Cardinality(gone(c)) \in Nat
              /\ IsFiniteSet(FailuresOf(c)) /\ Cardinality(FailuresOf(c)) \in Nat
              /\ FailuresOf(c)' = FailuresOf(c) \ gone(c)
              /\ FailuresOf(c) \cap gone(c) = gone(c)
    OBVIOUS
  <2>1. gone(c) \in SUBSET rows /\ FailuresOf(c) \in SUBSET rows
    BY <1>1 DEF FailuresOf
  <2>2. /\ FailuresOf(c)' = FailuresOf(c) \ gone(c)
        /\ FailuresOf(c) \cap gone(c) = gone(c)
    BY <1>1 DEF FailuresOf
  <2> QED
    BY <2>1, <2>2, FiniteRows DEF StoreInv, RowsInv
<1> HIDE DEF gone
<1>4. /\ calls' \in Nat
      /\ calls' = 0 => D = aged
  BY <1>1, <1>2 DEF PurgeExpired, IsFull
<1>5. StoreTypeOK'
  <2>1. purged' \in [Connector -> Nat]
    BY <1>1, <1>3 DEF StoreInv, RowsInv, StoreTypeOK
  <2> QED
    BY <2>1, <1>1, <1>4 DEF StoreInv, RowsInv, StoreTypeOK
<1>6. NoOrphanRows'
  BY <1>1 DEF StoreInv, RowsInv, NoOrphanRows
<1>7. ResolvedIsSettled' /\ LookupsAreUnique'
  BY <1>1 DEF StoreInv, ResolvedIsSettled, LookupsAreUnique
<1>8. PurgeDrainsBacklog'
  BY <1>1, <1>4 DEF StoreInv, RowsInv, StoreTypeOK, PurgeDrainsBacklog
<1>9. NothingPurgedElsewhere'
  <2> SUFFICES ASSUME NEW c \in Connector \ Open PROVE purged'[c] = 0
    BY <1>1 DEF NothingPurgedElsewhere
  <2>1. gone(c) = {}
    BY <1>1 DEF gone, StoreInv, RowsInv, NoOrphanRows
  <2> QED
    BY <2>1, <1>1, FS_EmptySet DEF StoreInv, NothingPurgedElsewhere
<1>10. GroupsCountRows'
  <2>1. ASSUME NEW d \in Open
        PROVE  Cardinality(FailuresOf(d))' + purged'[d]
                 = IF group'[d] = NoRow THEN 0 ELSE group'[d].count
    <3>1. d \in Connector /\ purged[d] \in Nat
          /\ purged'[d] = purged[d] + Cardinality(gone(d))
      BY <1>1, Fields DEF Open, StoreInv, RowsInv
    <3>2. Cardinality(FailuresOf(d) \ gone(d))
            = Cardinality(FailuresOf(d)) - Cardinality(FailuresOf(d) \cap gone(d))
      BY <3>1, <1>3, FS_Difference
    <3>3. Cardinality(FailuresOf(d))'
            = Cardinality(FailuresOf(d)) - Cardinality(gone(d))
      BY <3>1, <3>2, <1>3
    <3>4. Cardinality(FailuresOf(d)) + purged[d]
            = IF group[d] = NoRow THEN 0 ELSE group[d].count
      BY DEF StoreInv, GroupsCountRows
    <3>5. Cardinality(FailuresOf(d)) \in Nat /\ Cardinality(gone(d)) \in Nat
      BY <3>1, <1>3
    <3> QED
      BY <3>1, <3>3, <3>4, <3>5, <1>1
  <2> QED
    BY <2>1, <1>1 DEF GroupsCountRows
<1> QED
  BY <1>5, <1>6, <1>7, <1>8, <1>9, <1>10 DEF StoreInv, RowsInv

-----------------------------------------------------------------------------
LEMMA StoreNextInv == StoreInv /\ StoreNext => StoreInv'
BY CreateConnectorInv, RecordBatchInv, SetGroupStateInv, UpsertPageInv,
   MinorStepsInv, RemoveConnectorInv, PurgeExpiredInv DEF StoreNext

(* A step of the other tables closes no project.                            *)
LEMMA ElsewhereInv ==
  ASSUME WorkspaceInv, StoreInv, UNCHANGED storeVars,
         WorkspaceNext \/ UNCHANGED workspaceVars
  PROVE  StoreInv'
<1>1. UNCHANGED <<connector, rows, aged, group, page, noted, purged, unseen,
                  calls, backlog>>
  BY DEF storeVars, childVars, purgeVars
<1>2. \A c \in Open : project'[connector[c].project] = "open"
  BY StaysOpen, Fields DEF WorkspaceInv, StoreInv, RowsInv, NoOrphanRows, Open
<1>3. StoreTypeOK' /\ NoOrphanRows'
  BY <1>1, <1>2 DEF StoreInv, RowsInv, StoreTypeOK, NoOrphanRows, Open
<1>4. ResolvedIsSettled' /\ LookupsAreUnique' /\ PurgeDrainsBacklog'
  BY <1>1 DEF StoreInv, ResolvedIsSettled, LookupsAreUnique, PurgeDrainsBacklog
<1> QED
  BY <1>1, <1>3, <1>4, CountsStay DEF StoreInv, RowsInv

LEMMA StepInv == IInv /\ [Next]_vars => IInv'
<1> SUFFICES ASSUME IInv, [Next]_vars PROVE IInv'
  OBVIOUS
<1>1. CASE StoreNext
  <2>1. UNCHANGED workspaceVars
    BY <1>1 DEF StoreNext, CreateConnector, RecordBatch, RemoveConnector,
       UpsertPage, SetGroupState, Annotate, RemoveAnnotation, RowAges,
       CronCalls, PurgeExpired
  <2> QED
    BY <2>1, <1>1, StoreNextInv, WorkspaceStepInv DEF IInv, WorkspaceStep
<1>2. CASE (WorkspaceNext \/ UNCHANGED workspaceVars) /\ UNCHANGED storeVars
  BY <1>2, ElsewhereInv, WorkspaceStepInv DEF IInv, WorkspaceStep
<1>3. ASSUME NEW u \in User, NEW p \in Project, DeleteProjectRows(u, p)
      PROVE  IInv'
  <2>1. WorkspaceStep
    BY <1>3 DEF DeleteProjectRows, WorkspaceStep
  <2> QED
    BY <2>1, <1>3, DeleteProjectRowsInv, WorkspaceStepInv DEF IInv
<1> QED
  BY <1>1, <1>2, <1>3 DEF Next, vars

(* The invariant all results of this module rest on.                        *)
THEOREM StoreInvariant == Spec => []IInv
BY InitInv, StepInv, PTL DEF Spec

(* Whatever is recorded, removed, retained or deleted, and whichever        *)
(* members join and leave meanwhile: no event, error group, status page or  *)
(* annotation is without its connector, and no connector without its        *)
(* project (deleteConnectorChildren, deleteProjectAsOwner).                 *)
THEOREM RowsHaveOwners == Spec => []NoOrphanRows
<1>1. IInv => NoOrphanRows
  BY DEF IInv, StoreInv, RowsInv
<1> QED
  BY <1>1, StoreInvariant, PTL

(* For batches of any size, in any order and however often resent, an error *)
(* group counts the failures stored and purged, each once (ingest.ts,       *)
(* recordBatch; errors.ts, upsertErrorGroup).                               *)
THEOREM FailuresCountedOnce == Spec => []GroupsCountRows
<1>1. IInv => GroupsCountRows
  BY DEF IInv, StoreInv
<1> QED
  BY <1>1, StoreInvariant, PTL

(* A group that says "resolved" has had no failure since, and one that says *)
(* "regression" has (errors.ts, setGroupState and upsertErrorGroup).        *)
THEOREM ResolvedStaysSettled == Spec => []ResolvedIsSettled
<1>1. IInv => ResolvedIsSettled
  BY DEF IInv, StoreInv
<1> QED
  BY <1>1, StoreInvariant, PTL

(* No history of pages given up and slugs taken over leaves two rows for a  *)
(* slug or for a connector (statusPages.ts, upsert).                        *)
THEOREM PagesAreUnique == Spec => []LookupsAreUnique
<1>1. IInv => LookupsAreUnique
  BY DEF IInv, StoreInv
<1> QED
  BY <1>1, StoreInvariant, PTL

(* A chain of purgeExpired calls ends only when the rows that were too old  *)
(* when cron last called are gone, for every batch size (ingest.ts,         *)
(* purgeExpired).                                                           *)
THEOREM BacklogIsDrained == Spec => []PurgeDrainsBacklog
<1>1. IInv => PurgeDrainsBacklog
  BY DEF IInv, StoreInv
<1> QED
  BY <1>1, StoreInvariant, PTL
=============================================================================
