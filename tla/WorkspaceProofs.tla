---------------------------- MODULE WorkspaceProofs ----------------------------
(***************************************************************************)
(* Proofs about the mutations of Workspace, for any numbers of users,      *)
(* projects and invites.  They are cited in the proofs about the modules   *)
(* that extend it.                                                         *)
(***************************************************************************)
EXTENDS Workspace, TLAPS

(* The promises are inductive together only: the founder of a project needs *)
(* no invite because nobody was a member before it was open.                *)
WorkspaceInv == WorkspaceTypeOK /\ OwnedWhileOpen /\ SeatsAreEarned

WorkspaceStep ==
  \/ WorkspaceNext
  \/ \E u \in User, p \in Project : DeleteProject(u, p)
  \/ UNCHANGED workspaceVars

-----------------------------------------------------------------------------
LEMMA WorkspaceInitInv == WorkspaceInit => WorkspaceInv
BY DEF WorkspaceInit, WorkspaceInv, WorkspaceTypeOK, OwnedWhileOpen,
       IsDeserted, SeatsAreEarned, NoInvite, Stored, Role

(* A row of invites that is not NoInvite has all fields.                    *)
LEMMA InviteFields ==
  ASSUME WorkspaceTypeOK, NEW i \in Invite, invite[i].state # "unused"
  PROVE  /\ invite[i] \in InviteRow
         /\ invite[i].project \in Project /\ invite[i].user \in User
         /\ invite[i].role \in Role
BY DEF WorkspaceTypeOK, NoInvite, InviteRow

(* Two lemmas say what a promise about one project or one membership needs  *)
(* of a step that does not concern it.                                      *)
LEMMA OwnedElsewhere ==
  ASSUME NEW p \in Project, project'[p] = project[p], founder'[p] = founder[p],
         role'[p] = role[p],
         \A i \in Invite : Stored(i)' /\ invite'[i].project = p =>
                             Stored(i) /\ invite[i].project = p,
         IF project[p] = "open" THEN HasItsFounder(p) ELSE IsDeserted(p)
  PROVE  IF project'[p] = "open" THEN HasItsFounder(p)' ELSE IsDeserted(p)'
BY DEF HasItsFounder, IsDeserted

LEMMA EarnedElsewhere ==
  ASSUME NEW p \in Project, NEW u \in User, role'[p][u] = role[p][u],
         \A i \in Invite : seats[i] = 1 =>
           /\ seats'[i] = 1
           /\ invite'[i].project = invite[i].project
           /\ invite'[i].user = invite[i].user
           /\ invite'[i].role = invite[i].role,
         Earned(p, u)
  PROVE  Earned(p, u)'
BY DEF Earned

-----------------------------------------------------------------------------
LEMMA CreateProjectInv ==
  ASSUME WorkspaceInv, NEW u \in User, NEW p \in Project, CreateProject(u, p)
  PROVE  WorkspaceInv'
<1>1. WorkspaceTypeOK'
  BY DEF WorkspaceInv, CreateProject, WorkspaceTypeOK, Role
<1>2. /\ project[p] = "unused" /\ project'[p] = "open"
      /\ founder'[p] = {u} /\ role'[p][u] = "owner"
      /\ \A v \in User \ {u} : role'[p][v] = role[p][v]
      /\ \A q \in Project \ {p} : /\ project'[q] = project[q]
                                  /\ founder'[q] = founder[q]
                                  /\ role'[q] = role[q]
      /\ invite' = invite /\ seats' = seats
  BY DEF WorkspaceInv, CreateProject, WorkspaceTypeOK
<1>3. OwnedWhileOpen'
  <2> SUFFICES ASSUME NEW q \in Project
               PROVE  IF project'[q] = "open" THEN HasItsFounder(q)'
                                              ELSE IsDeserted(q)'
    BY DEF OwnedWhileOpen
  <2>1. CASE q = p
    BY <2>1, <1>2 DEF HasItsFounder
  <2>2. CASE q # p
    BY <2>2, <1>2, OwnedElsewhere DEF WorkspaceInv, OwnedWhileOpen, Stored
  <2> QED
    BY <2>1, <2>2
<1>4. IsDeserted(p)
  BY <1>2 DEF WorkspaceInv, OwnedWhileOpen
<1>5. SeatsAreEarned'
  <2> SUFFICES ASSUME NEW q \in Project, NEW v \in User,
                      role'[q][v] # "none", v \notin founder'[q]
               PROVE  Earned(q, v)'
    BY <1>2 DEF WorkspaceInv, SeatsAreEarned
  <2>1. q # p
    BY <1>2, <1>4 DEF IsDeserted
  <2> QED
    BY <2>1, <1>2, EarnedElsewhere DEF WorkspaceInv, SeatsAreEarned
<1> QED
  BY <1>1, <1>3, <1>5 DEF WorkspaceInv

LEMMA SendInviteInv ==
  ASSUME WorkspaceInv, NEW c \in User, NEW u \in User, NEW i \in Invite,
         NEW p \in Project, NEW r \in Role, SendInvite(c, i, p, u, r)
  PROVE  WorkspaceInv'
<1>1. WorkspaceTypeOK'
  BY DEF WorkspaceInv, SendInvite, WorkspaceTypeOK, InviteRow
<1>2. /\ invite[i].state = "unused" /\ invite'[i].project = p
      /\ \A j \in Invite \ {i} : invite'[j] = invite[j]
      /\ project[p] = "open"
      /\ project' = project /\ role' = role /\ founder' = founder
      /\ seats' = seats
  BY DEF WorkspaceInv, SendInvite, WorkspaceTypeOK, Manages, NoInvite
<1>3. seats[i] # 1
  BY <1>2 DEF WorkspaceInv, SeatsAreEarned
<1>4. OwnedWhileOpen'
  <2> SUFFICES ASSUME NEW q \in Project
               PROVE  IF project'[q] = "open" THEN HasItsFounder(q)'
                                              ELSE IsDeserted(q)'
    BY DEF OwnedWhileOpen
  <2>1. CASE q = p
    BY <2>1, <1>2 DEF WorkspaceInv, OwnedWhileOpen, HasItsFounder
  <2>2. CASE q # p
    BY <2>2, <1>2, OwnedElsewhere DEF WorkspaceInv, OwnedWhileOpen, Stored
  <2> QED
    BY <2>1, <2>2
<1>5. SeatsAreEarned'
  <2>1. \A q \in Project, v \in User :
          role'[q][v] # "none" /\ v \notin founder'[q] => Earned(q, v)'
    BY <1>2, <1>3, EarnedElsewhere DEF WorkspaceInv, SeatsAreEarned
  <2> QED
    BY <2>1, <1>2, <1>3 DEF WorkspaceInv, SeatsAreEarned
<1> QED
  BY <1>1, <1>4, <1>5 DEF WorkspaceInv

(* An invite that expires or is revoked keeps its other fields.             *)
LEMMA InviteFadesInv ==
  ASSUME WorkspaceInv,
         invite' \in [Invite -> InviteRow \cup {NoInvite}],
         \A j \in Invite :
           /\ invite'[j].state \in {invite[j].state, "gone"}
           /\ invite[j].state # "unused" =>
                /\ invite'[j].project = invite[j].project
                /\ invite'[j].user = invite[j].user
                /\ invite'[j].role = invite[j].role,
         UNCHANGED <<project, role, founder, seats>>
  PROVE  WorkspaceInv'
<1>1. WorkspaceTypeOK'
  BY DEF WorkspaceInv, WorkspaceTypeOK
<1>2. OwnedWhileOpen'
  BY OwnedElsewhere DEF WorkspaceInv, OwnedWhileOpen, Stored
<1>3. SeatsAreEarned'
  <2>1. \A j \in Invite : seats[j] = 1 => invite[j].state # "unused"
    BY DEF WorkspaceInv, SeatsAreEarned
  <2>2. \A q \in Project, v \in User :
          role'[q][v] # "none" /\ v \notin founder'[q] => Earned(q, v)'
    BY <2>1, EarnedElsewhere DEF WorkspaceInv, SeatsAreEarned
  <2> QED
    BY <2>2 DEF WorkspaceInv, SeatsAreEarned
<1> QED
  BY <1>1, <1>2, <1>3 DEF WorkspaceInv

LEMMA InviteExpiresInv ==
  ASSUME WorkspaceInv, NEW i \in Invite, InviteExpires(i)
  PROVE  WorkspaceInv'
<1>1. invite[i] \in InviteRow
  BY InviteFields DEF WorkspaceInv, InviteExpires, Stored
<1>2. /\ [invite[i] EXCEPT !.live = FALSE] \in InviteRow
      /\ [invite[i] EXCEPT !.live = FALSE].state = invite[i].state
      /\ [invite[i] EXCEPT !.live = FALSE].project = invite[i].project
      /\ [invite[i] EXCEPT !.live = FALSE].user = invite[i].user
      /\ [invite[i] EXCEPT !.live = FALSE].role = invite[i].role
  BY <1>1 DEF InviteRow
<1> QED
  BY <1>2, InviteFadesInv DEF InviteExpires, WorkspaceInv, WorkspaceTypeOK

LEMMA RevokeInviteInv ==
  ASSUME WorkspaceInv, NEW c \in User, NEW i \in Invite, RevokeInvite(c, i)
  PROVE  WorkspaceInv'
<1> DEFINE row == [invite[i] EXCEPT !.state = "gone", !.live = FALSE]
<1>1. invite[i] \in InviteRow
  BY InviteFields DEF WorkspaceInv, RevokeInvite, Stored
<1>2. /\ row \in InviteRow /\ row.state = "gone"
      /\ row.project = invite[i].project
      /\ row.user = invite[i].user /\ row.role = invite[i].role
  BY <1>1 DEF InviteRow
<1>3. invite' = [invite EXCEPT ![i] = row]
  BY DEF RevokeInvite
<1> HIDE DEF row
<1> QED
  BY <1>2, <1>3, InviteFadesInv DEF RevokeInvite, WorkspaceInv, WorkspaceTypeOK

LEMMA AcceptInviteInv ==
  ASSUME WorkspaceInv, NEW u \in User, NEW i \in Invite, AcceptInvite(u, i)
  PROVE  WorkspaceInv'
<1> DEFINE p == invite[i].project
           row == [invite[i] EXCEPT !.state = "accepted"]
           chairs == [role[p] EXCEPT ![u] = Seat(role[p][u], i)]
<1>1. /\ invite[i] \in InviteRow /\ p \in Project
      /\ invite[i].role \in Role /\ invite[i].state = "open"
      /\ u = invite[i].user /\ project[p] = "open"
  BY InviteFields DEF WorkspaceInv, AcceptInvite, IsLive
<1>2. /\ row \in InviteRow /\ row.state = "accepted"
      /\ row.project = p /\ row.user = u /\ row.role = invite[i].role
  BY <1>1 DEF InviteRow
<1>3. /\ invite' = [invite EXCEPT ![i] = row]
      /\ role' = [role EXCEPT ![p] = chairs]
      /\ seats' = [seats EXCEPT ![i] = IF role[p][u] = "none" THEN @ + 1 ELSE @]
      /\ project' = project /\ founder' = founder
  <2>1. role' = [role EXCEPT ![p] = chairs]
    BY DEF AcceptInvite
  <2> QED
    BY <2>1 DEF AcceptInvite
<1>4. /\ invite'[i] = row
      /\ \A j \in Invite \ {i} : invite'[j] = invite[j] /\ seats'[j] = seats[j]
      /\ seats[i] = 0
      /\ seats'[i] = IF role[p][u] = "none" THEN 1 ELSE 0
      /\ role'[p][u] = Seat(role[p][u], i)
      /\ \A v \in User \ {u} : role'[p][v] = role[p][v]
      /\ \A q \in Project \ {p} : role'[q] = role[q]
  <2>1. seats[i] = 0
    BY <1>1 DEF WorkspaceInv, SeatsAreEarned
  <2>2. /\ role \in [Project -> [User -> Role \cup {"none"}]]
        /\ seats \in [Invite -> Nat] /\ DOMAIN invite = Invite
        /\ u \in User
    BY <1>1 DEF WorkspaceInv, WorkspaceTypeOK, InviteRow
  <2> HIDE DEF p, row
  <2>3. /\ invite'[i] = row
        /\ \A j \in Invite \ {i} : invite'[j] = invite[j]
    BY <2>2, <1>3
  <2>4. /\ \A j \in Invite \ {i} : seats'[j] = seats[j]
        /\ seats'[i] = IF role[p][u] = "none" THEN 1 ELSE 0
    BY <2>1, <2>2, <1>3
  <2>5. \A q \in Project \ {p} : role'[q] = role[q]
    BY <2>2, <1>3
  <2>6. role'[p] = chairs
    <3> HIDE DEF chairs
    <3> QED
      BY <2>2, <1>1, <1>3
  <2>7. /\ role'[p][u] = Seat(role[p][u], i)
        /\ \A v \in User \ {u} : role'[p][v] = role[p][v]
    BY <2>6, <2>2, <1>1
  <2> QED
    BY <2>1, <2>3, <2>4, <2>5, <2>7
<1> HIDE DEF row
<1>5. Seat(role[p][u], i) \in Role \cup {"none"}
  BY <1>1 DEF Seat, WorkspaceInv, WorkspaceTypeOK
<1>6. WorkspaceTypeOK'
  <2> HIDE DEF p
  <2>1. role' \in [Project -> [User -> Role \cup {"none"}]]
    <3>1. chairs \in [User -> Role \cup {"none"}]
      BY <1>1, <1>5 DEF WorkspaceInv, WorkspaceTypeOK
    <3> HIDE DEF chairs
    <3> QED
      BY <3>1, <1>3 DEF WorkspaceInv, WorkspaceTypeOK
  <2>2. seats' \in [Invite -> Nat]
    BY <1>3 DEF WorkspaceInv, WorkspaceTypeOK
  <2>3. invite' \in [Invite -> InviteRow \cup {NoInvite}]
    BY <1>2, <1>3 DEF WorkspaceInv, WorkspaceTypeOK
  <2> QED
    BY <2>1, <2>2, <2>3, <1>3 DEF WorkspaceInv, WorkspaceTypeOK
<1>7. OwnedWhileOpen'
  <2> SUFFICES ASSUME NEW q \in Project
               PROVE  IF project'[q] = "open" THEN HasItsFounder(q)'
                                              ELSE IsDeserted(q)'
    BY DEF OwnedWhileOpen
  <2>1. CASE q = p
    <3>1. HasItsFounder(p) /\ founder[p] \subseteq User
      BY <1>1 DEF WorkspaceInv, OwnedWhileOpen, WorkspaceTypeOK
    <3>2. \A v \in founder[p] : role'[p][v] = "owner"
      BY <3>1, <1>4 DEF HasItsFounder, Seat
    <3> QED
      BY <3>1, <3>2, <2>1, <1>1, <1>3 DEF HasItsFounder
  <2>2. CASE q # p
    <3>1. \A j \in Invite : Stored(j)' /\ invite'[j].project = q =>
                              Stored(j) /\ invite[j].project = q
      BY <2>2, <1>2, <1>4 DEF Stored
    <3> QED
      BY <3>1, <2>2, <1>3, <1>4, OwnedElsewhere DEF WorkspaceInv, OwnedWhileOpen
  <2> QED
    BY <2>1, <2>2
<1>8. SeatsAreEarned'
  <2>1. \A j \in Invite :
          /\ seats'[j] \in {0, 1}
          /\ seats'[j] = 1 => invite'[j].state \in {"accepted", "gone"}
    BY <1>2, <1>4 DEF WorkspaceInv, SeatsAreEarned
  <2>2. ASSUME NEW q \in Project, NEW v \in User, role'[q][v] # "none",
               v \notin founder'[q]
        PROVE  Earned(q, v)'
    <3>1. CASE q = p /\ v = u /\ role[p][u] = "none"
      BY <3>1, <1>2, <1>4 DEF Earned, Seat
    <3>2. CASE ~ (q = p /\ v = u /\ role[p][u] = "none")
      <4>1. role'[q][v] = role[q][v]
        BY <3>2, <1>4 DEF Seat
      <4>2. Earned(q, v)
        BY <4>1, <2>2, <1>3 DEF WorkspaceInv, SeatsAreEarned
      <4> QED
        BY <4>1, <4>2, <1>4, EarnedElsewhere
    <3> QED
      BY <3>1, <3>2
  <2> QED
    BY <2>1, <2>2 DEF SeatsAreEarned
<1> QED
  BY <1>6, <1>7, <1>8 DEF WorkspaceInv

LEMMA RemoveMemberInv ==
  ASSUME WorkspaceInv, NEW c \in User, NEW p \in Project, NEW u \in User,
         RemoveMember(c, p, u)
  PROVE  WorkspaceInv'
<1>1. WorkspaceTypeOK'
  BY DEF WorkspaceInv, RemoveMember, WorkspaceTypeOK
<1>2. /\ project[p] = "open" /\ role[p][u] # "owner" /\ role'[p][u] = "none"
      /\ \A v \in User \ {u} : role'[p][v] = role[p][v]
      /\ \A q \in Project \ {p} : role'[q] = role[q]
      /\ project' = project /\ invite' = invite /\ founder' = founder
      /\ seats' = seats
  BY DEF WorkspaceInv, RemoveMember, WorkspaceTypeOK, Manages
<1>3. OwnedWhileOpen'
  <2> SUFFICES ASSUME NEW q \in Project
               PROVE  IF project'[q] = "open" THEN HasItsFounder(q)'
                                              ELSE IsDeserted(q)'
    BY DEF OwnedWhileOpen
  <2>1. CASE q = p
    <3>1. HasItsFounder(p) /\ founder[p] \subseteq User
      BY <1>2 DEF WorkspaceInv, OwnedWhileOpen, WorkspaceTypeOK
    <3> QED
      BY <3>1, <2>1, <1>2 DEF HasItsFounder
  <2>2. CASE q # p
    BY <2>2, <1>2, OwnedElsewhere DEF WorkspaceInv, OwnedWhileOpen, Stored
  <2> QED
    BY <2>1, <2>2
<1>4. SeatsAreEarned'
  <2>1. ASSUME NEW q \in Project, NEW v \in User, role'[q][v] # "none",
               v \notin founder'[q]
        PROVE  Earned(q, v)'
    <3>1. role'[q][v] = role[q][v]
      BY <2>1, <1>2
    <3> QED
      BY <2>1, <3>1, <1>2, EarnedElsewhere DEF WorkspaceInv, SeatsAreEarned
  <2> QED
    BY <2>1, <1>2 DEF WorkspaceInv, SeatsAreEarned
<1> QED
  BY <1>1, <1>3, <1>4 DEF WorkspaceInv

LEMMA DeleteProjectInv ==
  ASSUME WorkspaceInv, NEW u \in User, NEW p \in Project, DeleteProject(u, p)
  PROVE  WorkspaceInv'
<1>1. \A i \in Invite :
        /\ invite'[i] \in InviteRow \cup {NoInvite}
        /\ Stored(i)' => invite'[i] = invite[i] /\ invite[i].project # p
        /\ invite'[i].state \in {invite[i].state, "gone"}
        /\ invite[i].state # "unused" =>
             /\ invite'[i].project = invite[i].project
             /\ invite'[i].user = invite[i].user
             /\ invite'[i].role = invite[i].role
  <2> SUFFICES ASSUME NEW i \in Invite
      PROVE /\ invite'[i] \in InviteRow \cup {NoInvite}
            /\ Stored(i)' => invite'[i] = invite[i] /\ invite[i].project # p
            /\ invite'[i].state \in {invite[i].state, "gone"}
            /\ invite[i].state # "unused" =>
                 /\ invite'[i].project = invite[i].project
                 /\ invite'[i].user = invite[i].user
                 /\ invite'[i].role = invite[i].role
    OBVIOUS
  <2>1. CASE Stored(i) /\ invite[i].project = p
    <3>1. invite[i] \in InviteRow
      BY <2>1, InviteFields DEF WorkspaceInv, Stored
    <3>2. invite'[i] = [invite[i] EXCEPT !.state = "gone", !.live = FALSE]
      BY <2>1 DEF DeleteProject, InvitesAfter
    <3> QED
      BY <3>1, <3>2 DEF InviteRow, Stored
  <2>2. CASE ~ (Stored(i) /\ invite[i].project = p)
    <3>1. invite'[i] = invite[i]
      BY <2>2 DEF DeleteProject, InvitesAfter
    <3> QED
      BY <2>2, <3>1 DEF WorkspaceInv, WorkspaceTypeOK, Stored
  <2> QED
    BY <2>1, <2>2
<1>2. invite' = [i \in Invite |-> invite'[i]]
  BY DEF DeleteProject, InvitesAfter
<1>3. /\ project'[p] = "deleted"
      /\ \A v \in User : role'[p][v] = "none"
      /\ \A q \in Project \ {p} : project'[q] = project[q] /\ role'[q] = role[q]
      /\ founder' = founder /\ seats' = seats
  BY DEF DeleteProject, WorkspaceInv, WorkspaceTypeOK
<1>4. WorkspaceTypeOK'
  <2>1. /\ project' \in [Project -> {"unused", "open", "deleted"}]
        /\ role' \in [Project -> [User -> Role \cup {"none"}]]
        /\ founder' \in [Project -> SUBSET User]
        /\ seats' \in [Invite -> Nat]
    BY DEF DeleteProject, WorkspaceInv, WorkspaceTypeOK
  <2>2. invite' \in [Invite -> InviteRow \cup {NoInvite}]
    BY <1>1, <1>2
  <2> QED
    BY <2>1, <2>2 DEF WorkspaceTypeOK
<1>5. OwnedWhileOpen'
  <2> SUFFICES ASSUME NEW q \in Project
               PROVE  IF project'[q] = "open" THEN HasItsFounder(q)'
                                              ELSE IsDeserted(q)'
    BY DEF OwnedWhileOpen
  <2>1. CASE q = p
    BY <2>1, <1>1, <1>3 DEF IsDeserted
  <2>2. CASE q # p
    <3>1. \A i \in Invite : Stored(i)' /\ invite'[i].project = q =>
                              Stored(i) /\ invite[i].project = q
      BY <1>1 DEF Stored
    <3> QED
      BY <3>1, <2>2, <1>3, OwnedElsewhere DEF WorkspaceInv, OwnedWhileOpen
  <2> QED
    BY <2>1, <2>2
<1>6. SeatsAreEarned'
  <2>1. \A i \in Invite : seats[i] = 1 => invite[i].state # "unused"
    BY DEF WorkspaceInv, SeatsAreEarned
  <2>2. ASSUME NEW q \in Project, NEW v \in User, role'[q][v] # "none",
               v \notin founder'[q]
        PROVE  Earned(q, v)'
    <3>1. role'[q][v] = role[q][v]
      BY <2>2, <1>3
    <3> QED
      BY <2>1, <2>2, <3>1, <1>1, <1>3, EarnedElsewhere
         DEF WorkspaceInv, SeatsAreEarned
  <2> QED
    BY <2>2, <1>1, <1>3 DEF WorkspaceInv, SeatsAreEarned
<1> QED
  BY <1>4, <1>5, <1>6 DEF WorkspaceInv

-----------------------------------------------------------------------------
(* Every mutation of the workspace keeps its promises.                      *)
THEOREM WorkspaceStepInv == WorkspaceInv /\ WorkspaceStep => WorkspaceInv'
<1> SUFFICES ASSUME WorkspaceInv, WorkspaceStep PROVE WorkspaceInv'
  OBVIOUS
<1>1. CASE WorkspaceNext
  BY <1>1, CreateProjectInv, SendInviteInv, AcceptInviteInv, RevokeInviteInv,
     InviteExpiresInv, RemoveMemberInv DEF WorkspaceNext
<1>2. CASE \E u \in User, p \in Project : DeleteProject(u, p)
  BY <1>2, DeleteProjectInv
<1>3. CASE UNCHANGED workspaceVars
  BY <1>3 DEF workspaceVars, WorkspaceInv, WorkspaceTypeOK, OwnedWhileOpen,
     HasItsFounder, IsDeserted, SeatsAreEarned, Earned, Stored
<1> QED
  BY <1>1, <1>2, <1>3 DEF WorkspaceStep
=============================================================================
