------------------------------- MODULE Workspace -------------------------------
(***************************************************************************)
(* Projects, members and invites (apps/web/convex/projects.ts, invites.ts, *)
(* auth.ts, access.ts).  Every action is one Convex mutation: they are     *)
(* serializable, and one that throws changes nothing.  Grants and          *)
(* EventStore extend this module with the rows that hang on a project.     *)
(*                                                                         *)
(* An invite's email stands for the user it belongs to: both providers of  *)
(* auth.ts give an account its email.                                      *)
(***************************************************************************)
EXTENDS Naturals

CONSTANTS
  User,
  Project,   \* ids of projects; an id is never used twice
  Invite     \* ids of invites

VARIABLES
  project,   \* per id: unused, open, deleted
  role,      \* per project and user: the members row, or "none"
  invite,    \* per id, its row
  founder,   \* per project, who created it (history)
  seats      \* per invite, the members rows it has brought (history)

workspaceVars == <<project, role, invite, founder, seats>>

Role == {"owner", "admin", "member"}

NoInvite == [state |-> "unused"]

(* `live` until expiresAt has passed; a row keeps its fields when gone.     *)
InviteRow == [state : {"open", "accepted", "gone"}, project : Project,
              user : User, role : Role, live : BOOLEAN]

WorkspaceTypeOK ==
  /\ project \in [Project -> {"unused", "open", "deleted"}]
  /\ role \in [Project -> [User -> Role \cup {"none"}]]
  /\ invite \in [Invite -> InviteRow \cup {NoInvite}]
  /\ founder \in [Project -> SUBSET User]
  /\ seats \in [Invite -> Nat]

WorkspaceInit ==
  /\ project = [p \in Project |-> "unused"]
  /\ role = [p \in Project |-> [u \in User |-> "none"]]
  /\ invite = [i \in Invite |-> NoInvite]
  /\ founder = [p \in Project |-> {}]
  /\ seats = [i \in Invite |-> 0]

-----------------------------------------------------------------------------
(* requireProjectMember, alone and with requireRole(['owner', 'admin']).    *)
IsMember(u, p) == project[p] = "open" /\ role[p][u] # "none"
Manages(u, p) == project[p] = "open" /\ role[p][u] \in {"owner", "admin"}

(* createProjectForUser: by createProject, or at the first sign-in.         *)
CreateProject(u, p) ==
  /\ project[p] = "unused"
  /\ project' = [project EXCEPT ![p] = "open"]
  /\ role' = [role EXCEPT ![p] = [@ EXCEPT ![u] = "owner"]]
  /\ founder' = [founder EXCEPT ![p] = {u}]
  /\ UNCHANGED <<invite, seats>>

(* invites.create: memberRole allows "owner" too, and nothing keeps two     *)
(* invites of one user apart.                                               *)
SendInvite(caller, i, p, u, r) ==
  /\ Manages(caller, p)
  /\ invite[i] = NoInvite
  /\ invite' = [invite EXCEPT ![i] =
       [state |-> "open", project |-> p, user |-> u, role |-> r, live |-> TRUE]]
  /\ UNCHANGED <<project, role, founder, seats>>

Stored(i) == invite[i].state \in {"open", "accepted"}

InviteExpires(i) ==
  /\ Stored(i)
  /\ invite[i].live
  /\ invite' = [invite EXCEPT ![i] = [@ EXCEPT !.live = FALSE]]
  /\ UNCHANGED <<project, role, founder, seats>>

(* Faulty variant: acceptedAt is not looked at.                             *)
IsLiveThoughAccepted(i) == Stored(i) /\ invite[i].live

IsLive(i) == invite[i].state = "open" /\ invite[i].live

(* Faulty variant: the invite's role replaces the one a member has.         *)
SeatInvited(now, i) == invite[i].role

(* The role after accepting; an existing members row is left alone.         *)
Seat(now, i) == IF now = "none" THEN invite[i].role ELSE now

(* accept.                                                                  *)
AcceptInvite(u, i) ==
  LET p == invite[i].project IN
  /\ IsLive(i)
  /\ u = invite[i].user
  /\ project[p] = "open"
  /\ role' = [role EXCEPT ![p] = [role[p] EXCEPT ![u] = Seat(role[p][u], i)]]
  /\ seats' = [seats EXCEPT ![i] = IF role[p][u] = "none" THEN @ + 1 ELSE @]
  /\ invite' = [invite EXCEPT ![i] = [@ EXCEPT !.state = "accepted"]]
  /\ UNCHANGED <<project, founder>>

(* revoke: also of an invite that was accepted or has expired.              *)
RevokeInvite(caller, i) ==
  /\ Stored(i)
  /\ Manages(caller, invite[i].project)
  /\ invite' = [invite EXCEPT ![i] = [@ EXCEPT !.state = "gone", !.live = FALSE]]
  /\ UNCHANGED <<project, role, founder, seats>>

(* removeMember: anyone but an owner; oneself, too.                         *)
RemoveMember(caller, p, u) ==
  /\ Manages(caller, p)
  /\ role[p][u] \in {"admin", "member"}
  /\ role' = [role EXCEPT ![p] = [@ EXCEPT ![u] = "none"]]
  /\ UNCHANGED <<project, invite, founder, seats>>

InvitesAfter(p) ==
  [i \in Invite |-> IF Stored(i) /\ invite[i].project = p
                    THEN [invite[i] EXCEPT !.state = "gone", !.live = FALSE]
                    ELSE invite[i]]

(* deleteProjectAsOwner, as far as it concerns these tables.                *)
DeleteProject(caller, p) ==
  /\ project[p] = "open"
  /\ role[p][caller] = "owner"
  /\ project' = [project EXCEPT ![p] = "deleted"]
  /\ role' = [role EXCEPT ![p] = [u \in User |-> "none"]]
  /\ invite' = InvitesAfter(p)
  /\ UNCHANGED <<founder, seats>>

(* The mutations that touch these tables only.                              *)
WorkspaceNext ==
  \/ \E u \in User, p \in Project : CreateProject(u, p)
  \/ \E c, u \in User, i \in Invite, p \in Project, r \in Role :
       SendInvite(c, i, p, u, r)
  \/ \E u \in User, i \in Invite : AcceptInvite(u, i) \/ RevokeInvite(u, i)
  \/ \E i \in Invite : InviteExpires(i)
  \/ \E c, u \in User, p \in Project : RemoveMember(c, p, u)

-----------------------------------------------------------------------------
HasItsFounder(p) ==
  founder[p] # {} /\ \A u \in founder[p] : role[p][u] = "owner"

IsDeserted(p) ==
  /\ \A u \in User : role[p][u] = "none"
  /\ \A i \in Invite : Stored(i) => invite[i].project # p

(* However invites, acceptances and removals interleave, an open project    *)
(* has its founder as an owner (removeMember cannot remove one, and accept  *)
(* never lowers a role), and a project that is gone has neither members nor *)
(* invites left that could bring one.                                       *)
OwnedWhileOpen ==
  \A p \in Project : IF project[p] = "open" THEN HasItsFounder(p)
                                           ELSE IsDeserted(p)

Earned(p, u) ==
  \E i \in Invite : /\ seats[i] = 1
                    /\ invite[i].project = p /\ invite[i].user = u
                    /\ invite[i].role = role[p][u]

(* A membership that founding the project did not bring was brought by an   *)
(* invite for that user and role, and an invite brings one membership at    *)
(* most: who was removed does not come back on a spent or revoked invite.   *)
SeatsAreEarned ==
  /\ \A i \in Invite :
       seats[i] \in {0, 1} /\ (seats[i] = 1 => invite[i].state \in {"accepted", "gone"})
  /\ \A p \in Project, u \in User :
       role[p][u] # "none" /\ u \notin founder[p] => Earned(p, u)
=============================================================================
