-------------------------------- MODULE Grants --------------------------------
(***************************************************************************)
(* OAuth codes and tokens (apps/web/convex/oauthProvider.ts, called by the *)
(* routes of apps/web/src/app/api/oauth and by the hourly cleanup job), on *)
(* top of the projects whose members grant them.  A row is named by its    *)
(* hash; clients are registered and never removed.                         *)
(*                                                                         *)
(* Time is the order of the three lifetimes: a code's 10 minutes end       *)
(* before the hour of the access token it was exchanged for, and that hour *)
(* before the 90 days of the refresh token.                                *)
(***************************************************************************)
EXTENDS Workspace

CONSTANTS
  Client,
  Code,    \* bound: authorization codes
  Token    \* bound: oauthTokens rows

VARIABLES
  code,     \* per hash, its row
  token     \* per hash, its row

grantVars == <<code, token>>
vars == <<workspaceVars, grantVars>>

NoRow == [state |-> "unused"]
Gone == [state |-> "gone"]

CodeRow == [state : {"issued", "used"}, user : User, client : Client,
            project : Project, fresh : BOOLEAN]

(* `from` is the code the row descends from (history); `fresh` while the    *)
(* access token, `renewable` while the refresh token has not expired.       *)
TokenRow == [state : {"live", "revoked"}, user : User, client : Client,
             project : Project, from : Code, fresh : BOOLEAN,
             renewable : BOOLEAN]

GrantsTypeOK ==
  /\ code \in [Code -> CodeRow \cup {NoRow, Gone}]
  /\ token \in [Token -> TokenRow \cup {NoRow, Gone}]

Init ==
  /\ WorkspaceInit
  /\ code = [k \in Code |-> NoRow]
  /\ token = [t \in Token |-> NoRow]

-----------------------------------------------------------------------------
(* createAuthCode: by a member, for a registered client and redirect_uri.   *)
Authorize(u, c, p, k) ==
  /\ IsMember(u, p)
  /\ code[k] = NoRow
  /\ code' = [code EXCEPT ![k] =
       [state |-> "issued", user |-> u, client |-> c, project |-> p,
        fresh |-> TRUE]]
  /\ UNCHANGED <<token, workspaceVars>>

(* revokeGrantFamily: every token of the same user, client and project.     *)
SameGrant(a, b) ==
  a.user = b.user /\ a.client = b.client /\ a.project = b.project

Revoked(T) ==
  [t \in Token |-> IF t \in T THEN [token[t] EXCEPT !.state = "revoked"]
                              ELSE token[t]]

Live == {t \in Token : token[t].state = "live"}

Family(row) == {t \in Live : SameGrant(token[t], row)}

(* insertTokens.                                                            *)
NewToken(row, k) ==
  [state |-> "live", user |-> row.user, client |-> row.client,
   project |-> row.project, from |-> k, fresh |-> TRUE, renewable |-> TRUE]

InTime(k) == code[k].state \in {"issued", "used"} /\ code[k].fresh

(* isValidAuthCode, for the right client, redirect_uri and verifier; with   *)
(* wrong ones an unused code is refused and stays as it is.                 *)
IsValidCode(k) == InTime(k) /\ code[k].state = "issued"

ExchangeCode(k, t) ==
  /\ IsValidCode(k)
  /\ token[t] = NoRow
  /\ code' = [code EXCEPT ![k] = [@ EXCEPT !.state = "used"]]
  /\ token' = [token EXCEPT ![t] = NewToken(code[k], k)]
  /\ UNCHANGED workspaceVars

(* exchangeCode with a used code, whatever else the caller presents: the    *)
(* whole family is revoked, also tokens that descend from other codes.      *)
ReplayCode(k) ==
  /\ code[k].state = "used"
  /\ token' = Revoked(Family(code[k]))
  /\ UNCHANGED <<code, workspaceVars>>

(* Faulty variants: revokedAt is not looked at; the old row stays live.     *)
IsRenewableRevoked(t) ==
  token[t].state \in {"live", "revoked"} /\ token[t].renewable

RotatedKept(t, t2) == [token EXCEPT ![t2] = NewToken(token[t], token[t].from)]

(* isValidRefreshToken, for the client it was issued to.                    *)
IsRenewable(t) == token[t].state = "live" /\ token[t].renewable

Rotated(t, t2) ==
  [token EXCEPT ![t] = [@ EXCEPT !.state = "revoked"],
                ![t2] = NewToken(token[t], token[t].from)]

(* refreshTokens: rotation.                                                 *)
RefreshTokens(t, t2) ==
  /\ IsRenewable(t)
  /\ token[t2] = NoRow
  /\ token' = Rotated(t, t2)
  /\ UNCHANGED <<code, workspaceVars>>

(* refreshTokens with a revoked token, from any client.                     *)
ReplayToken(t) ==
  /\ token[t].state = "revoked"
  /\ token' = Revoked(Family(token[t]))
  /\ UNCHANGED <<code, workspaceVars>>

(* revokeToken, by the hash of either token, from its client: one row.      *)
RevokeToken(t) ==
  /\ t \in Live
  /\ token' = Revoked({t})
  /\ UNCHANGED <<code, workspaceVars>>

(* disconnectApp: the tokens of the grant; an unused code stays valid.      *)
DisconnectApp(u, c, p) ==
  /\ token' = Revoked(Family([user |-> u, client |-> c, project |-> p]))
  /\ UNCHANGED <<code, workspaceVars>>

(* cleanupExpiredOAuth: expired codes, revoked tokens and those whose       *)
(* refresh token expired, in one mutation.                                  *)
Expired(k) == code[k].state \in {"issued", "used"} /\ ~code[k].fresh

Disposable(t) ==
  \/ token[t].state = "revoked"
  \/ token[t].state = "live" /\ ~token[t].renewable

CleanUp ==
  /\ code' = [k \in Code |-> IF Expired(k) THEN Gone ELSE code[k]]
  /\ token' = [t \in Token |-> IF Disposable(t) THEN Gone ELSE token[t]]
  /\ UNCHANGED workspaceVars

(* authCodeTtlMs, accessTokenTtlMs and refreshTokenTtlMs run out.           *)
CodeExpires(k) ==
  /\ InTime(k)
  /\ code' = [code EXCEPT ![k] = [@ EXCEPT !.fresh = FALSE]]
  /\ UNCHANGED <<token, workspaceVars>>

AccessExpires(t) ==
  /\ token[t].state \in {"live", "revoked"}
  /\ token[t].fresh
  /\ ~InTime(token[t].from)
  /\ token' = [token EXCEPT ![t] = [@ EXCEPT !.fresh = FALSE]]
  /\ UNCHANGED <<code, workspaceVars>>

RefreshExpires(t) ==
  /\ token[t].state \in {"live", "revoked"}
  /\ token[t].renewable
  /\ ~token[t].fresh
  /\ token' = [token EXCEPT ![t] = [@ EXCEPT !.renewable = FALSE]]
  /\ UNCHANGED <<code, workspaceVars>>

(* resolveOAuthAccessToken.                                                 *)
Resolves(t) == token[t].state = "live" /\ token[t].fresh

GrantsNext ==
  \/ \E u \in User, c \in Client, p \in Project :
       DisconnectApp(u, c, p) \/ \E k \in Code : Authorize(u, c, p, k)
  \/ \E k \in Code : ReplayCode(k) \/ CodeExpires(k)
                     \/ \E t \in Token : ExchangeCode(k, t)
  \/ \E t \in Token : \/ ReplayToken(t) \/ RevokeToken(t)
                      \/ AccessExpires(t) \/ RefreshExpires(t)
                      \/ \E t2 \in Token : RefreshTokens(t, t2)
  \/ CleanUp

(* Neither removeMember nor deleteProjectAsOwner touches codes or tokens.   *)
Next ==
  \/ GrantsNext
  \/ WorkspaceNext /\ UNCHANGED grantVars
  \/ \E u \in User, p \in Project :
       DeleteProject(u, p) /\ UNCHANGED grantVars

Spec == Init /\ [][Next]_vars

-----------------------------------------------------------------------------
(* A grant lives while one of its tokens can be used or renewed.            *)
Bearers(k) == {t \in Live : token[t].renewable /\ token[t].from = k}

life == [k \in Code |->
  IF Bearers(k) # {} THEN "active"
  ELSE IF code[k].state = "unused" THEN "none"
  ELSE IF code[k].state = "issued" THEN "offered"
  ELSE "ended"]

(* Through any exchanges, rotations, replays, revocations and clean-ups, a  *)
(* code has at most one live token row, so that the tokens a client was     *)
(* given last are the only ones of that grant that work; none works before  *)
(* the code was spent, and an access token never outlives its grant.        *)
OneLiveTokenPerCode ==
  /\ \A t1, t2 \in Live :
       /\ token[t1].from = token[t2].from => t1 = t2
       /\ code[token[t1].from].state \in {"used", "gone"}
  /\ \A t \in Token : Resolves(t) => life[token[t].from] = "active"

Abstract == INSTANCE GrantLife WITH Offer <- Code

(* Codes implement GrantLife: a grant that was revoked, disconnected, ended *)
(* by a replay or left to expire never works again, although its rows, and  *)
(* those of its code, are deleted at other times.                           *)
ImplementsGrantLife == Abstract!Spec
=============================================================================
