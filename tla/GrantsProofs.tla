------------------------------ MODULE GrantsProofs ------------------------------
(***************************************************************************)
(* What is proved about Grants and the Workspace it extends, for any       *)
(* numbers of users, projects, invites, clients, codes and tokens.         *)
(***************************************************************************)
EXTENDS Grants, WorkspaceProofs

Bears(t) == token[t].state = "live" /\ token[t].renewable

(* A live row was issued on a spent code, shares it with no other live row, *)
(* and cannot outlive its refresh token.                                    *)
RowsInv ==
  /\ GrantsTypeOK
  /\ \A t \in Token : token[t].state = "live" =>
       /\ code[token[t].from].state \in {"used", "gone"}
       /\ token[t].fresh => token[t].renewable
  /\ \A s, t \in Token :
       token[s].state = "live" /\ token[t].state = "live"
       /\ token[s].from = token[t].from => s = t

IInv == WorkspaceInv /\ RowsInv

(* What a step does to the codes, and where a usable row may come from.     *)
CodeAges(k) ==
  \/ code'[k].state = code[k].state
  \/ code[k].state = "unused" /\ code'[k].state = "issued"
  \/ code[k].state = "issued" /\ code'[k].state \in {"used", "gone"}
  \/ code[k].state = "used" /\ code'[k].state = "gone"

RowsAge ==
  /\ \A k \in Code : CodeAges(k)
  /\ \A t \in Token : Bears(t)' =>
       \/ \E s \in Token : Bears(s) /\ token[s].from = token'[t].from
       \/ code[token'[t].from].state = "issued"

-----------------------------------------------------------------------------
LEMMA InitInv == Init => IInv
<1> SUFFICES ASSUME Init PROVE IInv
  OBVIOUS
<1>1. WorkspaceInv
  BY WorkspaceInitInv DEF Init
<1>2. RowsInv
  BY DEF Init, RowsInv, GrantsTypeOK, NoRow
<1> QED
  BY <1>1, <1>2 DEF IInv

LEMMA TokenFields ==
  ASSUME GrantsTypeOK, NEW t \in Token, token[t].state \in {"live", "revoked"}
  PROVE  /\ token[t] \in TokenRow
         /\ token[t].from \in Code
BY DEF GrantsTypeOK, NoRow, Gone, TokenRow

LEMMA CodeFields ==
  ASSUME GrantsTypeOK, NEW k \in Code, code[k].state \in {"issued", "used"}
  PROVE  code[k] \in CodeRow
BY DEF GrantsTypeOK, NoRow, Gone, CodeRow

(* Steps that bring no row: they revoke, expire or delete some.             *)
Fades ==
  /\ GrantsTypeOK'
  /\ \A k \in Code : CodeAges(k)
  /\ \A t \in Token : token'[t].state = "live" =>
       /\ token[t].state = "live"
       /\ token'[t].from = token[t].from
       /\ token'[t].renewable => token[t].renewable
       /\ token'[t].fresh => token'[t].renewable

LEMMA FadesInv ==
  ASSUME RowsInv, Fades
  PROVE  RowsInv' /\ RowsAge
<1>1. \A t \in Token : token'[t].state = "live" =>
        code'[token'[t].from].state \in {"used", "gone"}
  BY TokenFields DEF RowsInv, Fades, CodeAges
<1>2. RowsInv'
  BY <1>1 DEF RowsInv, Fades
<1>3. RowsAge
  BY DEF RowsAge, Fades, Bears
<1> QED
  BY <1>2, <1>3

LEMMA RevokedFades ==
  ASSUME RowsInv, NEW T \in SUBSET Token,
         \A t \in T : token[t].state = "live",
         token' = Revoked(T), code' = code
  PROVE  Fades
<1>1. \A t \in Token \ T : token'[t] = token[t]
  BY DEF Revoked
<1>2. \A t \in T : token'[t] \in TokenRow /\ token'[t].state = "revoked"
  <2> SUFFICES ASSUME NEW t \in T
               PROVE  token'[t] \in TokenRow /\ token'[t].state = "revoked"
    OBVIOUS
  <2>1. token[t] \in TokenRow
    BY TokenFields DEF RowsInv
  <2>2. token'[t] = [token[t] EXCEPT !.state = "revoked"]
    BY DEF Revoked
  <2> QED
    BY <2>1, <2>2 DEF TokenRow
<1>3. token' \in [Token -> TokenRow \cup {NoRow, Gone}]
  <2>1. token' = [t \in Token |-> token'[t]]
    BY DEF Revoked
  <2>2. \A t \in Token : token'[t] \in TokenRow \cup {NoRow, Gone}
    BY <1>1, <1>2 DEF RowsInv, GrantsTypeOK
  <2> QED
    BY <2>1, <2>2
<1> QED
  BY <1>1, <1>2, <1>3 DEF RowsInv, Fades, GrantsTypeOK, CodeAges

LEMMA FamilyIsLive ==
  ASSUME NEW row PROVE Family(row) \in SUBSET Token
                       /\ \A t \in Family(row) : token[t].state = "live"
BY DEF Family, Live

-----------------------------------------------------------------------------
LEMMA AuthorizeFades ==
  ASSUME RowsInv, NEW u \in User, NEW c \in Client, NEW p \in Project,
         NEW k \in Code, Authorize(u, c, p, k)
  PROVE  Fades
<1>1. /\ code[k].state = "unused" /\ code'[k].state = "issued"
      /\ \A l \in Code \ {k} : code'[l] = code[l]
      /\ token' = token
  BY DEF Authorize, RowsInv, GrantsTypeOK, NoRow
<1>2. GrantsTypeOK'
  BY DEF Authorize, RowsInv, GrantsTypeOK, CodeRow
<1> QED
  BY <1>1, <1>2 DEF RowsInv, Fades, CodeAges

LEMMA CodeExpiresFades ==
  ASSUME RowsInv, NEW k \in Code, CodeExpires(k)
  PROVE  Fades
<1> DEFINE row == [code[k] EXCEPT !.fresh = FALSE]
<1>1. /\ row \in CodeRow /\ row.state = code[k].state
      /\ code' = [code EXCEPT ![k] = row] /\ token' = token
  BY CodeFields DEF CodeExpires, InTime, RowsInv, CodeRow
<1> HIDE DEF row
<1>2. GrantsTypeOK'
  BY <1>1 DEF RowsInv, GrantsTypeOK
<1> QED
  BY <1>1, <1>2 DEF RowsInv, Fades, CodeAges, GrantsTypeOK

LEMMA AccessExpiresFades ==
  ASSUME RowsInv, NEW t \in Token, AccessExpires(t)
  PROVE  Fades
<1> DEFINE row == [token[t] EXCEPT !.fresh = FALSE]
<1>1. /\ row \in TokenRow /\ row.state = token[t].state
      /\ row.from = token[t].from /\ row.renewable = token[t].renewable
      /\ ~row.fresh
  <2>1. token[t] \in TokenRow
    BY TokenFields DEF AccessExpires, RowsInv
  <2> QED
    BY <2>1 DEF TokenRow
<1>2. token' = [token EXCEPT ![t] = row] /\ code' = code
  BY DEF AccessExpires
<1> HIDE DEF row
<1>3. GrantsTypeOK'
  BY <1>1, <1>2 DEF RowsInv, GrantsTypeOK
<1> QED
  BY <1>1, <1>2, <1>3 DEF RowsInv, Fades, CodeAges, GrantsTypeOK

LEMMA RefreshExpiresFades ==
  ASSUME RowsInv, NEW t \in Token, RefreshExpires(t)
  PROVE  Fades
<1> DEFINE row == [token[t] EXCEPT !.renewable = FALSE]
<1>1. /\ row \in TokenRow /\ row.state = token[t].state
      /\ row.from = token[t].from /\ ~row.renewable /\ ~row.fresh
  <2>1. token[t] \in TokenRow /\ ~token[t].fresh
    BY TokenFields DEF RefreshExpires, RowsInv
  <2> QED
    BY <2>1 DEF TokenRow
<1>2. token' = [token EXCEPT ![t] = row] /\ code' = code
  BY DEF RefreshExpires
<1> HIDE DEF row
<1>3. GrantsTypeOK'
  BY <1>1, <1>2 DEF RowsInv, GrantsTypeOK
<1> QED
  BY <1>1, <1>2, <1>3 DEF RowsInv, Fades, CodeAges, GrantsTypeOK

LEMMA CleanUpFades ==
  ASSUME RowsInv, CleanUp
  PROVE  Fades
<1>1. /\ \A k \in Code : code'[k] = IF Expired(k) THEN Gone ELSE code[k]
      /\ \A t \in Token : token'[t] = IF Disposable(t) THEN Gone ELSE token[t]
  BY DEF CleanUp
<1>2. GrantsTypeOK'
  BY DEF CleanUp, RowsInv, GrantsTypeOK
<1>3. \A k \in Code : CodeAges(k)
  BY <1>1 DEF CodeAges, Expired, Gone
<1> QED
  BY <1>1, <1>2, <1>3 DEF RowsInv, Fades, Gone

(* All steps but the two that insert a row.                                 *)
LEMMA OthersFade ==
  ASSUME RowsInv, GrantsNext
  PROVE  \/ Fades
         \/ \E k \in Code, t \in Token : ExchangeCode(k, t)
         \/ \E t, t2 \in Token : RefreshTokens(t, t2)
<1>1. ASSUME NEW u \in User, NEW c \in Client, NEW p \in Project,
             DisconnectApp(u, c, p)
      PROVE  Fades
  BY <1>1, RevokedFades, FamilyIsLive DEF DisconnectApp
<1>2. ASSUME NEW k \in Code, ReplayCode(k)
      PROVE  Fades
  BY <1>2, RevokedFades, FamilyIsLive DEF ReplayCode
<1>3. ASSUME NEW t \in Token, ReplayToken(t)
      PROVE  Fades
  BY <1>3, RevokedFades, FamilyIsLive DEF ReplayToken
<1>4. ASSUME NEW t \in Token, RevokeToken(t)
      PROVE  Fades
  BY <1>4, RevokedFades DEF RevokeToken, Live
<1> QED
  BY <1>1, <1>2, <1>3, <1>4, AuthorizeFades, CodeExpiresFades,
     AccessExpiresFades, RefreshExpiresFades, CleanUpFades DEF GrantsNext

-----------------------------------------------------------------------------
LEMMA ExchangeInv ==
  ASSUME RowsInv, NEW k \in Code, NEW t \in Token, ExchangeCode(k, t)
  PROVE  RowsInv' /\ RowsAge
<1> DEFINE row == [code[k] EXCEPT !.state = "used"]
           new == NewToken(code[k], k)
<1>1. /\ code[k].state = "issued"
      /\ row \in CodeRow /\ row.state = "used"
      /\ new \in TokenRow /\ new.from = k /\ new.state = "live"
      /\ new.fresh /\ new.renewable
      /\ code' = [code EXCEPT ![k] = row] /\ token' = [token EXCEPT ![t] = new]
  BY CodeFields DEF ExchangeCode, IsValidCode, RowsInv, CodeRow, TokenRow,
                    NewToken
<1>2. \A s \in Token : token[s].state = "live" => token[s].from # k
  BY <1>1 DEF RowsInv
<1> HIDE DEF row, new
<1>3. GrantsTypeOK'
  BY <1>1 DEF RowsInv, GrantsTypeOK
<1>4. /\ code'[k] = row /\ \A l \in Code \ {k} : code'[l] = code[l]
      /\ token'[t] = new /\ \A s \in Token \ {t} : token'[s] = token[s]
  BY <1>1 DEF RowsInv, GrantsTypeOK
<1>5. \A s \in Token : token'[s].state = "live" =>
        /\ code'[token'[s].from].state \in {"used", "gone"}
        /\ token'[s].fresh => token'[s].renewable
  BY <1>1, <1>2, <1>4, TokenFields DEF RowsInv
<1>6. RowsInv'
  BY <1>1, <1>2, <1>3, <1>4, <1>5 DEF RowsInv
<1>7. RowsAge
  BY <1>1, <1>4 DEF RowsAge, CodeAges, Bears
<1> QED
  BY <1>6, <1>7

LEMMA RefreshInv ==
  ASSUME RowsInv, NEW t \in Token, NEW t2 \in Token, RefreshTokens(t, t2)
  PROVE  RowsInv' /\ RowsAge
<1> DEFINE old == [token[t] EXCEPT !.state = "revoked"]
           new == NewToken(token[t], token[t].from)
<1>1. /\ token[t].state = "live" /\ token[t].renewable
      /\ token[t].from \in Code /\ t # t2
      /\ old \in TokenRow /\ old.state = "revoked"
      /\ new \in TokenRow /\ new.from = token[t].from /\ new.state = "live"
      /\ new.fresh /\ new.renewable
      /\ token' = [token EXCEPT ![t] = old, ![t2] = new] /\ code' = code
  BY TokenFields DEF RefreshTokens, Rotated, IsRenewable, RowsInv, TokenRow,
                     NewToken, NoRow
<1> HIDE DEF old, new
<1>2. GrantsTypeOK'
  BY <1>1 DEF RowsInv, GrantsTypeOK
<1>3. /\ token'[t] = old /\ token'[t2] = new
      /\ \A s \in Token \ {t, t2} : token'[s] = token[s]
  BY <1>1 DEF RowsInv, GrantsTypeOK
<1>4. \A s \in Token : token'[s].state = "live" =>
        \/ s = t2
        \/ token'[s] = token[s] /\ token[s].from # token[t].from
  <2> SUFFICES ASSUME NEW s \in Token, token'[s].state = "live", s # t2
               PROVE  token'[s] = token[s] /\ token[s].from # token[t].from
    OBVIOUS
  <2>1. s # t
    BY <1>1, <1>3
  <2>2. token'[s] = token[s]
    BY <2>1, <1>3
  <2>3. token[t].state = "live"
    BY <1>1
  <2> QED
    BY <2>1, <2>2, <2>3 DEF RowsInv
<1>5. code[token[t].from].state \in {"used", "gone"}
  BY <1>1 DEF RowsInv
<1>6. \A s \in Token : token'[s].state = "live" =>
        /\ code'[token'[s].from].state \in {"used", "gone"}
        /\ token'[s].fresh => token'[s].renewable
  <2> SUFFICES ASSUME NEW s \in Token, token'[s].state = "live"
               PROVE  /\ code'[token'[s].from].state \in {"used", "gone"}
                      /\ token'[s].fresh => token'[s].renewable
    OBVIOUS
  <2>1. CASE s = t2
    BY <2>1, <1>1, <1>3, <1>5
  <2>2. CASE s # t2
    BY <2>2, <1>1, <1>4 DEF RowsInv
  <2> QED
    BY <2>1, <2>2
<1>7. \A r, s \in Token :
        token'[r].state = "live" /\ token'[s].state = "live"
        /\ token'[r].from = token'[s].from => r = s
  BY <1>1, <1>3, <1>4 DEF RowsInv
<1>8. RowsInv'
  BY <1>2, <1>6, <1>7 DEF RowsInv
<1>9. ASSUME NEW s \in Token, Bears(s)'
      PROVE  \E r \in Token : Bears(r) /\ token[r].from = token'[s].from
  <2>1. Bears(t)
    BY <1>1 DEF Bears
  <2>2. CASE s = t2
    BY <2>1, <2>2, <1>1, <1>3
  <2>3. CASE s # t2
    BY <2>3, <1>4, <1>9 DEF Bears
  <2> QED
    BY <2>2, <2>3
<1>10. RowsAge
  BY <1>1, <1>9 DEF RowsAge, CodeAges
<1> QED
  BY <1>8, <1>10

-----------------------------------------------------------------------------
LEMMA StepInv == IInv /\ [Next]_vars => IInv' /\ RowsAge
<1> SUFFICES ASSUME IInv, [Next]_vars PROVE IInv' /\ RowsAge
  OBVIOUS
<1>1. WorkspaceStep
  <2>1. CASE GrantsNext
    BY <2>1 DEF WorkspaceStep, GrantsNext, DisconnectApp, Authorize, ReplayCode,
       CodeExpires, ExchangeCode, ReplayToken, RevokeToken, AccessExpires,
       RefreshExpires, RefreshTokens, CleanUp
  <2>2. CASE ~GrantsNext
    BY <2>2 DEF WorkspaceStep, Next, vars
  <2> QED
    BY <2>1, <2>2
<1>2. WorkspaceInv'
  BY <1>1, WorkspaceStepInv DEF IInv
<1>3. RowsInv' /\ RowsAge
  <2>1. CASE GrantsNext
    BY <2>1, OthersFade, FadesInv, ExchangeInv, RefreshInv DEF IInv
  <2>2. CASE UNCHANGED grantVars
    BY <2>2, FadesInv DEF IInv, RowsInv, Fades, GrantsTypeOK, CodeAges, grantVars
  <2> QED
    BY <2>1, <2>2 DEF Next, vars
<1> QED
  BY <1>2, <1>3 DEF IInv

(* The invariant all results of this module rest on.                        *)
THEOREM GrantsInvariant == Spec => []IInv
<1>1. IInv /\ [Next]_vars => IInv'
  BY StepInv
<1> QED
  BY <1>1, InitInv, PTL DEF Spec

(* For every number of members and invites, an open project keeps its       *)
(* founder as an owner, and a deleted one has no members and no invites     *)
(* (removeMember, accept and deleteProjectAsOwner, whatever the order).     *)
THEOREM ProjectsAreOwned == Spec => []OwnedWhileOpen
<1>1. IInv => OwnedWhileOpen
  BY DEF IInv, WorkspaceInv
<1> QED
  BY <1>1, GrantsInvariant, PTL

(* A membership comes from founding the project or from one invite for that *)
(* user and role, which is spent by it (invites.ts, accept).                *)
THEOREM MembershipsAreEarned == Spec => []SeatsAreEarned
<1>1. IInv => SeatsAreEarned
  BY DEF IInv, WorkspaceInv
<1> QED
  BY <1>1, GrantsInvariant, PTL

(* Whatever is exchanged, rotated, replayed, revoked or cleaned up, a code  *)
(* has one live token row at most, issued on a spent code, and an access    *)
(* token works only while its grant is active (oauthProvider.ts).           *)
THEOREM OneTokenPerCode == Spec => []OneLiveTokenPerCode
<1>1. IInv => OneLiveTokenPerCode
  <2> SUFFICES ASSUME IInv PROVE OneLiveTokenPerCode
    OBVIOUS
  <2>1. ASSUME NEW t \in Token, Resolves(t)
        PROVE  life[token[t].from] = "active"
    <3>1. t \in Bearers(token[t].from) /\ token[t].from \in Code
      BY <2>1, TokenFields DEF Resolves, IInv, RowsInv, Bearers, Live
    <3> QED
      BY <3>1 DEF life
  <2> QED
    BY <2>1 DEF IInv, RowsInv, OneLiveTokenPerCode, Live
<1> QED
  BY <1>1, GrantsInvariant, PTL

-----------------------------------------------------------------------------
LEMMA NoBearer ==
  ASSUME NEW k \in Code
  PROVE  (Bearers(k) = {}) <=> \A t \in Token : Bears(t) => token[t].from # k
BY DEF Bearers, Live, Bears


(* A step of the rows is a step of every grant, or leaves it as it is.      *)
LEMMA LifeFollows ==
  ASSUME IInv, IInv', RowsAge, NEW k \in Code
  PROVE  Abstract!Follows(life[k], life'[k])
<1> DEFINE none == \A t \in Token : Bears(t) => token[t].from # k
           none1 == \A t \in Token : Bears(t)' => token'[t].from # k
<1>1. life[k] = IF ~none THEN "active"
                ELSE IF code[k].state = "unused" THEN "none"
                ELSE IF code[k].state = "issued" THEN "offered"
                ELSE "ended"
  BY NoBearer DEF life
<1>2. life'[k] = IF ~none1 THEN "active"
                 ELSE IF code'[k].state = "unused" THEN "none"
                 ELSE IF code'[k].state = "issued" THEN "offered"
                 ELSE "ended"
  BY DEF life, Bearers, Live, Bears
<1>3. code[k].state \in {"unused", "issued"} => none
  BY DEF IInv, RowsInv, Bears
<1>4. code'[k].state \in {"unused", "issued"} => none1
  BY DEF IInv, RowsInv, Bears
<1>5. none /\ code[k].state # "issued" => none1
  BY DEF RowsAge, Bears
<1>6. /\ code[k].state \in {"unused", "issued", "used", "gone"}
      /\ code'[k].state \in {"unused", "issued", "used", "gone"}
      /\ CodeAges(k)
  BY DEF IInv, RowsInv, GrantsTypeOK, CodeRow, NoRow, Gone, RowsAge
<1> HIDE DEF none, none1
<1> QED
  BY <1>1, <1>2, <1>3, <1>4, <1>5, <1>6 DEF Abstract!Follows, CodeAges

(* Codes and token rows implement GrantLife for all clients, codes and      *)
(* rotations: no replay, cleanup or refresh revives a grant that ended.     *)
THEOREM GrantsImplementGrantLife == Spec => ImplementsGrantLife
<1>1. Init => Abstract!Init
  <2> SUFFICES ASSUME Init PROVE life = [k \in Code |-> "none"]
    BY DEF Abstract!Init
  <2>1. \A k \in Code : Bearers(k) = {} /\ code[k].state = "unused"
    BY DEF Init, Bearers, Live, NoRow
  <2> QED
    BY <2>1 DEF life
<1>2. IInv /\ [Next]_vars => [Abstract!Next]_life
  <2> SUFFICES ASSUME IInv, [Next]_vars PROVE Abstract!Next
    OBVIOUS
  <2>1. IInv' /\ RowsAge
    BY StepInv
  <2>2. life' \in [Code -> Abstract!Stage]
    BY DEF life, Abstract!Stage
  <2> QED
    BY <2>1, <2>2, LifeFollows DEF Abstract!Next
<1> QED
  BY <1>1, <1>2, GrantsInvariant, PTL DEF Spec, ImplementsGrantLife, Abstract!Spec
=============================================================================
