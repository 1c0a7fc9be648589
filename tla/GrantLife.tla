------------------------------- MODULE GrantLife -------------------------------
(***************************************************************************)
(* What an authorization code promises (apps/web/convex/oauthProvider.ts): *)
(* it can begin a grant once, and a grant that has ended stays ended.      *)
(***************************************************************************)
CONSTANT Offer

VARIABLE life   \* per code: none, offered, active, ended

Stage == {"none", "offered", "active", "ended"}

Init == life = [k \in Offer |-> "none"]

(* An offer may lapse unused; a grant is never suspended and taken up again.*)
Follows(from, to) ==
  \/ to = from
  \/ from = "none" /\ to = "offered"
  \/ from = "offered" /\ to \in {"active", "ended"}
  \/ from = "active" /\ to = "ended"

Next ==
  /\ life' \in [Offer -> Stage]
  /\ \A k \in Offer : Follows(life[k], life'[k])

Spec == Init /\ [][Next]_life
=============================================================================
