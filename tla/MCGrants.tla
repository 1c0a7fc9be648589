------------------------------- MODULE MCGrants -------------------------------
(* An instance of Grants: users, rows and clients are interchangeable.      *)
EXTENDS Grants, TLC

Interchangeable ==
  Permutations(User) \cup Permutations(Invite) \cup Permutations(Code)
    \cup Permutations(Token)
=============================================================================
