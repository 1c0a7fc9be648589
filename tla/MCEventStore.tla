----------------------------- MODULE MCEventStore -----------------------------
(* An instance of EventStore: connectors, slugs and users are               *)
(* interchangeable.                                                         *)
EXTENDS EventStore, TLC

Interchangeable ==
  Permutations(Connector) \cup Permutations(Slug) \cup Permutations(User)
=============================================================================
