------------------------------ MODULE EventLedger ------------------------------
(***************************************************************************)
(* What event delivery promises a project, without outbox, socket, gateway *)
(* or retries: events happen, and the ingestEvents table gains at most one *)
(* row for each of them, never a row for anything else.                    *)
(***************************************************************************)
EXTENDS Naturals

CONSTANT LedgerEvent   \* the events (uuids) of one connector

VARIABLES
  produced,   \* the events that happened
  rows        \* rows[e]: how many rows of ingestEvents carry uuid e

ledgerVars == <<produced, rows>>

Init == produced = {} /\ rows = [e \in LedgerEvent |-> 0]

Produce(e) ==
  /\ e \notin produced
  /\ produced' = produced \cup {e}
  /\ UNCHANGED rows

(* One transaction may add the rows of several events.                      *)
Record(S) ==
  /\ S \subseteq produced
  /\ S # {}
  /\ \A e \in S : rows[e] = 0
  /\ rows' = [e \in LedgerEvent |-> IF e \in S THEN 1 ELSE rows[e]]
  /\ UNCHANGED produced

Next ==
  \/ \E e \in LedgerEvent : Produce(e)
  \/ \E S \in SUBSET LedgerEvent : Record(S)

Spec == Init /\ [][Next]_ledgerVars

RecordSome(e) == \E S \in SUBSET LedgerEvent : e \in S /\ Record(S)

(* Nothing that happened stays unrecorded for ever.                         *)
FairSpec == Spec /\ \A e \in LedgerEvent : WF_ledgerVars(RecordSome(e))
=============================================================================
