----------------------------- MODULE MCEventOutbox -----------------------------
(* Instance of EventOutbox for TLC: one queue whose two terminal events may *)
(* arrive in either order, another with one, and a snapshot, whose number   *)
(* must not move the cursor.                                                *)
EXTENDS EventOutbox

CONSTANTS q1, q2

MCArriving == {[queue |-> q1, kind |-> "terminal", n |-> 1],
               [queue |-> q1, kind |-> "terminal", n |-> 2],
               [queue |-> q2, kind |-> "snapshot", n |-> 2]}
=============================================================================
