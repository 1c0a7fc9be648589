-------------------------------- MODULE RpcCall --------------------------------
(***************************************************************************)
(* What a dashboard or MCP request to a connector promises its caller,     *)
(* without gateway, sessions, frames or timers.  A request makes some      *)
(* changes (one for each job that it names, say), and each takes effect at *)
(* most once.  "ok" is answered only after all of them did; "rejected"     *)
(* (4xx) only if none did or ever will; every other answer, "failed" (500) *)
(* among them, leaves open which ones did, or still will.                  *)
(***************************************************************************)
EXTENDS Naturals

CONSTANTS
  Call,
  Part      \* the changes of a request

VARIABLES
  answer,   \* what the caller was told, "none" before it asked
  runs      \* how often each change of a call took effect

callVars == <<answer, runs>>

Over == {"ok", "rejected"}
Open == {"failed", "disconnected", "timeout", "unreachable"}

Init ==
  /\ answer = [c \in Call |-> "none"]
  /\ runs = [c \in Call |-> [p \in Part |-> 0]]

Ask(c) ==
  /\ answer[c] = "none"
  /\ answer' = [answer EXCEPT ![c] = "waiting"]
  /\ UNCHANGED runs

Run(c, p) ==
  /\ runs[c][p] = 0
  /\ answer[c] \in {"waiting"} \cup Open
  /\ runs' = [runs EXCEPT ![c][p] = 1]
  /\ UNCHANGED answer

Answer(c, a) ==
  /\ answer[c] = "waiting"
  /\ a = "ok" => \A p \in Part : runs[c][p] = 1
  /\ a = "rejected" => \A p \in Part : runs[c][p] = 0
  /\ answer' = [answer EXCEPT ![c] = a]
  /\ UNCHANGED runs

Next ==
  \E c \in Call :
    \/ Ask(c)
    \/ \E p \in Part : Run(c, p)
    \/ \E a \in Over \cup Open : Answer(c, a)

Spec == Init /\ [][Next]_callVars
=============================================================================
