------------------------------ MODULE AlertSweeps ------------------------------
(***************************************************************************)
(* Alert rules and the sweeps over them (apps/web/convex/alerts.ts,        *)
(* alertNotifications.ts): users create, edit, switch and remove rules; a  *)
(* repeated job evaluates every enabled rule in one transaction, which     *)
(* records the new states, and afterwards sends one email after the other. *)
(* The queue worker runs several jobs at once, so that a sweep may begin   *)
(* while an earlier one is still sending.                                  *)
(*                                                                         *)
(* Rules are numbered in the order they are created, which is the order a  *)
(* sweep visits them in.  What computeRuleStatus would answer for a rule   *)
(* is an input that may change at any time: events arrive, leave the       *)
(* window, or the rule is edited.                                          *)
(***************************************************************************)
EXTENDS Naturals, Sequences, FiniteSets

CONSTANTS
  MaxRules,      \* bound: rules created
  MaxSweeps,     \* bound: sweeps
  MaxFailures    \* bound: sends that fail

ASSUME AlertAssumption == {MaxRules, MaxSweeps, MaxFailures} \subseteq Nat

Rule == 1 .. MaxRules
Sweep == 1 .. MaxSweeps

VARIABLES
  status,     \* per rule
  trouble,    \* what computeRuleStatus would answer for it
  state,      \* its row of alertStates
  sweeps,     \* number of sweeps begun
  todo,       \* per sweep, the notifications still to send
  turns,      \* per rule, the transitions recorded for it (history)
  inbox,      \* per rule, the emails sent, in order (history)
  failures,   \* sends that failed
  bounced,    \* rules about which a send failed (history)
  crossed     \* has a sweep begun while another was sending? (history)

vars == <<status, trouble, state, sweeps, todo, turns, inbox, failures,
          bounced, crossed>>

historyVars == <<inbox, failures, bounced, crossed>>

Kind == {"firing", "resolved"}

(* A notification; `turn` says which transition of the rule it is about.    *)
Notification == [rule : Rule, turn : Nat, kind : Kind]

Mail(n) == [turn |-> n.turn, kind |-> n.kind]

-----------------------------------------------------------------------------
Init ==
  /\ status = [r \in Rule |-> "new"]
  /\ trouble = [r \in Rule |-> FALSE]
  /\ state = [r \in Rule |-> "none"]
  /\ sweeps = 0
  /\ todo = [s \in Sweep |-> {}]
  /\ turns = [r \in Rule |-> 0]
  /\ inbox = [r \in Rule |-> <<>>]
  /\ failures = 0
  /\ bounced = {}
  /\ crossed = FALSE

(* create, with or without isEnabled.  A rule starts without a state row.   *)
Create(r, as) ==
  /\ status[r] = "new"
  /\ \A q \in Rule : q < r => status[q] # "new"
  /\ status' = [status EXCEPT ![r] = as]
  /\ UNCHANGED <<trouble, state, sweeps, todo, turns, historyVars>>

Exists(r) == status[r] \in {"enabled", "disabled"}

(* update: the switch; other fields only matter to computeRuleStatus.  The  *)
(* state row stays as it is, also that of a rule that is firing.            *)
Update(r, as) ==
  /\ Exists(r)
  /\ status' = [status EXCEPT ![r] = as]
  /\ UNCHANGED <<trouble, state, sweeps, todo, turns, historyVars>>

(* remove: the state row, then the rule.                                    *)
Remove(r) ==
  /\ Exists(r)
  /\ status' = [status EXCEPT ![r] = "removed"]
  /\ state' = [state EXCEPT ![r] = "none"]
  /\ UNCHANGED <<trouble, sweeps, todo, turns, historyVars>>

(* Rows are written or deleted, time passes, the fields of a rule are       *)
(* edited: computeRuleStatus would answer T now.                            *)
TroubleBecomes(T) ==
  /\ trouble' = T
  /\ UNCHANGED <<status, state, sweeps, todo, turns, historyVars>>

Enabled == {r \in Rule : status[r] = "enabled"}

(* Faulty variant: a rule that fires still is reported again.               *)
TurningAnyTrouble ==
  {r \in Enabled : trouble[r] \/ state[r] = "firing"}

(* evaluateRule: the rules whose state is to change.  Without a row, not    *)
(* being in trouble is no news.                                             *)
Turning ==
  {r \in Enabled : IF trouble[r] THEN state[r] # "firing"
                                 ELSE state[r] = "firing"}

Verdict(r) == IF trouble[r] THEN "firing" ELSE "resolved"

(* The evaluate mutation: the rows of all turning rules, in one             *)
(* transaction, and the list of notifications it returns.                   *)
Evaluate(s) ==
  /\ s = sweeps + 1
  /\ sweeps' = s
  /\ state' = [r \in Rule |-> IF r \in Turning THEN Verdict(r) ELSE state[r]]
  /\ turns' = [r \in Rule |-> IF r \in Turning THEN turns[r] + 1 ELSE turns[r]]
  /\ todo' = [todo EXCEPT ![s] =
       {[rule |-> r, turn |-> turns[r] + 1, kind |-> Verdict(r)] : r \in Turning}]
  /\ crossed' = (crossed \/ \E u \in Sweep : todo[u] # {})
  /\ UNCHANGED <<status, trouble, inbox, failures, bounced>>

(* The notification the loop of a sweep is at.                              *)
IsNext(s, n) == n \in todo[s] /\ \A m \in todo[s] : n.rule <= m.rule

Deliver(n) == inbox' = [inbox EXCEPT ![n.rule] = Append(@, Mail(n))]

(* Faulty variant: a return in the loop; one mail per sweep.                *)
SendAndStop(s, n) ==
  /\ IsNext(s, n)
  /\ Deliver(n)
  /\ todo' = [todo EXCEPT ![s] = {}]
  /\ UNCHANGED <<status, trouble, state, sweeps, turns, failures, bounced,
                 crossed>>

(* sendAlertEmail succeeds.  Rule and state are not looked at again.        *)
Send(s, n) ==
  /\ IsNext(s, n)
  /\ Deliver(n)
  /\ todo' = [todo EXCEPT ![s] = @ \ {n}]
  /\ UNCHANGED <<status, trouble, state, sweeps, turns, failures, bounced,
                 crossed>>

(* It throws (or the action dies): the loop is over.  The provider may have *)
(* taken the mail all the same.                                             *)
SendFails(s, n) ==
  /\ IsNext(s, n)
  /\ failures < MaxFailures
  /\ failures' = failures + 1
  /\ bounced' = bounced \cup {n.rule}
  /\ Deliver(n) \/ UNCHANGED inbox
  /\ todo' = [todo EXCEPT ![s] = {}]
  /\ UNCHANGED <<status, trouble, state, sweeps, turns, crossed>>

Next ==
  \/ \E r \in Rule :
       \/ \E as \in {"enabled", "disabled"} : Create(r, as) \/ Update(r, as)
       \/ Remove(r)
  \/ \E T \in [Rule -> BOOLEAN] : TroubleBecomes(T)
  \/ \E s \in Sweep :
       \/ Evaluate(s)
       \/ \E n \in todo[s] : Send(s, n) \/ SendFails(s, n)

Spec == Init /\ [][Next]_vars

-----------------------------------------------------------------------------
Waiting(r) == {s \in Sweep : \E n \in todo[s] : n.rule = r}

(* Every variable has its type; only rules that exist have a state row.     *)
TypeOK ==
  /\ status \in [Rule -> {"new", "enabled", "disabled", "removed"}]
  /\ trouble \in [Rule -> BOOLEAN]
  /\ state \in [Rule -> {"none"} \cup Kind]
  /\ sweeps \in 0 .. MaxSweeps
  /\ todo \in [Sweep -> SUBSET Notification]
  /\ turns \in [Rule -> Nat]
  /\ inbox \in [Rule -> Seq([turn : Nat, kind : Kind])]
  /\ failures \in 0 .. MaxFailures
  /\ bounced \subseteq Rule
  /\ crossed \in BOOLEAN
  /\ \A r \in Rule : ~Exists(r) => state[r] = "none"

(* "steady state never re-notifies" (apps/web/src/app/docs/alerts/          *)
(* content.ts:50): no transition is mailed twice, and the mails of a rule   *)
(* tell of firing and resolved in turn, over overlapping sweeps, failed     *)
(* sends, and rules that are switched off while firing.                     *)
SteadyStateIsSilent ==
  \A r \in Rule : \A i, j \in DOMAIN inbox[r] :
    /\ inbox[r][i].kind = "firing" <=> inbox[r][i].turn % 2 = 1
    /\ inbox[r][i].turn = inbox[r][j].turn => i = j

(* As long as no send fails, each transition is mailed or about to be, and  *)
(* once a sweep is done and none overlapped it, the last mail about a rule  *)
(* says what its row says: nobody is left with a stale alert.               *)
MailTellsTheState ==
  failures = 0 =>
    \A r \in Rule :
      /\ turns[r] = Len(inbox[r]) + Cardinality(Waiting(r))
      /\ ~crossed /\ Waiting(r) = {} /\ state[r] # "none" =>
           inbox[r] # <<>> /\ inbox[r][Len(inbox[r])].kind = state[r]

(* "A transition in either direction sends one email"                       *)
(* (apps/web/src/app/docs/alerts/content.ts:48-49): at least for a rule no  *)
(* send about which has ever failed.                                        *)
OneEmailPerTransition ==
  \A r \in Rule \ bounced : Waiting(r) = {} => Len(inbox[r]) = turns[r]
=============================================================================
