---------------------------- MODULE InsightsProofs ----------------------------
(***************************************************************************)
(* Proofs about AlertSweeps, for any numbers of rules, sweeps and failed   *)
(* sends, and about Insights, which implements it, for any rows, rules and *)
(* clocks: that it implements AlertSweeps, what its conditions read, and   *)
(* that its reports add up.                                                *)
(***************************************************************************)
EXTENDS Insights, SequenceTheorems, FiniteSetTheorems, WellFoundedInduction,
        TLAPS

MailType == [turn : Nat, kind : Kind]

Typed ==
  /\ status \in [Rule -> {"new", "enabled", "disabled", "removed"}]
  /\ trouble \in [Rule -> BOOLEAN]
  /\ state \in [Rule -> {"none"} \cup Kind]
  /\ todo \in [Sweep -> SUBSET Notification]
  /\ turns \in [Rule -> Nat]
  /\ inbox \in [Rule -> Seq(MailType)]

(* A mail or a notification m about rule r tells of a turn that rule has    *)
(* taken: the odd ones were to firing.                                      *)
Tells(r, m) ==
  /\ m.turn <= turns[r]
  /\ m.kind = "firing" <=> m.turn % 2 = 1

TurnsAlternate ==
  \A r \in Rule : status[r] # "removed" =>
    (state[r] = "firing" <=> turns[r] % 2 = 1)

TodoTells == \A s \in Sweep : \A n \in todo[s] : Tells(n.rule, n)

InboxTells == \A r \in Rule : \A i \in DOMAIN inbox[r] : Tells(r, inbox[r][i])

(* A transition is waiting in one sweep only, and then was not mailed.      *)
WaitsOnce ==
  \A s, u \in Sweep : \A n \in todo[s], m \in todo[u] :
    n.rule = m.rule /\ n.turn = m.turn => s = u /\ n = m

WaitsUnmailed ==
  \A s \in Sweep : \A n \in todo[s] :
    \A i \in DOMAIN inbox[n.rule] : inbox[n.rule][i].turn # n.turn

MailedOnce ==
  \A r \in Rule : \A i, j \in DOMAIN inbox[r] :
    inbox[r][i].turn = inbox[r][j].turn => i = j

IInv ==
  /\ Typed
  /\ TurnsAlternate
  /\ TodoTells /\ InboxTells
  /\ WaitsOnce /\ WaitsUnmailed /\ MailedOnce

-----------------------------------------------------------------------------
LEMMA InitInv == Init => IInv
BY DEF Init, IInv, Typed, TurnsAlternate, TodoTells, InboxTells, WaitsOnce,
       WaitsUnmailed, MailedOnce, Kind

(* Steps that touch neither mails nor turns.                                *)
LEMMA RuleStepsInv ==
  ASSUME IInv, UNCHANGED <<todo, turns, inbox>>,
         status' \in [Rule -> {"new", "enabled", "disabled", "removed"}],
         trouble' \in [Rule -> BOOLEAN],
         state' \in [Rule -> {"none"} \cup Kind],
         \A q \in Rule : status'[q] # "removed" =>
           status[q] # "removed" /\ state'[q] = state[q]
  PROVE  IInv'
BY DEF IInv, Typed, TurnsAlternate, TodoTells, InboxTells, Tells, WaitsOnce,
       WaitsUnmailed, MailedOnce

LEMMA CreateInv ==
  ASSUME IInv, NEW r \in Rule, NEW as \in {"enabled", "disabled"}, Create(r, as)
  PROVE  IInv'
BY RuleStepsInv DEF Create, historyVars, IInv, Typed

LEMMA UpdateInv ==
  ASSUME IInv, NEW r \in Rule, NEW as \in {"enabled", "disabled"}, Update(r, as)
  PROVE  IInv'
BY RuleStepsInv DEF Update, Exists, historyVars, IInv, Typed

LEMMA RemoveInv ==
  ASSUME IInv, NEW r \in Rule, Remove(r)
  PROVE  IInv'
BY RuleStepsInv DEF Remove, historyVars, IInv, Typed

LEMMA TroubleBecomesInv ==
  ASSUME IInv, NEW T \in [Rule -> BOOLEAN], TroubleBecomes(T)
  PROVE  IInv'
BY RuleStepsInv DEF TroubleBecomes, historyVars, IInv, Typed

-----------------------------------------------------------------------------
LEMMA Parity ==
  ASSUME NEW k \in Nat
  PROVE  (k + 1) % 2 = 1 <=> ~(k % 2 = 1)
OBVIOUS

(* What a sweep finds is news: the next turn of each rule it reports.       *)
LEMMA EvaluateNews ==
  ASSUME IInv, NEW s \in Sweep, Evaluate(s)
  PROVE  /\ \A n \in todo'[s] : /\ n \in Notification
                                /\ n.turn = turns[n.rule] + 1
                                /\ Tells(n.rule, n)'
         /\ \A n, m \in todo'[s] : n.rule = m.rule => n = m
         /\ \A u \in Sweep \ {s} : todo'[u] = todo[u]
         /\ \A r \in Rule : turns'[r] \in Nat /\ turns[r] <= turns'[r]
<1>1. /\ \A r \in Turning : r \in Rule /\ turns'[r] = turns[r] + 1
      /\ \A r \in Rule : r \notin Turning => turns'[r] = turns[r]
      /\ \A r \in Rule : turns[r] \in Nat
  BY DEF Evaluate, Turning, Enabled, IInv, Typed
<1>2. todo'[s] = {[rule |-> r, turn |-> turns[r] + 1, kind |-> Verdict(r)]
                    : r \in Turning}
      /\ \A u \in Sweep \ {s} : todo'[u] = todo[u]
  BY DEF Evaluate, IInv, Typed
<1>3. \A r \in Turning : /\ Verdict(r) \in Kind
                         /\ Verdict(r) = "firing" <=> (turns[r] + 1) % 2 = 1
  BY <1>1, Parity DEF Verdict, Kind, Turning, Enabled, IInv, TurnsAlternate
<1>4. ASSUME NEW n \in todo'[s]
      PROVE  /\ n \in Notification /\ n.rule \in Turning
             /\ n.turn = turns[n.rule] + 1 /\ n.kind = Verdict(n.rule)
             /\ n = [rule |-> n.rule, turn |-> turns[n.rule] + 1,
                     kind |-> Verdict(n.rule)]
  <2>1. PICK r \in Turning :
          n = [rule |-> r, turn |-> turns[r] + 1, kind |-> Verdict(r)]
    BY <1>2
  <2> QED
    BY <2>1, <1>1, <1>3 DEF Notification
<1>5. \A n \in todo'[s] : Tells(n.rule, n)'
  BY <1>1, <1>3, <1>4 DEF Tells
<1> QED
  BY <1>1, <1>2, <1>4, <1>5

LEMMA EvaluateInv ==
  ASSUME IInv, NEW s \in Sweep, Evaluate(s)
  PROVE  IInv'
<1>1. inbox' = inbox /\ status' = status /\ trouble' = trouble
  BY DEF Evaluate
<1>2. Typed'
  <2>1. state' \in [Rule -> {"none"} \cup Kind]
    BY DEF Evaluate, IInv, Typed, Verdict, Kind
  <2>2. turns' \in [Rule -> Nat]
    BY DEF Evaluate, IInv, Typed
  <2>3. todo' \in [Sweep -> SUBSET Notification]
    <3>1. todo'[s] \in SUBSET Notification
      BY EvaluateNews
    <3> QED
      BY <3>1, EvaluateNews DEF Evaluate, IInv, Typed
  <2> QED
    BY <1>1, <2>1, <2>2, <2>3 DEF IInv, Typed
<1>3. TurnsAlternate'
  <2> SUFFICES ASSUME NEW r \in Rule, status[r] # "removed"
               PROVE  state'[r] = "firing" <=> turns'[r] % 2 = 1
    BY <1>1 DEF TurnsAlternate
  <2>1. CASE r \in Turning
    BY <2>1, Parity DEF Evaluate, Turning, Enabled, Verdict, IInv, Typed,
                        TurnsAlternate
  <2>2. CASE r \notin Turning
    BY <2>2 DEF Evaluate, IInv, Typed, TurnsAlternate
  <2> QED
    BY <2>1, <2>2
<1>4. ASSUME NEW r \in Rule, NEW m, m.turn \in Nat, Tells(r, m)
      PROVE  Tells(r, m)'
  BY <1>4, EvaluateNews DEF IInv, Typed, Tells
<1>5. TodoTells'
  <2> SUFFICES ASSUME NEW u \in Sweep, NEW n \in todo'[u]
               PROVE  Tells(n.rule, n)'
    BY DEF TodoTells
  <2>1. CASE u # s
    <3>1. n \in todo[u]
      BY <2>1, EvaluateNews
    <3>2. n.rule \in Rule /\ n.turn \in Nat /\ Tells(n.rule, n)
      BY <3>1 DEF IInv, Typed, Notification, TodoTells
    <3> QED
      BY <3>2, <1>4
  <2>2. CASE u = s
    BY <2>2, EvaluateNews
  <2> QED
    BY <2>1, <2>2
<1>6. ASSUME NEW r \in Rule, NEW i \in DOMAIN inbox[r]
      PROVE  inbox[r][i].turn \in Nat /\ Tells(r, inbox[r][i])
  <2>1. inbox[r] \in Seq(MailType)
    BY DEF IInv, Typed
  <2>2. inbox[r][i] \in MailType
    BY <2>1
  <2> QED
    BY <2>2 DEF IInv, InboxTells, MailType
<1>7. InboxTells'
  BY <1>1, <1>4, <1>6 DEF InboxTells
<1>8. ASSUME NEW u \in Sweep, NEW n \in todo[u], NEW m \in todo'[s]
      PROVE  ~(n.rule = m.rule /\ n.turn = m.turn)
  <2>1. n.rule \in Rule /\ n.turn \in Nat /\ n.turn <= turns[n.rule]
    BY DEF IInv, Typed, TodoTells, Tells, Notification
  <2>2. m.turn = turns[m.rule] + 1
    BY EvaluateNews
  <2> QED
    BY <2>1, <2>2 DEF IInv, Typed
<1>9. WaitsOnce'
  <2> SUFFICES ASSUME NEW u \in Sweep, NEW v \in Sweep, NEW n \in todo'[u],
                      NEW m \in todo'[v], n.rule = m.rule, n.turn = m.turn
               PROVE  u = v /\ n = m
    BY DEF WaitsOnce
  <2>1. CASE u = s
    <3>1. v = s
      BY <2>1, <1>8, EvaluateNews
    <3> QED
      BY <2>1, <3>1, EvaluateNews
  <2>2. CASE u # s
    <3>1. v # s /\ n \in todo[u]
      BY <2>2, <1>8, EvaluateNews
    <3>2. m \in todo[v]
      BY <3>1, EvaluateNews
    <3> QED
      BY <3>1, <3>2 DEF IInv, WaitsOnce
  <2> QED
    BY <2>1, <2>2
<1>10. WaitsUnmailed'
  <2>1. ASSUME NEW n \in todo'[s], NEW i \in DOMAIN inbox[n.rule]
        PROVE  inbox[n.rule][i].turn # n.turn
    <3>1. n.rule \in Rule /\ n.turn = turns[n.rule] + 1
      BY EvaluateNews DEF Notification
    <3> QED
      BY <3>1, <1>6 DEF IInv, Typed, Tells
  <2>2. ASSUME NEW u \in Sweep \ {s}, NEW n \in todo'[u],
               NEW i \in DOMAIN inbox[n.rule]
        PROVE  inbox[n.rule][i].turn # n.turn
    <3>1. n \in todo[u]
      BY EvaluateNews
    <3> QED
      BY <3>1 DEF IInv, WaitsUnmailed
  <2> QED
    BY <2>1, <2>2, <1>1 DEF WaitsUnmailed
<1>11. MailedOnce'
  BY <1>1 DEF IInv, MailedOnce
<1> QED
  BY <1>2, <1>3, <1>5, <1>7, <1>9, <1>10, <1>11 DEF IInv

-----------------------------------------------------------------------------
LEMMA DeliverMails ==
  ASSUME IInv, NEW s \in Sweep, NEW n \in todo[s], Deliver(n)
  PROVE  /\ inbox' \in [Rule -> Seq(MailType)]
         /\ n.rule \in Rule
         /\ \A r \in Rule \ {n.rule} : inbox'[r] = inbox[r]
         /\ \A i \in DOMAIN inbox'[n.rule] :
              \/ i \in DOMAIN inbox[n.rule]
                 /\ inbox'[n.rule][i] = inbox[n.rule][i]
              \/ i = Len(inbox[n.rule]) + 1 /\ inbox'[n.rule][i] = Mail(n)
         /\ Mail(n).turn = n.turn /\ Mail(n).kind = n.kind
<1>1. n \in Notification /\ n.rule \in Rule
  BY DEF IInv, Typed, Notification
<1>2. Mail(n) \in MailType
  BY <1>1 DEF Mail, MailType, Notification
<1>3. inbox[n.rule] \in Seq(MailType)
  BY <1>1 DEF IInv, Typed
<1>4. inbox' = [inbox EXCEPT ![n.rule] = Append(inbox[n.rule], Mail(n))]
  BY DEF Deliver
<1>5. Append(inbox[n.rule], Mail(n)) \in Seq(MailType)
  BY <1>2, <1>3
<1>6. inbox'[n.rule] = Append(inbox[n.rule], Mail(n))
      /\ \A r \in Rule \ {n.rule} : inbox'[r] = inbox[r]
  BY <1>1, <1>4 DEF IInv, Typed
<1>7. inbox' \in [Rule -> Seq(MailType)]
  BY <1>4, <1>5, <1>1 DEF IInv, Typed
<1>8. \A i \in DOMAIN inbox'[n.rule] :
        \/ i \in DOMAIN inbox[n.rule]
           /\ inbox'[n.rule][i] = inbox[n.rule][i]
        \/ i = Len(inbox[n.rule]) + 1 /\ inbox'[n.rule][i] = Mail(n)
  BY <1>2, <1>3, <1>6
<1> QED
  BY <1>1, <1>6, <1>7, <1>8 DEF Mail

(* A sweep that hands over its next mail, or gives up, keeps no more than   *)
(* it had, and not that one.                                                *)
LEMMA MailStepInv ==
  ASSUME IInv, NEW s \in Sweep, NEW n \in todo[s],
         UNCHANGED <<status, trouble, state, turns>>,
         NEW rest \in SUBSET (todo[s] \ {n}), todo' = [todo EXCEPT ![s] = rest],
         Deliver(n) \/ UNCHANGED inbox
  PROVE  IInv'
<1>1. \A u \in Sweep : todo'[u] \subseteq todo[u] /\ n \notin todo'[s]
  BY DEF IInv, Typed
<1>2. todo' \in [Sweep -> SUBSET Notification]
  BY DEF IInv, Typed
<1>3. TurnsAlternate' /\ TodoTells' /\ WaitsOnce'
  BY <1>1 DEF IInv, TurnsAlternate, TodoTells, Tells, WaitsOnce
<1>4. CASE UNCHANGED inbox
  <2>1. Typed' /\ MailedOnce'
    BY <1>2, <1>4 DEF IInv, Typed, MailedOnce
  <2>2. InboxTells' /\ WaitsUnmailed'
    BY <1>1, <1>4 DEF IInv, InboxTells, Tells, WaitsUnmailed
  <2> QED
    BY <2>1, <2>2, <1>3 DEF IInv
<1>5. CASE Deliver(n)
  <2>1. Typed'
    BY <1>2, <1>5, DeliverMails DEF IInv, Typed
  <2>2. Tells(n.rule, n)
    BY DEF IInv, TodoTells
  <2>3. InboxTells'
    <3> SUFFICES ASSUME NEW r \in Rule, NEW i \in DOMAIN inbox'[r]
                 PROVE  Tells(r, inbox'[r][i])
      BY DEF InboxTells, Tells
    <3>1. Tells(n.rule, Mail(n))
      BY <2>2, <1>5, DeliverMails DEF Tells
    <3>2. CASE r = n.rule
      BY <3>1, <3>2, <1>5, DeliverMails DEF IInv, InboxTells
    <3>3. CASE r # n.rule
      BY <3>3, <1>5, DeliverMails DEF IInv, InboxTells
    <3> QED
      BY <3>2, <3>3
  <2>4. WaitsUnmailed'
    <3> SUFFICES ASSUME NEW u \in Sweep, NEW m \in todo'[u],
                        NEW i \in DOMAIN inbox'[m.rule]
                 PROVE  inbox'[m.rule][i].turn # m.turn
      BY DEF WaitsUnmailed
    <3>1. m \in todo[u] /\ m \in Notification /\ m.rule \in Rule
          /\ ~(u = s /\ m = n)
      BY <1>1, <1>2 DEF Notification
    <3>2. ~(m.rule = n.rule /\ m.turn = n.turn)
      BY <3>1 DEF IInv, WaitsOnce
    <3>3. \A k \in DOMAIN inbox[m.rule] : inbox[m.rule][k].turn # m.turn
      BY <3>1 DEF IInv, WaitsUnmailed
    <3>4. CASE m.rule # n.rule
      BY <3>1, <3>3, <3>4, <1>5, DeliverMails
    <3>5. CASE m.rule = n.rule
      BY <3>2, <3>3, <3>5, <1>5, DeliverMails
    <3> QED
      BY <3>4, <3>5
  <2>5. MailedOnce'
    <3> SUFFICES ASSUME NEW r \in Rule, NEW i \in DOMAIN inbox'[r],
                        NEW j \in DOMAIN inbox'[r],
                        inbox'[r][i].turn = inbox'[r][j].turn
                 PROVE  i = j
      BY DEF MailedOnce
    <3>1. CASE r # n.rule
      BY <3>1, <1>5, DeliverMails DEF IInv, MailedOnce
    <3>2. CASE r = n.rule
      <4>1. \A k \in DOMAIN inbox[n.rule] : inbox[n.rule][k].turn # n.turn
        BY DEF IInv, WaitsUnmailed
      <4> QED
        BY <4>1, <3>2, <1>5, DeliverMails DEF IInv, MailedOnce
    <3> QED
      BY <3>1, <3>2
  <2> QED
    BY <2>1, <2>3, <2>4, <2>5, <1>3 DEF IInv
<1> QED
  BY <1>4, <1>5

LEMMA SendInv ==
  ASSUME IInv, NEW s \in Sweep, NEW n \in todo[s], Send(s, n)
  PROVE  IInv'
<1>1. todo' = [todo EXCEPT ![s] = todo[s] \ {n}]
  BY DEF Send
<1> QED
  BY <1>1, MailStepInv DEF Send

LEMMA SendFailsInv ==
  ASSUME IInv, NEW s \in Sweep, NEW n \in todo[s], SendFails(s, n)
  PROVE  IInv'
BY MailStepInv DEF SendFails

-----------------------------------------------------------------------------
LEMMA StepInv == IInv /\ [Next]_vars => IInv'
<1> SUFFICES ASSUME IInv, [Next]_vars PROVE IInv'
  OBVIOUS
<1>1. CASE Next
  BY <1>1, CreateInv, UpdateInv, RemoveInv, TroubleBecomesInv, EvaluateInv,
     SendInv, SendFailsInv DEF Next
<1>2. CASE UNCHANGED vars
  BY <1>2 DEF vars, IInv, Typed, TurnsAlternate, TodoTells, InboxTells, Tells,
     WaitsOnce, WaitsUnmailed, MailedOnce
<1> QED
  BY <1>1, <1>2

(* For any number of rules and of overlapping sweeps, failed sends, and     *)
(* rules switched or edited at any time: no transition is mailed twice, and *)
(* a mail says "firing" for every other turn of its rule, from the first on *)
(* (alerts.ts, evaluate; alertNotifications.ts).                            *)
THEOREM SweepsAreSilent == Spec => []SteadyStateIsSilent
<1>1. IInv => SteadyStateIsSilent
  BY DEF IInv, InboxTells, Tells, MailedOnce, SteadyStateIsSilent
<1> QED
  BY <1>1, InitInv, StepInv, PTL DEF Spec

-----------------------------------------------------------------------------
(* Nothing is missed.  A sweep has one notification of a rule at most, and  *)
(* none before it begins.                                                   *)
Begun ==
  /\ sweeps \in Nat /\ failures \in Nat
  /\ \A s \in Sweep : s > sweeps => todo[s] = {}
  /\ \A s \in Sweep : \A n, m \in todo[s] : n.rule = m.rule => n = m

Stated ==
  \A r \in Rule : state[r] # "none" => turns[r] > 0 /\ status[r] # "removed"

Counted ==
  failures = 0 => \A r \in Rule : turns[r] = Len(inbox[r]) + Cardinality(Waiting(r))

(* One sweep at a time: what waits is the latest turn, and mails come in    *)
(* the order of the turns.                                                  *)
Alone ==
  ~crossed =>
    /\ \A s, u \in Sweep : todo[s] # {} /\ todo[u] # {} => s = u
    /\ \A s \in Sweep : \A n \in todo[s] : n.turn = turns[n.rule]
    /\ failures = 0 =>
         \A r \in Rule : \A i \in DOMAIN inbox[r] : inbox[r][i].turn = i

MInv == Begun /\ Stated /\ Counted /\ Alone

LEMMA WaitingFinite ==
  ASSUME NEW r \in Rule
  PROVE  IsFiniteSet(Waiting(r)) /\ Cardinality(Waiting(r)) \in Nat
<1>1. IsFiniteSet(Sweep)
  BY FS_Interval, AlertAssumption DEF Sweep
<1>2. Waiting(r) \subseteq Sweep
  BY DEF Waiting
<1> QED
  BY <1>1, <1>2, FS_Subset, FS_CardinalityType

LEMMA MInitInv == Init => MInv
<1> SUFFICES ASSUME Init PROVE MInv
  OBVIOUS
<1>1. Begun /\ Stated /\ Alone
  BY DEF Init, Begun, Stated, Alone
<1>2. ASSUME NEW r \in Rule
      PROVE  turns[r] = Len(inbox[r]) + Cardinality(Waiting(r))
  <2>1. Waiting(r) = {}
    BY DEF Init, Waiting
  <2> QED
    BY <2>1, FS_EmptySet DEF Init
<1> QED
  BY <1>1, <1>2 DEF MInv, Counted

LEMMA RuleStepsMInv ==
  ASSUME IInv, MInv,
         UNCHANGED <<todo, turns, inbox, sweeps, failures, crossed>>,
         \A q \in Rule : state'[q] # "none" =>
           state[q] # "none" /\ (status[q] # "removed" => status'[q] # "removed")
  PROVE  MInv'
<1>1. \A r \in Rule : Waiting(r)' = Waiting(r)
  BY DEF Waiting
<1>2. Begun' /\ Alone'
  BY DEF MInv, Begun, Alone
<1>3. Counted'
  BY <1>1 DEF MInv, Counted
<1>4. Stated'
  BY DEF MInv, Stated
<1> QED
  BY <1>2, <1>3, <1>4 DEF MInv

LEMMA EvaluateMInv ==
  ASSUME IInv, MInv, NEW s \in Sweep, Evaluate(s)
  PROVE  MInv'
<1>1. /\ s = sweeps + 1 /\ sweeps' = s /\ todo[s] = {} /\ s \in Nat
      /\ UNCHANGED <<inbox, status, failures>>
      /\ \A r \in Rule : turns[r] \in Nat
  <2>1. s = sweeps + 1 /\ sweeps' = s /\ UNCHANGED <<inbox, status, failures>>
    BY DEF Evaluate
  <2>2. sweeps \in Nat /\ \A u \in Sweep : u > sweeps => todo[u] = {}
    BY DEF MInv, Begun
  <2>3. \A r \in Rule : turns[r] \in Nat
    BY DEF IInv, Typed
  <2> QED
    BY <2>1, <2>2, <2>3
<1>2. Begun'
  <2>1. \A u \in Sweep : u > s => todo'[u] = {}
    BY <1>1, EvaluateNews DEF MInv, Begun, Sweep
  <2>2. ASSUME NEW u \in Sweep, NEW n \in todo'[u], NEW m \in todo'[u],
               n.rule = m.rule
        PROVE  n = m
    BY <2>2, EvaluateNews DEF MInv, Begun
  <2> QED
    BY <1>1, <2>1, <2>2 DEF MInv, Begun
<1>3. Stated'
  <2> SUFFICES ASSUME NEW r \in Rule, state'[r] # "none"
               PROVE  turns'[r] > 0 /\ status[r] # "removed"
    BY <1>1 DEF Stated
  <2>1. CASE r \in Turning
    BY <2>1, <1>1 DEF Evaluate, Turning, Enabled
  <2>2. CASE r \notin Turning
    BY <2>2, <1>1 DEF Evaluate, MInv, Stated
  <2> QED
    BY <2>1, <2>2
<1>4. Counted'
  <2> SUFFICES ASSUME failures = 0, NEW r \in Rule
               PROVE  turns'[r] = Len(inbox[r]) + Cardinality(Waiting(r)')
    BY <1>1 DEF Counted
  <2>1. turns[r] = Len(inbox[r]) + Cardinality(Waiting(r))
    BY DEF MInv, Counted
  <2>2. s \notin Waiting(r)
    BY <1>1 DEF Waiting
  <2>3. todo' = [todo EXCEPT ![s] =
          {[rule |-> q, turn |-> turns[q] + 1, kind |-> Verdict(q)] : q \in Turning}]
    BY DEF Evaluate
  <2>4. \A u \in Sweep \ {s} : todo'[u] = todo[u]
    BY EvaluateNews
  <2>5. todo'[s] =
          {[rule |-> q, turn |-> turns[q] + 1, kind |-> Verdict(q)] : q \in Turning}
    BY <2>3 DEF IInv, Typed
  <2>6. (\E n \in todo'[s] : n.rule = r) <=> r \in Turning
    <3>1. ASSUME NEW n \in todo'[s] PROVE n.rule \in Turning
      BY <2>5
    <3>2. ASSUME r \in Turning PROVE \E n \in todo'[s] : n.rule = r
      <4>1. [rule |-> r, turn |-> turns[r] + 1, kind |-> Verdict(r)] \in todo'[s]
        BY <2>5, <3>2
      <4>2. [rule |-> r, turn |-> turns[r] + 1, kind |-> Verdict(r)].rule = r
        OBVIOUS
      <4> QED
        BY <4>1, <4>2
    <3> QED
      BY <3>1, <3>2
  <2>7. Len(inbox[r]) \in Nat /\ Cardinality(Waiting(r)) \in Nat
    BY WaitingFinite DEF IInv, Typed
  <2>8. CASE r \in Turning
    <3>1. Waiting(r)' = Waiting(r) \cup {s}
      BY <2>4, <2>6, <2>8 DEF Waiting
    <3>2. Cardinality(Waiting(r)') = Cardinality(Waiting(r)) + 1
      BY <3>1, <2>2, WaitingFinite, FS_AddElement
    <3>3. turns'[r] = turns[r] + 1
      BY <2>8 DEF Evaluate
    <3> QED
      BY <3>2, <3>3, <2>1, <2>7
  <2>9. CASE r \notin Turning
    <3>1. Waiting(r)' = Waiting(r)
      BY <2>4, <2>6, <2>9, <2>2 DEF Waiting
    <3> QED
      BY <3>1, <2>1, <2>9 DEF Evaluate
  <2> QED
    BY <2>8, <2>9
<1>5. Alone'
  <2> SUFFICES ASSUME ~crossed' PROVE Alone'
    BY DEF Alone
  <2>1. ~crossed /\ \A u \in Sweep : todo[u] = {}
    BY DEF Evaluate
  <2>2. \A u \in Sweep : todo'[u] # {} => u = s
    BY <2>1, EvaluateNews
  <2>3. \A n \in todo'[s] : n.turn = turns'[n.rule]
    <3>1. SUFFICES ASSUME NEW n \in todo'[s] PROVE n.turn = turns'[n.rule]
      OBVIOUS
    <3>2. todo'[s] =
            {[rule |-> q, turn |-> turns[q] + 1, kind |-> Verdict(q)] : q \in Turning}
      BY DEF Evaluate, IInv, Typed
    <3>3. n.rule \in Turning /\ n.turn = turns[n.rule] + 1
      BY <3>1, <3>2
    <3> QED
      BY <3>3 DEF Evaluate, Turning, Enabled
  <2> QED
    BY <2>1, <2>2, <2>3, <1>1 DEF MInv, Alone
<1> QED
  BY <1>2, <1>3, <1>4, <1>5 DEF MInv

LEMMA SendMInv ==
  ASSUME IInv, MInv, NEW s \in Sweep, NEW n \in todo[s], Send(s, n)
  PROVE  MInv'
<1>1. /\ UNCHANGED <<status, state, sweeps, turns, failures, crossed>>
      /\ n.rule \in Rule
      /\ inbox' = [inbox EXCEPT ![n.rule] = Append(inbox[n.rule], Mail(n))]
      /\ \A r \in Rule : inbox[r] \in Seq(MailType) /\ turns[r] \in Nat
  BY DEF Send, Deliver, IInv, Typed, Notification
<1>2. /\ todo'[s] = todo[s] \ {n}
      /\ \A u \in Sweep \ {s} : todo'[u] = todo[u]
      /\ \A u \in Sweep : todo'[u] \subseteq todo[u]
  BY DEF Send, IInv, Typed
<1>3. Begun'
  BY <1>1, <1>2 DEF MInv, Begun
<1>4. Stated'
  BY <1>1 DEF MInv, Stated
<1>5. /\ Waiting(n.rule)' = Waiting(n.rule) \ {s} /\ s \in Waiting(n.rule)
      /\ \A r \in Rule \ {n.rule} : Waiting(r)' = Waiting(r)
  <2>1. \A m \in todo'[s] : m.rule # n.rule
    BY <1>2 DEF MInv, Begun
  <2> QED
    BY <2>1, <1>2 DEF Waiting
<1>6. /\ inbox'[n.rule] = Append(inbox[n.rule], Mail(n))
      /\ \A r \in Rule \ {n.rule} : inbox'[r] = inbox[r]
  BY <1>1 DEF IInv, Typed
<1>7. /\ Len(inbox'[n.rule]) = Len(inbox[n.rule]) + 1
      /\ Len(inbox[n.rule]) \in Nat
      /\ \A i \in DOMAIN inbox'[n.rule] :
           \/ i \in DOMAIN inbox[n.rule] /\ inbox'[n.rule][i] = inbox[n.rule][i]
           \/ i = Len(inbox[n.rule]) + 1 /\ inbox'[n.rule][i] = Mail(n)
  BY <1>1, <1>6
<1>8. Cardinality(Waiting(n.rule)') = Cardinality(Waiting(n.rule)) - 1
      /\ Cardinality(Waiting(n.rule)) \in Nat
  BY <1>1, <1>5, WaitingFinite, FS_RemoveElement
<1>9. Counted'
  <2> SUFFICES ASSUME failures = 0, NEW r \in Rule
               PROVE  turns[r] = Len(inbox'[r]) + Cardinality(Waiting(r)')
    BY <1>1 DEF Counted
  <2>1. turns[r] = Len(inbox[r]) + Cardinality(Waiting(r))
    BY DEF MInv, Counted
  <2>2. CASE r = n.rule
    BY <2>1, <2>2, <1>7, <1>8
  <2>3. CASE r # n.rule
    BY <2>1, <2>3, <1>5, <1>6
  <2> QED
    BY <2>2, <2>3
<1>10. Alone'
  <2> SUFFICES ASSUME ~crossed PROVE Alone'
    BY <1>1 DEF Alone
  <2>1. /\ \A u, v \in Sweep : todo[u] # {} /\ todo[v] # {} => u = v
        /\ \A u \in Sweep : \A m \in todo[u] : m.turn = turns[m.rule]
    BY DEF MInv, Alone
  <2>2. ASSUME failures = 0, NEW r \in Rule, NEW i \in DOMAIN inbox'[r]
        PROVE  inbox'[r][i].turn = i
    <3>1. \A k \in DOMAIN inbox[r] : inbox[r][k].turn = k
      BY <2>2 DEF MInv, Alone
    <3>2. Waiting(n.rule) = {s}
      BY <2>1, <1>5 DEF Waiting
    <3>3. Cardinality(Waiting(n.rule)) = 1
      BY <3>2, FS_Singleton
    <3>4. Mail(n).turn = Len(inbox[n.rule]) + 1
      BY <2>1, <2>2, <3>3, <1>1, <1>7 DEF MInv, Counted, Mail
    <3>5. CASE r = n.rule
      BY <3>1, <3>4, <3>5, <1>7
    <3>6. CASE r # n.rule
      BY <3>1, <3>6, <1>6
    <3> QED
      BY <3>5, <3>6
  <2> QED
    BY <2>1, <2>2, <1>1, <1>2 DEF Alone
<1> QED
  BY <1>3, <1>4, <1>9, <1>10 DEF MInv

LEMMA SendFailsMInv ==
  ASSUME IInv, MInv, NEW s \in Sweep, NEW n \in todo[s], SendFails(s, n)
  PROVE  MInv'
<1>1. /\ UNCHANGED <<status, state, sweeps, turns, crossed>>
      /\ failures' \in Nat /\ failures' # 0
      /\ \A u \in Sweep : todo'[u] \subseteq todo[u]
  BY DEF SendFails, MInv, Begun, IInv, Typed
<1>2. Begun'
  BY <1>1 DEF MInv, Begun
<1>3. Stated' /\ Counted'
  BY <1>1 DEF MInv, Stated, Counted
<1>4. Alone'
  BY <1>1 DEF MInv, Alone
<1> QED
  BY <1>2, <1>3, <1>4 DEF MInv

LEMMA MStepInv == IInv /\ MInv /\ [Next]_vars => MInv'
<1> SUFFICES ASSUME IInv, MInv, [Next]_vars PROVE MInv'
  OBVIOUS
<1>1. ASSUME NEW r \in Rule, NEW as \in {"enabled", "disabled"},
             Create(r, as) \/ Update(r, as)
      PROVE  MInv'
  BY <1>1, RuleStepsMInv DEF Create, Update, historyVars, IInv, Typed
<1>2. ASSUME NEW r \in Rule, Remove(r) PROVE MInv'
  BY <1>2, RuleStepsMInv DEF Remove, historyVars, IInv, Typed
<1>3. ASSUME NEW T \in [Rule -> BOOLEAN], TroubleBecomes(T) PROVE MInv'
  BY <1>3, RuleStepsMInv DEF TroubleBecomes, historyVars
<1>4. CASE UNCHANGED vars
  BY <1>4, RuleStepsMInv DEF vars
<1>5. CASE Next
  BY <1>1, <1>2, <1>3, <1>5, EvaluateMInv, SendMInv, SendFailsMInv DEF Next
<1> QED
  BY <1>4, <1>5

(* For any number of rules and of overlapping sweeps: while no send fails,  *)
(* every transition is mailed or about to be, and if sweeps did not overlap *)
(* the last mail about a rule says what its row says (alerts.ts, evaluate;  *)
(* alertNotifications.ts).                                                  *)
THEOREM MailsTellTheState == Spec => []MailTellsTheState
<1>1. ASSUME IInv, MInv PROVE MailTellsTheState
  <2> SUFFICES ASSUME failures = 0, NEW r \in Rule, ~crossed,
                      Waiting(r) = {}, state[r] # "none"
               PROVE  /\ inbox[r] # <<>>
                      /\ inbox[r][Len(inbox[r])].kind = state[r]
    BY <1>1 DEF MailTellsTheState, MInv, Counted
  <2>1. /\ turns[r] = Len(inbox[r]) /\ turns[r] > 0
        /\ inbox[r] \in Seq(MailType)
    <3>1. inbox[r] \in Seq(MailType) /\ Len(inbox[r]) \in Nat
      BY <1>1 DEF IInv, Typed
    <3>2. Cardinality(Waiting(r)) = 0
      BY FS_EmptySet
    <3>3. turns[r] = Len(inbox[r]) + Cardinality(Waiting(r))
      BY <1>1 DEF MInv, Counted
    <3> QED
      BY <1>1, <3>1, <3>2, <3>3 DEF MInv, Stated
  <2>2. /\ inbox[r] # <<>> /\ Len(inbox[r]) \in DOMAIN inbox[r]
        /\ inbox[r][Len(inbox[r])] \in MailType
    BY <2>1
  <2>3. inbox[r][Len(inbox[r])].turn = turns[r]
    BY <1>1, <2>1, <2>2 DEF MInv, Alone
  <2>4. inbox[r][Len(inbox[r])].kind = "firing" <=> turns[r] % 2 = 1
    BY <1>1, <2>2, <2>3 DEF IInv, InboxTells, Tells
  <2>5. state[r] = "firing" <=> turns[r] % 2 = 1
    BY <1>1 DEF MInv, Stated, IInv, TurnsAlternate
  <2> QED
    BY <1>1, <2>2, <2>4, <2>5 DEF IInv, Typed, MailType, Kind
<1> QED
  BY <1>1, InitInv, MInitInv, StepInv, MStepInv, PTL DEF Spec

-----------------------------------------------------------------------------
Bounds ==
  /\ sweeps \in 0 .. MaxSweeps /\ failures \in 0 .. MaxFailures
  /\ bounced \subseteq Rule /\ crossed \in BOOLEAN
  /\ \A r \in Rule : ~Exists(r) => state[r] = "none"

LEMMA BoundsStep ==
  ASSUME IInv, Bounds, [Next]_vars
  PROVE  Bounds'
<1>1. ASSUME NEW r \in Rule, NEW as \in {"enabled", "disabled"},
             Create(r, as) \/ Update(r, as)
      PROVE  Bounds'
  BY <1>1 DEF Create, Update, historyVars, Bounds, Exists, IInv, Typed
<1>2. ASSUME NEW r \in Rule, Remove(r) PROVE Bounds'
  BY <1>2 DEF Remove, historyVars, Bounds, Exists, IInv, Typed
<1>3. ASSUME NEW T \in [Rule -> BOOLEAN], TroubleBecomes(T) PROVE Bounds'
  BY <1>3 DEF TroubleBecomes, historyVars, Bounds, Exists
<1>4. ASSUME NEW s \in Sweep, Evaluate(s) PROVE Bounds'
  <2>1. /\ sweeps' \in 0 .. MaxSweeps /\ UNCHANGED <<failures, bounced, status>>
    BY <1>4, AlertAssumption DEF Evaluate, Sweep
  <2>2. crossed' \in BOOLEAN
    BY <1>4 DEF Evaluate, Bounds
  <2>3. \A r \in Rule : ~Exists(r) => state'[r] = state[r]
    BY <1>4 DEF Evaluate, Turning, Enabled, Exists
  <2> QED
    BY <2>1, <2>2, <2>3 DEF Bounds, Exists
<1>5. ASSUME NEW s \in Sweep, NEW n \in todo[s], Send(s, n) PROVE Bounds'
  BY <1>5 DEF Send, Bounds, Exists
<1>6. ASSUME NEW s \in Sweep, NEW n \in todo[s], SendFails(s, n) PROVE Bounds'
  <2>1. failures' \in 0 .. MaxFailures
    BY <1>6, AlertAssumption DEF SendFails, Bounds
  <2>2. n.rule \in Rule
    BY DEF IInv, Typed, Notification
  <2> QED
    BY <1>6, <2>1, <2>2 DEF SendFails, Bounds, Exists
<1>7. CASE UNCHANGED vars
  BY <1>7 DEF vars, Bounds, Exists
<1>8. CASE Next
  BY <1>1, <1>2, <1>3, <1>4, <1>5, <1>6, <1>8 DEF Next
<1> QED
  BY <1>7, <1>8

(* Every variable keeps its type, for any number of rules and sweeps; only  *)
(* rules that exist have a state row (alerts.ts, create, remove, evaluate). *)
THEOREM AlertsTypeOK == Spec => []TypeOK
<1>1. Init => Bounds
  <2>1. 0 \in 0 .. MaxSweeps /\ 0 \in 0 .. MaxFailures
    BY AlertAssumption
  <2> QED
    BY <2>1 DEF Init, Bounds, Exists
<1>2. IInv /\ Bounds => TypeOK
  BY DEF IInv, Typed, MailType, Bounds, TypeOK
<1> QED
  BY <1>1, <1>2, InitInv, StepInv, BoundsStep, PTL DEF Spec
-----------------------------------------------------------------------------
(* Insights.  What a rule's condition answers is a Boolean: a rule has one  *)
(* of the four types.                                                       *)
LEMMA FiringIsBoolean ==
  ASSUME NEW rule \in Conditions, NEW tab, NEW gs, NEW n
  PROVE  Firing(rule, tab, gs, n) \in BOOLEAN
<1>1. rule.type \in RuleType
  BY InsightsAssumption
<1>2. CASE rule.type = "failed_threshold"
  BY <1>2 DEF Firing, Failing
<1>3. CASE rule.type = "stuck_queue"
  BY <1>3 DEF Firing, Stuck
<1>4. CASE rule.type = "worker_loss"
  BY <1>4 DEF Firing, Deserted
<1>5. CASE rule.type = "new_error_group"
  BY <1>5 DEF Firing
<1> QED
  BY <1>1, <1>2, <1>3, <1>4, <1>5 DEF RuleType

LEMMA Rejudges ==
  ASSUME Rejudge
  PROVE  \E T \in [Rule -> BOOLEAN] : TroubleBecomes(T)
<1> DEFINE T == [r \in Rule |-> Firing(RuleOf[r], table', groups', now')]
<1>1. \A r \in Rule : RuleOf[r] \in Conditions
  BY InsightsAssumption
<1>2. T \in [Rule -> BOOLEAN]
  BY <1>1, FiringIsBoolean
<1>3. TroubleBecomes(T)
  BY DEF Rejudge
<1> HIDE DEF T
<1> QED
  BY <1>2, <1>3

LEMMA InsightsStep ==
  ASSUME [InsightsNext]_insightsVars
  PROVE  [Next]_vars
<1>1. ASSUME NEW c \in Content, NEW ts \in Time, Arrive(c, ts)
      PROVE  Next
  BY <1>1, Rejudges DEF Arrive, Next
<1>2. ASSUME NEW n, Purge(n) PROVE Next
  BY <1>2, Rejudges DEF Purge, Next
<1>3. ASSUME NEW t, Tick(t) PROVE Next
  BY <1>3, Rejudges DEF Tick, Next
<1>4. ASSUME Alerts PROVE Next
  BY <1>4 DEF Alerts, Next
<1>5. CASE UNCHANGED insightsVars
  BY <1>5 DEF insightsVars
<1> QED
  BY <1>1, <1>2, <1>3, <1>4, <1>5 DEF InsightsNext

(* Rows, time and rules with real conditions only do what AlertSweeps       *)
(* allows: whatever is proved of the sweeps holds with computeRuleStatus    *)
(* as it is, for any rules, rows and clocks (alerts.ts).                    *)
THEOREM InsightsImplementSweeps == InsightsSpec => Spec
<1>1. InsightsInit => Init
  BY DEF InsightsInit
<1>2. [InsightsNext]_insightsVars => [Next]_vars
  BY InsightsStep
<1> QED
  BY <1>1, <1>2, PTL DEF InsightsSpec, Spec

(* So with real conditions, too, no transition is mailed twice and mails    *)
(* tell the states of the rules (alerts.ts, alertNotifications.ts).         *)
THEOREM RealRulesAreSilent ==
  InsightsSpec => [](SteadyStateIsSilent /\ MailTellsTheState)
BY InsightsImplementSweeps, SweepsAreSilent, MailsTellTheState, PTL

-----------------------------------------------------------------------------
(* What the tables hold.  The row of an error group has the time of the     *)
(* earliest failure and of the newest, unless an older one came later.      *)
Rows == {Row(c, ts) : c \in Content, ts \in Time}

Group == [first : Time, last : Time]

Recorded(q) ==
  \/ groups[q] = None /\ earliest[q] = None
  \/ /\ groups[q] \in Group /\ earliest[q] \in [ts : Time]
     /\ q \notin late => /\ earliest[q].ts = groups[q].first
                         /\ groups[q].first <= groups[q].last

Data ==
  /\ now \in Time
  /\ table \in Seq(Rows)
  /\ groups \in [Queue -> {None} \cup Group]
  /\ earliest \in [Queue -> {None} \cup [ts : Time]]
  /\ \A q \in Queue : Recorded(q)

LEMMA Nobody ==
  ASSUME NEW x, x \in Group \/ x \in [ts : Time]
  PROVE  x # None
BY DEF Group, None

LEMMA RowTime ==
  ASSUME NEW r \in Rows
  PROVE  r.ts \in Nat
<1>1. PICK c \in Content, ts \in Time : r = Row(c, ts)
  BY DEF Rows
<1>2. Row(c, ts).ts = ts
  BY DEF Row
<1> QED
  BY <1>1, <1>2, InsightsAssumption

LEMMA DataInit == InsightsInit => Data
BY DEF InsightsInit, Data, Recorded

(* A failure is recorded with its group.                                    *)
LEMMA FailedData ==
  ASSUME Data, NEW c \in Content, NEW ts \in Time, Failed(c, ts)
  PROVE  /\ groups' \in [Queue -> {None} \cup Group]
         /\ earliest' \in [Queue -> {None} \cup [ts : Time]]
         /\ \A q \in Queue : Recorded(q)'
<1> DEFINE p == c.queue
<1>1. p \in Queue /\ ts \in Nat /\ Time \subseteq Nat
  BY InsightsAssumption
<1>2. /\ groups' = [groups EXCEPT ![p] = SeenAt(groups[p], ts)]
      /\ earliest' = [earliest EXCEPT ![p] =
           IF earliest[p] = None \/ earliest[p].ts > ts
           THEN [ts |-> ts] ELSE earliest[p]]
      /\ late' = IF groups[p] # None /\ groups[p].last > ts
                 THEN late \cup {p} ELSE late
  BY DEF Failed
<1> HIDE DEF p
<1>3. CASE groups[p] = None
  <2>1. earliest[p] = None
    BY <1>1, <1>3, Nobody DEF Data, Recorded
  <2>2. /\ groups' = [groups EXCEPT ![p] = [first |-> ts, last |-> ts]]
        /\ earliest' = [earliest EXCEPT ![p] = [ts |-> ts]]
        /\ late' = late
    BY <1>2, <1>3, <2>1 DEF SeenAt
  <2>3. /\ [first |-> ts, last |-> ts] \in Group /\ [ts |-> ts] \in [ts : Time]
    BY DEF Group
  <2>4. Recorded(p)'
    BY <1>1, <2>2, <2>3 DEF Data, Recorded
  <2>5. \A q \in Queue \ {p} : Recorded(q)'
    BY <2>2 DEF Data, Recorded
  <2> QED
    BY <1>1, <2>2, <2>3, <2>4, <2>5 DEF Data
<1>4. CASE groups[p] # None
  <2>1. /\ groups[p] \in Group /\ earliest[p] \in [ts : Time]
        /\ p \notin late => /\ earliest[p].ts = groups[p].first
                            /\ groups[p].first <= groups[p].last
    BY <1>1, <1>4 DEF Data, Recorded
  <2> DEFINE g == [first |-> groups[p].first, last |-> ts]
             e == IF earliest[p].ts > ts THEN [ts |-> ts] ELSE earliest[p]
  <2>2. groups' = [groups EXCEPT ![p] = g]
    <3>1. SeenAt(groups[p], ts) = [groups[p] EXCEPT !.last = ts]
      BY <1>4 DEF SeenAt
    <3>2. [groups[p] EXCEPT !.last = ts] = g
      BY <2>1 DEF Group
    <3> QED
      BY <1>2, <3>1, <3>2
  <2>3. earliest' = [earliest EXCEPT ![p] = e]
    BY <1>2, <2>1, Nobody
  <2>4. g \in Group /\ g.first = groups[p].first /\ g.last = ts
    BY <2>1 DEF Group
  <2>5. e \in [ts : Time]
    BY <2>1
  <2>6. p \notin late' => e.ts = g.first /\ g.first <= g.last
    <3> SUFFICES ASSUME p \notin late'
                 PROVE  e.ts = g.first /\ g.first <= g.last
      OBVIOUS
    <3>1. p \notin late /\ ~(groups[p].last > ts)
      BY <1>2, <1>4
    <3>2. /\ groups[p].first \in Nat /\ groups[p].last \in Nat
          /\ earliest[p].ts \in Nat
      BY <1>1, <2>1 DEF Group
    <3> QED
      BY <1>1, <2>1, <3>1, <3>2
  <2> HIDE DEF g, e
  <2>7. Recorded(p)'
    BY <1>1, <2>2, <2>3, <2>4, <2>5, <2>6 DEF Data, Recorded
  <2>8. \A q \in Queue \ {p} : Recorded(q)'
    BY <1>2 DEF Data, Recorded
  <2> QED
    BY <1>1, <2>2, <2>3, <2>4, <2>5, <2>7, <2>8 DEF Data
<1> QED
  BY <1>3, <1>4

LEMMA DataStep ==
  ASSUME Data, [InsightsNext]_insightsVars
  PROVE  Data'
<1>1. ASSUME NEW c \in Content, NEW ts \in Time, Arrive(c, ts)
      PROVE  Data'
  <2>1. now' \in Time /\ table' \in Seq(Rows)
    BY <1>1 DEF Arrive, Data, Rows
  <2>2. CASE c.type = "failed"
    BY <1>1, <2>1, <2>2, FailedData DEF Arrive, Data
  <2>3. CASE c.type # "failed"
    BY <1>1, <2>1, <2>3 DEF Arrive, Data, Recorded
  <2> QED
    BY <2>2, <2>3
<1>2. ASSUME NEW n \in 1 .. Len(table), Purge(n) PROVE Data'
  <2>1. table' \in Seq(Rows)
    <3>1. table' = SubSeq(table, n + 1, Len(table)) /\ table \in Seq(Rows)
      BY <1>2 DEF Purge, Data
    <3>2. \A i \in (n + 1) .. Len(table) : table[i] \in Rows
      BY <3>1
    <3> QED
      BY <3>1, <3>2, SubSeqProperties
  <2> QED
    BY <1>2, <2>1 DEF Purge, Data, Recorded
<1>3. ASSUME NEW t \in Time, Tick(t) PROVE Data'
  BY <1>3 DEF Tick, Data, Recorded
<1>4. CASE UNCHANGED dataVars
  BY <1>4 DEF dataVars, Data, Recorded
<1> QED
  BY <1>1, <1>2, <1>3, <1>4 DEF InsightsNext, insightsVars

(* The rules for new groups go by the first and the last time of the row,   *)
(* which are as good as what was recorded until an older failure is.        *)
LEMMA GroupsTold == Data => NewGroupsAreTold
<1> SUFFICES ASSUME Data, NEW r \in Conditions, NEW q \in Queue, q \notin late
             PROVE  q \in NewGroups(groups, now - r.window) <=>
                      earliest[q] # None /\ earliest[q].ts >= now - r.window
  BY DEF NewGroupsAreTold, NewGroups
<1>1. now \in Nat /\ r.window \in Nat /\ Time \subseteq Nat
  BY InsightsAssumption DEF Data
<1>2. CASE groups[q] = None /\ earliest[q] = None
  BY <1>2 DEF NewGroups
<1>3. CASE /\ groups[q] \in Group /\ earliest[q] \in [ts : Time]
           /\ earliest[q].ts = groups[q].first
           /\ groups[q].first <= groups[q].last
  <2>1. groups[q] # None /\ earliest[q] # None
    BY <1>3, Nobody
  <2>2. groups[q].first \in Nat /\ groups[q].last \in Nat
    BY <1>1, <1>3 DEF Group
  <2> QED
    BY <1>1, <1>3, <2>1, <2>2 DEF NewGroups
<1> QED
  BY <1>2, <1>3 DEF Data, Recorded

-----------------------------------------------------------------------------
(* Time passes: a window that ends later begins later.                      *)
LEMMA WindowMoves ==
  ASSUME Data, NEW q, NEW from \in Int, NEW later \in Int, from <= later
  PROVE  /\ Since(table, q, later) \subseteq Since(table, q, from)
         /\ \A i \in Since(table, q, from) \ Since(table, q, later) :
              table[i].ts < later
         /\ \A i \in Since(table, q, from) : table[i].ts \in Nat
         /\ IsFiniteSet(Since(table, q, from))
<1>1. \A i \in DOMAIN table : table[i] \in Rows
  BY DEF Data
<1>2. \A i \in DOMAIN table : table[i].ts \in Nat
  BY <1>1, RowTime
<1>3. IsFiniteSet(DOMAIN table)
  <2>1. DOMAIN table = 1 .. Len(table) /\ Len(table) \in Nat
    BY DEF Data
  <2> QED
    BY <2>1, FS_Interval
<1>4. Since(table, q, from) \subseteq DOMAIN table
  BY DEF Since
<1> QED
  BY <1>2, <1>3, <1>4, FS_Subset DEF Since

(* The last snapshot in the later window is the last one in the earlier.    *)
LEMMA SnapshotStays ==
  ASSUME Data, NEW q, NEW p, NEW from \in Int, NEW later \in Int, from <= later,
         NEW i \in LatestSnapshot(table, Since(table, q, later), p)
  PROVE  i \in LatestSnapshot(table, Since(table, q, from), p)
<1> DEFINE I == Since(table, q, from)
           L == Since(table, q, later)
<1>1. /\ L \subseteq I
      /\ \A j \in I \ L : table[j].ts < later
      /\ \A j \in I : table[j].ts \in Nat
  BY WindowMoves
<1>2. \A j \in L : table[j].ts >= later
  BY DEF Since
<1> HIDE DEF I, L
<1>3. /\ i \in L /\ table[i].type = "snapshot" /\ table[i].queue = p
      /\ \A j \in L : table[j].type = "snapshot" /\ table[j].queue = p =>
           table[j].ts < table[i].ts \/ (table[j].ts = table[i].ts /\ j >= i)
  BY DEF LatestSnapshot, L
<1>4. ASSUME NEW j \in I, table[j].type = "snapshot", table[j].queue = p
      PROVE  table[j].ts < table[i].ts \/ (table[j].ts = table[i].ts /\ j >= i)
  <2>1. CASE j \in L
    BY <1>3, <1>4, <2>1
  <2>2. CASE j \notin L
    BY <1>1, <1>2, <1>3, <2>2
  <2> QED
    BY <2>1, <2>2
<1>5. i \in LatestSnapshot(table, I, p)
  BY <1>1, <1>3, <1>4 DEF LatestSnapshot
<1> QED
  BY <1>5 DEF I

LEMMA FailingStays ==
  ASSUME Data, NEW q, NEW rule, rule.threshold \in Nat,
         NEW from \in Int, NEW later \in Int, from <= later,
         Failing(table, Since(table, q, later), rule)
  PROVE  Failing(table, Since(table, q, from), rule)
<1> DEFINE F(I) == {i \in I : table[i].type = "failed"}
           I == Since(table, q, from)
           L == Since(table, q, later)
<1>1. L \subseteq I /\ IsFiniteSet(I)
  BY WindowMoves
<1>2. Cardinality(F(L)) >= rule.threshold
  BY DEF Failing, Count
<1> HIDE DEF I, L
<1>3. F(L) \subseteq F(I) /\ F(I) \subseteq I
  BY <1>1
<1> HIDE DEF F
<1>4. IsFiniteSet(F(I)) /\ IsFiniteSet(F(L))
  BY <1>1, <1>3, FS_Subset
<1>5. /\ Cardinality(F(I)) \in Nat /\ Cardinality(F(L)) \in Nat
      /\ Cardinality(F(L)) <= Cardinality(F(I))
  BY <1>3, <1>4, FS_Subset, FS_CardinalityType
<1>6. Cardinality(F(I)) >= rule.threshold
  BY <1>2, <1>5
<1> QED
  BY <1>6 DEF Failing, Count, F, I

LEMMA TimePasses ==
  ASSUME Data
  PROVE  TimeStartsNoAlert
<1> SUFFICES ASSUME NEW t \in Time, NEW r \in Conditions, Tick(t),
                    Firing(r, table, groups, now)'
             PROVE  \/ Firing(r, table, groups, now)
                    \/ /\ r.type = "stuck_queue"
                       /\ \E i \in Since(table, r.queue, now - r.window) :
                            /\ table[i].type = "completed"
                            /\ table[i].ts < t - r.window
  BY DEF TimeStartsNoAlert
<1> DEFINE from == now - r.window
           later == t - r.window
<1>1. /\ now' = t /\ table' = table /\ groups' = groups
      /\ t > now
  BY DEF Tick
<1>2. /\ now \in Nat /\ t \in Nat /\ r.window \in Nat /\ Time \subseteq Nat
      /\ r.type \in RuleType
      /\ r.type = "failed_threshold" => r.threshold \in Nat
  BY InsightsAssumption DEF Data
<1>3. from \in Int /\ later \in Int /\ from <= later
  BY <1>1, <1>2
<1>4. Firing(r, table, groups, t)
  BY <1>1 DEF Firing
<1>5. CASE r.type = "failed_threshold"
  <2>1. Failing(table, Since(table, r.queue, later), r)
    BY <1>4, <1>5 DEF Firing
  <2> HIDE DEF from, later
  <2>2. Failing(table, Since(table, r.queue, from), r)
    BY <1>2, <1>3, <1>5, <2>1, FailingStays
  <2> QED
    BY <1>5, <2>2 DEF Firing, from
<1>6. CASE r.type = "stuck_queue"
  <2> DEFINE I == Since(table, r.queue, from)
             L == Since(table, r.queue, later)
  <2>1. Stuck(table, L, r.queue)
    BY <1>4, <1>6 DEF Firing
  <2>2. PICK i \in LatestSnapshot(table, L, r.queue) : table[i].waiting > 0
    BY <2>1 DEF Stuck
  <2> HIDE DEF from, later
  <2>3. i \in LatestSnapshot(table, I, r.queue)
    BY <1>3, <2>2, SnapshotStays
  <2>4. /\ L \subseteq I
        /\ \A j \in I \ L : table[j].ts < later
    BY <1>3, WindowMoves
  <2> HIDE DEF I, L
  <2>5. CASE \E j \in I : table[j].type = "completed" /\ table[j].queue = r.queue
    <3>1. PICK j \in I : table[j].type = "completed" /\ table[j].queue = r.queue
      BY <2>5
    <3>2. j \notin L
      BY <2>1, <3>1 DEF Stuck
    <3> QED
      BY <1>6, <2>4, <3>1, <3>2 DEF I, from, later
  <2>6. CASE ~\E j \in I : table[j].type = "completed" /\ table[j].queue = r.queue
    <3>1. Stuck(table, I, r.queue)
      BY <2>2, <2>3, <2>6 DEF Stuck
    <3> QED
      BY <1>6, <3>1 DEF Firing, I, from
  <2> QED
    BY <2>5, <2>6
<1>7. CASE r.type = "worker_loss"
  <2>1. Deserted(table, Since(table, r.queue, later), r.queue)
    BY <1>4, <1>7 DEF Firing
  <2> HIDE DEF from, later
  <2>2. PICK i \in LatestSnapshot(table, Since(table, r.queue, later), r.queue) :
          table[i].workers = 0
    BY <2>1 DEF Deserted
  <2>3. i \in LatestSnapshot(table, Since(table, r.queue, from), r.queue)
    BY <1>3, <2>2, SnapshotStays
  <2>4. Deserted(table, Since(table, r.queue, from), r.queue)
    BY <2>2, <2>3 DEF Deserted
  <2> QED
    BY <1>7, <2>4 DEF Firing, from
<1>8. CASE r.type = "new_error_group"
  <2>1. NewGroups(groups, later) # {}
    BY <1>4, <1>8 DEF Firing
  <2> HIDE DEF from, later
  <2>2. NewGroups(groups, later) \subseteq NewGroups(groups, from)
    <3>1. ASSUME NEW q \in Queue, groups[q] # None
          PROVE  groups[q].first \in Nat /\ groups[q].last \in Nat
      <4>1. groups[q] \in Group
        BY <3>1 DEF Data
      <4> QED
        BY <1>2, <4>1 DEF Group
    <3> QED
      BY <1>3, <3>1 DEF NewGroups
  <2> QED
    BY <1>8, <2>1, <2>2 DEF Firing, from
<1> QED
  BY <1>2, <1>5, <1>6, <1>7, <1>8 DEF RuleType

(* For any rows and any times of the connectors' clocks: a rule for new     *)
(* error groups finds those recorded first within its window, apart from    *)
(* groups of which an older failure came later, and time that passes starts *)
(* no alert but that of a stuck queue (alerts.ts, computeRuleStatus;        *)
(* errors.ts, upsertErrorGroup).                                            *)
THEOREM ConditionsReadTheWindow == InsightsSpec => AlertsReadTheWindow
<1>1. Data /\ [InsightsNext]_insightsVars =>
        [NewGroupsAreTold' /\ TimeStartsNoAlert]_insightsVars
  <2>1. Data' => NewGroupsAreTold'
    BY GroupsTold, PTL
  <2> QED
    BY <2>1, DataStep, TimePasses
<1> QED
  BY <1>1, DataInit, DataStep, PTL DEF InsightsSpec, AlertsReadTheWindow

-----------------------------------------------------------------------------
(* A set of naturals has a least member.                                    *)
LEMMA Least ==
  ASSUME NEW T, T \subseteq Nat, T # {}
  PROVE  \E m \in T : \A n \in T : m <= n
<1>1. PICK m \in T : \A n \in T : ~(<<n, m>> \in OpToRel(<, Nat))
  BY NatLessThanWellFounded, WFMin
<1>2. \A n \in T : ~(n < m)
  BY <1>1 DEF OpToRel
<1> QED
  BY <1>2

(* What satisfies the equation of a sum is the sum.                         *)
LEMMA SumIs ==
  ASSUME NEW D, IsFiniteSet(D), NEW f \in [D -> Nat],
         NEW g \in [SUBSET D -> Nat], g[{}] = 0,
         \A s \in SUBSET D : \A x \in s : g[s] = f[x] + g[s \ {x}]
  PROVE  Ext!SumFunction(f) = g[D]
<1> DEFINE Eq(h) == h = [s \in SUBSET D |->
                           IF s = {} THEN 0
                           ELSE LET x == CHOOSE x \in s : TRUE
                                IN f[x] + h[s \ {x}]]
           sum == CHOOSE h : Eq(h)
<1>1. Ext!SumFunction(f) = sum[D]
  BY DEF Ext!SumFunction, Ext!SumFunctionOnSet, Ext!FoldFunctionOnSet,
         Ext!MapThenFoldSet
<1>2. Eq(g)
  <2>1. ASSUME NEW s \in SUBSET D
        PROVE  g[s] = IF s = {} THEN 0
                      ELSE LET x == CHOOSE x \in s : TRUE
                           IN f[x] + g[s \ {x}]
    <3>1. CASE s = {}
      BY <3>1
    <3>2. CASE s # {}
      <4>1. (CHOOSE x \in s : TRUE) \in s
        BY <3>2
      <4> QED
        BY <3>2, <4>1
    <3> QED
      BY <3>1, <3>2
  <2> QED
    BY <2>1
<1>3. Eq(sum)
  <2> HIDE DEF Eq
  <2> QED
    BY <1>2
<1> HIDE DEF sum
<1>4. sum = [s \in SUBSET D |->
               IF s = {} THEN 0
               ELSE LET x == CHOOSE x \in s : TRUE
                    IN f[x] + sum[s \ {x}]]
  BY <1>3
<1> HIDE DEF Eq
<1>5. \A s \in SUBSET D : IsFiniteSet(s) /\ Cardinality(s) \in Nat
  BY FS_Subset, FS_CardinalityType
<1> DEFINE Wrong == {s \in SUBSET D : sum[s] # g[s]}
           Sizes == {Cardinality(s) : s \in Wrong}
<1>6. ASSUME Wrong # {} PROVE FALSE
  <2>1. PICK s \in Wrong : \A r \in Wrong : Cardinality(s) <= Cardinality(r)
    <3>1. \A s \in Wrong : Cardinality(s) \in Nat /\ Cardinality(s) \in Sizes
      BY <1>5
    <3>2. \A n \in Sizes : \E s \in Wrong : n = Cardinality(s)
      OBVIOUS
    <3> HIDE DEF Sizes, Wrong
    <3>3. Sizes \subseteq Nat /\ Sizes # {}
      BY <1>6, <3>1, <3>2
    <3>4. PICK m \in Sizes : \A n \in Sizes : m <= n
      BY <3>3, Least
    <3> QED
      BY <3>1, <3>2, <3>4
  <2>2. CASE s = {}
    BY <1>4, <2>2
  <2>3. CASE s # {}
    <3> DEFINE x == CHOOSE x \in s : TRUE
    <3>1. x \in s
      BY <2>3
    <3>2. sum[s] = f[x] + sum[s \ {x}]
      BY <1>4, <2>3
    <3> HIDE DEF x
    <3>3. Cardinality(s \ {x}) = Cardinality(s) - 1
      BY <1>5, <3>1, FS_RemoveElement
    <3>4. Cardinality(s) \in Nat /\ s \ {x} \in SUBSET D
      BY <1>5
    <3>5. s \ {x} \notin Wrong
      <4> HIDE DEF Wrong
      <4> QED
        BY <2>1, <3>3, <3>4
    <3>6. sum[s \ {x}] = g[s \ {x}]
      BY <3>4, <3>5
    <3> QED
      BY <3>1, <3>2, <3>6
  <2> QED
    BY <2>2, <2>3
<1>7. sum[D] = g[D]
  BY <1>6
<1> QED
  BY <1>1, <1>7

(* The sum of the sizes of disjoint parts is the size of their union.       *)
LEMMA SumOfParts ==
  ASSUME NEW I, IsFiniteSet(I), NEW D, IsFiniteSet(D),
         NEW A \in [D -> SUBSET I], NEW f \in [D -> Nat],
         \A x \in D : f[x] = Cardinality(A[x]),
         \A x, y \in D : x # y => A[x] \cap A[y] = {}
  PROVE  Ext!SumFunction(f) = Cardinality(UNION {A[x] : x \in D})
<1> DEFINE U(s) == UNION {A[x] : x \in s}
           g == [s \in SUBSET D |-> Cardinality(U(s))]
<1>1. \A s \in SUBSET D : U(s) \subseteq I
  OBVIOUS
<1>2. g[{}] = 0
  <2>1. U({}) = {}
    OBVIOUS
  <2> QED
    BY <2>1, FS_EmptySet
<1>3. ASSUME NEW s \in SUBSET D, NEW x \in s
      PROVE  g[s] = f[x] + g[s \ {x}]
  <2>1. U(s) = A[x] \cup U(s \ {x}) /\ A[x] \cap U(s \ {x}) = {}
    OBVIOUS
  <2>2. IsFiniteSet(A[x]) /\ IsFiniteSet(U(s \ {x}))
    BY <1>1, FS_Subset
  <2>3. g[s] = Cardinality(U(s)) /\ g[s \ {x}] = Cardinality(U(s \ {x}))
    OBVIOUS
  <2> HIDE DEF U, g
  <2>4. /\ Cardinality(U(s)) = Cardinality(A[x]) + Cardinality(U(s \ {x}))
                                - Cardinality(A[x] \cap U(s \ {x}))
        /\ Cardinality(A[x] \cap U(s \ {x})) = 0
    BY <2>1, <2>2, FS_Union, FS_EmptySet
  <2> QED
    BY <2>2, <2>3, <2>4, FS_CardinalityType
<1>4. g \in [SUBSET D -> Nat]
  <2>1. \A s \in SUBSET D : Cardinality(U(s)) \in Nat
    <3> HIDE DEF U
    <3> QED
      BY <1>1, FS_Subset, FS_CardinalityType
  <2> QED
    BY <2>1
<1>5. g[D] = Cardinality(U(D))
  OBVIOUS
<1> HIDE DEF g, U
<1>6. \A s \in SUBSET D : \A x \in s : g[s] = f[x] + g[s \ {x}]
  BY <1>3
<1>7. Ext!SumFunction(f) = g[D]
  BY <1>2, <1>4, <1>6, SumIs
<1> QED
  BY <1>5, <1>7 DEF U

-----------------------------------------------------------------------------
(* A strict total order R of a finite set: what is below i, and how much.   *)
Below(R, I, i) == {j \in I : <<j, i>> \in R}

(* In a finite total order, a member has more below it than those have.     *)
LEMMA OrderIs ==
  ASSUME NEW I, IsFiniteSet(I), NEW R,
         \A i \in I : <<i, i>> \notin R,
         \A i, j, k \in I : <<i, j>> \in R /\ <<j, k>> \in R => <<i, k>> \in R,
         \A i, j \in I : i = j \/ <<i, j>> \in R \/ <<j, i>> \in R,
         NEW i \in I
  PROVE  /\ Below(R, I, i) \subseteq I \ {i}
         /\ IsFiniteSet(Below(R, I, i))
         /\ Cardinality(Below(R, I, i)) \in Nat
         /\ \A j \in I : j = i \/ j \in Below(R, I, i) \/ i \in Below(R, I, j)
         /\ \A j \in Below(R, I, i) :
              Cardinality(Below(R, I, j)) < Cardinality(Below(R, I, i))
<1>1. Below(R, I, i) \subseteq I \ {i}
  BY DEF Below
<1>2. /\ IsFiniteSet(Below(R, I, i))
      /\ Cardinality(Below(R, I, i)) \in Nat
  BY <1>1, FS_Subset, FS_CardinalityType
<1>3. \A j \in I : j = i \/ j \in Below(R, I, i) \/ i \in Below(R, I, j)
  BY DEF Below
<1>4. ASSUME NEW j \in Below(R, I, i)
      PROVE  Cardinality(Below(R, I, j)) < Cardinality(Below(R, I, i))
  <2>1. j \in I /\ j \notin Below(R, I, j)
    BY DEF Below
  <2>2. Below(R, I, j) \subseteq Below(R, I, i)
    BY <2>1 DEF Below
  <2>3. /\ Cardinality(Below(R, I, j)) <= Cardinality(Below(R, I, i))
        /\ Cardinality(Below(R, I, j)) # Cardinality(Below(R, I, i))
    BY <1>2, <2>1, <2>2, FS_Subset
  <2>4. Cardinality(Below(R, I, j)) \in Nat
    BY <1>2, <2>2, FS_Subset, FS_CardinalityType
  <2> QED
    BY <1>2, <2>3, <2>4
<1> QED
  BY <1>1, <1>2, <1>3, <1>4

(* take(n) of an index.  The rows that come after a given one, in I.        *)
After(tab, I, i) == {j \in I : Follows(tab, j, i)}

(* The rows of a read by age, the newest first.                             *)
LEMMA AfterIs ==
  ASSUME NEW tab, NEW I, IsFiniteSet(I), I \subseteq Nat,
         \A i \in I : tab[i].ts \in Nat, NEW i \in I
  PROVE  /\ After(tab, I, i) \subseteq I \ {i}
         /\ IsFiniteSet(After(tab, I, i))
         /\ Cardinality(After(tab, I, i)) \in Nat
         /\ \A j \in I : j = i \/ j \in After(tab, I, i) \/ i \in After(tab, I, j)
         /\ \A j \in After(tab, I, i) :
              Cardinality(After(tab, I, j)) < Cardinality(After(tab, I, i))
<1> DEFINE R == {pair \in I \X I : Follows(tab, pair[1], pair[2])}
<1>1. \A j, k \in I : <<j, k>> \in R <=> Follows(tab, j, k)
  OBVIOUS
<1> HIDE DEF R
<1>2. /\ \A j \in I : <<j, j>> \notin R
      /\ \A j, k, l \in I : <<j, k>> \in R /\ <<k, l>> \in R => <<j, l>> \in R
      /\ \A j, k \in I : j = k \/ <<j, k>> \in R \/ <<k, j>> \in R
  BY <1>1 DEF Follows
<1>3. \A j \in I : After(tab, I, j) = Below(R, I, j)
  BY <1>1 DEF After, Below
<1>4. /\ Below(R, I, i) \subseteq I \ {i}
      /\ IsFiniteSet(Below(R, I, i))
      /\ Cardinality(Below(R, I, i)) \in Nat
      /\ \A j \in I : j = i \/ j \in Below(R, I, i) \/ i \in Below(R, I, j)
      /\ \A j \in Below(R, I, i) :
           Cardinality(Below(R, I, j)) < Cardinality(Below(R, I, i))
  BY <1>2, OrderIs
<1>5. \A j \in After(tab, I, i) : j \in I
  BY DEF After
<1> QED
  BY <1>3, <1>4, <1>5

(* The rows sorted before one by what their jobs took.                      *)
Before(tab, I, i) == {j \in I : Shorter(tab, j, i)}

(* Rows by what they took, the shortest first.                              *)
LEMMA BeforeIs ==
  ASSUME NEW tab, NEW I, IsFiniteSet(I), I \subseteq Nat,
         \A i \in I : tab[i].took.ms \in Int, NEW i \in I
  PROVE  /\ Before(tab, I, i) \subseteq I \ {i}
         /\ IsFiniteSet(Before(tab, I, i))
         /\ Cardinality(Before(tab, I, i)) \in Nat
         /\ \A j \in I : j = i \/ j \in Before(tab, I, i) \/ i \in Before(tab, I, j)
         /\ \A j \in Before(tab, I, i) :
              Cardinality(Before(tab, I, j)) < Cardinality(Before(tab, I, i))
<1> DEFINE R == {pair \in I \X I : Shorter(tab, pair[1], pair[2])}
<1>1. \A j, k \in I : <<j, k>> \in R <=> Shorter(tab, j, k)
  OBVIOUS
<1> HIDE DEF R
<1>2. /\ \A j \in I : <<j, j>> \notin R
      /\ \A j, k, l \in I : <<j, k>> \in R /\ <<k, l>> \in R => <<j, l>> \in R
      /\ \A j, k \in I : j = k \/ <<j, k>> \in R \/ <<k, j>> \in R
  BY <1>1 DEF Shorter
<1>3. \A j \in I : Before(tab, I, j) = Below(R, I, j)
  BY <1>1 DEF Before, Below
<1>4. /\ Below(R, I, i) \subseteq I \ {i}
      /\ IsFiniteSet(Below(R, I, i))
      /\ Cardinality(Below(R, I, i)) \in Nat
      /\ \A j \in I : j = i \/ j \in Below(R, I, i) \/ i \in Below(R, I, j)
      /\ \A j \in Below(R, I, i) :
           Cardinality(Below(R, I, j)) < Cardinality(Below(R, I, i))
  BY <1>2, OrderIs
<1>5. \A j \in Before(tab, I, i) : j \in I
  BY DEF Before
<1> QED
  BY <1>3, <1>4, <1>5

(* Sorting gives each place, from none before to all but one, to one row.   *)
LEMMA EveryRank ==
  ASSUME NEW tab, NEW I, IsFiniteSet(I), I \subseteq Nat,
         \A i \in I : tab[i].took.ms \in Int, NEW n \in 0 .. (Cardinality(I) - 1)
  PROVE  /\ Ranked(tab, I, n) \in I
         /\ Cardinality(Before(tab, I, Ranked(tab, I, n))) = n
<1> DEFINE c(i) == Cardinality(Before(tab, I, i))
           T == 0 .. (Cardinality(I) - 1)
           f == [i \in I |-> c(i)]
<1>1. Cardinality(I) \in Nat
  BY FS_CardinalityType
<1>2. IsFiniteSet(T) /\ Cardinality(T) = Cardinality(I)
  BY <1>1, FS_Interval
<1>3. \A i \in I : c(i) \in T
  <2> SUFFICES ASSUME NEW i \in I PROVE c(i) \in T
    OBVIOUS
  <2>1. Before(tab, I, i) \subseteq I \ {i} /\ c(i) \in Nat
    BY BeforeIs
  <2>2. IsFiniteSet(I \ {i}) /\ Cardinality(I \ {i}) = Cardinality(I) - 1
    BY FS_RemoveElement
  <2>3. c(i) <= Cardinality(I \ {i})
    BY <2>1, <2>2, FS_Subset
  <2> HIDE DEF c
  <2> QED
    BY <1>1, <2>1, <2>2, <2>3
<1>4. \A i, j \in I : i # j => c(i) # c(j)
  <2> SUFFICES ASSUME NEW i \in I, NEW j \in I, i # j PROVE c(i) # c(j)
    OBVIOUS
  <2>1. c(i) \in Nat /\ c(j) \in Nat
    BY BeforeIs
  <2>2. c(i) < c(j) \/ c(j) < c(i)
    BY BeforeIs
  <2> QED
    BY <2>1, <2>2
<1> HIDE DEF c, T
<1>5. f \in Injection(I, T)
  BY <1>3, <1>4 DEF Injection, IsInjective
<1>6. f \in Surjection(I, T)
  BY <1>2, <1>5, FS_Injection
<1>7. \E i \in I : c(i) = n
  BY <1>6 DEF Surjection, T
<1>8. Ranked(tab, I, n) = CHOOSE i \in I : c(i) = n
  BY DEF Ranked, Before, c
<1> QED
  BY <1>7, <1>8 DEF c

(* The place of a percentile: 100p values in 100 are below it at most.      *)
LEMMA PercentileIs ==
  ASSUME NEW n \in Nat \ {0}, NEW p \in 0 .. 99
  PROVE  /\ Percentile(n, p) \in 0 .. (n - 1)
         /\ 100 * Percentile(n, p) <= p * n
         /\ 100 * (Percentile(n, p) + 1) > p * n
<1> DEFINE m == (p * n) \div 100
<1>1. p * n \in Nat /\ p * n <= 99 * n
  OBVIOUS
<1>2. m \in Nat /\ 100 * m <= p * n /\ p * n < 100 * m + 100
  BY <1>1
<1> HIDE DEF m
<1>3. Percentile(n, p) \in {n - 1, m} /\ \A x \in {n - 1, m} : Percentile(n, p) <= x
  <2>1. Percentile(n, p) = CHOOSE x \in {n - 1, m} : \A y \in {n - 1, m} : x <= y
    BY DEF Percentile, Ext!Min, m
  <2>2. \E x \in {n - 1, m} : \A y \in {n - 1, m} : x <= y
    BY <1>2
  <2> QED
    BY <2>1, <2>2
<1> QED
  BY <1>1, <1>2, <1>3

(* What is taken: n rows at most, the newest ones, and all if there are     *)
(* fewer.                                                                   *)
LEMMA NewestIs ==
  ASSUME NEW tab, NEW I, IsFiniteSet(I), I \subseteq Nat,
         \A i \in I : tab[i].ts \in Nat, NEW n \in Nat
  PROVE  /\ Newest(tab, I, n) \subseteq I
         /\ IsFiniteSet(Newest(tab, I, n))
         /\ Cardinality(Newest(tab, I, n)) \in 0 .. n
         /\ \A j \in Newest(tab, I, n), i \in I :
              tab[i].ts > tab[j].ts => i \in Newest(tab, I, n)
         /\ Cardinality(Newest(tab, I, n)) < n => Newest(tab, I, n) = I
<1> DEFINE N == Newest(tab, I, n)
           C(i) == Cardinality(After(tab, I, i))
<1>1. N = {i \in I : C(i) < n}
  BY DEF Newest, After
<1>2. N \subseteq I /\ IsFiniteSet(N) /\ Cardinality(N) \in Nat
  BY <1>1, FS_Subset, FS_CardinalityType
<1>3. \A i \in I : C(i) \in Nat
  BY AfterIs
<1>4. ASSUME NEW j \in N, NEW i \in I, tab[i].ts > tab[j].ts
      PROVE  i \in N
  <2>1. i \in After(tab, I, j)
    BY <1>4 DEF After, Follows
  <2>2. C(i) < C(j)
    BY <1>2, <2>1, AfterIs
  <2>3. C(j) < n /\ j \in I
    BY <1>1
  <2> HIDE DEF C, N
  <2> QED
    BY <1>1, <1>3, <2>2, <2>3
<1> HIDE DEF N
<1>5. Cardinality(N) <= n
  <2>1. CASE N = {}
    BY <2>1, FS_EmptySet
  <2>2. CASE N # {}
    <3> DEFINE Gaps == {n - C(i) : i \in N}
    <3>1. /\ \A i \in N : n - C(i) \in Nat /\ n - C(i) \in Gaps
          /\ \A g \in Gaps : \E i \in N : g = n - C(i)
      BY <1>1, <1>3
    <3> HIDE DEF Gaps
    <3>2. PICK g \in Gaps : \A h \in Gaps : g <= h
      BY <2>2, <3>1, Least
    <3>3. PICK i \in N : \A j \in N : C(j) <= C(i)
      <4>1. PICK i \in N : g = n - C(i)
        BY <3>1
      <4>2. ASSUME NEW j \in N PROVE C(j) <= C(i)
        BY <1>2, <1>3, <3>1, <3>2, <4>1
      <4> QED
        BY <4>2
    <3>4. N \ {i} \subseteq After(tab, I, i)
      <4> SUFFICES ASSUME NEW j \in N, j # i PROVE j \in After(tab, I, i)
        OBVIOUS
      <4>1. i \in I /\ j \in I
        BY <1>2
      <4>2. CASE i \in After(tab, I, j)
        <5>1. C(i) < C(j)
          BY <4>1, <4>2, AfterIs
        <5> QED
          BY <1>3, <3>3, <4>1, <5>1
      <4> QED
        BY <4>1, <4>2, AfterIs
    <3>5. IsFiniteSet(After(tab, I, i)) /\ i \in I
      BY <1>2, AfterIs
    <3>6. Cardinality(N \ {i}) <= C(i) /\ Cardinality(N \ {i}) = Cardinality(N) - 1
      BY <1>2, <3>4, <3>5, FS_Subset, FS_RemoveElement
    <3> HIDE DEF C
    <3> QED
      BY <1>1, <1>2, <1>3, <3>5, <3>6
  <2> QED
    BY <2>1, <2>2
<1>6. ASSUME Cardinality(N) < n PROVE N = I
  <2>1. SUFFICES ASSUME I \ N # {} PROVE FALSE
    BY <1>2
  <2> DEFINE Sizes == {C(i) : i \in I \ N}
  <2>2. /\ \A i \in I \ N : C(i) \in Nat /\ C(i) \in Sizes
        /\ \A m \in Sizes : \E i \in I \ N : m = C(i)
    BY <1>3
  <2> HIDE DEF Sizes
  <2>3. PICK m \in Sizes : \A k \in Sizes : m <= k
    BY <2>1, <2>2, Least
  <2>4. PICK i \in I \ N : \A j \in I \ N : C(i) <= C(j)
    BY <2>2, <2>3
  <2>5. After(tab, I, i) \subseteq N
    <3> SUFFICES ASSUME NEW j \in After(tab, I, i) PROVE j \in N
      OBVIOUS
    <3>1. j \in I /\ C(j) < C(i)
      BY AfterIs
    <3> QED
      BY <1>3, <2>4, <3>1
  <2>6. C(i) <= Cardinality(N)
    BY <1>2, <2>5, FS_Subset
  <2>7. C(i) >= n
    <3> HIDE DEF C
    <3> QED
      BY <1>1, <1>3
  <2> HIDE DEF C
  <2> QED
    BY <1>2, <1>3, <1>6, <2>6, <2>7
<1> QED
  BY <1>2, <1>4, <1>5, <1>6 DEF N

(* Of fewer rows, no fewer of them are taken.                               *)
LEMMA NewestOfFewer ==
  ASSUME NEW tab, NEW I, IsFiniteSet(I), I \subseteq Nat,
         \A i \in I : tab[i].ts \in Nat, NEW n \in Nat,
         NEW J, J \subseteq I
  PROVE  Newest(tab, I, n) \cap J \subseteq Newest(tab, J, n)
<1> SUFFICES ASSUME NEW i \in J, i \in Newest(tab, I, n)
             PROVE  i \in Newest(tab, J, n)
  OBVIOUS
<1>1. After(tab, J, i) \subseteq After(tab, I, i)
  BY DEF After
<1>2. IsFiniteSet(After(tab, I, i)) /\ Cardinality(After(tab, I, i)) \in Nat
  BY AfterIs
<1>3. /\ Cardinality(After(tab, J, i)) <= Cardinality(After(tab, I, i))
      /\ Cardinality(After(tab, J, i)) \in Nat
  BY <1>1, <1>2, FS_Subset, FS_CardinalityType
<1>4. Cardinality(After(tab, I, i)) < n
  BY DEF Newest, After
<1> QED
  BY <1>2, <1>3, <1>4 DEF Newest, After

-----------------------------------------------------------------------------
(* Periods: the buckets of a series, the days of a strip.  A quotient times *)
(* its divisor is the last multiple.                                        *)
LEMMA Multiple ==
  ASSUME NEW size \in Nat \ {0}, NEW n \in Int
  PROVE  /\ n \div size \in Int
         /\ (n \div size) * size \in Int
         /\ (n \div size) * size <= n
         /\ n < (n \div size) * size + size
         /\ n % size = n - (n \div size) * size
OBVIOUS

(* A product with a natural grows with its factor.                          *)
LEMMA TimesMonotone ==
  ASSUME NEW size \in Nat \ {0}, NEW a \in Int, NEW b \in Int, a < b
  PROVE  /\ a * size \in Int /\ b * size \in Int
         /\ a * size + size <= b * size
OBVIOUS

(* A multiple is the last one of n if and only if n is in its period.       *)
LEMMA InPeriod ==
  ASSUME NEW size \in Nat \ {0}, NEW n \in Int, NEW k \in Int
  PROVE  (n \div size) * size = k * size <=> k * size <= n /\ n < k * size + size
<1> DEFINE a == n \div size
<1>1. a \in Int /\ a * size \in Int /\ a * size <= n /\ n < a * size + size
  BY Multiple
<1>2. k * size \in Int
  OBVIOUS
<1> SUFFICES a * size = k * size <=> k * size <= n /\ n < k * size + size
  OBVIOUS
<1> HIDE DEF a
<1>3. CASE a = k
  <2>1. a * size = k * size
    BY <1>3
  <2> QED
    BY <1>1, <1>2, <2>1
<1>4. CASE a < k
  BY <1>1, <1>2, <1>4, TimesMonotone
<1>5. CASE a > k
  BY <1>1, <1>2, <1>5, TimesMonotone
<1> QED
  BY <1>1, <1>3, <1>4, <1>5

(* The numbers without a remainder are the multiples.                       *)
LEMMA NoRemainder ==
  ASSUME NEW size \in Nat \ {0}, NEW b \in Int, b % size = 0
  PROVE  \E k \in Int : b = k * size
<1>1. b \div size \in Int /\ (b \div size) * size \in Int
  BY Multiple
<1>2. b % size = b - (b \div size) * size
  BY Multiple
<1>3. b = (b \div size) * size
  BY <1>1, <1>2
<1> QED
  BY <1>1, <1>3

(* So a row of bucket b bears a time of its period.                         *)
LEMMA BucketIs ==
  ASSUME NEW size \in Nat \ {0}, NEW b \in Int, b % size = 0, NEW ts \in Int
  PROVE  BucketOf(ts, size) = b <=> b <= ts /\ ts < b + size
<1>1. PICK k \in Int : b = k * size
  BY NoRemainder
<1> QED
  BY <1>1, InPeriod DEF BucketOf

(* A window with n buckets by guardBucketMs has n + 1 at most.              *)
LEMMA BucketsAreFew ==
  ASSUME NEW from \in Nat, NEW to \in Nat, NEW size \in Nat \ {0},
         ~IsTooFine(from, to, size)
  PROVE  /\ IsFiniteSet(Buckets(from, to, size))
         /\ Cardinality(Buckets(from, to, size)) <= MaxBuckets + 1
         /\ Buckets(from, to, size) \subseteq Int
<1> DEFINE a == from \div size
           z == to \div size
           f == [k \in a .. z |-> k * size]
           B == Buckets(from, to, size)
<1>1. a \in Int /\ z \in Int /\ MaxBuckets \in Nat \ {0}
  BY ReportsAssumption, Multiple
<1>2. a * size \in Int /\ z * size \in Int
  BY <1>1
<1>3. B = {b \in a * size .. z * size : b % size = 0}
  BY DEF Buckets, BucketOf
<1>4. z <= a + MaxBuckets
  <2>1. /\ a * size <= from /\ from < a * size + size
        /\ z * size <= to /\ to < z * size + size
    BY Multiple
  <2> DEFINE c == (to - from) \div size
  <2>2. c \in Int /\ c * size \in Int /\ to - from < c * size + size
    BY Multiple
  <2>3. c + 1 <= MaxBuckets
    BY <1>1, <2>2 DEF IsTooFine
  <2> HIDE DEF a, z, c
  <2>4. SUFFICES ASSUME z > a + c + 1 PROVE FALSE
    BY <1>1, <2>2, <2>3
  <2>5. (a + c + 1) * size + size <= z * size
    BY <1>1, <2>2, <2>4, TimesMonotone
  <2>6. (a + c + 1) * size = a * size + c * size + size
    BY <1>1, <2>2
  <2> QED
    BY <1>2, <2>1, <2>2, <2>5, <2>6
<1> HIDE DEF a, z
<1>5. \A b \in B : \E k \in a .. z : b = k * size
  <2> SUFFICES ASSUME NEW b \in B PROVE \E k \in a .. z : b = k * size
    OBVIOUS
  <2>1. b \in Int /\ a * size <= b /\ b <= z * size /\ b % size = 0
    BY <1>2, <1>3
  <2>2. PICK k \in Int : b = k * size
    BY <2>1, NoRemainder
  <2>3. ~(k < a) /\ ~(z < k)
    BY <1>1, <1>2, <2>1, <2>2, TimesMonotone
  <2> QED
    BY <1>1, <2>2, <2>3
<1>6. IsFiniteSet(a .. z) /\ Cardinality(a .. z) <= MaxBuckets + 1
  <2>1. IsFiniteSet(a .. z) /\ Cardinality(a .. z) = IF a > z THEN 0 ELSE z - a + 1
    BY <1>1, FS_Interval
  <2> QED
    BY <1>1, <1>4, <2>1
<1> DEFINE S == {k \in a .. z : k * size \in B}
           g == [k \in S |-> k * size]
<1>7. g \in Surjection(S, B)
  BY <1>5 DEF Surjection
<1>8. IsFiniteSet(S) /\ Cardinality(S) <= Cardinality(a .. z)
  BY <1>6, FS_Subset
<1>9. B \subseteq Int
  BY <1>2, <1>3
<1>10. Cardinality(S) \in Nat /\ Cardinality(a .. z) \in Nat
  BY <1>6, <1>8, FS_CardinalityType
<1> HIDE DEF B, S, g
<1>11. IsFiniteSet(B) /\ Cardinality(B) <= Cardinality(S)
  BY <1>7, <1>8, FS_Surjection
<1>12. Cardinality(B) \in Nat
  BY <1>11, FS_CardinalityType
<1>13. Cardinality(B) <= MaxBuckets + 1
  BY <1>1, <1>6, <1>8, <1>10, <1>11, <1>12
<1> QED
  BY <1>9, <1>11, <1>13 DEF B

(* Every time of a window has its bucket.                                   *)
LEMMA BucketExists ==
  ASSUME NEW from \in Nat, NEW to \in Nat, NEW size \in Nat \ {0},
         NEW ts \in Nat, from <= ts, ts <= to
  PROVE  BucketOf(ts, size) \in Buckets(from, to, size)
<1> DEFINE a == from \div size
           z == to \div size
           k == ts \div size
<1>1. /\ a \in Int /\ a * size \in Int /\ a * size <= from /\ from < a * size + size
      /\ z \in Int /\ z * size \in Int /\ z * size <= to /\ to < z * size + size
      /\ k \in Int /\ k * size \in Int /\ k * size <= ts /\ ts < k * size + size
  BY Multiple
<1>2. (k * size) % size = 0
  <2>1. ((k * size) \div size) * size = k * size
    BY <1>1, InPeriod
  <2> QED
    BY <1>1, <2>1, Multiple
<1> HIDE DEF a, z, k
<1>3. ~(k < a) /\ ~(z < k)
  BY <1>1, TimesMonotone
<1>4. a * size <= k * size /\ k * size <= z * size
  BY <1>1, <1>3, TimesMonotone
<1>5. k * size \in {b \in a * size .. z * size : b % size = 0}
  BY <1>1, <1>2, <1>4
<1> QED
  BY <1>5 DEF BucketOf, Buckets, a, z, k

(* The strip of a page: its days, StripDays of them.                        *)
LEMMA StripIs ==
  ASSUME NEW t \in Nat
  PROVE  /\ Cardinality(Strip(t)) = StripDays
         /\ Cutoff(t) \in Int
         /\ \A d \in Strip(t) : d \in Int /\ Cutoff(t) <= d /\ d % Day = 0
<1> DEFINE z == t \div Day
           a == z - (StripDays - 1)
<1>1. Day \in Nat \ {0} /\ StripDays \in Nat \ {0}
  BY ReportsAssumption
<1>2. z \in Int /\ a \in Int /\ z * Day \in Int /\ a * Day \in Int
  BY <1>1, Multiple
<1>3. Cutoff(t) = a * Day /\ DayStart(t) = z * Day
  <2>1. z * Day - (StripDays - 1) * Day = (z - (StripDays - 1)) * Day
    BY <1>1, <1>2
  <2> QED
    BY <2>1 DEF Cutoff, DayStart
<1> HIDE DEF z
<1>4. ASSUME NEW d \in Strip(t)
      PROVE  d \in Int /\ Cutoff(t) <= d /\ \E k \in a .. z : d = k * Day
  <2>1. /\ d \in Int /\ a * Day <= d /\ d <= z * Day
        /\ (d - a * Day) % Day = 0
    BY <1>2, <1>3 DEF Strip
  <2>2. PICK m \in Int : d - a * Day = m * Day
    <3>1. d - a * Day \in Int
      BY <1>2, <2>1
    <3> HIDE DEF a
    <3> QED
      BY <1>1, <2>1, <3>1, NoRemainder
  <2>3. d = (m + a) * Day
    BY <1>1, <1>2, <2>1, <2>2
  <2>4. ~(m + a < a) /\ ~(z < m + a)
    BY <1>1, <1>2, <2>1, <2>3, TimesMonotone
  <2> QED
    BY <1>2, <1>3, <2>1, <2>3, <2>4
<1>5. ASSUME NEW k \in Int PROVE (k * Day) % Day = 0
  <2>1. k * Day \in Int /\ k * Day <= k * Day /\ k * Day < k * Day + Day
    BY <1>1
  <2>2. ((k * Day) \div Day) * Day = k * Day
    BY <1>1, <2>1, InPeriod
  <2> QED
    BY <1>1, <2>1, <2>2, Multiple
<1>6. ASSUME NEW k \in a .. z PROVE k * Day \in Strip(t)
  <2>1. k \in Int /\ k * Day \in Int /\ k >= a /\ k <= z
    BY <1>1, <1>2
  <2>2. a * Day <= k * Day /\ k * Day <= z * Day
    BY <1>1, <1>2, <2>1, TimesMonotone
  <2>3. k * Day - a * Day = (k - a) * Day
    BY <1>1, <1>2, <2>1
  <2>4. (k * Day - a * Day) % Day = 0
    BY <1>2, <1>5, <2>1, <2>3
  <2> QED
    BY <1>2, <1>3, <2>1, <2>2, <2>4 DEF Strip
<1> DEFINE f == [k \in a .. z |-> k * Day]
<1>7. \A j, k \in a .. z : j # k => j * Day # k * Day
  <2> SUFFICES ASSUME NEW j \in a .. z, NEW k \in a .. z, j < k
               PROVE  j * Day # k * Day
    BY <1>2
  <2>1. j \in Int /\ k \in Int
    BY <1>2
  <2> QED
    BY <1>1, <2>1, TimesMonotone
<1>8. f \in Bijection(a .. z, Strip(t))
  <2>1. f \in [a .. z -> Strip(t)]
    BY <1>6
  <2>2. f \in Injection(a .. z, Strip(t))
    BY <1>7, <2>1 DEF Injection, IsInjective
  <2>3. f \in Surjection(a .. z, Strip(t))
    BY <1>4, <2>1 DEF Surjection
  <2> QED
    BY <2>2, <2>3 DEF Bijection
<1>9. ExistsBijection(a .. z, Strip(t))
  BY <1>8 DEF ExistsBijection
<1>10. IsFiniteSet(a .. z) /\ Cardinality(a .. z) = StripDays
  BY <1>1, <1>2, FS_Interval
<1>11. Cardinality(Strip(t)) = StripDays
  BY <1>9, <1>10, FS_Bijection
<1>12. \A d \in Strip(t) : d % Day = 0
  BY <1>2, <1>4, <1>5
<1> QED
  BY <1>2, <1>3, <1>4, <1>11, <1>12

-----------------------------------------------------------------------------
(* What a row of the table says.                                            *)
LEMMA RowIs ==
  ASSUME NEW r \in Rows
  PROVE  /\ r.ts \in Nat /\ r.queue \in Queue /\ r.queue # AnyQueue
         /\ r.type \in {"completed", "failed", "snapshot"}
         /\ r.type \in {"completed", "failed"} => r.took \in {None} \cup [ms : Int]
<1>1. PICK c \in Content, ts \in Time : r = Row(c, ts)
  BY DEF Rows
<1>2. r.ts = ts /\ \A field \in DOMAIN c \ {"ts"} : r[field] = c[field]
  BY <1>1 DEF Row
<1>3. CASE c \in [type : {"completed", "failed"}, queue : Queue,
                  took : {None} \cup [ms : Int]]
  <2>1. DOMAIN c = {"type", "queue", "took"}
    BY <1>3
  <2>2. r.type = c.type /\ r.queue = c.queue /\ r.took = c.took
    BY <1>2, <2>1
  <2> QED
    BY <1>2, <1>3, <2>2, InsightsAssumption, ReportsAssumption
<1>4. CASE c \in [type : {"snapshot"}, queue : Queue, waiting : Nat, workers : Nat]
  <2>1. DOMAIN c = {"type", "queue", "waiting", "workers"}
    BY <1>4
  <2>2. r.type = c.type /\ r.queue = c.queue
    BY <1>2, <2>1
  <2> QED
    BY <1>2, <1>4, <2>2, InsightsAssumption, ReportsAssumption
<1> QED
  BY <1>3, <1>4, InsightsAssumption

(* What can be read of the table.                                           *)
LEMMA TableIs ==
  ASSUME Data
  PROVE  /\ IsFiniteSet(DOMAIN table) /\ DOMAIN table \subseteq Nat
         /\ \A i \in DOMAIN table : table[i] \in Rows /\ table[i].ts \in Nat
         /\ \A I \in SUBSET DOMAIN table :
              /\ IsFiniteSet(I) /\ Cardinality(I) \in Nat /\ I \subseteq Nat
              /\ \A i \in I : table[i].ts \in Nat
         /\ \A q, from : Since(table, q, from) \subseteq DOMAIN table
         /\ \A q, from, to : Within(table, q, from, to) \subseteq DOMAIN table
<1>1. DOMAIN table = 1 .. Len(table) /\ Len(table) \in Nat
  BY DEF Data
<1>2. IsFiniteSet(DOMAIN table) /\ DOMAIN table \subseteq Nat
  BY <1>1, FS_Interval
<1>3. \A i \in DOMAIN table : table[i] \in Rows /\ table[i].ts \in Nat
  <2>1. \A i \in DOMAIN table : table[i] \in Rows
    BY DEF Data
  <2> QED
    BY <2>1, RowIs
<1>4. \A I \in SUBSET DOMAIN table : IsFiniteSet(I) /\ Cardinality(I) \in Nat
  BY <1>2, FS_Subset, FS_CardinalityType
<1>5. \A q, from : Since(table, q, from) \subseteq DOMAIN table
  BY DEF Since
<1>6. \A q, from, to : Within(table, q, from, to) \subseteq DOMAIN table
  BY <1>5 DEF Within
<1> QED
  BY <1>2, <1>3, <1>4, <1>5, <1>6

(* A count of fewer rows is no greater.                                     *)
LEMMA CountIs ==
  ASSUME Data, NEW I \in SUBSET DOMAIN table, NEW J \in SUBSET I, NEW type
  PROVE  /\ Count(table, J, type) \in Nat
         /\ Count(table, J, type) <= Count(table, I, type)
<1>1. /\ {i \in J : table[i].type = type} \subseteq {i \in I : table[i].type = type}
      /\ {i \in I : table[i].type = type} \in SUBSET DOMAIN table
      /\ {i \in J : table[i].type = type} \in SUBSET DOMAIN table
  OBVIOUS
<1> QED
  BY <1>1, TableIs, FS_Subset DEF Count

(* Completed and failed jobs are those that are over.                       *)
LEMMA OverIs ==
  ASSUME Data, NEW I \in SUBSET DOMAIN table
  PROVE  Count(table, I, "completed") + Count(table, I, "failed") = Over(I)
<1> DEFINE C == {i \in I : table[i].type = "completed"}
           F == {i \in I : table[i].type = "failed"}
<1>1. Terminal(table, I) = C \cup F /\ C \cap F = {}
  BY DEF Terminal
<1>2. C \in SUBSET DOMAIN table /\ F \in SUBSET DOMAIN table
  OBVIOUS
<1>3. Count(table, I, "completed") = Cardinality(C)
      /\ Count(table, I, "failed") = Cardinality(F)
  BY DEF Count
<1> HIDE DEF C, F
<1>4. /\ IsFiniteSet(C) /\ Cardinality(C) \in Nat
      /\ IsFiniteSet(F) /\ Cardinality(F) \in Nat
  BY <1>2, TableIs
<1>5. Cardinality(C \cup F) = Cardinality(C) + Cardinality(F) - Cardinality(C \cap F)
  BY <1>4, FS_Union
<1>6. Cardinality(C \cap F) = 0
  BY <1>1, FS_EmptySet
<1> QED
  BY <1>1, <1>3, <1>4, <1>5, <1>6 DEF Over

(* A bar or a point of rows of a period has no more than a reader counts,   *)
(* and as many if it is of all of them.                                     *)
Bar(P) == [completed |-> Count(table, P, "completed"),
           failed    |-> Count(table, P, "failed")]

(* A bar counts the rows of a set, each once.                               *)
LEMMA BarIs ==
  ASSUME Data, NEW q, NEW from, NEW to, NEW P,
         P \subseteq Within(table, q, from, to)
  PROVE  /\ AtMost(Bar(P), q, from, to)
         /\ Within(table, q, from, to) \subseteq P => Exact(Bar(P), q, from, to)
<1> DEFINE W == Within(table, q, from, to)
<1>1. W \in SUBSET DOMAIN table
  BY TableIs
<1>2. \A type : RowsOf(type, q, from, to) = Count(table, W, type)
  BY DEF RowsOf, Count
<1> HIDE DEF W
<1>3. P \in SUBSET W
  BY DEF W
<1>4. AtMost(Bar(P), q, from, to)
  BY <1>1, <1>2, <1>3, CountIs DEF AtMost, Bar
<1>5. ASSUME W \subseteq P PROVE Exact(Bar(P), q, from, to)
  <2>1. P = W
    BY <1>3, <1>5
  <2> QED
    BY <1>2, <2>1 DEF Exact, Bar
<1> QED
  BY <1>4, <1>5 DEF W

(* What a limited read of the rows I has left out is older than what it     *)
(* returned; if it returned fewer, nothing.                                 *)
LEMMA ReadIs ==
  ASSUME Data, NEW I \in SUBSET DOMAIN table, NEW n \in Nat
  PROVE  /\ Newest(table, I, n) \subseteq I
         /\ Newest(table, I, n) \in SUBSET DOMAIN table
         /\ Cardinality(Newest(table, I, n)) \in 0 .. n
         /\ \A i \in I : \/ i \in Newest(table, I, n)
                         \/ /\ Cardinality(Newest(table, I, n)) = n
                            /\ \A j \in Newest(table, I, n) : table[j].ts >= table[i].ts
         /\ \A J \in SUBSET I : Newest(table, I, n) \cap J \subseteq Newest(table, J, n)
<1> DEFINE N == Newest(table, I, n)
<1>1. IsFiniteSet(I) /\ I \subseteq Nat /\ \A i \in I : table[i].ts \in Nat
  BY TableIs
<1>2. /\ N \subseteq I /\ Cardinality(N) \in 0 .. n
      /\ \A j \in N, i \in I : table[i].ts > table[j].ts => i \in N
      /\ Cardinality(N) < n => N = I
  BY <1>1, NewestIs
<1>3. \A J \in SUBSET I : N \cap J \subseteq Newest(table, J, n)
  BY <1>1, NewestOfFewer
<1> HIDE DEF N
<1>4. ASSUME NEW i \in I, i \notin N
      PROVE  Cardinality(N) = n /\ \A j \in N : table[j].ts >= table[i].ts
  <2>1. Cardinality(N) = n
    BY <1>2, <1>4
  <2>2. ASSUME NEW j \in N PROVE table[j].ts >= table[i].ts
    <3>1. table[i].ts \in Nat /\ table[j].ts \in Nat
      BY <1>1, <1>2
    <3> QED
      BY <1>2, <1>4, <3>1
  <2> QED
    BY <2>1, <2>2
<1>5. \A i \in I : i \in N \/ (Cardinality(N) = n /\ \A j \in N : table[j].ts >= table[i].ts)
  BY <1>4
<1> QED
  BY <1>2, <1>3, <1>5 DEF N

-----------------------------------------------------------------------------
(* A day of a status page.                                                  *)
LEMMA BarOfDay ==
  ASSUME Data, NEW q, NEW d \in Strip(now)
  PROVE  BarAgrees(q, d)
<1> DEFINE S == Since(table, q, Cutoff(now))
           shown == Newest(table, S, MaxShown)
           P == {i \in shown : DayStart(table[i].ts) = d}
           W == Within(table, q, d, d + Day - 1)
<1>1. Day \in Nat \ {0} /\ MaxShown \in Nat /\ now \in Nat
  BY ReportsAssumption, InsightsAssumption DEF Data
<1>2. d \in Int /\ Cutoff(now) \in Int /\ Cutoff(now) <= d /\ d % Day = 0
  BY <1>1, StripIs
<1>3. S \in SUBSET DOMAIN table
  BY TableIs
<1>4. \A i \in DOMAIN table :
        /\ table[i].ts \in Nat
        /\ DayStart(table[i].ts) = d <=> d <= table[i].ts /\ table[i].ts < d + Day
  <2> SUFFICES ASSUME NEW i \in DOMAIN table
               PROVE  /\ table[i].ts \in Nat
                      /\ DayStart(table[i].ts) = d <=>
                           d <= table[i].ts /\ table[i].ts < d + Day
    OBVIOUS
  <2>1. table[i].ts \in Nat
    BY TableIs
  <2>2. DayStart(table[i].ts) = BucketOf(table[i].ts, Day)
    BY DEF DayStart, BucketOf
  <2> QED
    BY <1>1, <1>2, <2>1, <2>2, BucketIs
<1>5. /\ shown \subseteq S /\ Cardinality(shown) \in 0 .. MaxShown
      /\ \A i \in S : \/ i \in shown
                      \/ /\ Cardinality(shown) = MaxShown
                         /\ \A j \in shown : table[j].ts >= table[i].ts
  BY <1>1, <1>3, ReadIs
<1>6. /\ Shown(table, q, now) = shown
      /\ Bars(table, shown, now)[d] = Bar(P)
  BY DEF Shown, Bars, Bar
<1>7. /\ \A i \in S : d <= table[i].ts /\ table[i].ts <= d + Day - 1 => i \in W
      /\ \A i \in W : i \in S /\ d <= table[i].ts /\ table[i].ts <= d + Day - 1
  BY <1>1, <1>2, <1>4 DEF Within, Since
<1> HIDE DEF shown, S, W
<1>8. P \subseteq W
  BY <1>1, <1>2, <1>3, <1>4, <1>5, <1>7
<1>9. ASSUME Cardinality(shown) < MaxShown \/ \E i \in shown : table[i].ts < d
      PROVE  W \subseteq P
  <2> SUFFICES ASSUME NEW i \in W PROVE i \in P
    OBVIOUS
  <2>1. i \in S /\ d <= table[i].ts /\ table[i].ts < d + Day /\ table[i].ts \in Nat
    BY <1>1, <1>2, <1>3, <1>4, <1>7
  <2>2. i \in shown
    <3>1. SUFFICES ASSUME Cardinality(shown) = MaxShown,
                          \A j \in shown : table[j].ts >= table[i].ts
                   PROVE FALSE
      BY <1>5, <2>1
    <3>2. PICK j \in shown : table[j].ts < d
      BY <1>1, <1>9, <3>1
    <3>3. table[j].ts \in Nat /\ table[j].ts >= table[i].ts
      BY <1>3, <1>4, <1>5, <3>1
    <3> QED
      BY <1>2, <2>1, <3>2, <3>3
  <2> QED
    BY <1>3, <1>4, <2>1, <2>2
<1> HIDE DEF P
<1>10. /\ AtMost(Bar(P), q, d, d + Day - 1)
       /\ W \subseteq P => Exact(Bar(P), q, d, d + Day - 1)
  BY <1>8, BarIs DEF W
<1> QED
  BY <1>6, <1>9, <1>10 DEF BarAgrees

(* The rows of a bar.                                                       *)
OfDay(I, d, type) == {i \in I : DayStart(table[i].ts) = d /\ table[i].type = type}

(* The bars of a set of rows, by the rows of each day.                      *)
LEMMA BarsAre ==
  ASSUME NEW I, NEW d \in Strip(now)
  PROVE  /\ Bars(table, I, now)[d].completed = Cardinality(OfDay(I, d, "completed"))
         /\ Bars(table, I, now)[d].failed = Cardinality(OfDay(I, d, "failed"))
<1>1. \A type : {i \in {j \in I : DayStart(table[j].ts) = d} : table[i].type = type}
                 = OfDay(I, d, type)
  BY DEF OfDay
<1> QED
  BY <1>1 DEF Bars, Count

(* The overall bars are the sums of the queues' bars: a row is of one queue.*)
LEMMA BarsSum ==
  ASSUME Data, NEW names \in SUBSET Queue, names # {}, NEW d \in Strip(now)
  PROVE  BarsAddUp(names, d)
<1> DEFINE shown(q) == Shown(table, q, now)
           all == UNION {shown(q) : q \in names}
           Of(q, type) == OfDay(shown(q), d, type)
<1>1. \A q \in names : /\ shown(q) \in SUBSET DOMAIN table
                       /\ \A i \in shown(q) : table[i].queue = q
  <2> SUFFICES ASSUME NEW q \in names
               PROVE  /\ shown(q) \in SUBSET DOMAIN table
                      /\ \A i \in shown(q) : table[i].queue = q
    OBVIOUS
  <2>1. MaxShown \in Nat /\ q # AnyQueue
    BY ReportsAssumption
  <2>2. Since(table, q, Cutoff(now)) \in SUBSET DOMAIN table
    BY TableIs
  <2>3. shown(q) \subseteq Since(table, q, Cutoff(now))
    BY <2>1, <2>2, ReadIs DEF Shown
  <2> QED
    BY <2>1, <2>2, <2>3 DEF Since
<1>2. IsFiniteSet(names)
  BY ReportsAssumption, FS_Subset
<1>3. ASSUME NEW type
      PROVE  Ext!SumFunction([q \in names |-> Cardinality(Of(q, type))])
               = Cardinality(OfDay(all, d, type))
  <2> DEFINE A == [q \in names |-> Of(q, type)]
             f == [q \in names |-> Cardinality(Of(q, type))]
  <2>1. A \in [names -> SUBSET DOMAIN table]
    BY <1>1 DEF OfDay
  <2>2. \A q \in names : f[q] = Cardinality(A[q])
    OBVIOUS
  <2>3. f \in [names -> Nat]
    BY <1>1, TableIs DEF OfDay
  <2>4. \A p, q \in names : p # q => A[p] \cap A[q] = {}
    BY <1>1 DEF OfDay
  <2>5. UNION {A[q] : q \in names} = OfDay(all, d, type)
    BY DEF OfDay
  <2>6. IsFiniteSet(DOMAIN table)
    BY TableIs
  <2> HIDE DEF A, f
  <2>7. Ext!SumFunction(f) = Cardinality(UNION {A[q] : q \in names})
    BY <1>2, <2>1, <2>2, <2>3, <2>4, <2>6, SumOfParts
  <2> QED
    BY <2>5, <2>7 DEF f
<1>4. /\ Overall(table, names, now)[d].completed = Cardinality(OfDay(all, d, "completed"))
      /\ Overall(table, names, now)[d].failed = Cardinality(OfDay(all, d, "failed"))
  BY BarsAre DEF Overall
<1>5. \A q \in names :
        /\ Bars(table, Shown(table, q, now), now)[d].completed
             = Cardinality(Of(q, "completed"))
        /\ Bars(table, Shown(table, q, now), now)[d].failed
             = Cardinality(Of(q, "failed"))
  BY BarsAre
<1> DEFINE bar == [q \in names |-> Bars(table, Shown(table, q, now), now)[d]]
           done == [q \in names |-> Cardinality(Of(q, "completed"))]
           lost == [q \in names |-> Cardinality(Of(q, "failed"))]
<1>6. /\ [q \in names |-> bar[q].completed] = done
      /\ [q \in names |-> bar[q].failed] = lost
  BY <1>5
<1>7. /\ Ext!SumFunction(done) = Cardinality(OfDay(all, d, "completed"))
      /\ Ext!SumFunction(lost) = Cardinality(OfDay(all, d, "failed"))
  BY <1>3
<1> HIDE DEF done, lost, all
<1> QED
  BY <1>4, <1>6, <1>7 DEF BarsAddUp

(* A table of any rows has bars that read back.                             *)
LEMMA UptimeAgrees == Data => UptimeReadsBack
<1> SUFFICES ASSUME Data PROVE UptimeReadsBack
  OBVIOUS
<1>1. now \in Nat
  BY InsightsAssumption DEF Data
<1> QED
  BY <1>1, StripIs, BarOfDay, BarsSum DEF UptimeReadsBack

(* The bars of a status page tell of every table, connector's clock and     *)
(* limit what UptimeReadsBack says (statusPages.ts, getPublicUptime).       *)
THEOREM BarsReadBack == InsightsSpec => []UptimeReadsBack
BY DataInit, DataStep, UptimeAgrees, PTL DEF InsightsSpec

-----------------------------------------------------------------------------
(* Analytics.  What a request reads.                                        *)
LEMMA WindowRead ==
  ASSUME Data, NEW w \in Window, NEW q
  PROVE  /\ w.from \in Nat /\ w.to \in Nat /\ w.size \in Nat \ {0}
         /\ Within(table, q, w.from, w.to) \in SUBSET DOMAIN table
         /\ Read(table, q, w.from, w.to) \in SUBSET DOMAIN table
         /\ Read(table, q, w.from, w.to) \subseteq Within(table, q, w.from, w.to)
         /\ \A i \in Within(table, q, w.from, w.to) :
              \/ i \in Read(table, q, w.from, w.to)
              \/ /\ IsTruncated(Read(table, q, w.from, w.to))
                 /\ \A j \in Read(table, q, w.from, w.to) : table[j].ts >= table[i].ts
         /\ \A J \in SUBSET Within(table, q, w.from, w.to) :
              Read(table, q, w.from, w.to) \cap J \subseteq Newest(table, J, MaxRead)
<1>1. w.from \in Nat /\ w.to \in Nat /\ w.size \in Nat \ {0}
  BY InsightsAssumption
<1>2. MaxRead \in Nat
  BY ReportsAssumption
<1>3. Within(table, q, w.from, w.to) \in SUBSET DOMAIN table
  BY TableIs
<1> QED
  BY <1>1, <1>2, <1>3, ReadIs DEF Read, IsTruncated

(* A point of a series.                                                     *)
LEMMA PointOfBucket ==
  ASSUME Data, NEW w \in Window, NEW q, ~IsTooFine(w.from, w.to, w.size),
         NEW b \in Buckets(w.from, w.to, w.size)
  PROVE  PointAgrees(w, q, b)
<1> DEFINE all == Within(table, q, w.from, w.to)
           read == Read(table, q, w.from, w.to)
           lo == First(w, b)
           hi == Last(w, b)
           W == Within(table, q, lo, hi)
           P == InBucket(table, read, b, w.size)
<1>1. /\ w.from \in Nat /\ w.to \in Nat /\ w.size \in Nat \ {0}
      /\ all \in SUBSET DOMAIN table /\ read \in SUBSET DOMAIN table
      /\ read \subseteq all
      /\ \A i \in all : \/ i \in read
                        \/ /\ IsTruncated(read)
                           /\ \A j \in read : table[j].ts >= table[i].ts
  BY WindowRead
<1>2. b \in Int /\ b % w.size = 0
  BY <1>1, BucketsAreFew DEF Buckets
<1>3. \A i \in DOMAIN table :
        /\ table[i].ts \in Nat
        /\ BucketOf(table[i].ts, w.size) = b <=>
             b <= table[i].ts /\ table[i].ts < b + w.size
  BY <1>1, <1>2, TableIs, BucketIs
<1>4. Throughput(table, q, w.from, w.to, w.size)[b] = Bar(P)
  BY DEF Throughput, Bar
<1>5. /\ lo = IF b < w.from THEN w.from ELSE b
      /\ hi = IF b + w.size > w.to THEN w.to ELSE b + w.size - 1
  BY DEF First, Last
<1>6. W \in SUBSET DOMAIN table
  BY TableIs
<1> HIDE DEF lo, hi
<1>7. \A i \in DOMAIN table :
        i \in W <=> i \in all /\ b <= table[i].ts /\ table[i].ts < b + w.size
  <2> SUFFICES ASSUME NEW i \in DOMAIN table
               PROVE  i \in W <=>
                        i \in all /\ b <= table[i].ts /\ table[i].ts < b + w.size
    OBVIOUS
  <2>1. table[i].ts \in Nat
    BY <1>3
  <2>2. table[i].ts >= lo /\ table[i].ts <= hi <=>
          /\ table[i].ts >= w.from /\ table[i].ts <= w.to
          /\ b <= table[i].ts /\ table[i].ts < b + w.size
    BY <1>1, <1>2, <1>5, <2>1
  <2> QED
    BY <2>2 DEF Within, Since
<1>8. \A i : i \in P <=> i \in read /\ BucketOf(table[i].ts, w.size) = b
  BY DEF InBucket
<1> HIDE DEF all, read, W, P
<1>9. P \subseteq W
  BY <1>1, <1>3, <1>7, <1>8
<1>10. ASSUME ~IsTruncated(read) \/ \E i \in read : table[i].ts < b
       PROVE  W \subseteq P
  <2> SUFFICES ASSUME NEW i \in W PROVE i \in P
    OBVIOUS
  <2>1. i \in all /\ b <= table[i].ts /\ table[i].ts < b + w.size /\ table[i].ts \in Nat
    BY <1>3, <1>6, <1>7
  <2>2. i \in read
    <3>1. SUFFICES ASSUME IsTruncated(read),
                          \A j \in read : table[j].ts >= table[i].ts
                   PROVE FALSE
      BY <1>1, <2>1
    <3>2. PICK j \in read : table[j].ts < b
      BY <1>10, <3>1
    <3>3. table[j].ts \in Nat /\ table[j].ts >= table[i].ts
      BY <1>1, <1>3, <3>1
    <3> QED
      BY <1>2, <2>1, <3>2, <3>3
  <2> QED
    BY <1>3, <1>6, <1>8, <2>1, <2>2
<1>11. /\ AtMost(Bar(P), q, lo, hi)
       /\ W \subseteq P => Exact(Bar(P), q, lo, hi)
  BY <1>9, BarIs DEF W
<1> QED
  BY <1>4, <1>10, <1>11 DEF PointAgrees, read, lo, hi

(* The points of a series add up to the jobs it read.                       *)
LEMMA SeriesSum ==
  ASSUME Data, NEW w \in Window, NEW q, ~IsTooFine(w.from, w.to, w.size)
  PROVE  Whole(Throughput(table, q, w.from, w.to, w.size)) =
           Over(Read(table, q, w.from, w.to))
<1> DEFINE read == Read(table, q, w.from, w.to)
           B == Buckets(w.from, w.to, w.size)
           P(b) == InBucket(table, read, b, w.size)
           A == [b \in B |-> Terminal(table, P(b))]
           f == [b \in B |-> Cardinality(Terminal(table, P(b)))]
           points == Throughput(table, q, w.from, w.to, w.size)
<1>1. /\ w.from \in Nat /\ w.to \in Nat /\ w.size \in Nat \ {0}
      /\ read \in SUBSET DOMAIN table
      /\ read \subseteq Within(table, q, w.from, w.to)
  BY WindowRead
<1>2. IsFiniteSet(B) /\ IsFiniteSet(DOMAIN table)
  BY <1>1, BucketsAreFew, TableIs
<1>3. \A b \in B : P(b) \in SUBSET DOMAIN table
  BY <1>1 DEF InBucket
<1>4. points = [b \in B |-> Bar(P(b))]
  BY DEF Throughput, Bar
<1>5. \A b \in B : points[b].completed + points[b].failed = f[b]
  <2> SUFFICES ASSUME NEW b \in B
               PROVE  points[b].completed + points[b].failed = f[b]
    OBVIOUS
  <2>1. Count(table, P(b), "completed") + Count(table, P(b), "failed") = Over(P(b))
    BY <1>3, OverIs
  <2> HIDE DEF points, P
  <2>2. points[b].completed + points[b].failed = Over(P(b))
    BY <1>4, <2>1 DEF Bar
  <2> QED
    BY <2>2 DEF Over
<1>6. Whole(points) = Ext!SumFunction(f)
  <2> HIDE DEF P
  <2>1. DOMAIN points = B
    BY <1>4
  <2>2. [b \in DOMAIN points |-> points[b].completed + points[b].failed] = f
    BY <1>5, <2>1
  <2> HIDE DEF points, f
  <2> QED
    BY <2>2 DEF Whole
<1>7. A \in [B -> SUBSET DOMAIN table]
  BY <1>3 DEF Terminal
<1>8. f \in [B -> Nat] /\ \A b \in B : f[b] = Cardinality(A[b])
  BY <1>3, TableIs DEF Terminal
<1>9. \A b, c \in B : b # c => A[b] \cap A[c] = {}
  BY DEF Terminal, InBucket
<1>10. UNION {A[b] : b \in B} = Terminal(table, read)
  <2>1. \A i \in read : BucketOf(table[i].ts, w.size) \in B
    <3> SUFFICES ASSUME NEW i \in read
                 PROVE  BucketOf(table[i].ts, w.size) \in B
      OBVIOUS
    <3>1. /\ table[i].ts \in Nat /\ table[i].ts >= w.from /\ table[i].ts <= w.to
      BY <1>1, TableIs DEF Within, Since
    <3> QED
      BY <1>1, <3>1, BucketExists
  <2> HIDE DEF B, read
  <2> QED
    BY <2>1 DEF Terminal, InBucket
<1> HIDE DEF A, f, B, points, read
<1>11. Ext!SumFunction(f) = Cardinality(UNION {A[b] : b \in B})
  BY <1>2, <1>7, <1>8, <1>9, SumOfParts
<1> QED
  BY <1>6, <1>10, <1>11 DEF Over, points, read

(* A latency is the percentile of the jobs it is taken from.                *)
LEMMA LatencyIsRank ==
  ASSUME Data, NEW I \in SUBSET DOMAIN table, NEW p \in 0 .. 99
  PROVE  IsRank(Latency(table, I, p), I, p)
<1> DEFINE timed == Timed(table, I)
           n == Cardinality(timed)
           r == Percentile(n, p)
           i == Ranked(table, timed, r)
           t == table[i].took
           Less == {j \in timed : table[j].took.ms < t.ms}
           More == {j \in timed : table[j].took.ms > t.ms}
<1>1. CASE timed = {}
  BY <1>1 DEF Latency, IsRank
<1>2. CASE timed # {}
  <2>1. /\ timed \in SUBSET DOMAIN table /\ IsFiniteSet(timed) /\ timed \subseteq Nat
        /\ n \in Nat
    <3>1. timed \in SUBSET DOMAIN table
      BY DEF Timed, Terminal
    <3> QED
      BY <3>1, TableIs
  <2>2. \A j \in timed : table[j].took.ms \in Int
    <3> SUFFICES ASSUME NEW j \in timed PROVE table[j].took.ms \in Int
      OBVIOUS
    <3>1. table[j] \in Rows
      BY <2>1, TableIs
    <3>2. table[j].took \in [ms : Int]
      BY <3>1, RowIs DEF Timed, Terminal
    <3> QED
      BY <3>2
  <2>3. n # 0
    BY <1>2, <2>1, FS_EmptySet
  <2> HIDE DEF timed, n
  <2>4. r \in 0 .. (n - 1) /\ 100 * r <= p * n /\ 100 * (r + 1) > p * n
    BY <2>1, <2>3, PercentileIs
  <2> HIDE DEF r
  <2>5. i \in timed /\ Cardinality(Before(table, timed, i)) = r
    BY <2>1, <2>2, <2>4, EveryRank DEF n
  <2> HIDE DEF i
  <2>6. Before(table, timed, i) \subseteq timed \ {i}
        /\ IsFiniteSet(Before(table, timed, i))
    BY <2>1, <2>2, <2>5, BeforeIs
  <2>7. Less \subseteq Before(table, timed, i)
    BY <2>2, <2>5 DEF Before, Shorter
  <2>8. Before(table, timed, i) \cup {i} \subseteq timed \ More
    BY <2>2, <2>5 DEF Before, Shorter
  <2> HIDE DEF Less, More
  <2>9. Cardinality(Less) \in Nat /\ Cardinality(Less) <= r
    BY <2>5, <2>6, <2>7, FS_Subset, FS_CardinalityType
  <2>10. Cardinality(timed \ More) \in Nat /\ Cardinality(timed \ More) >= r + 1
    <3>1. /\ IsFiniteSet(Before(table, timed, i) \cup {i})
          /\ Cardinality(Before(table, timed, i) \cup {i}) = r + 1
      BY <2>5, <2>6, FS_AddElement
    <3>2. IsFiniteSet(timed \ More) /\ Cardinality(timed \ More) \in Nat
      BY <2>1, FS_Subset, FS_CardinalityType
    <3>3. Cardinality(Before(table, timed, i) \cup {i}) <= Cardinality(timed \ More)
      BY <2>8, <3>2, FS_Subset
    <3> QED
      BY <3>1, <3>2, <3>3
  <2>11. p * n \in Int
    BY <2>1
  <2>12. 100 * Cardinality(Less) <= p * n /\ 100 * Cardinality(timed \ More) > p * n
    BY <2>4, <2>9, <2>10, <2>11
  <2>13. Latency(table, I, p) = t
    BY <1>2 DEF Latency, timed, n, r, i
  <2> HIDE DEF t
  <2>14. IsRank(t, I, p)
    BY <1>2, <2>5, <2>12 DEF IsRank, timed, n, Less, More, t
  <2> QED
    BY <2>13, <2>14
<1> QED
  BY <1>1, <1>2

(* The two latencies of a bucket are percentiles of its rows.               *)
LEMMA TimesOfBucket ==
  ASSUME Data, NEW w \in Window, NEW q,
         NEW b \in Buckets(w.from, w.to, w.size)
  PROVE  TimesAgree(w, q, b)
<1> DEFINE I == InBucket(table, Read(table, q, w.from, w.to), b, w.size)
<1>1. I \in SUBSET DOMAIN table
  BY WindowRead DEF InBucket
<1>2. IsRank(Latency(table, I, 50), I, 50) /\ IsRank(Latency(table, I, 95), I, 95)
  <2> HIDE DEF I
  <2> QED
    BY <1>1, LatencyIsRank
<1>3. LatencySeries(table, q, w.from, w.to, w.size)[b] =
        [p50 |-> Latency(table, I, 50), p95 |-> Latency(table, I, 95)]
  BY DEF LatencySeries
<1> HIDE DEF I
<1> QED
  BY <1>2, <1>3 DEF TimesAgree, I

(* The lines of queueTotals, by the rows of each.                           *)
OfQueue(I, q) == {i \in Terminal(table, I) : table[i].queue = q}

LEMMA LinesAre ==
  ASSUME Data, NEW w \in Window
  PROVE  LET read == Read(table, AnyQueue, w.from, w.to)
             totals == Totals(table, w.from, w.to)
         IN /\ DOMAIN totals = {table[i].queue : i \in Terminal(table, read)}
            /\ \A q \in DOMAIN totals :
                 /\ OfQueue(read, q) \in SUBSET DOMAIN table
                 /\ OfQueue(read, q) # {}
                 /\ totals[q].completed + totals[q].failed
                      = Cardinality(OfQueue(read, q))
<1> DEFINE read == Read(table, AnyQueue, w.from, w.to)
           totals == Totals(table, w.from, w.to)
<1>1. read \in SUBSET DOMAIN table
  BY WindowRead
<1>2. /\ DOMAIN totals = {table[i].queue : i \in Terminal(table, read)}
      /\ \A q \in DOMAIN totals : totals[q] = Bar(OfQueue(read, q))
  BY DEF Totals, Bar, OfQueue
<1>3. ASSUME NEW q \in DOMAIN totals
      PROVE  /\ OfQueue(read, q) \in SUBSET DOMAIN table
             /\ OfQueue(read, q) # {}
             /\ totals[q].completed + totals[q].failed
                  = Cardinality(OfQueue(read, q))
  <2>1. OfQueue(read, q) \in SUBSET DOMAIN table
    BY <1>1 DEF OfQueue, Terminal
  <2>2. OfQueue(read, q) # {}
    BY <1>2 DEF OfQueue
  <2>3. Terminal(table, OfQueue(read, q)) = OfQueue(read, q)
    BY DEF Terminal, OfQueue
  <2>4. Count(table, OfQueue(read, q), "completed")
          + Count(table, OfQueue(read, q), "failed") = Cardinality(OfQueue(read, q))
    BY <2>1, <2>3, OverIs DEF Over
  <2>5. totals[q] = Bar(OfQueue(read, q))
    BY <1>2
  <2> HIDE DEF totals
  <2> QED
    BY <2>1, <2>2, <2>4, <2>5 DEF Bar
<1> HIDE DEF totals
<1> QED
  BY <1>2, <1>3 DEF totals

(* Lines of queues share no row.                                            *)
LEMMA TotalsSum ==
  ASSUME Data, NEW w \in Window
  PROVE  Whole(Totals(table, w.from, w.to)) =
           Over(Read(table, AnyQueue, w.from, w.to))
<1> DEFINE read == Read(table, AnyQueue, w.from, w.to)
           totals == Totals(table, w.from, w.to)
           D == DOMAIN totals
           A == [q \in D |-> OfQueue(read, q)]
           f == [q \in D |-> Cardinality(OfQueue(read, q))]
<1>1. /\ D = {table[i].queue : i \in Terminal(table, read)}
      /\ \A q \in D : /\ OfQueue(read, q) \in SUBSET DOMAIN table
                      /\ totals[q].completed + totals[q].failed
                           = Cardinality(OfQueue(read, q))
  BY LinesAre
<1>2. read \in SUBSET DOMAIN table
  BY WindowRead
<1>3. IsFiniteSet(D)
  <2>1. \A i \in Terminal(table, read) : table[i].queue \in Queue
    BY <1>2, TableIs, RowIs DEF Terminal
  <2>2. D \subseteq Queue
    BY <1>1, <2>1
  <2> QED
    BY <2>2, ReportsAssumption, FS_Subset
<1> HIDE DEF D, totals, read
<1>4. Whole(totals) = Ext!SumFunction(f)
  <2>1. [q \in DOMAIN totals |-> totals[q].completed + totals[q].failed] = f
    BY <1>1 DEF D
  <2> HIDE DEF f
  <2> QED
    BY <2>1 DEF Whole
<1>5. /\ A \in [D -> SUBSET DOMAIN table]
      /\ \A p, q \in D : p # q => A[p] \cap A[q] = {}
  BY <1>1 DEF OfQueue
<1>6. f \in [D -> Nat] /\ \A q \in D : f[q] = Cardinality(A[q])
  BY <1>1, TableIs
<1>7. UNION {A[q] : q \in D} = Terminal(table, read)
  <2>1. \A q \in D : A[q] = OfQueue(read, q)
    OBVIOUS
  <2> HIDE DEF A
  <2>2. ASSUME NEW i \in Terminal(table, read)
        PROVE  table[i].queue \in D /\ i \in A[table[i].queue]
    <3>1. table[i].queue \in D
      BY <1>1
    <3>2. i \in OfQueue(read, table[i].queue)
      BY DEF OfQueue
    <3> QED
      BY <2>1, <3>1, <3>2
  <2>3. ASSUME NEW q \in D, NEW i \in A[q]
        PROVE  i \in Terminal(table, read)
    BY <2>1 DEF OfQueue
  <2> QED
    BY <2>2, <2>3
<1>8. IsFiniteSet(DOMAIN table)
  BY TableIs
<1> HIDE DEF A, f
<1>9. Ext!SumFunction(f) = Cardinality(UNION {A[q] : q \in D})
  BY <1>3, <1>5, <1>6, <1>8, SumOfParts
<1> QED
  BY <1>4, <1>7, <1>9 DEF Over, totals, read

(* Every time has its cell in the heatmap.                                  *)
LEMMA CellExists ==
  ASSUME NEW ts \in Nat
  PROVE  /\ (ts \div Day + 4) % 7 \in 0 .. 6
         /\ (ts % Day) \div Hour \in 0 .. (Day \div Hour - 1)
<1> DEFINE h == Day \div Hour
           r == ts % Day
           k == r \div Hour
<1>1. Day \in Nat \ {0} /\ Hour \in Nat \ {0} /\ Day % Hour = 0
  BY ReportsAssumption
<1>2. ts \div Day \in Int
  BY <1>1, Multiple
<1>3. (ts \div Day + 4) % 7 \in 0 .. 6
  BY <1>2
<1>4. r \in Int /\ 0 <= r /\ r < Day
  <2>1. /\ (ts \div Day) * Day \in Int /\ (ts \div Day) * Day <= ts
        /\ ts < (ts \div Day) * Day + Day
        /\ r = ts - (ts \div Day) * Day
    BY <1>1, Multiple
  <2> QED
    BY <1>1, <2>1
<1>5. h \in Int /\ Day = h * Hour
  <2>1. h \in Int /\ h * Hour \in Int /\ Day % Hour = Day - h * Hour
    BY <1>1, Multiple
  <2> QED
    BY <1>1, <2>1
<1> HIDE DEF r, h
<1>6. k \in Int /\ k * Hour \in Int /\ k * Hour <= r /\ r < k * Hour + Hour
  BY <1>1, <1>4, Multiple
<1> HIDE DEF k
<1>7. ~(h <= k)
  <2>1. CASE h = k
    BY <1>1, <1>4, <1>5, <1>6, <2>1
  <2>2. CASE h < k
    <3>1. h * Hour + Hour <= k * Hour
      BY <1>1, <1>5, <1>6, <2>2, TimesMonotone
    <3> QED
      BY <1>1, <1>4, <1>5, <1>6, <3>1
  <2> QED
    BY <1>5, <1>6, <2>1, <2>2
<1>8. ~(k < 0)
  <2>1. 0 * Hour = 0
    BY <1>1
  <2>2. k < 0 => k * Hour + Hour <= 0 * Hour
    BY <1>1, <1>6, TimesMonotone
  <2> QED
    BY <1>1, <1>4, <1>6, <2>1, <2>2
<1>9. k \in 0 .. (h - 1)
  BY <1>5, <1>6, <1>7, <1>8
<1> QED
  BY <1>3, <1>9 DEF k, h, r

(* Each row that was read falls into one cell of the heatmap.               *)
LEMMA HeatSum ==
  ASSUME Data, NEW w \in Window
  PROVE  Ext!SumFunction(Heatmap(table, w.from, w.to)) =
           Over(Read(table, AnyQueue, w.from, w.to))
<1> DEFINE over == Terminal(table, Read(table, AnyQueue, w.from, w.to))
           Cell(ts) == <<(ts \div Day + 4) % 7, (ts % Day) \div Hour>>
           D == (0 .. 6) \X (0 .. Day \div Hour - 1)
           A == [c \in D |-> {i \in over : Cell(table[i].ts) = c}]
           f == [c \in D |-> Cardinality({i \in over : Cell(table[i].ts) = c})]
<1>1. over \in SUBSET DOMAIN table
  BY WindowRead DEF Terminal
<1>2. Heatmap(table, w.from, w.to) = f
  BY DEF Heatmap
<1>3. \A i \in over : Cell(table[i].ts) \in D
  <2> SUFFICES ASSUME NEW i \in over PROVE Cell(table[i].ts) \in D
    OBVIOUS
  <2>1. table[i].ts \in Nat
    BY <1>1, TableIs
  <2> QED
    BY <2>1, CellExists
<1>4. IsFiniteSet(D)
  <2>1. Day \div Hour \in Int
    BY ReportsAssumption, Multiple
  <2> DEFINE last == Day \div Hour - 1
  <2>2. 0 \in Int /\ 6 \in Int /\ last \in Int
    BY <2>1
  <2> HIDE DEF last
  <2>3. IsFiniteSet(0 .. 6) /\ IsFiniteSet(0 .. last)
    <3>1. IsFiniteSet(0 .. 6)
      BY <2>2, FS_Interval, Zenon
    <3>2. IsFiniteSet(0 .. last)
      BY <2>2, FS_Interval, Zenon
    <3> QED
      BY <3>1, <3>2
  <2> QED
    BY <2>3, FS_Product DEF last
<1> HIDE DEF Cell, D, over
<1>5. /\ A \in [D -> SUBSET DOMAIN table]
      /\ \A c, e \in D : c # e => A[c] \cap A[e] = {}
  BY <1>1
<1>6. f \in [D -> Nat] /\ \A c \in D : f[c] = Cardinality(A[c])
  <2>1. \A c \in D : A[c] \in SUBSET DOMAIN table
    BY <1>5
  <2>2. \A c \in D : A[c] = {i \in over : Cell(table[i].ts) = c}
    OBVIOUS
  <2> QED
    BY <2>1, <2>2, TableIs
<1>7. UNION {A[c] : c \in D} = over
  BY <1>3
<1>8. IsFiniteSet(DOMAIN table)
  BY TableIs
<1> HIDE DEF A, f
<1>9. Ext!SumFunction(f) = Cardinality(UNION {A[c] : c \in D})
  BY <1>4, <1>5, <1>6, <1>8, SumOfParts
<1> QED
  BY <1>2, <1>7, <1>9 DEF Over, over

(* A line against the series of its queue: that read reached back further.  *)
LEMMA LineOfQueue ==
  ASSUME Data, NEW w \in Window, ~IsTooFine(w.from, w.to, w.size),
         NEW q \in DOMAIN Totals(table, w.from, w.to)
  PROVE  LineAgrees(w, q)
<1> DEFINE any == Within(table, AnyQueue, w.from, w.to)
           mine == Within(table, q, w.from, w.to)
           read == Read(table, AnyQueue, w.from, w.to)
           own == Read(table, q, w.from, w.to)
           L == OfQueue(read, q)
           jobs == Cardinality(L)
           all == Cardinality(Terminal(table, own))
<1>1. /\ read \subseteq any /\ any \in SUBSET DOMAIN table
      /\ \A i \in any : i \in read \/ IsTruncated(read)
      /\ \A J \in SUBSET any : read \cap J \subseteq Newest(table, J, MaxRead)
  BY WindowRead
<1>2. /\ own \subseteq mine /\ own = Newest(table, mine, MaxRead)
      /\ own \in SUBSET DOMAIN table
  BY WindowRead DEF Read
<1>3. /\ L \in SUBSET DOMAIN table /\ L # {}
      /\ Totals(table, w.from, w.to)[q].completed
           + Totals(table, w.from, w.to)[q].failed = jobs
  BY LinesAre
<1>4. q # AnyQueue
  <2>1. PICK i \in L : TRUE
    BY <1>3
  <2>2. table[i].queue = q /\ table[i] \in Rows
    BY <1>3, TableIs DEF OfQueue
  <2> QED
    BY <2>2, RowIs
<1>5. mine = {i \in any : table[i].queue = q}
  BY <1>4 DEF Within, Since
<1>6. Whole(Throughput(table, q, w.from, w.to, w.size)) = all
  BY SeriesSum DEF Over
<1> HIDE DEF any, mine, read, own
<1>7. L \subseteq Terminal(table, own)
  <2>1. read \cap mine \subseteq own
    BY <1>1, <1>2, <1>5
  <2> QED
    BY <1>1, <1>5, <2>1 DEF OfQueue, Terminal
<1>8. ASSUME ~IsTruncated(read) PROVE L = Terminal(table, own)
  <2>1. own \subseteq read
    BY <1>1, <1>2, <1>5, <1>8
  <2>2. \A i \in own : table[i].queue = q
    BY <1>2, <1>5
  <2> QED
    BY <1>7, <2>1, <2>2 DEF OfQueue, Terminal
<1>9. /\ IsFiniteSet(L) /\ jobs \in Nat
      /\ IsFiniteSet(Terminal(table, own)) /\ all \in Nat
  <2>1. Terminal(table, own) \in SUBSET DOMAIN table
    BY <1>2 DEF Terminal
  <2> QED
    BY <1>3, <2>1, TableIs
<1> HIDE DEF L
<1>10. jobs # 0 /\ jobs <= all
  BY <1>3, <1>7, <1>9, FS_EmptySet, FS_Subset
<1>11. ~IsTruncated(read) => jobs = all
  BY <1>8
<1> HIDE DEF jobs, all
<1>12. jobs \in 1 .. all
  BY <1>9, <1>10
<1> QED
  BY <1>3, <1>6, <1>11, <1>12 DEF LineAgrees, read

(* The analytics reports of a table of any rows agree.                      *)
LEMMA AnalyticsAgree == Data => ReportsAgree
<1> SUFFICES ASSUME Data, NEW w \in Window, ~IsTooFine(w.from, w.to, w.size)
             PROVE  /\ \A q \in Queue \cup {AnyQueue} : SeriesAgree(w, q)
                    /\ Whole(Totals(table, w.from, w.to))
                         = Over(Read(table, AnyQueue, w.from, w.to))
                    /\ Ext!SumFunction(Heatmap(table, w.from, w.to))
                         = Over(Read(table, AnyQueue, w.from, w.to))
                    /\ \A q \in DOMAIN Totals(table, w.from, w.to) : LineAgrees(w, q)
  BY DEF ReportsAgree
<1>1. w.from \in Nat /\ w.to \in Nat /\ w.size \in Nat \ {0}
  BY InsightsAssumption
<1>2. Cardinality(Buckets(w.from, w.to, w.size)) <= MaxBuckets + 1
  BY <1>1, BucketsAreFew
<1>3. ASSUME NEW q PROVE SeriesAgree(w, q)
  <2>1. \A b \in Buckets(w.from, w.to, w.size) : PointAgrees(w, q, b)
    BY PointOfBucket
  <2>2. \A b \in Buckets(w.from, w.to, w.size) : TimesAgree(w, q, b)
    BY TimesOfBucket
  <2>3. Whole(Throughput(table, q, w.from, w.to, w.size)) =
          Over(Read(table, q, w.from, w.to))
    BY SeriesSum
  <2> QED
    BY <1>2, <2>1, <2>2, <2>3 DEF SeriesAgree
<1> QED
  BY <1>3, TotalsSum, HeatSum, LineOfQueue

(* ReportsAgree: the series, latencies, totals and heatmap of the analytics *)
(* page agree with any rows, window and limit (analytics.ts).               *)
THEOREM AnalyticsAddUp == InsightsSpec => []ReportsAgree
BY DataInit, DataStep, AnalyticsAgree, PTL DEF InsightsSpec
=============================================================================
