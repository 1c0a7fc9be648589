-------------------------- MODULE ConnectorLinkProofs --------------------------
(***************************************************************************)
(* Proofs about ConnectorLink, for any number of dials and any backoff.    *)
(* The four invariants are inductive together: a timer fires only while no *)
(* socket is live, so that a dial makes the first one (OneLink), a refusal *)
(* finds no timer (StoppedForGood), and a close finds no other socket the  *)
(* transport could belong to (TransportIsLive).                            *)
(***************************************************************************)
EXTENDS ConnectorLink, FiniteSetTheorems, TLAPS

IInv == TypeOK /\ OneLink /\ TransportIsLive /\ StoppedForGood

-----------------------------------------------------------------------------
(* The initial states satisfy the invariant: one socket, being dialled.     *)
LEMMA InitIInv == Init => IInv
<1> SUFFICES ASSUME Init PROVE IInv
  OBVIOUS
<1> USE DEF Init
<1>1. 1 \in Socket /\ None \notin Socket
  BY LinkAssumption DEF Socket
<1>2. \A s \in Socket : Live(s) <=> s = 1
  BY <1>1 DEF Live
<1>3. watchdogs = {s \in Socket : Live(s)}
  BY <1>1, <1>2
<1>4. TypeOK
  BY <1>1, <1>3 DEF TypeOK
<1>5. OneLink /\ TransportIsLive /\ StoppedForGood
  BY <1>1, <1>2 DEF OneLink, TransportIsLive, StoppedForGood
<1> QED BY <1>4, <1>5 DEF IInv

(* A reconnect timer that fires dials, if at all, when nothing is live.     *)
LEMMA TimerStep ==
  ASSUME IInv, NEW t \in Socket, NEW s \in Socket, TimerFires(t, s)
  PROVE  IInv'
<1> USE DEF IInv, TimerFires
<1>1. \A u \in Socket : ~Live(u)
  BY DEF OneLink
<1>2. transport = None /\ timers' = {}
  BY <1>1, LinkAssumption DEF OneLink, TransportIsLive, TypeOK, Socket
<1>3. TypeOK'
  <2>1. CASE stopped
    BY <2>1 DEF TypeOK, Live
  <2>2. CASE ~stopped
    <3>1. watchdogs' = {s}
      BY <1>1, <2>2 DEF TypeOK, Dial
    <3>2. \A u \in Socket : Live(u)' <=> u = s
      BY <1>1, <2>2 DEF TypeOK, Dial, Live
    <3> QED BY <2>2, <3>1, <3>2 DEF TypeOK, Dial
  <2> QED BY <2>1, <2>2
<1>4. OneLink'
  <2>1. CASE stopped
    BY <1>1, <1>2, <2>1 DEF OneLink, Live
  <2>2. CASE ~stopped
    BY <1>1, <1>2, <2>2 DEF OneLink, Live, Dial, TypeOK
  <2> QED BY <2>1, <2>2
<1>5. TransportIsLive'
  BY <1>2 DEF TransportIsLive
<1>6. StoppedForGood'
  BY <1>2 DEF StoppedForGood
<1> QED BY <1>3, <1>4, <1>5, <1>6

(* A close leaves nothing live, and at most the timer it sets.              *)
LEMMA CloseStep ==
  ASSUME IInv, NEW s \in Socket, CloseEvent(s)
  PROVE  IInv'
<1> USE DEF IInv, CloseEvent
<1>1. \A u \in Socket : Live(u) => u = s
  BY DEF OneLink
<1>2. \A u \in Socket : ~Live(u)'
  BY <1>1 DEF TypeOK, Live
<1>3. activeSocket' = None /\ timers = {}
  BY DEF OneLink
<1>4. \/ stopped /\ timers' = {}
      \/ ~stopped /\ timers' = {s} /\ reconnectTimer' = s
  BY <1>3 DEF ScheduleReconnect
<1>5. TypeOK'
  <2>1. watchdogs' = {}
    BY <1>1 DEF TypeOK
  <2>2. attempt' \in Nat /\ reconnectTimer' \in Socket \cup {None}
    BY DEF TypeOK, ScheduleReconnect
  <2> QED BY <1>2, <1>3, <1>4, <2>1, <2>2 DEF TypeOK
<1>6. OneLink'
  BY <1>2, <1>3, <1>4 DEF OneLink
<1>7. TransportIsLive' /\ StoppedForGood'
  BY <1>4 DEF TransportIsLive, StoppedForGood
<1> QED BY <1>5, <1>6, <1>7

(* stop closes the live socket or clears the armed timer.                   *)
LEMMA StopStep == IInv /\ Stop => IInv'
<1> SUFFICES ASSUME IInv, Stop PROVE IInv'
  OBVIOUS
<1> USE DEF IInv, Stop
<1>1. timers' = {}
  BY DEF OneLink
<1>2. \A u \in Socket : Live(u)' <=> Live(u)
  BY DEF OneLink, TypeOK, Live, Close
<1>3. TypeOK'
  BY <1>1, <1>2 DEF TypeOK, Close
<1>4. OneLink'
  <2>1. activeSocket # None => activeSocket \in Socket
    BY DEF TypeOK
  <2> QED BY <1>1, <1>2, <2>1 DEF OneLink
<1>5. TransportIsLive' /\ StoppedForGood'
  BY <1>1 DEF TransportIsLive, StoppedForGood
<1> QED BY <1>3, <1>4, <1>5

(* Steps on a live socket that leave timers and activeSocket alone.         *)
LEMMA LiveStep ==
  ASSUME IInv, NEW s \in Socket, Live(s), Live(s)',
         ws' \in [Socket -> {"none", "connecting", "open", "closing", "closed"}],
         hello' \in [Socket -> {"unsent", "sent", "acked", "refused"}],
         stale' \in [Socket -> BOOLEAN],
         attempt' \in Nat,
         stopped' \in BOOLEAN,
         \A u \in Socket \ {s} : ws'[u] = ws[u] /\ hello'[u] = hello[u],
         hello[s] = "acked" => hello'[s] = "acked",
         ws'[s] = "connecting" => hello'[s] = "unsent",
         \/ transport' = transport
         \/ transport' = s /\ hello'[s] = "acked",
         UNCHANGED <<watchdogs, activeSocket, timers, reconnectTimer>>
  PROVE  IInv'
<1> USE DEF IInv
<1>1. \A u \in Socket : Live(u)' <=> Live(u)
  BY DEF Live
<1>2. timers = {} /\ activeSocket = s
  BY DEF OneLink
<1>3. TypeOK'
  <2>1. \A u \in Socket : ws'[u] \in {"none", "connecting"} =>
                              hello'[u] = "unsent"
    BY DEF Live, TypeOK
  <2>2. watchdogs' = {u \in Socket : Live(u)'}
    BY <1>1 DEF TypeOK
  <2>3. transport' \in Socket \cup {None}
    BY DEF TypeOK
  <2> QED BY <2>1, <2>2, <2>3 DEF TypeOK
<1>4. OneLink'
  BY <1>1, <1>2 DEF OneLink
<1>5. TransportIsLive'
  BY <1>1 DEF TransportIsLive, TypeOK
<1>6. StoppedForGood'
  BY <1>2 DEF StoppedForGood
<1> QED BY <1>3, <1>4, <1>5, <1>6

-----------------------------------------------------------------------------
(* Every step preserves the invariant.                                      *)
LEMMA NextIInv == IInv /\ [Next]_vars => IInv'
<1> SUFFICES ASSUME IInv, [Next]_vars PROVE IInv'
  OBVIOUS
<1> USE DEF IInv
<1>1. ASSUME NEW s \in Socket, Opens(s) PROVE IInv'
  <2>1. ws[s] = "connecting" /\ ws'[s] = "open"
    BY <1>1 DEF Opens, TypeOK
  <2>2. hello[s] = "unsent" /\ hello'[s] = "sent"
    BY <1>1 DEF Opens, TypeOK
  <2> QED BY <1>1, <2>1, <2>2, LiveStep DEF Opens, TypeOK, Live
<1>2. ASSUME NEW s \in Socket, HelloAck(s) PROVE IInv'
  BY <1>2, LiveStep DEF HelloAck, Heard, TypeOK, Live
<1>3. ASSUME NEW s \in Socket, Unauthorized(s) PROVE IInv'
  BY <1>3, LiveStep DEF Unauthorized, Heard, Close, TypeOK, Live
<1>4. ASSUME NEW s \in Socket, HelloError(s) PROVE IInv'
  BY <1>4, LiveStep DEF HelloError, Heard, Close, TypeOK, Live
<1>5. ASSUME NEW s \in Socket, Ping(s) PROVE IInv'
  BY <1>5, LiveStep DEF Ping, TypeOK, Live
<1>6. ASSUME NEW s \in Socket, Silence(s) PROVE IInv'
  BY <1>6, LiveStep DEF Silence, TypeOK, Live
<1>7. ASSUME NEW s \in Socket, WatchdogFires(s) PROVE IInv'
  BY <1>7, LiveStep DEF WatchdogFires, Close, TypeOK, Live
<1>8. ASSUME NEW s \in Socket, CloseEvent(s) PROVE IInv'
  BY <1>8, CloseStep
<1>9. ASSUME NEW s \in Socket, NEW t \in Socket, TimerFires(t, s) PROVE IInv'
  BY <1>9, TimerStep
<1>10. ASSUME Stop PROVE IInv'
  BY <1>10, StopStep
<1>11. ASSUME UNCHANGED vars PROVE IInv'
  BY <1>11 DEF vars, TypeOK, OneLink, TransportIsLive, StoppedForGood, Live
<1> QED
  BY <1>1, <1>2, <1>3, <1>4, <1>5, <1>6, <1>7, <1>8, <1>9, <1>10, <1>11
     DEF Next

(* The inductive invariant of the connector's link.                         *)
THEOREM Invariance == Spec => []IInv
BY InitIInv, NextIInv, PTL DEF Spec

(* Every variable keeps its type, and the watchdogs that run are those of   *)
(* the live sockets.                                                        *)
THEOREM TypeCorrect == Spec => []TypeOK
BY Invariance, PTL DEF IInv

(* One live socket, or one armed timer, or neither: whatever the order of   *)
(* closes, refusals, watchdogs, late acknowledgements and stops.            *)
THEOREM SingleLink == Spec => []OneLink
BY Invariance, PTL DEF IInv

(* The outbox never sends into a closed or unacknowledged socket.           *)
THEOREM TransportLive == Spec => []TransportIsLive
BY Invariance, PTL DEF IInv

(* After stop, or a refusal, no reconnect timer is armed.                   *)
THEOREM NoTimerOnceStopped == Spec => []StoppedForGood
BY Invariance, PTL DEF IInv

-----------------------------------------------------------------------------
(* After stop, or a refusal, no socket is ever dialled.                     *)
THEOREM NoDialOnceStopped ==
  Spec => [][stopped => stopped' /\ \A s \in Socket :
                                      ws[s] = "none" => ws'[s] = "none"]_vars
<1> DEFINE Quiet == stopped => stopped' /\ \A s \in Socket :
                                 ws[s] = "none" => ws'[s] = "none"
<1>1. IInv /\ [Next]_vars => [Quiet]_vars
  <2> SUFFICES ASSUME IInv, Next, stopped PROVE Quiet
    BY DEF vars
  <2> USE DEF IInv, TypeOK, Live, Heard, Close
  <2>1. timers = {}
    BY DEF StoppedForGood
  <2>2. \A s, t \in Socket : ~TimerFires(t, s)
    BY <2>1 DEF TimerFires
  <2>3. ASSUME Stop PROVE Quiet
    BY <2>3 DEF Stop, OneLink
  <2>4. ASSUME NEW s \in Socket,
               Opens(s) \/ HelloAck(s) \/ Unauthorized(s) \/ HelloError(s)
        PROVE  Quiet
    BY <2>4 DEF Opens, HelloAck, Unauthorized, HelloError
  <2>5. ASSUME NEW s \in Socket,
               Ping(s) \/ Silence(s) \/ WatchdogFires(s) \/ CloseEvent(s)
        PROVE  Quiet
    BY <2>5 DEF Ping, Silence, WatchdogFires, CloseEvent
  <2> QED BY <2>2, <2>3, <2>4, <2>5 DEF Next
<1> QED BY <1>1, Invariance, PTL DEF Spec

-----------------------------------------------------------------------------
(* The backoff.  Sockets are dialled one after the other, and the live      *)
(* socket, or the one whose close armed the timer, is the last.             *)
Last(s) == \A u \in Socket : ws[u] = "none" <=> u > s

(* While that socket lives, attempt counts the failed dials before it; when *)
(* it has closed, itself as well.                                           *)
Paced ==
  /\ \A s \in Socket :
       Live(s) => Last(s) /\ attempt = Cardinality(FailedBefore(s))
  /\ \A t \in timers :
       /\ Last(t)
       /\ attempt = Cardinality(FailedBefore(t)) + 1
       /\ delay = Backoff(Cardinality(FailedBefore(t)))

LEMMA FailedFinite ==
  ASSUME NEW t \in Socket
  PROVE  IsFiniteSet(FailedBefore(t)) /\ Cardinality(FailedBefore(t)) \in Nat
<1>1. t \in Nat /\ IsFiniteSet(1 .. (t - 1))
  BY LinkAssumption, FS_Interval DEF Socket
<1>2. FailedBefore(t) \subseteq 1 .. (t - 1)
  BY DEF FailedBefore
<1> QED
  BY <1>1, <1>2, FS_Subset, FS_CardinalityType

(* The first dial has no failures before it, nor has one that was           *)
(* acknowledged.                                                            *)
LEMMA NoneFailed ==
  ASSUME NEW t \in Socket, t = 1 \/ hello[t] = "acked"
  PROVE  Cardinality(FailedBefore(t)) = 0
<1>1. t \in Nat \ {0}
  BY LinkAssumption DEF Socket
<1>2. FailedBefore(t) = {}
  <2>1. CASE t = 1
    BY <2>1 DEF FailedBefore
  <2>2. CASE hello[t] = "acked"
    <3>1. \A u \in 1 .. (t - 1) : t \in (u + 1) .. t
      BY <1>1
    <3> QED
      BY <2>2, <3>1 DEF FailedBefore
  <2> QED
    BY <2>1, <2>2
<1> QED
  BY <1>2, FS_EmptySet

(* The dial after one more.                                                 *)
LEMMA OneMoreFailed ==
  ASSUME NEW t \in Socket, t + 1 \in Socket, hello[t + 1] # "acked"
  PROVE  Cardinality(FailedBefore(t + 1)) = Cardinality(FailedBefore(t)) + 1
<1>1. t \in Nat \ {0}
  BY LinkAssumption DEF Socket
<1>2. FailedBefore(t + 1) = FailedBefore(t) \cup {t}
  <2>1. ASSUME NEW u \in FailedBefore(t + 1)
        PROVE  u \in FailedBefore(t) \cup {t}
    <3>1. u \in 1 .. t /\ \A v \in (u + 1) .. (t + 1) : hello[v] # "acked"
      BY <1>1, <2>1 DEF FailedBefore
    <3>2. \A v \in (u + 1) .. t : v \in (u + 1) .. (t + 1)
      BY <1>1, <3>1
    <3> QED
      BY <1>1, <3>1, <3>2 DEF FailedBefore
  <2>2. ASSUME NEW u \in FailedBefore(t) \cup {t}
        PROVE  u \in FailedBefore(t + 1)
    <3>1. u \in 1 .. t /\ \A v \in (u + 1) .. t : hello[v] # "acked"
      BY <1>1, <2>2 DEF FailedBefore
    <3>2. \A v \in (u + 1) .. (t + 1) : v \in (u + 1) .. t \/ v = t + 1
      BY <1>1, <3>1
    <3> QED
      BY <1>1, <3>1, <3>2 DEF FailedBefore
  <2> QED
    BY <2>1, <2>2
<1>3. t \notin FailedBefore(t)
  BY <1>1 DEF FailedBefore
<1> QED
  BY <1>2, <1>3, FailedFinite, FS_AddElement

(* What counts of the hellos is which were acknowledged.                    *)
LEMMA SameFailures ==
  ASSUME NEW t \in Socket,
         \A u \in 1 .. t : hello'[u] = "acked" <=> hello[u] = "acked"
  PROVE  FailedBefore(t)' = FailedBefore(t)
<1>1. t \in Nat
  BY LinkAssumption DEF Socket
<1>2. \A u \in 1 .. (t - 1) : \A v \in (u + 1) .. t : v \in 1 .. t
  BY <1>1
<1> QED
  BY <1>1, <1>2 DEF FailedBefore

LEMMA InitPaced == Init => Paced
<1> SUFFICES ASSUME Init PROVE Paced
  OBVIOUS
<1>1. 1 \in Socket /\ \A s \in Socket : Live(s) => s = 1
  BY LinkAssumption DEF Init, Live, Socket
<1>2. Last(1)
  BY LinkAssumption DEF Init, Last, Socket
<1>3. attempt = Cardinality(FailedBefore(1))
  BY <1>1, NoneFailed DEF Init
<1> QED
  BY <1>1, <1>2, <1>3 DEF Paced, Init

(* The next socket in order is the one after the last.                      *)
LEMMA TimerPaced ==
  ASSUME IInv, Paced, NEW t \in Socket, NEW s \in Socket, TimerFires(t, s)
  PROVE  Paced'
<1> USE DEF IInv
<1>1. \A u \in Socket : ~Live(u)
  BY DEF OneLink, TimerFires
<1>2. t \in timers /\ timers' = {}
  BY DEF OneLink, TimerFires
<1>3. s = t + 1
  <2>1. t \in Nat /\ s \in Nat
    BY LinkAssumption DEF Socket
  <2>2. Last(t) /\ ws[s] = "none"
    BY <1>2 DEF Paced, TimerFires
  <2>3. s > t
    BY <2>2 DEF Last
  <2>4. ASSUME t + 1 < s PROVE FALSE
    <3>1. t + 1 \in Socket
      BY <2>1, <2>4, LinkAssumption DEF Socket
    <3> QED
      BY <2>1, <2>2, <2>4, <3>1 DEF Last, TimerFires
  <2> QED
    BY <2>1, <2>3, <2>4
<1>4. CASE stopped
  BY <1>1, <1>2, <1>4 DEF Paced, TimerFires, Live
<1>5. CASE ~stopped
  <2>1. \A u \in Socket : Live(u)' => u = s
    BY <1>1, <1>5 DEF TimerFires, Dial, TypeOK, Live
  <2>2. Last(s)'
    <3>1. t \in Nat /\ s \in Nat /\ Socket \subseteq Nat
      BY LinkAssumption DEF Socket
    <3>2. ASSUME NEW u \in Socket PROVE ws'[u] = "none" <=> u > s
      <4>1. ws[u] = "none" <=> u > t
        BY <1>2 DEF Paced, Last
      <4>2. ws'[u] = IF u = s THEN "connecting" ELSE ws[u]
        BY <1>5 DEF TimerFires, Dial, TypeOK
      <4> QED
        BY <1>3, <3>1, <4>1, <4>2
    <3> QED
      BY <3>2 DEF Last
  <2>3. hello[s] # "acked"
    BY DEF TimerFires, TypeOK
  <2>4. attempt = Cardinality(FailedBefore(s))
    <3>1. attempt = Cardinality(FailedBefore(t)) + 1
      BY <1>2 DEF Paced
    <3> QED
      BY <1>3, <2>3, <3>1, OneMoreFailed
  <2>5. (attempt = Cardinality(FailedBefore(s)))'
    <3>1. FailedBefore(s)' = FailedBefore(s) /\ attempt' = attempt
      BY DEF TimerFires, FailedBefore
    <3> QED
      BY <2>4, <3>1
  <2> QED
    BY <1>2, <2>1, <2>2, <2>5 DEF Paced
<1> QED
  BY <1>4, <1>5

(* scheduleReconnect takes the delay from the failures so far, and counts   *)
(* one more.                                                                *)
LEMMA ClosePaced ==
  ASSUME IInv, Paced, NEW s \in Socket, CloseEvent(s)
  PROVE  Paced'
<1> USE DEF IInv
<1>1. \A u \in Socket : ~Live(u)'
  BY DEF OneLink, CloseEvent, TypeOK, Live
<1>2. /\ timers = {} /\ Last(s) /\ attempt = Cardinality(FailedBefore(s))
      /\ FailedBefore(s)' = FailedBefore(s)
  BY DEF OneLink, CloseEvent, Paced, FailedBefore
<1>3. Last(s)'
  BY <1>2, LinkAssumption DEF CloseEvent, TypeOK, Last, Socket
<1>4. CASE stopped
  BY <1>1, <1>2, <1>4 DEF Paced, CloseEvent, ScheduleReconnect
<1>5. CASE ~stopped
  <2>1. timers' = {s} /\ delay' = Backoff(attempt) /\ attempt' = attempt + 1
    BY <1>2, <1>5 DEF CloseEvent, ScheduleReconnect
  <2> QED
    BY <1>1, <1>2, <1>3, <2>1 DEF Paced
<1> QED
  BY <1>4, <1>5

(* Steps that dial and close nothing keep the count, but for an             *)
(* acknowledgement, which ends it.                                          *)
LEMMA HeldPaced ==
  ASSUME IInv, Paced,
         \A u \in Socket : Live(u)' <=> Live(u),
         \A u \in Socket : ws'[u] = "none" <=> ws[u] = "none",
         timers' \subseteq timers, UNCHANGED delay,
         \/ /\ \A u \in Socket : hello'[u] = "acked" <=> hello[u] = "acked"
            /\ UNCHANGED attempt
         \/ \E s \in Socket : Live(s) /\ hello'[s] = "acked" /\ attempt' = 0
  PROVE  Paced'
<1> USE DEF IInv
<1>1. \A u \in Socket : Last(u)' <=> Last(u)
  BY DEF Last
<1>2. timers \subseteq Socket
  BY DEF TypeOK
<1>3. CASE /\ \A u \in Socket : hello'[u] = "acked" <=> hello[u] = "acked"
           /\ UNCHANGED attempt
  <2>1. ASSUME NEW u \in Socket PROVE FailedBefore(u)' = FailedBefore(u)
    <3>1. 1 .. u \subseteq Socket
      BY LinkAssumption DEF Socket
    <3> QED
      BY <1>3, <3>1, SameFailures
  <2> QED
    BY <1>1, <1>2, <1>3, <2>1 DEF Paced
<1>4. CASE \E s \in Socket : Live(s) /\ hello'[s] = "acked" /\ attempt' = 0
  <2>1. PICK s \in Socket : Live(s) /\ hello'[s] = "acked" /\ attempt' = 0
    BY <1>4
  <2>2. timers' = {} /\ \A u \in Socket : Live(u) => u = s
    BY <2>1 DEF OneLink
  <2>3. Cardinality(FailedBefore(s))' = 0
    <3>1. FailedBefore(s)' = {}
      <4>1. s \in Nat /\ \A u \in 1 .. (s - 1) : s \in (u + 1) .. s
        BY LinkAssumption DEF Socket
      <4> QED
        BY <2>1, <4>1 DEF FailedBefore
    <3> QED
      BY <3>1, FS_EmptySet
  <2> QED
    BY <1>1, <2>1, <2>2, <2>3 DEF Paced
<1> QED
  BY <1>3, <1>4

LEMMA NextPaced == IInv /\ Paced /\ [Next]_vars => Paced'
<1> SUFFICES ASSUME IInv, Paced, [Next]_vars PROVE Paced'
  OBVIOUS
<1>0. TypeOK
  BY DEF IInv
<1>1. ASSUME NEW s \in Socket, Opens(s) PROVE Paced'
  BY <1>0, <1>1, HeldPaced DEF Opens, TypeOK, Live
<1>2. ASSUME NEW s \in Socket, HelloAck(s) PROVE Paced'
  BY <1>0, <1>2, HeldPaced DEF HelloAck, Heard, TypeOK, Live
<1>3. ASSUME NEW s \in Socket, Unauthorized(s) \/ HelloError(s)
      PROVE  Paced'
  BY <1>0, <1>3, HeldPaced
     DEF Unauthorized, HelloError, Heard, Close, TypeOK, Live
<1>4. ASSUME NEW s \in Socket, Ping(s) \/ Silence(s) PROVE Paced'
  BY <1>0, <1>4, HeldPaced DEF Ping, Silence, TypeOK, Live
<1>5. ASSUME NEW s \in Socket, WatchdogFires(s) PROVE Paced'
  BY <1>0, <1>5, HeldPaced DEF WatchdogFires, Close, TypeOK, Live
<1>6. ASSUME NEW s \in Socket, CloseEvent(s) PROVE Paced'
  BY <1>6, ClosePaced
<1>7. ASSUME NEW s \in Socket, NEW t \in Socket, TimerFires(t, s) PROVE Paced'
  BY <1>7, TimerPaced
<1>8. ASSUME Stop PROVE Paced'
  <2>1. activeSocket # None => Live(activeSocket)
    BY <1>0 DEF IInv, OneLink, TypeOK
  <2>2. \A u \in Socket : Live(u)' <=> Live(u)
    BY <1>0, <1>8, <2>1 DEF Stop, Close, TypeOK, Live
  <2>3. \A u \in Socket : ws'[u] = "none" <=> ws[u] = "none"
    BY <1>0, <1>8, <2>1 DEF Stop, Close, TypeOK, Live
  <2>4. timers' \subseteq timers /\ UNCHANGED delay
    BY <1>8 DEF Stop
  <2>5. /\ \A u \in Socket : hello'[u] = "acked" <=> hello[u] = "acked"
        /\ UNCHANGED attempt
    BY <1>8 DEF Stop
  <2> QED
    BY <2>2, <2>3, <2>4, <2>5, HeldPaced
<1>9. ASSUME UNCHANGED vars PROVE Paced'
  BY <1>0, <1>9, HeldPaced DEF vars, Live
<1> QED
  BY <1>1, <1>2, <1>3, <1>4, <1>5, <1>6, <1>7, <1>8, <1>9 DEF Next

(* The delay of an armed reconnect timer is the capped power of two that    *)
(* belongs to the dials which failed since the last acknowledged one: for   *)
(* any number of dials, whatever refused or cut them.                       *)
THEOREM BacksOff == Spec => []WaitsFollowFailures
<1>1. Paced => WaitsFollowFailures
  BY DEF Paced, WaitsFollowFailures
<1>2. Spec => [](IInv /\ Paced)
  BY InitIInv, InitPaced, NextIInv, NextPaced, PTL DEF Spec
<1> QED
  BY <1>1, <1>2, PTL
=============================================================================
