---------------------------- MODULE RequestProofs ----------------------------
(***************************************************************************)
(* Proofs about requests: RpcBridge, for any number of requests, changes   *)
(* and sockets, and Board, for any finite set of jobs.                     *)
(***************************************************************************)
EXTENDS RpcBridge, Board, FiniteSetTheorems, TLAPS

(* Of a request that is untouched, nothing has been asked of BullMQ; one    *)
(* that is complete has made all of its changes; one that is left has no    *)
(* frame to the connector and no handler any more.                          *)
Untouched(r) ==
  /\ \A p \in Part : <<r, p>> \notin calls
  /\ \A p \in Part : executed[r][p] = 0

Complete(r) == \A p \in Part : executed[r][p] = 1

Left(r) ==
  \A s \in Socket : <<s, r>> \notin requests \cup checking \cup applying

(* A request has a session exactly when it was forwarded; before that, and  *)
(* when it was refused, nothing of it has run.                              *)
Forwarding ==
  \A r \in Rpc :
    /\ web[r] = "none" => http[r] = "none"
    /\ http[r] \in {"none", "posted", "refused"} =>
         via[r] = None /\ Untouched(r)
    /\ http[r] = "waiting" => via[r] # None

(* A request is a frame or a handler on the session it was forwarded to and *)
(* nowhere else, in one of the three forms, and changes nothing before its  *)
(* handler applies it.                                                      *)
OneFrame ==
  /\ requests \cap checking = {}
  /\ requests \cap applying = {}
  /\ checking \cap applying = {}
  /\ \A s \in Socket, r \in Rpc :
       <<s, r>> \in requests \cup checking \cup applying => via[r] = s
  /\ \A s \in Socket, r \in Rpc :
       <<s, r>> \in requests \cup checking => Untouched(r)

(* A change is made once, and not while it is still asked for.              *)
CallsOnce ==
  /\ \A r \in Rpc, p \in Part : executed[r][p] = 0 \/ executed[r][p] = 1
  /\ \A r \in Rpc, p \in Part :
       <<r, p>> \in calls => executed[r][p] = 0 /\ via[r] # None

(* A response means that its handler is over, and says what it did.         *)
ResponsesAreFinal ==
  /\ \A x \in responses : via[x.rpc] = x.sock
  /\ \A x \in responses : Left(x.rpc)
  /\ \A x \in responses : x.status = "ok" => Complete(x.rpc)
  /\ \A x \in responses : x.status = "rejected" => Untouched(x.rpc)

(* The same of the answers given on the strength of a response.             *)
AnswersAreFinal ==
  /\ \A r \in Rpc : http[r] = "ok" => Complete(r)
  /\ \A r \in Rpc : http[r] = "rejected" => Left(r) /\ Untouched(r)
  /\ \A r \in Rpc : web[r] \in {"ok", "rejected"} => http[r] = web[r]

IInv ==
  /\ TypeOK
  /\ CallsAreTracked
  /\ Forwarding
  /\ OneFrame
  /\ CallsOnce
  /\ ResponsesAreFinal
  /\ AnswersAreFinal

-----------------------------------------------------------------------------
(* The initial states satisfy the invariant.                                *)
LEMMA InitIInv == Init => IInv
BY RpcAssumption DEF Init, IInv, TypeOK, CallsAreTracked, Forwarding,
   Untouched, OneFrame, CallsOnce, ResponsesAreFinal, AnswersAreFinal

(* Every step preserves the types.                                          *)
LEMMA TypeStep == TypeOK /\ [Next]_vars => TypeOK'
<1> SUFFICES ASSUME TypeOK, [Next]_vars PROVE TypeOK'
  OBVIOUS
<1> USE DEF TypeOK, webVars, gatewayVars, connectorVars, workVars, Answer,
           Status, Response
<1>1. ASSUME NEW r \in Rpc, Post(r) PROVE TypeOK'
  BY <1>1 DEF Post
<1>2. ASSUME NEW r \in Rpc, Refuse(r) PROVE TypeOK'
  BY <1>2 DEF Refuse
<1>3. ASSUME NEW r \in Rpc, Forward(r) PROVE TypeOK'
  BY <1>3 DEF Forward, Reachable
<1>4. ASSUME NEW r \in Rpc, Timeout(r) PROVE TypeOK'
  BY <1>4 DEF Timeout, Settle
<1>5. ASSUME NEW r \in Rpc, WebAnswer(r) PROVE TypeOK'
  BY <1>5 DEF WebAnswer, Told
<1>6. ASSUME NEW r \in Rpc, WebAborts(r) PROVE TypeOK'
  BY <1>6 DEF WebAborts
<1>7. ASSUME NEW s \in Socket, NEW r \in Rpc, SendFails(s, r) PROVE TypeOK'
  BY <1>7 DEF SendFails, Settle
<1>8. ASSUME NEW s \in Socket, NEW r \in Rpc, RequestArrives(s, r)
      PROVE TypeOK'
  BY <1>8 DEF RequestArrives
<1>9. ASSUME NEW s \in Socket, NEW r \in Rpc, NEW status \in Status,
             HandlerEnds(s, r, status)
      PROVE TypeOK'
  BY <1>9 DEF HandlerEnds
<1>10. ASSUME NEW x \in responses, ResponseArrives(x) PROVE TypeOK'
  BY <1>10 DEF ResponseArrives, Settle
<1>11. ASSUME NEW s \in Socket, StartClosing(s) PROVE TypeOK'
  BY <1>11 DEF StartClosing
<1>12. ASSUME NEW s \in Socket, CloseEvent(s) PROVE TypeOK'
  BY <1>12 DEF CloseEvent, Settle
<1>13. ASSUME NEW s \in Socket, PeerCloses(s) PROVE TypeOK'
  BY <1>13 DEF PeerCloses
<1>14. ASSUME NEW s \in Socket, NEW left \in {"open", "closed"},
              Register(s, left)
       PROVE TypeOK'
  BY <1>14 DEF Register
<1>15. CASE GatewayDies
  BY <1>15 DEF GatewayDies
<1>16. CASE ConnectorDies
  BY <1>16 DEF ConnectorDies
<1>17. CASE UNCHANGED vars
  BY <1>17 DEF vars
<1>18. ASSUME NEW s \in Socket, NEW r \in Rpc, Applies(s, r) PROVE TypeOK'
  BY <1>18 DEF Applies
<1>19. ASSUME NEW r \in Rpc, NEW p \in Part, CallEnds(r, p) PROVE TypeOK'
  BY <1>19 DEF CallEnds
<1> HIDE DEF TypeOK
<1> QED
  BY <1>1, <1>2, <1>3, <1>4, <1>5, <1>6, <1>7, <1>8, <1>9, <1>10, <1>11, <1>12,
     <1>13, <1>14, <1>15, <1>16, <1>17, <1>18, <1>19 DEF Next

-----------------------------------------------------------------------------
(* Settling pending calls of one session keeps the books balanced.          *)
LEMMA SettleTracked ==
  ASSUME TypeOK, CallsAreTracked,
         NEW s \in Socket, NEW R \in SUBSET pending[s], NEW a \in Answer,
         Settle(s, R, a), via' = via,
         \A t \in Socket : ws'[t] \in {"new", "closed"} => pending'[t] = {}
  PROVE  CallsAreTracked'
<1>1. pending' = [t \in Socket |-> IF t = s THEN pending[s] \ R ELSE pending[t]]
  BY DEF Settle, TypeOK
<1>2. \A r \in R : r \in Rpc /\ http[r] = "waiting" /\ via[r] = s
  BY DEF CallsAreTracked
<1>3. \A r \in Rpc : http'[r] = "waiting" <=> http[r] = "waiting" /\ r \notin R
  BY DEF Settle, Answer, Status
<1>4. ASSUME NEW t \in Socket
      PROVE  pending'[t] = {r \in Rpc : http'[r] = "waiting" /\ via'[r] = t}
  <2>1. CASE t = s
    BY <1>1, <1>3, <2>1 DEF CallsAreTracked
  <2>2. CASE t # s
    BY <1>1, <1>2, <1>3, <2>2 DEF CallsAreTracked
  <2> QED
    BY <2>1, <2>2
<1>5. timers' = {r \in Rpc : http'[r] = "waiting"}
  BY <1>3 DEF CallsAreTracked, Settle
<1> QED
  BY <1>4, <1>5 DEF CallsAreTracked

(* Every step keeps the waiting POSTs, the pending entries and the timers   *)
(* in agreement.                                                            *)
LEMMA TrackedStep == IInv /\ [Next]_vars => CallsAreTracked'
<1> SUFFICES ASSUME IInv, [Next]_vars PROVE CallsAreTracked'
  OBVIOUS
<1> USE DEF IInv, gatewayVars
<1>1. ASSUME NEW r \in Rpc, Post(r) PROVE CallsAreTracked'
  BY <1>1 DEF Post, TypeOK, CallsAreTracked, Forwarding
<1>2. ASSUME NEW r \in Rpc, Refuse(r) PROVE CallsAreTracked'
  BY <1>2 DEF Refuse, TypeOK, CallsAreTracked
<1>3. ASSUME NEW r \in Rpc, Forward(r) PROVE CallsAreTracked'
  <2>1. reg \in Socket /\ ws[reg] = "open" /\ ws' = ws
    BY <1>3 DEF Forward, Reachable, TypeOK
  <2>2. /\ http' = [http EXCEPT ![r] = "waiting"]
        /\ via' = [via EXCEPT ![r] = reg]
        /\ pending' = [pending EXCEPT ![reg] = @ \cup {r}]
        /\ timers' = timers \cup {r}
    BY <1>3 DEF Forward
  <2>3. \A s \in Socket : pending'[s] = {q \in Rpc : http'[q] = "waiting"
                                                     /\ via'[q] = s}
    BY <1>3, <2>1, <2>2 DEF Forward, TypeOK, CallsAreTracked
  <2>4. timers' = {q \in Rpc : http'[q] = "waiting"}
    BY <2>2 DEF TypeOK, CallsAreTracked
  <2>5. \A s \in Socket : ws'[s] \in {"new", "closed"} => pending'[s] = {}
    BY <2>1, <2>2 DEF TypeOK, CallsAreTracked
  <2> QED
    BY <2>3, <2>4, <2>5 DEF CallsAreTracked
<1>4. ASSUME NEW r \in Rpc, Timeout(r) PROVE CallsAreTracked'
  <2>1. via[r] \in Socket /\ {r} \in SUBSET pending[via[r]]
    BY <1>4 DEF Timeout, TypeOK, CallsAreTracked, Forwarding
  <2>2. \A t \in Socket : ws'[t] \in {"new", "closed"} => pending'[t] = {}
    BY <1>4, <2>1 DEF Timeout, Settle, TypeOK, CallsAreTracked
  <2> QED
    BY <1>4, <2>1, <2>2, SettleTracked DEF Timeout, Answer, Status
<1>5. ASSUME NEW s \in Socket, NEW r \in Rpc, SendFails(s, r)
      PROVE  CallsAreTracked'
  <2>1. \A t \in Socket : ws'[t] \in {"new", "closed"} => pending'[t] = {}
    BY <1>5 DEF SendFails, Settle, TypeOK, CallsAreTracked
  <2> QED
    BY <1>5, <2>1, SettleTracked DEF SendFails, Answer, Status
<1>6. ASSUME NEW x \in responses, ResponseArrives(x) PROVE CallsAreTracked'
  <2>1. x.sock \in Socket /\ x.rpc \in Rpc
    BY DEF TypeOK, Response
  <2>2. \A t \in Socket : ws'[t] \in {"new", "closed"} => pending'[t] = {}
    BY <1>6, <2>1 DEF ResponseArrives, Settle, TypeOK, CallsAreTracked
  <2>3. /\ x.status \in Answer
        /\ Settle(x.sock, {x.rpc} \cap pending[x.sock], x.status)
    BY <1>6 DEF ResponseArrives, Answer, Status, TypeOK, Response
  <2> QED
    BY <1>6, <2>1, <2>2, <2>3, SettleTracked DEF ResponseArrives
<1>7. ASSUME NEW s \in Socket, CloseEvent(s) PROVE CallsAreTracked'
  <2>1. \A t \in Socket : ws'[t] \in {"new", "closed"} => pending'[t] = {}
    BY <1>7 DEF CloseEvent, Settle, TypeOK, CallsAreTracked
  <2> QED
    BY <1>7, <2>1, SettleTracked DEF CloseEvent, Answer, Status
<1>8. ASSUME NEW s \in Socket, NEW left \in {"open", "closed"},
             Register(s, left)
      PROVE  CallsAreTracked'
  BY <1>8 DEF Register, TypeOK, CallsAreTracked
<1>9. ASSUME NEW s \in Socket, StartClosing(s) PROVE CallsAreTracked'
  BY <1>9 DEF StartClosing, TypeOK, CallsAreTracked
<1>10. CASE GatewayDies
  BY <1>10 DEF GatewayDies, TypeOK, CallsAreTracked
<1>11. CASE UNCHANGED gatewayVars
  BY <1>11 DEF CallsAreTracked
<1>12. ASSUME NEW r \in Rpc, WebAnswer(r) \/ WebAborts(r)
       PROVE  CallsAreTracked'
  BY <1>11, <1>12 DEF WebAnswer, WebAborts
<1>13. ASSUME NEW s \in Socket, NEW r \in Rpc,
              \/ RequestArrives(s, r) \/ Applies(s, r)
              \/ \E status \in Status : HandlerEnds(s, r, status)
       PROVE  CallsAreTracked'
  BY <1>11, <1>13 DEF RequestArrives, Applies, HandlerEnds
<1>14. ASSUME NEW s \in Socket, PeerCloses(s) PROVE CallsAreTracked'
  BY <1>11, <1>14 DEF PeerCloses
<1>15. CASE ConnectorDies
  BY <1>11, <1>15 DEF ConnectorDies
<1>16. CASE UNCHANGED vars
  BY <1>11, <1>16 DEF vars
<1>17. ASSUME NEW r \in Rpc, NEW p \in Part, CallEnds(r, p)
       PROVE  CallsAreTracked'
  BY <1>11, <1>17 DEF CallEnds
<1> QED
  BY <1>1, <1>2, <1>3, <1>4, <1>5, <1>6, <1>7, <1>8, <1>9, <1>10, <1>12,
     <1>13, <1>14, <1>15, <1>16, <1>17 DEF Next

(* Every step keeps Forwarding: only Post, Refuse and Forward touch a       *)
(* request that has no session yet, and nothing of it runs before.          *)
LEMMA ForwardingStep == IInv /\ [Next]_vars => Forwarding'
<1> SUFFICES ASSUME IInv, [Next]_vars PROVE Forwarding'
  OBVIOUS
<1>0. TypeOK /\ CallsAreTracked /\ Forwarding /\ OneFrame /\ CallsOnce
  BY DEF IInv
<1> USE <1>0, RpcAssumption DEF Forwarding, Untouched, TypeOK
<1>1. ASSUME NEW r \in Rpc, Post(r) PROVE Forwarding'
  BY <1>1 DEF Post, connectorVars, workVars
<1>2. ASSUME NEW r \in Rpc, Refuse(r) PROVE Forwarding'
  BY <1>2 DEF Refuse, webVars, connectorVars, workVars
<1>3. ASSUME NEW r \in Rpc, Forward(r) PROVE Forwarding'
  BY <1>3 DEF Forward, Reachable, webVars, connectorVars, workVars
<1>4. ASSUME NEW s \in Socket, NEW R \in SUBSET pending[s], NEW a \in Answer,
             Settle(s, R, a), a # "refused",
             UNCHANGED <<web, via, workVars>>
      PROVE  Forwarding'
  BY <1>4 DEF Settle, Answer, Status, CallsAreTracked, workVars
<1>5. ASSUME NEW r \in Rpc, Timeout(r) PROVE Forwarding'
  <2>1. via[r] \in Socket /\ {r} \in SUBSET pending[via[r]]
    BY <1>5 DEF Timeout, CallsAreTracked
  <2> QED
    BY <1>4, <1>5, <2>1 DEF Timeout, Answer, webVars, connectorVars
<1>6. ASSUME NEW s \in Socket, NEW r \in Rpc, SendFails(s, r)
      PROVE  Forwarding'
  BY <1>4, <1>6 DEF SendFails, Answer, Status, webVars, connectorVars
<1>7. ASSUME NEW x \in responses, ResponseArrives(x) PROVE Forwarding'
  <2>1. x.sock \in Socket /\ x.status \in Answer /\ x.status # "refused"
    BY DEF Response, Answer, Status
  <2> QED
    BY <1>4, <1>7, <2>1 DEF ResponseArrives, webVars, connectorVars
<1>8. ASSUME NEW s \in Socket, CloseEvent(s) PROVE Forwarding'
  BY <1>4, <1>8 DEF CloseEvent, Answer, Status, webVars, connectorVars
<1>9. CASE GatewayDies
  BY <1>9 DEF GatewayDies, webVars, connectorVars, workVars
<1>10. ASSUME NEW s \in Socket, NEW r \in Rpc, Applies(s, r)
       PROVE  Forwarding'
  <2>1. via[r] = s /\ via[r] # None
    BY <1>10 DEF Applies, OneFrame
  <2>2. /\ UNCHANGED <<web, http, via, executed>>
        /\ calls' = calls \cup ({r} \X Part)
    BY <1>10 DEF Applies, webVars, gatewayVars
  <2> QED
    BY <2>1, <2>2
<1>11. ASSUME NEW r \in Rpc, NEW p \in Part, CallEnds(r, p)
       PROVE  Forwarding'
  BY <1>11 DEF CallEnds, CallsOnce, webVars, gatewayVars
<1>12. ASSUME NEW r \in Rpc, WebAnswer(r) \/ WebAborts(r) PROVE Forwarding'
  <2>1. web[r] = "waiting" /\ UNCHANGED <<http, via, calls, executed>>
    BY <1>12 DEF WebAnswer, WebAborts, gatewayVars, connectorVars, workVars
  <2>2. \/ web' = [web EXCEPT ![r] = Told(http[r])] /\ http[r] \in Answer
        \/ web' = [web EXCEPT ![r] = "unreachable"]
    BY <1>12 DEF WebAnswer, WebAborts
  <2> QED
    BY <2>1, <2>2 DEF Told, Answer, Status
<1>13. CASE UNCHANGED <<web, http, via, calls, executed>>
  BY <1>13
<1>14. ASSUME NEW s \in Socket,
              \/ StartClosing(s) \/ PeerCloses(s)
              \/ \E left \in {"open", "closed"} : Register(s, left)
              \/ \E r \in Rpc : \/ RequestArrives(s, r)
                                \/ \E status \in Status :
                                     HandlerEnds(s, r, status)
       PROVE  Forwarding'
  BY <1>13, <1>14 DEF StartClosing, PeerCloses, Register, RequestArrives,
     HandlerEnds, webVars, gatewayVars, connectorVars, workVars
<1>15. CASE UNCHANGED vars \/ ConnectorDies
  BY <1>13, <1>15 DEF ConnectorDies, vars, webVars, gatewayVars,
     connectorVars, workVars
<1> HIDE <1>0 DEF Forwarding, Untouched, TypeOK
<1> QED
  BY <1>1, <1>2, <1>3, <1>5, <1>6, <1>7, <1>8, <1>9, <1>10, <1>11, <1>12,
     <1>14, <1>15 DEF Next

(* Every step keeps each request in one place: a frame is sent once, and    *)
(* becomes a handler once, which changes nothing before it applies.         *)
LEMMA OneFrameStep == IInv /\ [Next]_vars => OneFrame'
<1> SUFFICES ASSUME IInv, [Next]_vars PROVE OneFrame'
  OBVIOUS
<1>0. TypeOK /\ Forwarding /\ OneFrame /\ CallsOnce
  BY DEF IInv
<1> USE <1>0 DEF OneFrame, Untouched, TypeOK
<1>1. ASSUME NEW r \in Rpc, Forward(r) PROVE OneFrame'
  <2>1. reg \in Socket /\ via[r] = None /\ Untouched(r)
    BY <1>1 DEF Forward, Reachable, Forwarding
  <2>2. \A s \in Socket : <<s, r>> \notin requests \cup checking \cup applying
    BY <2>1, RpcAssumption
  <2>3. /\ UNCHANGED <<checking, applying, calls, executed>>
        /\ requests' = requests \cup {<<reg, r>>}
        /\ via' = [via EXCEPT ![r] = reg]
    BY <1>1 DEF Forward, connectorVars, workVars
  <2>4. /\ requests' \cap checking' = {}
        /\ requests' \cap applying' = {}
        /\ checking' \cap applying' = {}
    BY <2>1, <2>2, <2>3
  <2>5. \A s \in Socket, q \in Rpc :
          <<s, q>> \in requests' \cup checking' \cup applying' => via'[q] = s
    BY <2>1, <2>2, <2>3
  <2>6. \A s \in Socket, q \in Rpc :
          <<s, q>> \in requests' \cup checking' => Untouched(q)'
    BY <2>1, <2>2, <2>3
  <2> QED
    BY <2>4, <2>5, <2>6
<1>2. ASSUME NEW s \in Socket, NEW r \in Rpc, SendFails(s, r)
      PROVE  OneFrame'
  BY <1>2 DEF SendFails, connectorVars, workVars
<1>3. ASSUME NEW s \in Socket, NEW r \in Rpc, RequestArrives(s, r)
      PROVE  OneFrame'
  <2>1. /\ <<s, r>> \in requests
        /\ UNCHANGED <<applying, via, calls, executed>>
        /\ requests' = requests \ {<<s, r>>}
        /\ checking' = checking \cup {<<s, r>>}
    BY <1>3 DEF RequestArrives, gatewayVars
  <2> DEFINE h == <<s, r>>
  <2>2. h \in requests /\ h \notin applying
        /\ requests' = requests \ {h} /\ checking' = checking \cup {h}
    BY <2>1
  <2> HIDE DEF h
  <2>3. /\ requests' \cap checking' = {}
        /\ requests' \cap applying' = {}
        /\ checking' \cap applying' = {}
    BY <2>1, <2>2
  <2>4. requests' \cup checking' \subseteq requests \cup checking
    BY <2>2
  <2>5. \A t \in Socket, q \in Rpc :
          <<t, q>> \in requests' \cup checking' \cup applying' => via'[q] = t
    BY <2>1, <2>4
  <2>6. \A t \in Socket, q \in Rpc :
          <<t, q>> \in requests' \cup checking' => Untouched(q)'
    BY <2>1, <2>4
  <2> QED
    BY <2>3, <2>5, <2>6
<1>4. ASSUME NEW s \in Socket, NEW r \in Rpc, NEW status \in Status,
             HandlerEnds(s, r, status)
      PROVE  OneFrame'
  BY <1>4 DEF HandlerEnds, gatewayVars
<1>5. ASSUME NEW s \in Socket, NEW r \in Rpc, Applies(s, r) PROVE OneFrame'
  <2>1. /\ <<s, r>> \in checking /\ UNCHANGED <<requests, via, executed>>
        /\ checking' = checking \ {<<s, r>>}
        /\ applying' = applying \cup {<<s, r>>}
        /\ calls' = calls \cup ({r} \X Part)
    BY <1>5 DEF Applies, gatewayVars
  <2>2. \A t \in Socket, q \in Rpc :
          <<t, q>> \in requests' \cup checking' => q # r
    BY <2>1
  <2>3. /\ requests' \cap checking' = {}
        /\ requests' \cap applying' = {}
        /\ checking' \cap applying' = {}
    <3> DEFINE h == <<s, r>>
    <3>1. /\ h \in checking /\ requests' = requests
          /\ checking' = checking \ {h} /\ applying' = applying \cup {h}
      BY <2>1
    <3> HIDE DEF h
    <3> QED
      BY <3>1
  <2>4. \A t \in Socket, q \in Rpc :
          <<t, q>> \in requests' \cup checking' \cup applying' => via'[q] = t
    BY <2>1
  <2>5. \A t \in Socket, q \in Rpc :
          <<t, q>> \in requests' \cup checking' => Untouched(q)'
    BY <2>1, <2>2
  <2> QED
    BY <2>3, <2>4, <2>5
<1>6. ASSUME NEW r \in Rpc, NEW p \in Part, CallEnds(r, p) PROVE OneFrame'
  BY <1>6 DEF CallEnds, gatewayVars
<1>7. CASE ConnectorDies
  BY <1>7 DEF ConnectorDies, gatewayVars
<1>8. CASE UNCHANGED <<requests, via, workVars>>
  BY <1>8 DEF workVars
<1>9. ASSUME NEW r \in Rpc,
             \/ Post(r) \/ Refuse(r) \/ Timeout(r)
             \/ WebAnswer(r) \/ WebAborts(r)
      PROVE  OneFrame'
  BY <1>8, <1>9 DEF Post, Refuse, Timeout, WebAnswer, WebAborts, gatewayVars,
     connectorVars
<1>10. ASSUME NEW s \in Socket,
              \/ StartClosing(s) \/ CloseEvent(s) \/ PeerCloses(s)
              \/ \E left \in {"open", "closed"} : Register(s, left)
       PROVE  OneFrame'
  BY <1>8, <1>10 DEF StartClosing, CloseEvent, PeerCloses, Register,
     gatewayVars, connectorVars
<1>11. CASE GatewayDies \/ \E x \in responses : ResponseArrives(x)
  BY <1>8, <1>11 DEF GatewayDies, ResponseArrives, connectorVars
<1>12. CASE UNCHANGED vars
  BY <1>8, <1>12 DEF vars, gatewayVars, connectorVars
<1> HIDE <1>0 DEF OneFrame, Untouched, TypeOK
<1> QED
  BY <1>1, <1>2, <1>3, <1>4, <1>5, <1>6, <1>7, <1>9, <1>10, <1>11, <1>12
     DEF Next

(* Every step makes a change once: it is asked for by the one step in which *)
(* its handler applies, and no longer asked for once it was made.           *)
LEMMA CallsOnceStep == IInv /\ [Next]_vars => CallsOnce'
<1> SUFFICES ASSUME IInv, [Next]_vars PROVE CallsOnce'
  OBVIOUS
<1>0. TypeOK /\ Forwarding /\ OneFrame /\ CallsOnce
  BY DEF IInv
<1> USE <1>0 DEF CallsOnce
<1>1. ASSUME NEW r \in Rpc, Forward(r) PROVE CallsOnce'
  <2>1. /\ reg # None /\ via' = [via EXCEPT ![r] = reg]
        /\ UNCHANGED <<calls, executed>>
    BY <1>1 DEF Forward, Reachable, connectorVars, workVars
  <2> QED
    BY <2>1 DEF TypeOK
<1>2. ASSUME NEW s \in Socket, NEW r \in Rpc, Applies(s, r) PROVE CallsOnce'
  <2>1. via[r] = s /\ via[r] # None /\ \A p \in Part : executed[r][p] = 0
    BY <1>2, RpcAssumption DEF Applies, OneFrame, Untouched
  <2>2. UNCHANGED <<via, executed>> /\ calls' = calls \cup ({r} \X Part)
    BY <1>2 DEF Applies, gatewayVars
  <2> QED
    BY <2>1, <2>2
<1>3. ASSUME NEW r \in Rpc, NEW p \in Part, CallEnds(r, p) PROVE CallsOnce'
  <2>1. /\ executed[r][p] = 0 /\ via' = via
        /\ calls' = calls \ {<<r, p>>}
    BY <1>3 DEF CallEnds, gatewayVars
  <2>2. PICK n \in {0, 1} : executed' = [executed EXCEPT ![r][p] = @ + n]
    BY <1>3 DEF CallEnds
  <2>3. /\ executed'[r][p] = 0 \/ executed'[r][p] = 1
        /\ \A q \in Rpc, o \in Part :
             q # r \/ o # p => executed'[q][o] = executed[q][o]
    BY <2>1, <2>2 DEF TypeOK
  <2> QED
    BY <2>1, <2>3
<1>4. CASE UNCHANGED <<via, calls, executed>>
  BY <1>4
<1>5. ASSUME NEW r \in Rpc,
             \/ Post(r) \/ Refuse(r) \/ Timeout(r)
             \/ WebAnswer(r) \/ WebAborts(r)
      PROVE  CallsOnce'
  BY <1>4, <1>5 DEF Post, Refuse, Timeout, WebAnswer, WebAborts, gatewayVars,
     connectorVars, workVars
<1>6. ASSUME NEW s \in Socket,
             \/ StartClosing(s) \/ CloseEvent(s) \/ PeerCloses(s)
             \/ \E left \in {"open", "closed"} : Register(s, left)
             \/ \E r \in Rpc :
                  \/ SendFails(s, r) \/ RequestArrives(s, r)
                  \/ \E status \in Status : HandlerEnds(s, r, status)
      PROVE  CallsOnce'
  BY <1>4, <1>6 DEF StartClosing, CloseEvent, PeerCloses, Register, SendFails,
     RequestArrives, HandlerEnds, gatewayVars, connectorVars, workVars
<1>7. CASE \/ GatewayDies \/ ConnectorDies \/ UNCHANGED vars
           \/ \E x \in responses : ResponseArrives(x)
  BY <1>4, <1>7 DEF GatewayDies, ConnectorDies, ResponseArrives, vars,
     gatewayVars, connectorVars, workVars
<1> HIDE <1>0 DEF CallsOnce
<1> QED
  BY <1>1, <1>2, <1>3, <1>5, <1>6, <1>7 DEF Next

(* Every step keeps responses final: a response is sent by the step that    *)
(* ends its handler, and no frame of its request is left.                   *)
LEMMA ResponsesStep == IInv /\ [Next]_vars => ResponsesAreFinal'
<1> SUFFICES ASSUME IInv, [Next]_vars PROVE ResponsesAreFinal'
  OBVIOUS
<1>0. /\ Forwarding /\ OneFrame /\ CallsOnce /\ ResponsesAreFinal
      /\ \A x \in responses : x.sock \in Socket /\ x.rpc \in Rpc
  BY DEF IInv, TypeOK, Response
<1> USE <1>0 DEF ResponsesAreFinal, Untouched, Complete, Left
<1>1. ASSUME NEW r \in Rpc, Forward(r) PROVE ResponsesAreFinal'
  <2>1. via[r] = None
    BY <1>1 DEF Forward, Forwarding
  <2>2. \A x \in responses : x.rpc # r
    BY <2>1, RpcAssumption
  <2> QED
    BY <1>1, <2>2 DEF Forward, connectorVars, workVars
<1>2. ASSUME NEW s \in Socket, NEW r \in Rpc, SendFails(s, r)
      PROVE  ResponsesAreFinal'
  BY <1>2 DEF SendFails, connectorVars, workVars
<1>3. ASSUME NEW s \in Socket, NEW r \in Rpc, RequestArrives(s, r)
      PROVE  ResponsesAreFinal'
  BY <1>3 DEF RequestArrives, gatewayVars
<1>4. ASSUME NEW s \in Socket, NEW r \in Rpc, NEW status \in Status,
             HandlerEnds(s, r, status)
      PROVE  ResponsesAreFinal'
  <2> DEFINE new == [sock |-> s, rpc |-> r, status |-> status]
  <2>1. /\ <<s, r>> \in checking \cup applying
        /\ checking' = checking \ {<<s, r>>}
        /\ applying' = applying \ {<<s, r>>}
        /\ UNCHANGED <<requests, via, calls, executed>>
        /\ responses' \in {responses, responses \cup {new}}
    BY <1>4 DEF HandlerEnds, MayEnd, Status, gatewayVars
  <2>2. via[r] = s /\ <<s, r>> \notin requests
    BY <2>1 DEF OneFrame
  <2>3. /\ status = "ok" => Complete(r)
        /\ status = "rejected" => Untouched(r)
    <3>1. CASE status = "ok"
      <4>1. \A p \in Part : executed[r][p] > 0
        BY <1>4, <3>1 DEF HandlerEnds, MayEnd
      <4>2. \A p \in Part : executed[r][p] = 0 \/ executed[r][p] = 1
        BY DEF CallsOnce
      <4> QED
        BY <3>1, <4>1, <4>2
    <3>2. CASE status = "rejected"
      BY <1>4, <3>2 DEF HandlerEnds, MayEnd, OneFrame
    <3> QED
      BY <3>1, <3>2
  <2>4. via'[new.rpc] = new.sock /\ Left(new.rpc)'
    BY <2>1, <2>2 DEF OneFrame
  <2>5. /\ new.status = "ok" => Complete(new.rpc)'
        /\ new.status = "rejected" => Untouched(new.rpc)'
    BY <2>1, <2>3
  <2>6. ASSUME NEW x \in responses PROVE Left(x.rpc)'
    <3>1. /\ requests' \subseteq requests /\ checking' \subseteq checking
          /\ applying' \subseteq applying
      BY <2>1
    <3>2. ASSUME NEW t \in Socket
          PROVE  <<t, x.rpc>> \notin requests' \cup checking' \cup applying'
      <4>1. <<t, x.rpc>> \notin requests \cup checking \cup applying
        OBVIOUS
      <4> QED
        BY <3>1, <4>1
    <3> QED
      BY <3>2
  <2> HIDE DEF new
  <2> QED
    BY <2>1, <2>4, <2>5, <2>6
<1>5. ASSUME NEW s \in Socket, NEW r \in Rpc, Applies(s, r)
      PROVE  ResponsesAreFinal'
  <2>1. /\ <<s, r>> \in checking /\ via[r] = s
        /\ UNCHANGED <<requests, responses, via, executed>>
        /\ checking' = checking \ {<<s, r>>}
        /\ applying' = applying \cup {<<s, r>>}
        /\ calls' = calls \cup ({r} \X Part)
    BY <1>5 DEF Applies, OneFrame, gatewayVars
  <2>2. \A x \in responses : x.rpc # r
    BY <2>1
  <2> QED
    BY <2>1, <2>2
<1>6. ASSUME NEW r \in Rpc, NEW p \in Part, CallEnds(r, p)
      PROVE  ResponsesAreFinal'
  BY <1>6 DEF CallEnds, CallsOnce, gatewayVars
<1>7. CASE ConnectorDies
  BY <1>7 DEF ConnectorDies, gatewayVars
<1>8. CASE /\ UNCHANGED <<requests, via, workVars>>
           /\ responses' \subseteq responses
  BY <1>8 DEF workVars
<1>9. ASSUME NEW r \in Rpc,
             \/ Post(r) \/ Refuse(r) \/ Timeout(r)
             \/ WebAnswer(r) \/ WebAborts(r)
      PROVE  ResponsesAreFinal'
  BY <1>8, <1>9 DEF Post, Refuse, Timeout, WebAnswer, WebAborts, gatewayVars,
     connectorVars
<1>10. ASSUME NEW s \in Socket,
              \/ StartClosing(s) \/ CloseEvent(s) \/ PeerCloses(s)
              \/ \E left \in {"open", "closed"} : Register(s, left)
       PROVE  ResponsesAreFinal'
  BY <1>8, <1>10 DEF StartClosing, CloseEvent, PeerCloses, Register,
     gatewayVars, connectorVars
<1>11. CASE GatewayDies \/ \E x \in responses : ResponseArrives(x)
  BY <1>8, <1>11 DEF GatewayDies, ResponseArrives, connectorVars
<1>12. CASE UNCHANGED vars
  BY <1>8, <1>12 DEF vars, gatewayVars, connectorVars
<1> HIDE <1>0 DEF ResponsesAreFinal, Untouched, Complete, Left
<1> QED
  BY <1>1, <1>2, <1>3, <1>4, <1>5, <1>6, <1>7, <1>9, <1>10, <1>11, <1>12
     DEF Next

(* Every step keeps answers final: "ok" and "rejected" are given on the     *)
(* strength of a response, and passed on as they are.                       *)
LEMMA AnswersStep == IInv /\ [Next]_vars => AnswersAreFinal'
<1> SUFFICES ASSUME IInv, [Next]_vars PROVE AnswersAreFinal'
  OBVIOUS
<1>0. /\ TypeOK /\ CallsAreTracked /\ Forwarding /\ OneFrame /\ CallsOnce
      /\ ResponsesAreFinal /\ AnswersAreFinal
  BY DEF IInv
<1> USE <1>0 DEF AnswersAreFinal, Untouched, Complete, Left, TypeOK
<1>1. ASSUME NEW r \in Rpc, Post(r) PROVE AnswersAreFinal'
  BY <1>1 DEF Post, Forwarding, connectorVars, workVars
<1>2. ASSUME NEW r \in Rpc, Refuse(r) PROVE AnswersAreFinal'
  BY <1>2 DEF Refuse, webVars, connectorVars, workVars
<1>3. ASSUME NEW r \in Rpc, Forward(r) PROVE AnswersAreFinal'
  BY <1>3 DEF Forward, webVars, connectorVars, workVars
<1>4. ASSUME NEW s \in Socket, NEW R \in SUBSET pending[s], NEW a \in Answer,
             Settle(s, R, a),
             \A r \in R : /\ a = "ok" => Complete(r)
                          /\ a = "rejected" => Left(r) /\ Untouched(r),
             requests' \subseteq requests,
             UNCHANGED <<web, via, workVars>>
      PROVE  AnswersAreFinal'
  <2>1. \A r \in R : http[r] = "waiting" /\ via[r] = s
    BY DEF CallsAreTracked
  <2>2. http' = [r \in Rpc |-> IF r \in R THEN a ELSE http[r]]
    BY <1>4 DEF Settle
  <2> QED
    BY <1>4, <2>1, <2>2 DEF Answer, Status, workVars
<1>5. ASSUME NEW r \in Rpc, Timeout(r) PROVE AnswersAreFinal'
  <2>1. via[r] \in Socket /\ {r} \in SUBSET pending[via[r]]
    BY <1>5 DEF Timeout, CallsAreTracked, Forwarding
  <2> QED
    BY <1>4, <1>5, <2>1 DEF Timeout, Answer, Status, webVars, connectorVars
<1>6. ASSUME NEW s \in Socket, NEW r \in Rpc, SendFails(s, r)
      PROVE  AnswersAreFinal'
  BY <1>4, <1>6 DEF SendFails, Answer, Status, webVars, connectorVars
<1>7. ASSUME NEW x \in responses, ResponseArrives(x) PROVE AnswersAreFinal'
  <2>1. x.sock \in Socket /\ x.rpc \in Rpc /\ x.status \in Answer
    BY DEF Response, Answer, Status
  <2> DEFINE R == {x.rpc} \cap pending[x.sock]
  <2>2. Settle(x.sock, R, x.status)
    BY <1>7 DEF ResponseArrives
  <2>3. /\ x.status = "ok" => Complete(x.rpc)
        /\ x.status = "rejected" => Left(x.rpc) /\ Untouched(x.rpc)
    BY DEF ResponsesAreFinal
  <2>4. UNCHANGED <<web, via, workVars, requests>>
    BY <1>7 DEF ResponseArrives, webVars, connectorVars
  <2>5. /\ R \in SUBSET pending[x.sock]
        /\ \A r \in R : r = x.rpc
    OBVIOUS
  <2>6. \A r \in R : /\ x.status = "ok" => Complete(r)
                     /\ x.status = "rejected" => Left(r) /\ Untouched(r)
    BY <2>3, <2>5 DEF Left
  <2>7. requests' \subseteq requests
    BY <2>4
  <2> HIDE <1>0 DEF R, AnswersAreFinal, Untouched, Complete, Left, TypeOK
  <2> QED
    BY <1>4, <2>1, <2>2, <2>4, <2>5, <2>6, <2>7
<1>8. ASSUME NEW s \in Socket, CloseEvent(s) PROVE AnswersAreFinal'
  BY <1>4, <1>8 DEF CloseEvent, Answer, Status, webVars, connectorVars
<1>9. CASE GatewayDies
  BY <1>9 DEF GatewayDies, webVars, connectorVars, workVars
<1>10. ASSUME NEW s \in Socket, NEW r \in Rpc, RequestArrives(s, r)
       PROVE  AnswersAreFinal'
  BY <1>10 DEF RequestArrives, webVars, gatewayVars
<1>11. ASSUME NEW s \in Socket, NEW r \in Rpc, NEW status \in Status,
              HandlerEnds(s, r, status)
       PROVE  AnswersAreFinal'
  BY <1>11 DEF HandlerEnds, webVars, gatewayVars
<1>12. ASSUME NEW s \in Socket, NEW r \in Rpc, Applies(s, r)
       PROVE  AnswersAreFinal'
  <2>1. http[r] # "rejected"
    BY <1>12 DEF Applies, OneFrame
  <2> QED
    BY <1>12, <2>1 DEF Applies, webVars, gatewayVars
<1>13. ASSUME NEW r \in Rpc, WebAnswer(r) PROVE AnswersAreFinal'
  BY <1>13 DEF WebAnswer, Told, Answer, Status, gatewayVars, connectorVars,
     workVars
<1>14. ASSUME NEW r \in Rpc, WebAborts(r) PROVE AnswersAreFinal'
  BY <1>14 DEF WebAborts, gatewayVars, connectorVars, workVars
<1>15. CASE UNCHANGED <<web, http, via, requests, workVars>>
  BY <1>15 DEF workVars
<1>16. ASSUME NEW s \in Socket,
              \/ StartClosing(s) \/ PeerCloses(s)
              \/ \E left \in {"open", "closed"} : Register(s, left)
       PROVE  AnswersAreFinal'
  BY <1>15, <1>16 DEF StartClosing, PeerCloses, Register, webVars,
     gatewayVars, connectorVars
<1>17. CASE UNCHANGED vars
  BY <1>15, <1>17 DEF vars, webVars, gatewayVars, connectorVars
<1>18. ASSUME NEW r \in Rpc, NEW p \in Part, CallEnds(r, p)
       PROVE  AnswersAreFinal'
  BY <1>18 DEF CallEnds, CallsOnce, webVars, gatewayVars
<1>19. CASE ConnectorDies
  BY <1>19 DEF ConnectorDies, webVars, gatewayVars
<1> HIDE <1>0 DEF AnswersAreFinal, Untouched, Complete, Left, TypeOK
<1> QED
  BY <1>1, <1>2, <1>3, <1>5, <1>6, <1>7, <1>8, <1>9, <1>10, <1>11, <1>12,
     <1>13, <1>14, <1>16, <1>17, <1>18, <1>19 DEF Next

-----------------------------------------------------------------------------
(* The invariant is inductive.                                              *)
LEMMA NextIInv == IInv /\ [Next]_vars => IInv'
BY TypeStep, TrackedStep, ForwardingStep, OneFrameStep,
   CallsOnceStep, ResponsesStep, AnswersStep DEF IInv

(* RpcBridge keeps its inductive invariant.                                 *)
THEOREM Invariance == Spec => []IInv
BY InitIInv, NextIInv, PTL DEF Spec

(* Every variable of RpcBridge keeps its type.                              *)
THEOREM TypeCorrect == Spec => []TypeOK
<1>1. IInv => TypeOK
  BY DEF IInv
<1> QED
  BY <1>1, Invariance, PTL

(* The gateway's waiting POSTs, its pending entries and its armed timers    *)
(* always agree, and a closed session keeps none.                           *)
THEOREM Tracked == Spec => []CallsAreTracked
<1>1. IInv => CallsAreTracked
  BY DEF IInv
<1> QED
  BY <1>1, Invariance, PTL

(* A request refused for want of an open session is never executed.         *)
THEOREM NeverQueued == Spec => []RefusedNeverRuns
<1>1. IInv => RefusedNeverRuns
  BY DEF IInv, Forwarding, Untouched, RefusedNeverRuns
<1> QED
  BY <1>1, Invariance, PTL

-----------------------------------------------------------------------------
(* Settling pending calls changes no answer given before.                   *)
LEMMA SettleKeepsAnswers ==
  ASSUME IInv, NEW s \in Socket, NEW R \in SUBSET pending[s], NEW a,
         Settle(s, R, a), NEW r \in Rpc, http[r] \in Answer
  PROVE  http'[r] = http[r]
BY DEF IInv, CallsAreTracked, Settle, Answer, Status

(* No step changes an answer given before.                                  *)
LEMMA AnswerKept ==
  ASSUME IInv, [Next]_vars, NEW r \in Rpc, http[r] \in Answer
  PROVE  http'[r] = http[r]
<1>0. TypeOK /\ CallsAreTracked /\ Forwarding
  BY DEF IInv
<1>1. ASSUME NEW q \in Rpc, Post(q) PROVE http'[r] = http[r]
  BY <1>0, <1>1 DEF Post, Forwarding, TypeOK, Answer, Status
<1>2. ASSUME NEW q \in Rpc, Refuse(q) \/ Forward(q) PROVE http'[r] = http[r]
  BY <1>0, <1>2 DEF Refuse, Forward, TypeOK, Answer, Status
<1>3. ASSUME NEW q \in Rpc, Timeout(q) PROVE http'[r] = http[r]
  <2>1. via[q] \in Socket /\ {q} \in SUBSET pending[via[q]]
    BY <1>0, <1>3 DEF Timeout, CallsAreTracked, Forwarding, TypeOK
  <2> QED
    BY <1>3, <2>1, SettleKeepsAnswers DEF Timeout
<1>4. ASSUME NEW s \in Socket, CloseEvent(s) \/ \E q \in Rpc : SendFails(s, q)
      PROVE  http'[r] = http[r]
  BY <1>4, SettleKeepsAnswers DEF CloseEvent, SendFails
<1>5. ASSUME NEW x \in responses, ResponseArrives(x) PROVE http'[r] = http[r]
  <2>1. x.sock \in Socket
    BY <1>0 DEF TypeOK, Response
  <2> QED
    BY <1>5, <2>1, SettleKeepsAnswers DEF ResponseArrives
<1>6. CASE GatewayDies
  BY <1>6 DEF GatewayDies, Answer, Status
<1>7. CASE UNCHANGED http
  BY <1>7
<1>8. ASSUME NEW q \in Rpc, WebAnswer(q) \/ WebAborts(q)
      PROVE  http'[r] = http[r]
  BY <1>8 DEF WebAnswer, WebAborts, gatewayVars
<1>9. ASSUME NEW s \in Socket,
             \/ StartClosing(s) \/ PeerCloses(s)
             \/ \E left \in {"open", "closed"} : Register(s, left)
             \/ \E q \in Rpc :
                  \/ RequestArrives(s, q) \/ Applies(s, q)
                  \/ \E status \in Status : HandlerEnds(s, q, status)
      PROVE  http'[r] = http[r]
  BY <1>9 DEF StartClosing, PeerCloses, Register, RequestArrives, Applies,
     HandlerEnds, gatewayVars
<1>10. CASE \/ ConnectorDies \/ UNCHANGED vars
            \/ \E q \in Rpc, p \in Part : CallEnds(q, p)
  BY <1>10 DEF ConnectorDies, CallEnds, vars, gatewayVars
<1> QED
  BY <1>1, <1>2, <1>3, <1>4, <1>5, <1>6, <1>8, <1>9, <1>10 DEF Next

(* The gateway answers a POST once.                                         *)
THEOREM OneAnswer == Spec => AnsweredOnce
<1>1. IInv /\ [Next]_vars =>
        [\A r \in Rpc : http[r] \in Answer => http'[r] = http[r]]_vars
  BY AnswerKept
<1> QED
  BY <1>1, Invariance, PTL DEF Spec, AnsweredOnce

-----------------------------------------------------------------------------
(* A change that is made had not been, and its caller has been told neither *)
(* that all were made nor that none will be.                                *)
LEMMA CallIsOpen ==
  ASSUME IInv, NEW r \in Rpc, NEW p \in Part, <<r, p>> \in calls
  PROVE  executed[r][p] = 0 /\ web[r] \in {"waiting"} \cup AbstractCall!Open
<1>1. via[r] # None /\ executed[r][p] = 0
  BY DEF IInv, CallsOnce
<1>2. web[r] # "none"
  BY <1>1 DEF IInv, Forwarding
<1>3. web[r] \notin {"ok", "rejected"}
  BY <1>1 DEF IInv, AnswersAreFinal, Complete, Untouched
<1> QED
  BY <1>1, <1>2, <1>3 DEF IInv, TypeOK, Status, AbstractCall!Open

(* Every step of RpcBridge is a step of RpcCall or changes nothing there.   *)
LEMMA StepImplements ==
  IInv /\ [Next]_vars => [AbstractCall!Next]_(AbstractCall!callVars)
<1> SUFFICES ASSUME IInv, [Next]_vars
             PROVE  AbstractCall!Next \/ UNCHANGED <<web, executed>>
  BY DEF AbstractCall!callVars
<1>0. TypeOK /\ AnswersAreFinal
  BY DEF IInv
<1>1. ASSUME NEW r \in Rpc, Post(r) PROVE AbstractCall!Next
  BY <1>1 DEF Post, connectorVars, workVars, AbstractCall!Next,
     AbstractCall!Ask
<1>2. ASSUME NEW r \in Rpc, WebAnswer(r) PROVE AbstractCall!Next
  <2>1. Told(http[r]) \in AbstractCall!Over \cup AbstractCall!Open
    BY <1>2 DEF WebAnswer, Told, Answer, Status, AbstractCall!Over,
       AbstractCall!Open
  <2>2. /\ Told(http[r]) = "ok" => http[r] = "ok"
        /\ Told(http[r]) = "rejected" => http[r] = "rejected"
    BY DEF Told
  <2>3. /\ Told(http[r]) = "ok" => \A p \in Part : executed[r][p] = 1
        /\ Told(http[r]) = "rejected" => \A p \in Part : executed[r][p] = 0
    BY <1>0, <2>2 DEF AnswersAreFinal, Complete, Untouched
  <2>4. AbstractCall!Answer(r, Told(http[r]))
    BY <1>2, <2>3 DEF WebAnswer, connectorVars, workVars, AbstractCall!Answer
  <2> QED
    BY <2>1, <2>4 DEF AbstractCall!Next
<1>3. ASSUME NEW r \in Rpc, WebAborts(r) PROVE AbstractCall!Next
  <2>1. AbstractCall!Answer(r, "unreachable")
    BY <1>3 DEF WebAborts, connectorVars, workVars, AbstractCall!Answer
  <2> QED
    BY <2>1 DEF AbstractCall!Next, AbstractCall!Open
<1>4. ASSUME NEW r \in Rpc, NEW p \in Part, CallEnds(r, p)
      PROVE  AbstractCall!Next \/ UNCHANGED <<web, executed>>
  <2>1. /\ executed[r][p] = 0
        /\ web[r] \in {"waiting"} \cup AbstractCall!Open
        /\ web' = web
    BY <1>4, CallIsOpen DEF CallEnds, webVars
  <2>2. CASE executed' = [executed EXCEPT ![r][p] = @ + 1]
    <3>1. executed' = [executed EXCEPT ![r][p] = 1]
      BY <1>0, <2>1, <2>2 DEF TypeOK
    <3>2. AbstractCall!Run(r, p)
      BY <2>1, <3>1 DEF AbstractCall!Run
    <3> QED
      BY <3>2 DEF AbstractCall!Next
  <2>3. CASE executed' = [executed EXCEPT ![r][p] = @ + 0]
    <3>1. executed' = executed
      BY <1>0, <2>1, <2>3 DEF TypeOK
    <3> QED
      BY <2>1, <3>1
  <2> QED
    BY <1>4, <2>2, <2>3 DEF CallEnds
<1>5. CASE UNCHANGED <<web, executed>>
  BY <1>5
<1>6. ASSUME NEW r \in Rpc, Refuse(r) \/ Forward(r) \/ Timeout(r)
      PROVE  UNCHANGED <<web, executed>>
  BY <1>6 DEF Refuse, Forward, Timeout, webVars, connectorVars, workVars
<1>7. ASSUME NEW s \in Socket,
             \/ StartClosing(s) \/ CloseEvent(s) \/ PeerCloses(s)
             \/ \E left \in {"open", "closed"} : Register(s, left)
             \/ \E r \in Rpc :
                  \/ SendFails(s, r) \/ RequestArrives(s, r) \/ Applies(s, r)
                  \/ \E status \in Status : HandlerEnds(s, r, status)
      PROVE  UNCHANGED <<web, executed>>
  BY <1>7 DEF StartClosing, CloseEvent, PeerCloses, Register, SendFails,
     RequestArrives, Applies, HandlerEnds, webVars, connectorVars, workVars
<1>8. CASE \/ GatewayDies \/ ConnectorDies
           \/ \E x \in responses : ResponseArrives(x)
  BY <1>8 DEF GatewayDies, ConnectorDies, ResponseArrives, webVars,
     connectorVars, workVars
<1>9. CASE UNCHANGED vars
  BY <1>9 DEF vars, webVars, connectorVars, workVars
<1> QED
  BY <1>1, <1>2, <1>3, <1>4, <1>6, <1>7, <1>8, <1>9 DEF Next

(* The bridge implements RpcCall: each change of a request is made at most  *)
(* once, a caller told "ok" had all of them made, and one told "rejected"   *)
(* none, then or later.  "failed" promises nothing: a change still under    *)
(* way when the first of Promise.all fails may yet be made.                 *)
THEOREM Implements == Spec => ImplementsCall
<1>1. Init => AbstractCall!Init
  BY DEF Init, AbstractCall!Init
<1> QED
  BY <1>1, StepImplements, Invariance, PTL
     DEF Spec, ImplementsCall, AbstractCall!Spec

-----------------------------------------------------------------------------
(* Board.  What a request is once it has arrived: seen and did have a place *)
(* for each of its ids.                                                     *)
Phases == {"finding", "checking", "applying", "pausing", "whole", "ending",
           "done"}
Seen == JobState \cup {"found", Unknown}

Done == {"ok", "error", Unknown}
Answers == {0, 204, 400, 404, 405, 500}

Shapes == [phase  : Phases,
           op     : JobOp \cup QueueOp \cup RetryAll,
           bulk   : BOOLEAN,
           queue  : Adapters \cup {Nothing},
           ids    : Seq(Job),
           seen   : Seq(Seen),
           did    : Seq(Done),
           answer : Answers]

Requests == {r \in Shapes :
               DOMAIN r.seen = DOMAIN r.ids /\ DOMAIN r.did = DOMAIN r.ids}

(* The adapter allows what is asked.                                        *)
Permitted(r) ==
  /\ r.queue # Nothing
  /\ ~r.queue.readOnly
  /\ r.op \in {"retry"} \cup RetryAll => r.queue.retries
  /\ r.op = "retryCompleted" => r.queue.completed

(* What a request has found out by the phase it is in: a single retry in    *)
(* particular knows the state it retries from, and that it may.             *)
Earned(r) ==
  /\ r.phase \in {"finding", "checking", "applying", "pausing", "whole"} =>
       Permitted(r)
  /\ r.phase \in {"finding", "checking", "pausing", "whole", "ending"} =>
       r.answer = 0
  /\ r.phase \in {"finding", "checking"} /\ ~r.bulk => DOMAIN r.ids = {1}
  /\ r.phase \in {"pausing", "whole"} => ~r.bulk
  /\ r.phase = "applying" => r.answer \in {0, 500}
  /\ r.phase = "applying" /\ r.op = "retry" /\ ~r.bulk =>
       \A n \in DOMAIN r.ids :
         /\ r.seen[n] # Unknown
         /\ r.seen[n] = "completed" => r.queue.completed

(* What it may have changed by then: T says whether anything, R are the jobs*)
(* it has run again, and C what its checks saw.                             *)
Harmless(r, T, R, C) ==
  /\ r.phase \in {"finding", "checking", "pausing"} => ~T
  /\ r.phase \in {"finding", "checking", "pausing", "whole", "ending"} => R = {}
  /\ r.answer \in {400, 404, 405} => r.phase = "done" /\ ~T /\ R = {}
  /\ T => ~r.queue.readOnly
  /\ R # {} => r.queue.retries
  /\ \A x \in R :
       x[2] = "completed" =>
         r.queue.completed \/ (r.bulk /\ "failed" \in C[x[1]])

(* A check is not forgotten: what a bulk retry may not retry completed it   *)
(* has seen failed.                                                         *)
Remembers(r, C) ==
  /\ r.phase = "checking" =>
       \A n \in DOMAIN r.ids : r.seen[n] # Unknown => r.seen[n] \in C[r.ids[n]]
  /\ r.phase = "applying" /\ r.op = "retry" /\ r.bulk /\ ~r.queue.completed =>
       \A n \in DOMAIN r.ids : "failed" \in C[r.ids[n]]

Sound(r, T, R, C) == Earned(r) /\ Harmless(r, T, R, C) /\ Remembers(r, C)

BoardInv ==
  /\ board \in Adapters \cup {Nothing}
  /\ state \in [Job -> JobState] /\ paused \in BOOLEAN
  /\ changed \in BOOLEAN /\ checked \in [Job -> SUBSET JobState]
  /\ requeued \subseteq Job \X JobState
  /\ \/ req = Idle /\ changed = FALSE /\ requeued = {}
     \/ req \in Requests /\ Sound(req, changed, requeued, checked)

(* Asked of the request in progress.                                        *)
LEMMA InProgress ==
  ASSUME BoardInv, req.phase # "idle"
  PROVE  /\ req \in Requests /\ Earned(req)
         /\ Harmless(req, changed, requeued, checked) /\ Remembers(req, checked)
BY DEF BoardInv, Idle, Sound

(* A request that has got on: with phase p, knowledge q, results d and      *)
(* answer a.                                                                *)
With(r, p, q, d, a) ==
  [phase |-> p, op |-> r.op, bulk |-> r.bulk, queue |-> r.queue, ids |-> r.ids,
   seen |-> q, did |-> d, answer |-> a]

LEMMA WithIs ==
  ASSUME NEW r \in Requests,
         NEW p \in Phases, NEW q \in Seq(Seen), NEW d \in Seq(Done),
         NEW a \in Answers, DOMAIN q = DOMAIN r.ids, DOMAIN d = DOMAIN r.ids
  PROVE  /\ With(r, p, q, d, a) \in Requests
         /\ With(r, p, q, d, a).phase = p /\ With(r, p, q, d, a).seen = q
         /\ With(r, p, q, d, a).did = d /\ With(r, p, q, d, a).answer = a
         /\ With(r, p, q, d, a).op = r.op /\ With(r, p, q, d, a).bulk = r.bulk
         /\ With(r, p, q, d, a).queue = r.queue
         /\ With(r, p, q, d, a).ids = r.ids
BY DEF With, Requests, Shapes

(* The fields of a request, and what updating them makes of it.             *)
LEMMA Fields ==
  ASSUME NEW r \in Requests
  PROVE  /\ r.phase \in Phases /\ r.op \in JobOp \cup QueueOp \cup RetryAll
         /\ r.bulk \in BOOLEAN /\ r.queue \in Adapters \cup {Nothing}
         /\ r.ids \in Seq(Job) /\ r.seen \in Seq(Seen) /\ r.did \in Seq(Done)
         /\ r.answer \in Answers
         /\ DOMAIN r.seen = DOMAIN r.ids /\ DOMAIN r.did = DOMAIN r.ids
<1>1. r \in Shapes
  BY DEF Requests
<1>2. /\ r.phase \in Phases /\ r.op \in JobOp \cup QueueOp \cup RetryAll
      /\ r.bulk \in BOOLEAN /\ r.queue \in Adapters \cup {Nothing}
      /\ r.ids \in Seq(Job) /\ r.seen \in Seq(Seen) /\ r.did \in Seq(Done)
      /\ r.answer \in Answers
  BY <1>1 DEF Shapes
<1> QED
  BY <1>2 DEF Requests

LEMMA AsWith ==
  ASSUME NEW r \in Requests
  PROVE  r = With(r, r.phase, r.seen, r.did, r.answer)
<1>1. r \in Shapes
  BY DEF Requests
<1> QED
  BY <1>1 DEF Shapes, With

LEMMA PhaseOf ==
  ASSUME NEW r, NEW p, NEW q, NEW d, NEW a, NEW x
  PROVE  [With(r, p, q, d, a) EXCEPT !.phase = x] = With(r, x, q, d, a)
BY DEF With

LEMMA SeenOf ==
  ASSUME NEW r, NEW p, NEW q, NEW d, NEW a, NEW x
  PROVE  [With(r, p, q, d, a) EXCEPT !.seen = x] = With(r, p, x, d, a)
BY DEF With

LEMMA DidOf ==
  ASSUME NEW r, NEW p, NEW q, NEW d, NEW a, NEW x
  PROVE  [With(r, p, q, d, a) EXCEPT !.did = x] = With(r, p, q, x, a)
BY DEF With

LEMMA AnswerOf ==
  ASSUME NEW r, NEW p, NEW q, NEW d, NEW a, NEW x
  PROVE  [With(r, p, q, d, a) EXCEPT !.answer = x] = With(r, p, q, d, x)
BY DEF With

LEMMA SeenSet ==
  ASSUME NEW r \in Requests, NEW q
  PROVE  [r EXCEPT !.seen = q] = With(r, r.phase, q, r.did, r.answer)
<1> DEFINE w == With(r, r.phase, r.seen, r.did, r.answer)
<1>1. r = w
  BY AsWith
<1>2. [w EXCEPT !.seen = q] = With(r, r.phase, q, r.did, r.answer)
  BY SeenOf
<1> QED
  BY <1>1, <1>2, Zenon

LEMMA PhaseSet ==
  ASSUME NEW r \in Requests, NEW p
  PROVE  [r EXCEPT !.phase = p] = With(r, p, r.seen, r.did, r.answer)
<1> DEFINE w == With(r, r.phase, r.seen, r.did, r.answer)
<1>1. r = w
  BY AsWith
<1>2. [w EXCEPT !.phase = p] = With(r, p, r.seen, r.did, r.answer)
  BY PhaseOf
<1> QED
  BY <1>1, <1>2, Zenon

LEMMA DidSet ==
  ASSUME NEW r \in Requests, NEW d
  PROVE  [r EXCEPT !.did = d] = With(r, r.phase, r.seen, d, r.answer)
<1> DEFINE w == With(r, r.phase, r.seen, r.did, r.answer)
<1>1. r = w
  BY AsWith
<1>2. [w EXCEPT !.did = d] = With(r, r.phase, r.seen, d, r.answer)
  BY DidOf
<1> QED
  BY <1>1, <1>2, Zenon

LEMMA PhaseSeenSet ==
  ASSUME NEW r \in Requests, NEW p, NEW q
  PROVE  [r EXCEPT !.phase = p, !.seen = q] = With(r, p, q, r.did, r.answer)
<1>1. [r EXCEPT !.phase = p] = With(r, p, r.seen, r.did, r.answer)
  BY PhaseSet
<1>2. [With(r, p, r.seen, r.did, r.answer) EXCEPT !.seen = q]
        = With(r, p, q, r.did, r.answer)
  BY SeenOf
<1> QED
  BY <1>1, <1>2, Zenon

LEMMA DidAnswerSet ==
  ASSUME NEW r \in Requests, NEW d, NEW a
  PROVE  [r EXCEPT !.did = d, !.answer = a] = With(r, r.phase, r.seen, d, a)
<1>1. [r EXCEPT !.did = d] = With(r, r.phase, r.seen, d, r.answer)
  BY DidSet
<1>2. [With(r, r.phase, r.seen, d, r.answer) EXCEPT !.answer = a]
        = With(r, r.phase, r.seen, d, a)
  BY AnswerOf
<1> QED
  BY <1>1, <1>2, Zenon

(* Learning the state of one id.                                            *)
LEMMA Learn ==
  ASSUME NEW r \in Requests, NEW n \in DOMAIN r.ids, NEW v \in Seen,
         NEW s, s = [r EXCEPT !.seen[n] = v]
  PROVE  /\ s \in Requests
         /\ s.phase = r.phase /\ s.op = r.op /\ s.bulk = r.bulk
         /\ s.queue = r.queue /\ s.ids = r.ids /\ s.did = r.did
         /\ s.answer = r.answer
<1> DEFINE q == [r.seen EXCEPT ![n] = v]
<1>0. r.seen \in Seq(Seen) /\ DOMAIN r.seen = DOMAIN r.ids
  BY Fields
<1>1. q \in Seq(Seen) /\ DOMAIN q = DOMAIN r.ids
  BY <1>0
<1>2. s = [r EXCEPT !.seen = q]
  <2>1. r \in Shapes
    BY DEF Requests
  <2> QED
    BY <2>1 DEF Shapes
<1> HIDE DEF q
<1>3. s = With(r, r.phase, q, r.did, r.answer)
  BY <1>2, SeenSet, Zenon
<1>4. LET w == With(r, r.phase, q, r.did, r.answer)
      IN  /\ w \in Requests
          /\ w.phase = r.phase /\ w.op = r.op /\ w.bulk = r.bulk
          /\ w.queue = r.queue /\ w.ids = r.ids /\ w.did = r.did
          /\ w.answer = r.answer /\ w.seen = q
  <2>1. /\ r.phase \in Phases /\ r.did \in Seq(Done) /\ r.answer \in Answers
        /\ DOMAIN r.did = DOMAIN r.ids /\ q \in Seq(Seen)
        /\ DOMAIN q = DOMAIN r.ids
    BY <1>1, Fields
  <2> HIDE <1>2, <1>3
  <2> QED
    BY <2>1, WithIs
<1> QED
  BY <1>1, <1>3, <1>4

(* Only that place in `seen` changes.                                        *)
LEMMA Learnt ==
  ASSUME NEW r \in Requests, NEW n \in DOMAIN r.ids, NEW v \in Seen,
         NEW s, s = [r EXCEPT !.seen[n] = v]
  PROVE  s.seen = [r.seen EXCEPT ![n] = v]
<1>1. r \in Shapes
  BY DEF Requests
<1> QED
  BY <1>1 DEF Shapes

(* A request that starts over with what it knows of its ids.                *)
LEMMA Restarted ==
  ASSUME NEW r \in Requests, NEW phase \in Phases
  PROVE  /\ Reset(r, phase) \in Requests
         /\ Reset(r, phase).phase = phase /\ Reset(r, phase).op = r.op
         /\ Reset(r, phase).bulk = r.bulk /\ Reset(r, phase).queue = r.queue
         /\ Reset(r, phase).ids = r.ids /\ Reset(r, phase).answer = r.answer
         /\ \A n \in DOMAIN r.ids : Reset(r, phase).seen[n] = Unknown
<1> DEFINE none == [n \in DOMAIN r.ids |-> Unknown]
<1>1. /\ none \in Seq(Seen) /\ DOMAIN none = DOMAIN r.ids
      /\ \A n \in DOMAIN r.ids : none[n] = Unknown
  <2>1. r.ids \in Seq(Job)
    BY Fields
  <2>2. Unknown \in Seen /\ DOMAIN r.ids = 1 .. Len(r.ids) /\ Len(r.ids) \in Nat
    BY <2>1 DEF Seen
  <2> QED
    BY <2>2
<1>2. Reset(r, phase) = [r EXCEPT !.phase = phase, !.seen = none]
  BY DEF Reset
<1> HIDE DEF none
<1>3. Reset(r, phase) = With(r, phase, none, r.did, r.answer)
  BY <1>2, PhaseSeenSet
<1> QED
  BY <1>1, <1>3, Fields, WithIs

(* A request that goes on to the next phase with what it knows.             *)
LEMMA GoesOn ==
  ASSUME NEW r \in Requests, NEW phase \in Phases
  PROVE  LET s == [r EXCEPT !.phase = phase]
         IN  /\ s \in Requests
             /\ s.phase = phase /\ s.op = r.op /\ s.bulk = r.bulk
             /\ s.queue = r.queue /\ s.ids = r.ids /\ s.seen = r.seen
             /\ s.answer = r.answer
<1>1. [r EXCEPT !.phase = phase] = With(r, phase, r.seen, r.did, r.answer)
  BY PhaseSet
<1> QED
  BY <1>1, Fields, WithIs

(* An answered request is done, and keeps the answer it has.                *)
LEMMA AnsweredIs ==
  ASSUME NEW r \in Requests, NEW code \in {204, 400, 404, 405, 500}
  PROVE  /\ Answered(r, code) \in Requests
         /\ Answered(r, code).phase = "done"
         /\ Answered(r, code).queue = r.queue /\ Answered(r, code).bulk = r.bulk
         /\ Answered(r, code).answer = IF r.answer = 0 THEN code ELSE r.answer
<1> DEFINE a == IF r.answer = 0 THEN code ELSE r.answer
<1>1. Answered(r, code) = [r EXCEPT !.phase = "done", !.answer = a]
  <2>1. r \in Shapes
    BY DEF Requests
  <2> QED
    BY <2>1 DEF Shapes, Answered
<1>2. a \in Answers /\ "done" \in Phases
  BY Fields DEF Answers, Phases
<1> HIDE DEF a
<1>3. Answered(r, code) = With(r, "done", r.seen, r.did, a)
  <2>1. [r EXCEPT !.phase = "done"] = With(r, "done", r.seen, r.did, r.answer)
    BY PhaseSet
  <2>2. [With(r, "done", r.seen, r.did, r.answer) EXCEPT !.answer = a]
          = With(r, "done", r.seen, r.did, a)
    BY AnswerOf
  <2> QED
    BY <1>1, <2>1, <2>2, Zenon
<1>4. /\ Answered(r, code) \in Requests
      /\ Answered(r, code).phase = "done"
      /\ Answered(r, code).queue = r.queue /\ Answered(r, code).bulk = r.bulk
      /\ Answered(r, code).answer = a
  BY <1>2, <1>3, Fields, WithIs
<1> QED
  BY <1>4 DEF a

(* It may be answered by anything but a refusal after it changed something. *)
LEMMA AnsweredHarmless ==
  ASSUME NEW r \in Requests, NEW T, NEW R, NEW C, Harmless(r, T, R, C),
         NEW code \in {204, 400, 404, 405, 500},
         code \in {204, 500} \/ (~T /\ R = {})
  PROVE  /\ Answered(r, code) \in Requests
         /\ Sound(Answered(r, code), T, R, C)
<1> DEFINE s == Answered(r, code)
<1>1. /\ s \in Requests /\ s.phase = "done"
      /\ s.queue = r.queue /\ s.bulk = r.bulk
      /\ s.answer = IF r.answer = 0 THEN code ELSE r.answer
  BY AnsweredIs
<1> HIDE DEF s
<1>2. Earned(s) /\ Remembers(s, C)
  BY <1>1 DEF Earned, Remembers
<1>3. Harmless(s, T, R, C)
  BY <1>1 DEF Harmless
<1> QED
  BY <1>1, <1>2, <1>3 DEF s, Sound

-----------------------------------------------------------------------------
(* No request has been made.                                                *)
LEMMA BoardInitInv == BoardInit => BoardInv
BY DEF BoardInit, BoardInv

(* The others touch neither the request nor what it has done.               *)
LEMMA OthersInv ==
  ASSUME BoardInv,
         \/ \E a \in Adapters \cup {Nothing} : SetQueue(a)
         \/ \E j \in Job, to \in JobState : Elsewhere(j, to)
         \/ OthersPause
  PROVE  BoardInv'
BY DEF BoardInv, SetQueue, Elsewhere, OthersPause, queueVars, historyVars

(* Before its first await a handler refuses, or has its adapter's           *)
(* permission.                                                              *)
LEMMA ArriveInv ==
  ASSUME BoardInv, NEW op \in JobOp \cup QueueOp \cup RetryAll,
         NEW bulk \in BOOLEAN, NEW ids \in Seq(Job), Arrive(op, bulk, ids),
         op \in JobOp /\ ~bulk => DOMAIN ids = {1},
         op \notin JobOp => ~bulk
  PROVE  BoardInv'
<1> DEFINE none == [n \in DOMAIN ids |-> Unknown]
           r == [phase |-> FirstPhase(op), op |-> op, bulk |-> bulk, queue |-> board,
                 ids |-> ids, seen |-> none, did |-> none, answer |-> 0]
<1>1. /\ req = Idle
      /\ req' = IF Refusal(op) = 0 THEN r ELSE Answered(r, Refusal(op))
      /\ UNCHANGED <<board, state, paused, changed, checked, requeued>>
  BY DEF Arrive, queueVars, historyVars
<1>2. changed = FALSE /\ requeued = {}
  <2>1. req \notin Requests
    BY <1>1, Fields DEF Idle, Phases
  <2> QED
    BY <1>1, <2>1 DEF BoardInv
<1>3. /\ none \in Seq(Seen) /\ none \in Seq(Done)
      /\ DOMAIN none = DOMAIN ids
  <2>1. Unknown \in Seen /\ DOMAIN ids = 1 .. Len(ids) /\ Len(ids) \in Nat
       /\ Unknown \in Done
    BY DEF Seen, Done
  <2> QED
    BY <2>1
<1> HIDE DEF none
<1>4. board \in Adapters \cup {Nothing}
  BY DEF BoardInv
<1>5. r \in Requests
  BY <1>3, <1>4 DEF Requests, Shapes, Phases, Done, Answers, FirstPhase
<1>6. /\ r.phase \in {"finding", "pausing", "whole"} /\ r.op = op
      /\ r.bulk = bulk /\ r.queue = board /\ r.ids = ids /\ r.answer = 0
      /\ r.phase = "finding" <=> op \in JobOp
  BY DEF FirstPhase
<1> HIDE DEF r
<1>7. Harmless(r, changed, requeued, checked) /\ Remembers(r, checked)
  BY <1>2, <1>6 DEF Harmless, Remembers
<1>8. CASE Refusal(op) = 0
  <2>1. Permitted(r)
    BY <1>6, <1>8 DEF Refusal, Permitted
  <2>2. Earned(r)
    BY <1>6, <2>1 DEF Earned
  <2> QED
    BY <1>1, <1>5, <1>7, <1>8, <2>2 DEF BoardInv, Sound
<1>9. CASE Refusal(op) # 0
  <2>1. Refusal(op) \in {404, 405}
    BY <1>9 DEF Refusal
  <2>2. LET s == Answered(r, Refusal(op))
        IN  s \in Requests /\ Sound(s, changed, requeued, checked)
    BY <1>2, <1>5, <1>7, <2>1, AnsweredHarmless
  <2> QED
    BY <1>1, <1>9, <2>2 DEF BoardInv
<1> QED
  BY <1>8, <1>9

(* A job is looked up; with the last one the handler answers, checks the    *)
(* states or goes to work.                                                  *)
LEMMA FindInv ==
  ASSUME BoardInv, NEW n, Find(n)
  PROVE  BoardInv'
<1> DEFINE v == IF state[req.ids[n]] \in {"new", "gone"} THEN "gone" ELSE "found"
           r == [req EXCEPT !.seen[n] = v]
<1>1. /\ req.phase = "finding" /\ n \in DOMAIN req.ids
      /\ req' = AfterFind(r)
      /\ UNCHANGED <<board, state, paused, changed, checked, requeued>>
  BY DEF Find, queueVars, historyVars
<1>2. /\ req \in Requests /\ Earned(req)
      /\ Harmless(req, changed, requeued, checked) /\ Remembers(req, checked)
  BY <1>1, InProgress
<1>3. v \in Seen
  BY DEF Seen, JobState
<1> HIDE DEF v
<1>4. /\ r \in Requests
      /\ r.phase = "finding" /\ r.op = req.op /\ r.bulk = req.bulk
      /\ r.queue = req.queue /\ r.ids = req.ids /\ r.answer = req.answer
  BY <1>1, <1>2, <1>3, Learn
<1> HIDE DEF r
<1>5. Permitted(r) /\ r.answer = 0 /\ ~changed /\ requeued = {}
      /\ (~r.bulk => DOMAIN r.ids = {1})
  BY <1>1, <1>2, <1>4 DEF Earned, Harmless, Permitted
<1>6. Harmless(r, changed, requeued, checked)
  BY <1>4, <1>5 DEF Harmless
<1>7. req' \in Requests /\ Sound(req', changed, requeued, checked)
  <2>1. CASE ~AllKnown(r)
    BY <1>1, <1>4, <1>5, <1>6, <2>1 DEF AfterFind, Sound, Earned, Remembers
  <2> DEFINE missing == \E m \in DOMAIN r.ids : r.seen[m] = "gone"
             checks == \/ r.op = "retry"
                       \/ r.bulk /\ r.op = "promote"
  <2>2. CASE AllKnown(r) /\ missing
    <3>1. req' = Answered(r, IF r.bulk THEN 400 ELSE 404)
      BY <1>1, <2>2 DEF AfterFind
    <3> QED
      BY <1>4, <1>5, <1>6, <3>1, AnsweredHarmless
  <2>3. CASE AllKnown(r) /\ ~missing /\ checks
    <3>1. req' = Reset(r, "checking")
      BY <1>1, <2>3 DEF AfterFind
    <3>2. /\ req' \in Requests /\ req'.phase = "checking" /\ req'.op = r.op
          /\ req'.bulk = r.bulk /\ req'.queue = r.queue /\ req'.ids = r.ids
          /\ req'.answer = r.answer
          /\ \A m \in DOMAIN r.ids : req'.seen[m] = Unknown
      BY <1>4, <3>1, Restarted DEF Phases
    <3> QED
      BY <1>5, <3>2 DEF Sound, Earned, Harmless, Permitted, Remembers
  <2>4. CASE AllKnown(r) /\ ~missing /\ ~checks
    <3>1. req' = [r EXCEPT !.phase = "applying"]
      BY <1>1, <2>4 DEF AfterFind
    <3>2. /\ req' \in Requests /\ req'.phase = "applying" /\ req'.op = r.op
          /\ req'.bulk = r.bulk /\ req'.queue = r.queue /\ req'.ids = r.ids
          /\ req'.answer = r.answer
      BY <1>4, <3>1, GoesOn DEF Phases
    <3> QED
      BY <1>5, <2>4, <3>2 DEF Sound, Earned, Harmless, Permitted, Remembers
  <2> HIDE DEF missing, checks
  <2> QED
    BY <2>1, <2>2, <2>3, <2>4
<1> QED
  BY <1>1, <1>7 DEF BoardInv

(* A state is checked; with the last one the handler refuses, or goes to    *)
(* work on what it knows.                                                   *)
LEMMA CheckInv ==
  ASSUME BoardInv, NEW n, Check(n)
  PROVE  BoardInv'
<1> DEFINE v == state[req.ids[n]]
           r == [req EXCEPT !.seen[n] = v]
<1>1. /\ req.phase = "checking" /\ n \in DOMAIN req.ids
      /\ req' = AfterCheck(r)
      /\ checked' = [checked EXCEPT ![req.ids[n]] = @ \cup {v}]
      /\ UNCHANGED <<board, state, paused, changed, requeued>>
  BY DEF Check, queueVars
<1>2. /\ req \in Requests /\ Earned(req)
      /\ Harmless(req, changed, requeued, checked) /\ Remembers(req, checked)
  BY <1>1, InProgress
<1>3. /\ req.ids[n] \in Job /\ v \in JobState /\ v \in Seen
      /\ req.ids \in Seq(Job)
  <2>1. req.ids[n] \in Job /\ req.ids \in Seq(Job)
    BY <1>1, <1>2, Fields
  <2> QED
    BY <2>1 DEF BoardInv, Seen
<1> HIDE DEF v
<1>4. /\ r \in Requests
      /\ r.phase = "checking" /\ r.op = req.op /\ r.bulk = req.bulk
      /\ r.queue = req.queue /\ r.ids = req.ids /\ r.answer = req.answer
      /\ r.seen[n] = v
      /\ \A m \in DOMAIN req.ids : m # n => r.seen[m] = req.seen[m]
  <2>1. req \in Requests /\ n \in DOMAIN req.ids /\ v \in Seen
    BY <1>1, <1>2, <1>3
  <2>2. r = [req EXCEPT !.seen[n] = v]
    OBVIOUS
  <2> HIDE DEF r
  <2>3. /\ r \in Requests
        /\ r.phase = req.phase /\ r.op = req.op /\ r.bulk = req.bulk
        /\ r.queue = req.queue /\ r.ids = req.ids /\ r.answer = req.answer
    BY <2>1, <2>2, Learn
  <2>4. r.seen = [req.seen EXCEPT ![n] = v]
    BY <2>1, <2>2, Learnt
  <2>5. req.seen \in Seq(Seen) /\ DOMAIN req.seen = DOMAIN req.ids
    BY <2>1, Fields
  <2> HIDE <1>1, <2>2
  <2>6. /\ r.seen[n] = v
        /\ \A m \in DOMAIN req.ids : m # n => r.seen[m] = req.seen[m]
    BY <2>1, <2>4, <2>5
  <2> QED
    BY <1>1, <2>3, <2>6
<1> HIDE DEF r
<1>5. Permitted(r) /\ r.answer = 0 /\ ~changed /\ requeued = {}
      /\ (~r.bulk => DOMAIN r.ids = {1})
  BY <1>1, <1>2, <1>4 DEF Earned, Harmless, Permitted
<1>6. Harmless(r, changed, requeued, checked')
  BY <1>4, <1>5 DEF Harmless
<1>7. /\ checked' \in [Job -> SUBSET JobState]
      /\ v \in checked'[req.ids[n]]
      /\ \A k \in Job : checked[k] \subseteq checked'[k]
  <2>1. checked \in [Job -> SUBSET JobState]
    BY DEF BoardInv
  <2> QED
    BY <1>1, <1>3, <2>1
<1>8. \A m \in DOMAIN r.ids : r.seen[m] # Unknown => r.seen[m] \in checked'[r.ids[m]]
  <2> SUFFICES ASSUME NEW m \in DOMAIN r.ids, r.seen[m] # Unknown
               PROVE  r.seen[m] \in checked'[r.ids[m]]
    OBVIOUS
  <2>1. CASE m = n
    BY <1>4, <1>7, <2>1
  <2>2. CASE m # n
    <3>1. r.seen[m] \in checked[r.ids[m]]
      BY <1>1, <1>2, <1>4, <2>2 DEF Remembers
    <3>2. r.ids[m] \in Job
      BY <1>3, <1>4
    <3> QED
      BY <1>7, <3>1, <3>2
  <2> QED
    BY <2>1, <2>2
<1> DEFINE code == IF r.bulk THEN BulkRefusal(r) ELSE RetryRefusal(r)
<1>9. req' \in Requests /\ Sound(req', changed, requeued, checked')
  <2>1. CASE ~AllKnown(r)
    <3>1. req' = r /\ Earned(r) /\ Remembers(r, checked')
      BY <1>1, <1>4, <1>5, <1>8, <2>1 DEF AfterCheck, Earned, Remembers
    <3> QED
      BY <1>4, <1>6, <3>1 DEF Sound
  <2>2. CASE AllKnown(r) /\ code # 0
    <3>1. req' = Answered(r, code)
      BY <1>1, <2>2 DEF AfterCheck
    <3>2. code \in {400, 405}
      BY <2>2 DEF BulkRefusal, RetryRefusal
    <3> QED
      BY <1>4, <1>5, <1>6, <3>1, <3>2, AnsweredHarmless
  <2>3. CASE AllKnown(r) /\ code = 0 /\ (r.bulk /\ r.op = "retry")
    <3>1. req' = Reset(r, "applying")
      BY <1>1, <2>3 DEF AfterCheck
    <3>2. /\ req' \in Requests /\ req'.phase = "applying" /\ req'.op = r.op
          /\ req'.bulk = r.bulk /\ req'.queue = r.queue /\ req'.ids = r.ids
          /\ req'.answer = r.answer
      BY <1>4, <3>1, Restarted DEF Phases
    <3>3. ASSUME ~r.queue.completed, NEW m \in DOMAIN r.ids
          PROVE  "failed" \in checked'[r.ids[m]]
      <4>1. r.seen[m] = "failed"
        BY <2>3, <3>3 DEF BulkRefusal
      <4> QED
        BY <1>8, <4>1 DEF Unknown
    <3> QED
      BY <1>5, <2>3, <3>2, <3>3 DEF Sound, Earned, Harmless, Permitted, Remembers
  <2>4. CASE /\ AllKnown(r) /\ code = 0
             /\ ~r.bulk \/ r.op # "retry"
    <3>1. req' = [r EXCEPT !.phase = "applying"]
      BY <1>1, <2>4 DEF AfterCheck
    <3>2. /\ req' \in Requests /\ req'.phase = "applying" /\ req'.op = r.op
          /\ req'.bulk = r.bulk /\ req'.queue = r.queue /\ req'.ids = r.ids
          /\ req'.answer = r.answer /\ req'.seen = r.seen
      BY <1>4, <3>1, GoesOn DEF Phases
    <3>3. ASSUME ~r.bulk, NEW m \in DOMAIN r.ids
          PROVE  /\ r.seen[m] # Unknown
                 /\ r.seen[m] = "completed" => r.queue.completed
      <4>1. m = 1 /\ RetryRefusal(r) = 0
        BY <1>5, <2>4, <3>3
      <4> QED
        BY <2>4, <3>3, <4>1 DEF AllKnown, RetryRefusal
    <3> QED
      BY <1>5, <2>4, <3>2, <3>3
         DEF Sound, Earned, Harmless, Permitted, Remembers
  <2> QED
    BY <2>1, <2>2, <2>3, <2>4
<1> QED
  BY <1>1, <1>9, <1>7 DEF BoardInv

(* Only a bulk retry reads a state again after it was let through.          *)
LEMMA RereadInv ==
  ASSUME BoardInv, NEW n, Reread(n)
  PROVE  BoardInv'
<1> DEFINE v == state[req.ids[n]]
<1>1. /\ req.phase = "applying" /\ n \in DOMAIN req.ids /\ req.seen[n] = Unknown
      /\ req' = [req EXCEPT !.seen[n] = v]
      /\ UNCHANGED <<board, state, paused, changed, checked, requeued>>
  BY DEF Reread, queueVars, historyVars
<1>2. /\ req \in Requests /\ Earned(req)
      /\ Harmless(req, changed, requeued, checked) /\ Remembers(req, checked)
  BY <1>1, InProgress
<1>3. v \in Seen
  <2>1. req.ids[n] \in Job
    BY <1>1, <1>2, Fields
  <2> QED
    BY <2>1 DEF BoardInv, Seen
<1> HIDE DEF v
<1>4. /\ req' \in Requests
      /\ req'.phase = "applying" /\ req'.op = req.op /\ req'.bulk = req.bulk
      /\ req'.queue = req.queue /\ req'.ids = req.ids
      /\ req'.answer = req.answer
  BY <1>1, <1>2, <1>3, Learn
<1>5. ~(req.op = "retry" /\ ~req.bulk)
  BY <1>1, <1>2 DEF Earned
<1>6. Sound(req', changed, requeued, checked)
  BY <1>1, <1>2, <1>4, <1>5 DEF Sound, Earned, Harmless, Permitted, Remembers
<1> QED
  BY <1>1, <1>4, <1>6 DEF BoardInv


(* One job is retried, promoted or removed, or BullMQ refuses.              *)
LEMMA ApplyInv ==
  ASSUME BoardInv, NEW n, Apply(n)
  PROVE  BoardInv'
<1> DEFINE j == req.ids[n]
           open == req.seen[n] # Unknown /\ Accepts(req.op, j, From(req, n))
<1>0. PICK taken \in BOOLEAN, ok \in BOOLEAN :
        /\ (taken => open) /\ (ok => taken)
        /\ req' = AfterApply(req, n, ok)
        /\ state' = IF taken THEN [state EXCEPT ![j] = Target(req.op)] ELSE state
        /\ changed' = (changed \/ taken)
        /\ requeued' = IF taken /\ req.op = "retry"
                       THEN requeued \cup {<<j, state[j]>>} ELSE requeued
  BY Zenon DEF Apply
<1> DEFINE e == IF ok THEN "ok" ELSE "error"
           d == [req.did EXCEPT ![n] = e]
           a == IF ~ok /\ req.answer = 0 THEN 500 ELSE req.answer
           s == [req EXCEPT !.did[n] = e,
                            !.answer = IF ~ok /\ @ = 0 THEN 500 ELSE @]
           w == With(req, req.phase, req.seen, d, a)
<1>1. /\ req.phase = "applying" /\ n \in DOMAIN req.ids
      /\ UNCHANGED <<board, paused, checked>>
  BY DEF Apply
<1>2. req' = IF \A m \in DOMAIN s.ids : s.did[m] # Unknown
             THEN Answered(s, 204) ELSE s
  BY <1>0, Zenon DEF AfterApply
<1>3. /\ req \in Requests /\ Earned(req)
      /\ Harmless(req, changed, requeued, checked) /\ Remembers(req, checked)
  BY <1>1, InProgress
<1>4. j \in Job
  BY <1>1, <1>3, Fields
<1>5. s = w
  <2>1. s = [req EXCEPT !.did = d, !.answer = a]
    <3>1. req \in Shapes
      BY <1>3 DEF Requests
    <3> QED
      BY <3>1 DEF Shapes
  <2> HIDE DEF d, a
  <2>2. [req EXCEPT !.did = d, !.answer = a] = w
    BY <1>3, DidAnswerSet
  <2> HIDE DEF s, w
  <2> QED
    BY <2>1, <2>2
<1>6. a \in {0, 500} /\ a \in Answers
  <2>1. req.answer \in {0, 500}
    BY <1>1, <1>3 DEF Earned
  <2> QED
    BY <2>1 DEF Answers
<1>7. d \in Seq(Done) /\ DOMAIN d = DOMAIN req.ids
  <2>1. /\ req.did \in Seq(Done) /\ DOMAIN req.did = DOMAIN req.ids
        /\ e \in Done
    BY <1>3, Fields DEF Done
  <2> HIDE DEF e
  <2> QED
    BY <1>1, <2>1
<1>8. state[j] \in JobState /\ state' \in [Job -> JobState]
  BY <1>0, <1>4 DEF BoardInv, Target, JobState, Finished
<1>9. changed' \in BOOLEAN /\ requeued' \subseteq Job \X JobState
  BY <1>0, <1>4, <1>8 DEF BoardInv
<1>10. taken /\ req.op = "retry" => state[j] = From(req, n)
  BY <1>0 DEF Accepts
<1> HIDE DEF open, d, a, s, j
<1>11. /\ w \in Requests
       /\ w.phase = "applying" /\ w.op = req.op /\ w.bulk = req.bulk
       /\ w.queue = req.queue /\ w.ids = req.ids /\ w.seen = req.seen
       /\ w.answer = a
  BY <1>1, <1>3, <1>6, <1>7, Fields, WithIs
<1> HIDE DEF w
<1>12. /\ Permitted(req) /\ ~req.queue.readOnly
       /\ req.op = "retry" => req.queue.retries
  BY <1>1, <1>3 DEF Earned, Permitted
<1>13. Earned(w)
  BY <1>1, <1>3, <1>6, <1>11, <1>12 DEF Earned, Permitted
<1>14. ASSUME NEW x \in requeued', x[2] = "completed"
       PROVE  req.queue.completed \/ (req.bulk /\ "failed" \in checked[x[1]])
  <2>1. CASE x \in requeued
    BY <1>3, <1>14, <2>1 DEF Harmless
  <2>2. CASE x \notin requeued
    <3>1. taken /\ req.op = "retry" /\ x = <<j, state[j]>>
      BY <1>0, <1>14, <2>2
    <3>2. From(req, n) = "completed"
      BY <1>10, <1>14, <3>1
    <3>3. req.seen[n] = "completed"
      BY <3>2 DEF From
    <3>4. CASE ~req.bulk
      BY <1>1, <1>3, <3>1, <3>3, <3>4 DEF Earned
    <3>5. CASE req.bulk
      BY <1>1, <1>3, <3>1, <3>5 DEF Remembers, j
    <3> QED
      BY <3>4, <3>5
  <2> QED
    BY <2>1, <2>2
<1>15. Harmless(w, changed', requeued', checked) /\ Remembers(w, checked)
  <2>1. requeued' # {} => req.queue.retries
    BY <1>0, <1>3, <1>12 DEF Harmless
  <2>2. Remembers(w, checked)
    BY <1>1, <1>3, <1>11 DEF Remembers
  <2> QED
    BY <1>6, <1>11, <1>12, <1>14, <2>1, <2>2 DEF Harmless
<1>16. req' \in Requests /\ Sound(req', changed', requeued', checked)
  <2>1. CASE req' = w
    BY <1>11, <1>13, <1>15, <2>1 DEF Sound
  <2>2. CASE req' = Answered(w, 204)
    BY <1>11, <1>15, <2>2, AnsweredHarmless
  <2> QED
    BY <1>2, <1>5, <2>1, <2>2
<1> QED
  BY <1>1, <1>8, <1>9, <1>16 DEF BoardInv

(* The jobs of a retry-all are listed: they are in the state it asks for,   *)
(* and for that one it has the permission.                                  *)
LEMMA ListJobsInv ==
  ASSUME BoardInv, ListJobs
  PROVE  BoardInv'
<1> DEFINE S == {j \in Job : state[j] = Retried(req.op)}
<1>1. /\ req.phase = "whole" /\ req.op \in RetryAll
      /\ UNCHANGED <<board, state, paused, changed, checked, requeued>>
  BY DEF ListJobs, queueVars, historyVars
<1>2. PICK ids \in SetToSeqs(S) :
        req' = IF ids = <<>> THEN Answered(req, 204)
               ELSE [req EXCEPT !.phase = "applying", !.op = "retry",
                       !.ids = ids,
                       !.seen = [n \in DOMAIN ids |-> Retried(req.op)],
                       !.did = [n \in DOMAIN ids |-> Unknown]]
  BY DEF ListJobs
<1>3. /\ req \in Requests /\ Earned(req)
      /\ Harmless(req, changed, requeued, checked)
  BY <1>1, InProgress
<1>4. requeued = {} /\ req.answer = 0 /\ Permitted(req) /\ ~req.bulk
  BY <1>1, <1>3 DEF Earned, Harmless
<1>5. ids \in Seq(Job)
  <2>1. S \subseteq Job /\ IsFiniteSet(S)
    BY BoardAssumption, FS_Subset
  <2>2. Cardinality(S) \in Nat
    BY <2>1, FS_CardinalityType
  <2>3. ids \in [1 .. Cardinality(S) -> S]
    BY <1>2 DEF SetToSeqs
  <2> HIDE DEF S
  <2> QED
    BY <2>1, <2>2, <2>3
<1> DEFINE q == [n \in DOMAIN ids |-> Retried(req.op)]
           d == [n \in DOMAIN ids |-> Unknown]
           r == [phase |-> "applying", op |-> "retry", bulk |-> req.bulk,
                 queue |-> req.queue, ids |-> ids, seen |-> q, did |-> d,
                 answer |-> req.answer]
<1>6. /\ q \in Seq(Seen) /\ d \in Seq(Done)
      /\ DOMAIN q = DOMAIN ids /\ DOMAIN d = DOMAIN ids
      /\ \A n \in DOMAIN ids :
           q[n] # Unknown /\ (q[n] = "completed" => req.op = "retryCompleted")
  <2>1. /\ DOMAIN ids = 1 .. Len(ids) /\ Len(ids) \in Nat
        /\ Unknown \in Done /\ Retried(req.op) \in Seen
        /\ Retried(req.op) # Unknown
        /\ Retried(req.op) = "completed" => req.op = "retryCompleted"
    BY <1>1, <1>5 DEF Done, Seen, Retried, JobState, Finished, Unknown, RetryAll
  <2> QED
    BY <2>1
<1>7. CASE ids = <<>>
  <2>1. req' = Answered(req, 204)
    BY <1>2, <1>7
  <2> QED
    BY <1>1, <1>3, <1>4, <2>1, AnsweredHarmless DEF BoardInv
<1>8. CASE ids # <<>>
  <2> HIDE DEF q, d
  <2> DEFINE x1 == [phase |-> "applying", op |-> req.op, bulk |-> req.bulk,
                    queue |-> req.queue, ids |-> req.ids, seen |-> req.seen,
                    did |-> req.did, answer |-> req.answer]
             x2 == [phase |-> "applying", op |-> "retry", bulk |-> req.bulk,
                    queue |-> req.queue, ids |-> req.ids, seen |-> req.seen,
                    did |-> req.did, answer |-> req.answer]
             x3 == [phase |-> "applying", op |-> "retry", bulk |-> req.bulk,
                    queue |-> req.queue, ids |-> ids, seen |-> req.seen,
                    did |-> req.did, answer |-> req.answer]
             x4 == [phase |-> "applying", op |-> "retry", bulk |-> req.bulk,
                    queue |-> req.queue, ids |-> ids, seen |-> q,
                    did |-> req.did, answer |-> req.answer]
  <2>1. req' = [req EXCEPT !.phase = "applying", !.op = "retry", !.ids = ids,
                           !.seen = q, !.did = d]
    BY <1>2, <1>8 DEF q, d
  <2>2. [req EXCEPT !.phase = "applying"] = x1
    BY <1>3, PhaseSet DEF With
  <2>3. [x1 EXCEPT !.op = "retry"] = x2
    OBVIOUS
  <2>4. [x2 EXCEPT !.ids = ids] = x3
    OBVIOUS
  <2>5. [x3 EXCEPT !.seen = q] = x4
    OBVIOUS
  <2>6. [x4 EXCEPT !.did = d] = r
    OBVIOUS
  <2>7. /\ r \in Requests
        /\ r.phase = "applying" /\ r.op = "retry" /\ r.bulk = req.bulk
        /\ r.queue = req.queue /\ r.ids = ids /\ r.seen = q /\ r.answer = 0
    <3>1. /\ "applying" \in Phases /\ "retry" \in JobOp
          /\ req.bulk \in BOOLEAN /\ req.queue \in Adapters \cup {Nothing}
          /\ req.answer \in Answers
      BY <1>3, Fields DEF Phases, JobOp
    <3> QED
      BY <1>4, <1>5, <1>6, <3>1 DEF Requests, Shapes
  <2> HIDE DEF x1, x2, x3, x4, r
  <2>8. req' = r
    BY <2>1, <2>2, <2>3, <2>4, <2>5, <2>6, Zenon
  <2>9. Earned(r) /\ Remembers(r, checked)
    BY <1>1, <1>4, <1>6, <2>7 DEF Earned, Permitted, RetryAll, Remembers
  <2>10. Harmless(r, changed, requeued, checked)
    BY <1>3, <1>4, <2>7 DEF Harmless
  <2> QED
    BY <1>1, <2>7, <2>8, <2>9, <2>10 DEF BoardInv, Sound
<1> QED
  BY <1>7, <1>8

(* obliterate pauses the queue, with the permission that it has.            *)
LEMMA PauseFirstInv ==
  ASSUME BoardInv, PauseFirst
  PROVE  BoardInv'
<1>1. /\ req.phase = "pausing" /\ req' = [req EXCEPT !.phase = "whole"]
      /\ paused' = TRUE /\ changed' = TRUE
      /\ UNCHANGED <<board, state, checked, requeued>>
  BY DEF PauseFirst
<1>2. req \in Requests /\ Earned(req) /\ Harmless(req, changed, requeued, checked)
  BY <1>1, InProgress
<1>3. /\ req' \in Requests /\ req'.phase = "whole" /\ req'.op = req.op
      /\ req'.bulk = req.bulk /\ req'.queue = req.queue
      /\ req'.answer = req.answer
  BY <1>1, <1>2, GoesOn DEF Phases
<1>4. Sound(req', changed', requeued', checked')
  BY <1>1, <1>2, <1>3 DEF Sound, Earned, Harmless, Permitted, Remembers
<1> QED
  BY <1>1, <1>3, <1>4 DEF BoardInv

(* A call about the whole queue changes it, with the permission that it has.*)
LEMMA ScriptInv ==
  ASSUME BoardInv, NEW J \in SUBSET Job, NEW last \in BOOLEAN, Script(J, last)
  PROVE  BoardInv'
<1>1. /\ req.phase = "whole" /\ req.op \in QueueOp
      /\ \E to \in Lands(req.op) :
           state' = [j \in Job |-> IF j \in J THEN to ELSE state[j]]
      /\ paused' = IF req.op = "pause" THEN TRUE
                   ELSE IF req.op \in {"resume", "obliterate"} /\ last
                   THEN FALSE ELSE paused
      /\ changed' = TRUE
      /\ req' = IF last THEN [req EXCEPT !.phase = "ending"] ELSE req
      /\ UNCHANGED <<board, checked, requeued>>
  BY DEF Script
<1>2. req \in Requests /\ Earned(req) /\ Harmless(req, changed, requeued, checked)
  BY <1>1, InProgress
<1>3. state' \in [Job -> JobState] /\ paused' \in BOOLEAN
  BY <1>1 DEF BoardInv, Lands, JobState
<1>4. /\ req' \in Requests /\ req'.phase \in {"whole", "ending"}
      /\ req'.op = req.op /\ req'.bulk = req.bulk /\ req'.queue = req.queue
      /\ req'.answer = req.answer
  BY <1>1, <1>2, GoesOn DEF Phases
<1>5. Sound(req', changed', requeued', checked')
  BY <1>1, <1>2, <1>4 DEF Sound, Earned, Harmless, Permitted, Remembers
<1> QED
  BY <1>1, <1>3, <1>4, <1>5 DEF BoardInv

(* The answer comes once the work is done, or when a call has thrown.       *)
LEMMA EndsInv ==
  ASSUME BoardInv, Ends \/ Throws
  PROVE  BoardInv'
<1>1. /\ req.phase \in Phases \ {"done"}
      /\ req' = Answered(req, 204) \/ req' = Answered(req, 500)
      /\ UNCHANGED <<board, state, paused, changed, checked, requeued>>
  BY DEF Ends, Throws, Phases, queueVars, historyVars
<1>2. req \in Requests /\ Harmless(req, changed, requeued, checked)
  BY <1>1, InProgress DEF Phases
<1>3. req' \in Requests /\ Sound(req', changed, requeued, checked)
  BY <1>1, <1>2, AnsweredHarmless
<1> QED
  BY <1>1, <1>3 DEF BoardInv

(* Every step keeps the invariant.                                          *)
LEMMA BoardNextInv == BoardInv /\ [BoardNext]_boardVars => BoardInv'
<1> SUFFICES ASSUME BoardInv, [BoardNext]_boardVars
             PROVE  BoardInv'
  OBVIOUS
<1>1. CASE \/ \E a \in Adapters \cup {Nothing} : SetQueue(a)
           \/ \E j \in Job, to \in JobState : Elsewhere(j, to)
           \/ OthersPause
  BY <1>1, OthersInv
<1>2. ASSUME NEW op \in JobOp, NEW ids \in Ids, NEW bulk \in BOOLEAN,
             bulk \/ Len(ids) = 1, Arrive(op, bulk, ids)
      PROVE  BoardInv'
  <2>1. ids \in Seq(Job)
    <3>1. \/ \E j \in Job : ids = <<j>>
          \/ \E j, k \in Job : ids = <<j, k>>
      BY DEF Ids
    <3>2. /\ \A j \in Job : <<j>> \in Seq(Job)
          /\ \A j, k \in Job : <<j, k>> \in Seq(Job)
      OBVIOUS
    <3> QED
      BY <3>1, <3>2
  <2>2. ~bulk => DOMAIN ids = {1}
    BY <1>2, <2>1
  <2> QED
    BY <1>2, <2>1, <2>2, ArriveInv
<1>3. ASSUME NEW op \in QueueOp \cup RetryAll, Arrive(op, FALSE, <<>>)
      PROVE  BoardInv'
  <2>1. <<>> \in Seq(Job) /\ op \notin JobOp
    BY DEF QueueOp, CleanOp, Cleaned, RetryAll, JobOp
  <2> QED
    BY <1>3, <2>1, ArriveInv
<1>4. ASSUME NEW n, Find(n) \/ Check(n) \/ Reread(n) \/ Apply(n)
      PROVE  BoardInv'
  BY <1>4, FindInv, CheckInv, RereadInv, ApplyInv
<1>5. CASE ListJobs
  BY <1>5, ListJobsInv
<1>6. CASE PauseFirst
  BY <1>6, PauseFirstInv
<1>7. ASSUME NEW J \in SUBSET Job, NEW last \in BOOLEAN, Script(J, last)
      PROVE  BoardInv'
  BY <1>7, ScriptInv
<1>8. CASE Ends \/ Throws
  BY <1>8, EndsInv
<1>9. CASE UNCHANGED boardVars
  BY <1>9 DEF boardVars, queueVars, historyVars, BoardInv
<1> QED
  BY <1>1, <1>2, <1>3, <1>4, <1>5, <1>6, <1>7, <1>8, <1>9 DEF BoardNext

(* For every set of jobs: what the board knows of a request, and what it    *)
(* may have changed, in each phase of handlers/ and queue-adapters/.        *)
THEOREM BoardInvariance == BoardSpec => []BoardInv
<1>1. BoardInit => BoardInv
  BY BoardInitInv
<1>2. BoardInv /\ [BoardNext]_boardVars => BoardInv'
  BY BoardNextInv
<1> QED
  BY <1>1, <1>2, PTL DEF BoardSpec

(* Handlers, workers and other clients keep the queue, the adapters and the *)
(* answers well formed.                                                     *)
THEOREM BoardTypeCorrect == BoardSpec => []BoardTypeOK
<1>1. BoardInv => BoardTypeOK
  <2>1. \A r \in Requests : r.phase \in Phases /\ r.answer \in Answers
    BY Fields
  <2> QED
    BY <2>1 DEF BoardInv, BoardTypeOK, Idle, Phases, Answers
<1> QED
  BY <1>1, BoardInvariance, PTL

(* A request answered 4xx changed nothing: the handlers look all ids up and *)
(* check all states before they touch the first job.                        *)
THEOREM RefusedLeaveTheQueue == BoardSpec => []RefusedChangesNothing
<1>1. BoardInv => RefusedChangesNothing
  BY DEF BoardInv, RefusedChangesNothing, Sound, Harmless, Idle
<1> QED
  BY <1>1, BoardInvariance, PTL

(* A request keeps to the options of the adapter it found, but for the job  *)
(* that a bulk retry saw failed and finds completed when it reads again.    *)
THEOREM OptionsAreKept == BoardSpec => []OptionsHold
<1>1. BoardInv => OptionsHold
  BY DEF BoardInv, OptionsHold, Sound, Harmless
<1> QED
  BY <1>1, BoardInvariance, PTL
=============================================================================
