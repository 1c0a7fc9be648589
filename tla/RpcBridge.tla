------------------------------- MODULE RpcBridge -------------------------------
(***************************************************************************)
(* Live requests to one connector: the web app's callGatewayRpc, the       *)
(* gateway's /internal/rpc handler (internal-api.ts), the pending calls of *)
(* each session (session-registry.ts, handle-connector-connection.ts), the *)
(* request and response frames, and the connector that executes them       *)
(* (connect.ts, execute-request.ts), with sessions that close or are       *)
(* replaced, timeouts, aborted callers and dying processes.                *)
(*                                                                         *)
(* GatewaySessions has the handshake; here a session begins in one step,   *)
(* with its socket already closed when it closed during the handshake.     *)
(* Frames are independent of each other and are kept as sets.  A frame on  *)
(* a broken socket may still arrive or never does; no fairness is assumed. *)
(*                                                                         *)
(* What a request does is the subject of Board; here it checks, and then   *)
(* makes a change for each p in Part, all awaited together (Promise.all in *)
(* apply-bulk-job-action.ts and retry-queue-jobs.ts; others make one, or   *)
(* one after the other and stop at an error: the rest are then refused).   *)
(* A request that only reads is one whose change changes nothing.          *)
(***************************************************************************)
EXTENDS Naturals

CONSTANTS
  Rpc,      \* requests; each has its own id (randomUUID)
  Part,     \* the changes a request makes
  Socket,   \* sockets of the connector's successive sessions
  None

ASSUME RpcAssumption == None \notin Socket

VARIABLES
  web,        \* what the caller of callGatewayRpc got
  http,       \* the POST /internal/rpc at the gateway and its answer
  via,        \* the session a request was forwarded to, or None
  ws,         \* per socket, the gateway's end
  peer,       \* per socket, the connector's end
  reg,        \* the registered session, or None
  pending,    \* session.pendingRpc of each session
  timers,     \* requests whose timeout is armed
  requests,   \* request frames under way: <<socket, rpc>>
  checking,   \* handlers that have changed nothing yet: <<socket, rpc>>
  applying,   \* handlers whose changes are under way: <<socket, rpc>>
  calls,      \* changes asked of BullMQ and not settled: <<rpc, part>>
  responses,  \* response frames under way
  executed    \* how often each change took effect

webVars == <<web>>
gatewayVars == <<http, via, ws, reg, pending, timers>>
workVars == <<checking, applying, calls, executed>>
connectorVars == <<peer, workVars>>
vars == <<webVars, gatewayVars, connectorVars, requests, responses>>

(* A response's status is 2xx, 4xx or 500.                                  *)
Status == {"ok", "rejected", "failed"}

Answer == Status \cup {"refused", "disconnected", "timeout", "lost"}

Response == [sock : Socket, rpc : Rpc, status : Status]

(* What the caller is told: both 502s read 'connector disconnected'.        *)
Told(a) ==
  IF a = "refused" THEN "disconnected"
  ELSE IF a = "lost" THEN "unreachable" ELSE a

-----------------------------------------------------------------------------
Init ==
  /\ web = [r \in Rpc |-> "none"]
  /\ http = [r \in Rpc |-> "none"]
  /\ via = [r \in Rpc |-> None]
  /\ ws = [s \in Socket |-> "new"]
  /\ peer = [s \in Socket |-> "new"]
  /\ reg = None
  /\ pending = [s \in Socket |-> {}]
  /\ timers = {}
  /\ requests = {}
  /\ checking = {} /\ applying = {} /\ calls = {}
  /\ responses = {}
  /\ executed = [r \in Rpc |-> [p \in Part |-> 0]]

(* callGatewayRpc posts the request.                                        *)
Post(r) ==
  /\ web[r] = "none"
  /\ web' = [web EXCEPT ![r] = "waiting"]
  /\ http' = [http EXCEPT ![r] = "posted"]
  /\ UNCHANGED <<via, ws, reg, pending, timers, connectorVars, requests,
                 responses>>

Reachable == reg # None /\ ws[reg] = "open"

(* Faulty variant: the request waits for the next session.                  *)
RefuseQueues(r) ==
  /\ http[r] = "posted"
  /\ ~Reachable
  /\ http' = [http EXCEPT ![r] = "refused"]
  /\ requests' = requests \cup (Socket \X {r})
  /\ UNCHANGED <<webVars, via, ws, reg, pending, timers, connectorVars,
                 responses>>

(* handleRpc without an open session: 502 at once.                          *)
Refuse(r) ==
  /\ http[r] = "posted"
  /\ ~Reachable
  /\ http' = [http EXCEPT ![r] = "refused"]
  /\ UNCHANGED <<webVars, via, ws, reg, pending, timers, connectorVars,
                 requests, responses>>

(* handleRpc: arm the timer, register the pending call, send the frame.     *)
Forward(r) ==
  /\ http[r] = "posted"
  /\ Reachable
  /\ http' = [http EXCEPT ![r] = "waiting"]
  /\ via' = [via EXCEPT ![r] = reg]
  /\ pending' = [pending EXCEPT ![reg] = @ \cup {r}]
  /\ timers' = timers \cup {r}
  /\ requests' = requests \cup {<<reg, r>>}
  /\ UNCHANGED <<webVars, ws, reg, connectorVars, responses>>

(* Faulty variant: the timer of a settled call stays armed.                 *)
SettleKeepsTimer(s, R, a) ==
  /\ http' = [r \in Rpc |-> IF r \in R THEN a ELSE http[r]]
  /\ pending' = [pending EXCEPT ![s] = @ \ R]
  /\ UNCHANGED timers

(* The POST of every pending request in R, all on session s, is answered a. *)
Settle(s, R, a) ==
  /\ http' = [r \in Rpc |-> IF r \in R THEN a ELSE http[r]]
  /\ pending' = [pending EXCEPT ![s] = @ \ R]
  /\ timers' = timers \ R

(* The callback of ws.send reports an error; the frame is not sent.         *)
SendFails(s, r) ==
  /\ <<s, r>> \in requests
  /\ requests' = requests \ {<<s, r>>}
  /\ Settle(s, {r} \cap pending[s], "disconnected")
  /\ UNCHANGED <<webVars, via, ws, reg, connectorVars, responses>>

(* rpcTimeoutMs pass: 504.                                                  *)
Timeout(r) ==
  /\ r \in timers
  /\ Settle(via[r], {r}, "timeout")
  /\ UNCHANGED <<webVars, via, ws, reg, connectorVars, requests, responses>>

(* Faulty variant: the response resolves the call without looking it up.    *)
ResponseSettlesAnyway(x) ==
  /\ ws[x.sock] \in {"open", "closing"}
  /\ responses' = responses \ {x}
  /\ Settle(x.sock, {x.rpc}, x.status)
  /\ UNCHANGED <<webVars, via, ws, reg, connectorVars, requests>>

(* handleFrame on `response`: resolves the call if it is still pending.     *)
ResponseArrives(x) ==
  /\ ws[x.sock] \in {"open", "closing"}
  /\ responses' = responses \ {x}
  /\ Settle(x.sock, {x.rpc} \cap pending[x.sock], x.status)
  /\ UNCHANGED <<webVars, via, ws, reg, connectorVars, requests>>

-----------------------------------------------------------------------------
(* A session is registered; the one it replaces is closed.  Its own socket  *)
(* may have closed while its token was looked up.                           *)
Register(s, state) ==
  /\ ws[s] = "new"
  /\ peer' = [peer EXCEPT ![s] = state]
  /\ reg' = s
  /\ ws' = [t \in Socket |-> IF t = s THEN state
                             ELSE IF t = reg /\ ws[t] = "open" THEN "closing"
                             ELSE ws[t]]
  /\ UNCHANGED <<webVars, http, via, pending, timers, workVars, requests,
                 responses>>

(* The gateway terminates the socket or begins its shutdown.                *)
StartClosing(s) ==
  /\ ws[s] = "open"
  /\ ws' = [ws EXCEPT ![s] = "closing"]
  /\ UNCHANGED <<webVars, http, via, reg, pending, timers, connectorVars,
                 requests, responses>>

(* 'close': rejectAllPendingRpc, deleteIfCurrent.                           *)
CloseEvent(s) ==
  /\ ws[s] \in {"open", "closing"}
  /\ ws' = [ws EXCEPT ![s] = "closed"]
  /\ Settle(s, pending[s], "disconnected")
  /\ reg' = IF reg = s THEN None ELSE reg
  /\ UNCHANGED <<webVars, via, connectorVars, requests, responses>>

(* The gateway process exits: its sockets and the POSTs it holds break.     *)
GatewayDies ==
  /\ ws' = [s \in Socket |-> IF ws[s] = "new" THEN "new" ELSE "closed"]
  /\ reg' = None
  /\ pending' = [s \in Socket |-> {}]
  /\ timers' = {}
  /\ http' = [r \in Rpc |-> IF http[r] \in {"posted", "waiting"}
                            THEN "lost" ELSE http[r]]
  /\ UNCHANGED <<webVars, via, connectorVars, requests, responses>>

-----------------------------------------------------------------------------
(* The connector's end of the socket closes (peer, network, watchdog).      *)
PeerCloses(s) ==
  /\ peer[s] = "open"
  /\ peer' = [peer EXCEPT ![s] = "closed"]
  /\ UNCHANGED <<webVars, gatewayVars, workVars, requests, responses>>

(* A request frame reaches the connector: executeRequest starts.            *)
RequestArrives(s, r) ==
  /\ <<s, r>> \in requests
  /\ peer[s] = "open"
  /\ requests' = requests \ {<<s, r>>}
  /\ checking' = checking \cup {<<s, r>>}
  /\ UNCHANGED <<webVars, gatewayVars, peer, applying, calls, executed,
                 responses>>

(* The handler has checked what it checks, and asks for all of its changes. *)
Applies(s, r) ==
  /\ <<s, r>> \in checking
  /\ checking' = checking \ {<<s, r>>}
  /\ applying' = applying \cup {<<s, r>>}
  /\ calls' = calls \cup ({r} \X Part)
  /\ UNCHANGED <<webVars, gatewayVars, peer, executed, requests, responses>>

(* A change takes effect, or it is refused or never reaches Redis; whether  *)
(* its handler still waits for it or not.                                   *)
CallEnds(r, p) ==
  /\ <<r, p>> \in calls
  /\ calls' = calls \ {<<r, p>>}
  /\ \E n \in {0, 1} : executed' = [executed EXCEPT ![r][p] = @ + n]
  /\ UNCHANGED <<webVars, gatewayVars, peer, checking, applying, requests,
                 responses>>

(* Faulty variant: Promise.race in place of Promise.all.                    *)
MayEndFirst(s, r, status) ==
  \/ status \in {"rejected", "failed"} /\ <<s, r>> \in checking
  \/ /\ status = "failed" /\ <<s, r>> \in applying
     /\ \E p \in Part : <<r, p>> \notin calls
  \/ /\ status = "ok" /\ <<s, r>> \in applying
     /\ \E p \in Part : <<r, p>> \notin calls /\ executed[r][p] > 0

(* What executeRequest may settle with: 4xx from a handler's checks, 2xx    *)
(* when all of its changes were made, and 500 at its first error, which may *)
(* be the answer to a change that was made: Promise.all does not wait for   *)
(* the others.                                                              *)
MayEnd(s, r, status) ==
  \/ status \in {"rejected", "failed"} /\ <<s, r>> \in checking
  \/ /\ status = "failed" /\ <<s, r>> \in applying
     /\ \E p \in Part : <<r, p>> \notin calls
  \/ /\ status = "ok" /\ <<s, r>> \in applying
     /\ \A p \in Part : <<r, p>> \notin calls /\ executed[r][p] > 0

(* The response goes out on the socket the request came from, if that is    *)
(* still open.                                                              *)
HandlerEnds(s, r, status) ==
  /\ MayEnd(s, r, status)
  /\ checking' = checking \ {<<s, r>>}
  /\ applying' = applying \ {<<s, r>>}
  /\ LET x == [sock |-> s, rpc |-> r, status |-> status]
     IN responses' = IF peer[s] = "open" THEN responses \cup {x} ELSE responses
  /\ UNCHANGED <<webVars, gatewayVars, peer, calls, executed, requests>>

(* The connector process dies; what it asked of Redis may still take effect.*)
ConnectorDies ==
  /\ checking' = {} /\ applying' = {}
  /\ peer' = [s \in Socket |-> IF peer[s] = "open" THEN "closed" ELSE peer[s]]
  /\ UNCHANGED <<webVars, gatewayVars, calls, executed, requests, responses>>

-----------------------------------------------------------------------------
(* The gateway's answer, or the end of its connection, reaches the caller.  *)
WebAnswer(r) ==
  /\ web[r] = "waiting"
  /\ http[r] \in Answer
  /\ web' = [web EXCEPT ![r] = Told(http[r])]
  /\ UNCHANGED <<gatewayVars, connectorVars, requests, responses>>

(* AbortSignal.timeout, or a broken connection: 'gateway unreachable'.      *)
(* The gateway is not told, and may not even have read the POST.            *)
WebAborts(r) ==
  /\ web[r] = "waiting"
  /\ web' = [web EXCEPT ![r] = "unreachable"]
  /\ UNCHANGED <<gatewayVars, connectorVars, requests, responses>>

Next ==
  \/ \E r \in Rpc : \/ Post(r) \/ Refuse(r) \/ Forward(r) \/ Timeout(r)
                    \/ WebAnswer(r) \/ WebAborts(r)
                    \/ \E p \in Part : CallEnds(r, p)
  \/ \E s \in Socket, r \in Rpc :
       \/ SendFails(s, r) \/ RequestArrives(s, r) \/ Applies(s, r)
       \/ \E status \in Status : HandlerEnds(s, r, status)
  \/ \E x \in responses : ResponseArrives(x)
  \/ \E s \in Socket : \/ StartClosing(s) \/ CloseEvent(s) \/ PeerCloses(s)
                       \/ \E state \in {"open", "closed"} : Register(s, state)
  \/ GatewayDies \/ ConnectorDies

Spec == Init /\ [][Next]_vars

-----------------------------------------------------------------------------
(* Every variable has its type.                                             *)
TypeOK ==
  /\ web \in [Rpc -> Status \cup {"none", "waiting", "disconnected",
                                  "timeout", "unreachable"}]
  /\ http \in [Rpc -> {"none", "posted", "waiting"} \cup Answer]
  /\ via \in [Rpc -> Socket \cup {None}]
  /\ ws \in [Socket -> {"new", "open", "closing", "closed"}]
  /\ peer \in [Socket -> {"new", "open", "closed"}]
  /\ reg \in Socket \cup {None}
  /\ pending \in [Socket -> SUBSET Rpc]
  /\ timers \subseteq Rpc
  /\ requests \subseteq Socket \X Rpc
  /\ checking \subseteq Socket \X Rpc /\ applying \subseteq Socket \X Rpc
  /\ calls \subseteq Rpc \X Part
  /\ responses \subseteq Response
  /\ executed \in [Rpc -> [Part -> Nat]]

(* A POST the gateway holds has exactly one entry, in the session it was    *)
(* forwarded to, and an armed timer; nothing else has either; and a session *)
(* whose socket has closed keeps no entry.  So no caller waits on a dead    *)
(* session beyond its timeout, and no entry or timer leaks.                 *)
CallsAreTracked ==
  /\ \A s \in Socket : pending[s] = {r \in Rpc : http[r] = "waiting"
                                                  /\ via[r] = s}
  /\ timers = {r \in Rpc : http[r] = "waiting"}
  /\ \A s \in Socket : ws[s] \in {"new", "closed"} => pending[s] = {}

(* "Live mutations are never queued" (packages/protocol/README.md:24): a    *)
(* request refused because no session was open is never executed later, on  *)
(* whatever session follows.                                                *)
RefusedNeverRuns ==
  \A r \in Rpc, p \in Part : http[r] = "refused" => executed[r][p] = 0

(* A POST is answered once: a response that arrives after the timeout, a    *)
(* close after a response, a send error after a close change nothing.       *)
AnsweredOnce ==
  [][\A r \in Rpc : http[r] \in Answer => http'[r] = http[r]]_vars

(* The bridge keeps the promise of RpcCall.                                 *)
AbstractCall == INSTANCE RpcCall WITH
                  Call <- Rpc, answer <- web, runs <- executed
ImplementsCall == AbstractCall!Spec
=============================================================================
