---------------------------- MODULE GatewaySessions ----------------------------
(***************************************************************************)
(* Connector sessions at the gateway (handle-connector-connection.ts,      *)
(* session-registry.ts, start-gateway.ts): the hello handshake with its    *)
(* asynchronous token lookup, the registry of one session per connector,   *)
(* replacement, heartbeat, close, and the connection stamps the gateway    *)
(* writes to Convex without waiting for them (connectors.ts).              *)
(*                                                                         *)
(* Sockets are numbered in the order the gateway accepts them.  Queries    *)
(* run concurrently; mutations run in call order, because ConvexHttpClient *)
(* queues them.  The two stamps of a connector row are reduced to which of *)
(* them is the later one.                                                  *)
(***************************************************************************)
EXTENDS Integers, Sequences, FiniteSets

CONSTANTS
  Conn,          \* connector ids
  None,
  MaxSockets,    \* bound: sockets accepted
  MaxFailures    \* bound: failed calls to Convex, and gateway exits

ASSUME SessionsAssumption ==
  /\ None \notin Conn \cup 1 .. MaxSockets
  /\ MaxSockets \in Nat
  /\ MaxFailures \in Nat

Socket == 1 .. MaxSockets

VARIABLES
  ws,         \* per socket its readyState; "closed" once 'close' was emitted
  stage,      \* how far handleHello got with the socket
  claim,      \* the connector whose token the socket presented
  found,      \* the answer of its lookup query
  timer,      \* is its hello timer set?
  beating,    \* does its heartbeat interval run?
  silent,     \* has its peer vanished without closing?
  early,      \* did it close before its session was registered? (history)
  reg,        \* the registry: the session of each connector, or None
  calls,      \* markConnected and markDisconnected calls not yet run
  exists,     \* does the connector still have a row?
  stamp,      \* which connection stamp of the row is the later one
  missed,     \* has a connector's last change not been stamped? (history)
  draining,   \* is the gateway shutting down?
  failures

socketVars == <<ws, stage, claim, found, timer, beating, silent, early>>
hubVars == <<calls, exists, stamp, missed>>
vars == <<socketVars, reg, hubVars, draining, failures>>

Live(s) == ws[s] \in {"open", "closing"}

(* ws.close() on the sockets of S: those OPEN start their closing handshake.*)
Closing(S) == [s \in Socket |-> IF s \in S /\ ws[s] = "open"
                                THEN "closing" ELSE ws[s]]

Call(op, c) == [op |-> op, conn |-> c]

(* A stamp of c is still to be written.                                     *)
Due(c) == \E n \in 1 .. Len(calls) : calls[n].conn = c

-----------------------------------------------------------------------------
Init ==
  /\ ws = [s \in Socket |-> "none"]
  /\ stage = [s \in Socket |-> "hello"]
  /\ claim = [s \in Socket |-> None]
  /\ found = [s \in Socket |-> FALSE]
  /\ timer = [s \in Socket |-> FALSE]
  /\ beating = [s \in Socket |-> FALSE]
  /\ silent = [s \in Socket |-> FALSE]
  /\ early = [s \in Socket |-> FALSE]
  /\ reg = [c \in Conn |-> None]
  /\ calls = <<>>
  /\ exists = [c \in Conn |-> TRUE]
  /\ stamp = [c \in Conn |-> "none"]
  /\ missed = [c \in Conn |-> FALSE]
  /\ draining = FALSE
  /\ failures = 0

(* wss 'connection': listeners and the hello timer are set.                 *)
Accept(s) ==
  /\ ~draining
  /\ ws[s] = "none"
  /\ \A t \in Socket : t < s => ws[t] # "none"
  /\ ws' = [ws EXCEPT ![s] = "open"]
  /\ timer' = [timer EXCEPT ![s] = TRUE]
  /\ UNCHANGED <<stage, claim, found, beating, silent, early, reg, hubVars,
                 draining, failures>>

(* Faulty variant: the error frame is sent and the socket left open.        *)
HelloTimeoutLeavesOpen(s) ==
  /\ timer[s]
  /\ timer' = [timer EXCEPT ![s] = FALSE]
  /\ UNCHANGED <<ws, stage, claim, found, beating, silent, early, reg, hubVars,
                 draining, failures>>

(* The hello timer fires: hello_error, close(4002).  The message listener   *)
(* stays, so a hello already under way is still handled.                    *)
HelloTimeout(s) ==
  /\ timer[s]
  /\ timer' = [timer EXCEPT ![s] = FALSE]
  /\ ws' = Closing({s})
  /\ UNCHANGED <<stage, claim, found, beating, silent, early, reg, hubVars,
                 draining, failures>>

(* The first message is a hello: the token lookup starts.  A token no       *)
(* connector has is None.                                                   *)
HelloArrives(s, c) ==
  /\ Live(s) /\ ~silent[s]
  /\ stage[s] = "hello"
  /\ timer' = [timer EXCEPT ![s] = FALSE]
  /\ stage' = [stage EXCEPT ![s] = "looking"]
  /\ claim' = [claim EXCEPT ![s] = c]
  /\ UNCHANGED <<ws, found, beating, silent, early, reg, hubVars, draining,
                 failures>>

(* The first message is anything else: hello_error, close(4002).            *)
BadHello(s) ==
  /\ Live(s) /\ ~silent[s]
  /\ stage[s] = "hello"
  /\ timer' = [timer EXCEPT ![s] = FALSE]
  /\ stage' = [stage EXCEPT ![s] = "rejected"]
  /\ ws' = Closing({s})
  /\ UNCHANGED <<claim, found, beating, silent, early, reg, hubVars, draining,
                 failures>>

(* Convex evaluates findByEnrollmentTokenHash.                              *)
LookupRuns(s) ==
  /\ stage[s] = "looking"
  /\ stage' = [stage EXCEPT ![s] = "answered"]
  /\ found' = [found EXCEPT ![s] = claim[s] # None /\ exists[claim[s]]]
  /\ UNCHANGED <<ws, claim, timer, beating, silent, early, reg, hubVars,
                 draining, failures>>

(* The lookup throws, or answers null: hello_error, close.                  *)
LookupFails(s) ==
  /\ stage[s] = "looking"
  /\ failures < MaxFailures
  /\ failures' = failures + 1
  /\ stage' = [stage EXCEPT ![s] = "rejected"]
  /\ ws' = Closing({s})
  /\ UNCHANGED <<claim, found, timer, beating, silent, early, reg, hubVars,
                 draining>>

Unauthorized(s) ==
  /\ stage[s] = "answered"
  /\ ~found[s]
  /\ stage' = [stage EXCEPT ![s] = "rejected"]
  /\ ws' = Closing({s})
  /\ UNCHANGED <<claim, found, timer, beating, silent, early, reg, hubVars,
                 draining, failures>>

(* registry.set: the sockets whose session the new one replaces.            *)
Replaced(c) == {t \in Socket : reg[c] = t}

(* The lookup answers a connector: register, close the previous session     *)
(* with 4000, hello_ack, markConnected, session handlers.  Nothing checks   *)
(* that the socket is still open.                                           *)
Register(s) ==
  /\ stage[s] = "answered"
  /\ found[s]
  /\ stage' = [stage EXCEPT ![s] = "session"]
  /\ reg' = [reg EXCEPT ![claim[s]] = s]
  /\ ws' = Closing(Replaced(claim[s]))
  /\ calls' = Append(calls, Call("connected", claim[s]))
  /\ beating' = [beating EXCEPT ![s] = TRUE]
  /\ UNCHANGED <<claim, found, timer, silent, early, exists, stamp, missed,
                 draining, failures>>

(* Faulty variants: whatever session is registered goes; only a socket that *)
(* is still OPEN deregisters.                                               *)
IsCurrentAny(s) == claim[s] # None /\ reg[claim[s]] # None

IsCurrentOpen(s) == claim[s] # None /\ reg[claim[s]] = s /\ ws[s] = "open"

(* deleteIfCurrent: is s the registered session?                            *)
IsCurrent(s) == claim[s] # None /\ reg[claim[s]] = s

(* Faulty variant: the result of deleteIfCurrent is ignored.                *)
DeregisterAlways(s) ==
  /\ reg' = IF IsCurrent(s) THEN [reg EXCEPT ![claim[s]] = None] ELSE reg
  /\ calls' = Append(calls, Call("disconnected", claim[s]))

Deregister(s) ==
  IF IsCurrent(s)
  THEN /\ reg' = [reg EXCEPT ![claim[s]] = None]
       /\ calls' = Append(calls, Call("disconnected", claim[s]))
  ELSE UNCHANGED <<reg, calls>>

(* 'close': the hello timer is cleared; if the session handlers are there,  *)
(* the heartbeat stops and the current session is removed and stamped.      *)
CloseEvent(s) ==
  /\ ws' = [ws EXCEPT ![s] = "closed"]
  /\ timer' = [timer EXCEPT ![s] = FALSE]
  /\ early' = [early EXCEPT ![s] = stage[s] # "session"]
  /\ beating' = [beating EXCEPT ![s] = FALSE]
  /\ IF stage[s] = "session" THEN Deregister(s) ELSE UNCHANGED <<reg, calls>>
  /\ UNCHANGED <<stage, claim, found, silent, exists, stamp, missed, draining,
                 failures>>

(* The peer closes, the network resets, or a closing handshake ends (ws     *)
(* gives up on one after its own timeout).                                  *)
SocketCloses(s) == Live(s) /\ CloseEvent(s)

(* The peer disappears: no close frame, no reset, no pong.                  *)
PeerVanishes(s) ==
  /\ ws[s] = "open"
  /\ ~silent[s]
  /\ silent' = [silent EXCEPT ![s] = TRUE]
  /\ UNCHANGED <<ws, stage, claim, found, timer, beating, early, reg, hubVars,
                 draining, failures>>

(* Two heartbeat intervals without a pong: ws.terminate().                  *)
HeartbeatTerminates(s) ==
  /\ beating[s]
  /\ silent[s]
  /\ Live(s)
  /\ CloseEvent(s)

-----------------------------------------------------------------------------
(* Convex runs the next stamp mutation.  markConnected throws, and          *)
(* markDisconnected returns, when the row is gone.                          *)
RunCall ==
  /\ calls # <<>>
  /\ stamp' = IF exists[Head(calls).conn]
              THEN [stamp EXCEPT ![Head(calls).conn] = Head(calls).op]
              ELSE stamp
  /\ missed' = [missed EXCEPT ![Head(calls).conn] = FALSE]
  /\ calls' = Tail(calls)
  /\ UNCHANGED <<socketVars, reg, exists, draining, failures>>

(* The call fails; the error is logged and nothing retries.                 *)
CallFails ==
  /\ calls # <<>>
  /\ failures < MaxFailures
  /\ failures' = failures + 1
  /\ missed' = [missed EXCEPT ![Head(calls).conn] = TRUE]
  /\ calls' = Tail(calls)
  /\ UNCHANGED <<socketVars, reg, exists, stamp, draining>>

(* removeConnector: the row goes; the gateway is not told.                  *)
RemoveConnector(c) ==
  /\ exists[c]
  /\ exists' = [exists EXCEPT ![c] = FALSE]
  /\ UNCHANGED <<socketVars, reg, calls, stamp, missed, draining, failures>>

(* closeGateway: close(1001) to every client; no more upgrades.             *)
Drain ==
  /\ ~draining
  /\ failures < MaxFailures
  /\ draining' = TRUE
  /\ ws' = Closing(Socket)
  /\ UNCHANGED <<stage, claim, found, timer, beating, silent, early, reg,
                 hubVars, failures>>

(* The process exits: after a drain once every client is gone, or at any    *)
(* time in a crash.  Calls not yet run are lost, and nobody stamps the      *)
(* sessions that end with it; a new process starts.                         *)
Exit ==
  /\ failures < MaxFailures
  /\ draining => \A s \in Socket : ~Live(s)
  /\ failures' = failures + 1
  /\ ws' = [s \in Socket |-> IF Live(s) THEN "closed" ELSE ws[s]]
  /\ stage' = [s \in Socket |-> IF ws[s] = "none" THEN "hello" ELSE "rejected"]
  /\ timer' = [s \in Socket |-> FALSE]
  /\ beating' = [s \in Socket |-> FALSE]
  /\ reg' = [c \in Conn |-> None]
  /\ missed' = [c \in Conn |-> missed[c] \/ Due(c) \/ reg[c] # None]
  /\ calls' = <<>>
  /\ draining' = FALSE
  /\ UNCHANGED <<claim, found, silent, early, exists, stamp>>

Next ==
  \/ \E s \in Socket :
       \/ Accept(s) \/ HelloTimeout(s) \/ BadHello(s)
       \/ \E c \in Conn \cup {None} : HelloArrives(s, c)
       \/ LookupRuns(s) \/ LookupFails(s) \/ Unauthorized(s) \/ Register(s)
       \/ SocketCloses(s) \/ PeerVanishes(s) \/ HeartbeatTerminates(s)
  \/ \E c \in Conn : RemoveConnector(c)
  \/ RunCall \/ CallFails \/ Drain \/ Exit

Spec == Init /\ [][Next]_vars

(* Timers fire, lookups and mutations settle, a closing handshake ends.     *)
Fairness ==
  \A s \in Socket :
    /\ WF_vars(HelloTimeout(s))
    /\ WF_vars(LookupRuns(s))
    /\ WF_vars(Unauthorized(s)) /\ WF_vars(Register(s))
    /\ WF_vars(HeartbeatTerminates(s))
    /\ WF_vars(ws[s] = "closing" /\ SocketCloses(s))

FairSpec == Spec /\ Fairness

-----------------------------------------------------------------------------
(* Every variable has its type, and timers belong to the stage they guard.  *)
TypeOK ==
  /\ ws \in [Socket -> {"none", "open", "closing", "closed"}]
  /\ stage \in [Socket -> {"hello", "looking", "answered", "rejected",
                           "session"}]
  /\ claim \in [Socket -> Conn \cup {None}]
  /\ found \in [Socket -> BOOLEAN]
  /\ timer \in [Socket -> BOOLEAN]
  /\ beating \in [Socket -> BOOLEAN]
  /\ silent \in [Socket -> BOOLEAN]
  /\ early \in [Socket -> BOOLEAN]
  /\ reg \in [Conn -> Socket \cup {None}]
  /\ calls \in Seq([op : {"connected", "disconnected"}, conn : Conn])
  /\ exists \in [Conn -> BOOLEAN]
  /\ stamp \in [Conn -> {"none", "connected", "disconnected"}]
  /\ missed \in [Conn -> BOOLEAN]
  /\ draining \in BOOLEAN
  /\ failures \in 0 .. MaxFailures
  /\ \A s \in Socket : timer[s] => Live(s)
  /\ \A s \in Socket : beating[s] => stage[s] = "session"

(* No open socket holds a session that the registry has forgotten: a        *)
(* replaced session is being closed, and a close removes only itself.       *)
OpenSessionIsRegistered ==
  \A s \in Socket :
    stage[s] = "session" /\ ws[s] = "open" => reg[claim[s]] = s

(* A socket that is registered although it has closed was closed while its  *)
(* token lookup was under way; every other close cleans up.                 *)
GhostsOnlyFromLookup ==
  \A c \in Conn :
    reg[c] # None /\ ws[reg[c]] = "closed" => early[reg[c]]

(* When no stamp of a connector is due, its row says connected exactly when *)
(* the gateway holds a session for it, whatever the order in which old      *)
(* sessions closed and new ones registered.  Only a failed call and an exit *)
(* of the gateway make it wrong, and only until the next stamp is written:  *)
(* that of the connector's next handshake, or of the close of its session.  *)
StampsSettle ==
  \A c \in Conn : exists[c] /\ ~Due(c) /\ ~missed[c] =>
    (stamp[c] = "connected" <=> reg[c] # None)

(* A connection that never says hello, or whose peer has vanished after it  *)
(* became a session, is closed in the end.                                  *)
DeadPeersAreClosed ==
  \A s \in Socket : (silent[s] /\ Live(s)) ~> ws[s] = "closed"

(* "'close' follows and runs the normal cleanup path"                       *)
(* (handle-connector-connection.ts:24-25): no closed socket is registered.  *)
CloseCleansUp ==
  \A c \in Conn : reg[c] # None => ws[reg[c]] # "closed"
=============================================================================
