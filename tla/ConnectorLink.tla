----------------------------- MODULE ConnectorLink -----------------------------
(***************************************************************************)
(* The connector's end of its connection (packages/connector/src/          *)
(* connect.ts): dial, hello, acknowledgement or refusal, the watchdog on   *)
(* the gateway's pings, close, the reconnect timer with its backoff, and   *)
(* stop.  Frames that carry work are in IngestDelivery and RpcBridge.      *)
(*                                                                         *)
(* Sockets are numbered in the order they are dialled.  A reconnect timer  *)
(* is named by the socket whose close set it; the variable reconnectTimer  *)
(* holds the last one set, fired or not.  Time is reduced to what the code *)
(* compares: whether the last ping is older than the timeout.  exit(1) is  *)
(* a call that returns, as in the tests; in the program the behaviour ends *)
(* there.                                                                  *)
(***************************************************************************)
EXTENDS Integers, FiniteSets

CONSTANTS
  None,
  MaxDials,   \* bound: sockets dialled
  Base,       \* BACKOFF_BASE_MS
  Cap         \* BACKOFF_CAP_MS

ASSUME LinkAssumption ==
  /\ MaxDials \in Nat \ {0}
  /\ None \notin 1 .. MaxDials
  /\ Base \in Nat
  /\ Cap \in Nat

Socket == 1 .. MaxDials

VARIABLES
  ws,               \* per socket its readyState; "closed" after 'close'
  hello,            \* per socket, what became of its hello
  stale,            \* per socket, is its last ping older than the timeout?
  watchdogs,        \* sockets whose watchdog interval runs
  activeSocket,
  timers,           \* reconnect timers that are armed
  reconnectTimer,   \* the handle stop would clear
  attempt,
  delay,            \* upper bound of the last delay drawn
  transport,        \* the socket the outbox sends to, or None
  stopped

vars == <<ws, hello, stale, watchdogs, activeSocket, timers, reconnectTimer,
          attempt, delay, transport, stopped>>

Live(s) == ws[s] \in {"connecting", "open", "closing"}

(* Frames are handled until the socket has closed, even while it is closing.*)
Heard(s) == ws[s] \in {"open", "closing"} /\ hello[s] = "sent"

(* ws.close() and ws.terminate(): the close event follows.                  *)
Close(s) == ws' = [ws EXCEPT ![s] = "closing"]

(* nextDelayMs draws a delay below this.                                    *)
Backoff(n) == IF Base * 2^n < Cap THEN Base * 2^n ELSE Cap

-----------------------------------------------------------------------------
Init ==
  /\ ws = [s \in Socket |-> IF s = 1 THEN "connecting" ELSE "none"]
  /\ hello = [s \in Socket |-> "unsent"]
  /\ stale = [s \in Socket |-> FALSE]
  /\ watchdogs = {1}
  /\ activeSocket = 1
  /\ timers = {}
  /\ reconnectTimer = None
  /\ attempt = 0
  /\ delay = 0
  /\ transport = None
  /\ stopped = FALSE

(* Faulty variant: the watchdog starts only once a session is there.        *)
DialUnwatched(s) ==
  /\ ws' = [ws EXCEPT ![s] = "connecting"]
  /\ activeSocket' = s
  /\ UNCHANGED watchdogs

(* dial: a socket and its watchdog.                                         *)
Dial(s) ==
  /\ ws' = [ws EXCEPT ![s] = "connecting"]
  /\ activeSocket' = s
  /\ watchdogs' = watchdogs \cup {s}

(* The reconnect timer of socket t fires: dial, unless stopped.             *)
TimerFires(t, s) ==
  /\ t \in timers
  /\ ws[s] = "none"
  /\ \A u \in Socket : u < s => ws[u] # "none"
  /\ timers' = timers \ {t}
  /\ IF stopped THEN UNCHANGED <<ws, activeSocket, watchdogs>> ELSE Dial(s)
  /\ UNCHANGED <<hello, stale, reconnectTimer, attempt, delay, transport,
                 stopped>>

(* Faulty variant: the backoff starts over as soon as a socket opens.       *)
OpensAndResets(s) ==
  /\ ws[s] = "connecting"
  /\ ws' = [ws EXCEPT ![s] = "open"]
  /\ hello' = [hello EXCEPT ![s] = "sent"]
  /\ attempt' = 0
  /\ UNCHANGED <<stale, watchdogs, activeSocket, timers, reconnectTimer, delay,
                 transport, stopped>>

(* 'open': hello is sent.                                                   *)
Opens(s) ==
  /\ ws[s] = "connecting"
  /\ ws' = [ws EXCEPT ![s] = "open"]
  /\ hello' = [hello EXCEPT ![s] = "sent"]
  /\ UNCHANGED <<stale, watchdogs, activeSocket, timers, reconnectTimer,
                 attempt, delay, transport, stopped>>

(* hello_ack: the backoff starts over, the transport is wired.  Nothing     *)
(* asks whether the connector was stopped meanwhile.                        *)
HelloAck(s) ==
  /\ Heard(s)
  /\ hello' = [hello EXCEPT ![s] = "acked"]
  /\ attempt' = 0
  /\ stale' = [stale EXCEPT ![s] = FALSE]
  /\ transport' = s
  /\ UNCHANGED <<ws, watchdogs, activeSocket, timers, reconnectTimer, delay,
                 stopped>>

(* hello_error `unauthorized`: never again.                                 *)
Unauthorized(s) ==
  /\ Heard(s)
  /\ hello' = [hello EXCEPT ![s] = "refused"]
  /\ stopped' = TRUE
  /\ Close(s)
  /\ UNCHANGED <<stale, watchdogs, activeSocket, timers, reconnectTimer,
                 attempt, delay, transport>>

(* Faulty variant: the handler arranges the reconnect itself.               *)
HelloErrorReschedules(s) ==
  /\ Heard(s)
  /\ hello' = [hello EXCEPT ![s] = "refused"]
  /\ Close(s)
  /\ timers' = timers \cup {s}
  /\ reconnectTimer' = s
  /\ UNCHANGED <<stale, watchdogs, activeSocket, attempt, delay, transport,
                 stopped>>

(* Any other hello_error: close, and the close event reconnects.            *)
HelloError(s) ==
  /\ Heard(s)
  /\ hello' = [hello EXCEPT ![s] = "refused"]
  /\ Close(s)
  /\ UNCHANGED <<stale, watchdogs, activeSocket, timers, reconnectTimer,
                 attempt, delay, transport, stopped>>

(* The gateway pings the sessions it holds.                                 *)
Ping(s) ==
  /\ ws[s] \in {"open", "closing"}
  /\ hello[s] = "acked"
  /\ stale' = [stale EXCEPT ![s] = FALSE]
  /\ UNCHANGED <<ws, hello, watchdogs, activeSocket, timers, reconnectTimer,
                 attempt, delay, transport, stopped>>

(* CONNECTOR_PING_TIMEOUT_MS pass without a ping.                           *)
Silence(s) ==
  /\ Live(s)
  /\ ~stale[s]
  /\ stale' = [stale EXCEPT ![s] = TRUE]
  /\ UNCHANGED <<ws, hello, watchdogs, activeSocket, timers, reconnectTimer,
                 attempt, delay, transport, stopped>>

(* The watchdog terminates the socket.                                      *)
WatchdogFires(s) ==
  /\ s \in watchdogs
  /\ stale[s]
  /\ Close(s)
  /\ UNCHANGED <<hello, stale, watchdogs, activeSocket, timers, reconnectTimer,
                 attempt, delay, transport, stopped>>

(* Faulty variant: only a session that was lost is worth reconnecting for.  *)
ScheduleAfterSession(s) ==
  IF stopped \/ hello[s] # "acked"
  THEN UNCHANGED <<attempt, delay, timers, reconnectTimer>>
  ELSE /\ delay' = Backoff(attempt)
       /\ attempt' = attempt + 1
       /\ timers' = timers \cup {s}
       /\ reconnectTimer' = s

(* scheduleReconnect.                                                       *)
ScheduleReconnect(s) ==
  IF stopped
  THEN UNCHANGED <<attempt, delay, timers, reconnectTimer>>
  ELSE /\ delay' = Backoff(attempt)
       /\ attempt' = attempt + 1
       /\ timers' = timers \cup {s}
       /\ reconnectTimer' = s

(* Faulty variants: the watchdog survives its socket; so does the transport.*)
CloseKeepsWatchdog(s) ==
  /\ Live(s)
  /\ ws' = [ws EXCEPT ![s] = "closed"]
  /\ transport' = None
  /\ activeSocket' = IF activeSocket = s THEN None ELSE activeSocket
  /\ ScheduleReconnect(s)
  /\ UNCHANGED <<hello, stale, watchdogs, stopped>>

CloseKeepsTransport(s) ==
  /\ Live(s)
  /\ ws' = [ws EXCEPT ![s] = "closed"]
  /\ watchdogs' = watchdogs \ {s}
  /\ activeSocket' = IF activeSocket = s THEN None ELSE activeSocket
  /\ ScheduleReconnect(s)
  /\ UNCHANGED <<hello, stale, transport, stopped>>

(* 'close', whoever caused it: a failed dial, the network, the gateway, the *)
(* watchdog, a refused hello, stop.                                         *)
CloseEvent(s) ==
  /\ Live(s)
  /\ ws' = [ws EXCEPT ![s] = "closed"]
  /\ watchdogs' = watchdogs \ {s}
  /\ transport' = None
  /\ activeSocket' = IF activeSocket = s THEN None ELSE activeSocket
  /\ ScheduleReconnect(s)
  /\ UNCHANGED <<hello, stale, stopped>>

(* Faulty variant: the reconnect timer is left alone.                       *)
StopKeepsTimer ==
  /\ stopped' = TRUE
  /\ transport' = None
  /\ IF activeSocket # None THEN Close(activeSocket) ELSE UNCHANGED ws
  /\ UNCHANGED <<hello, stale, watchdogs, activeSocket, timers, reconnectTimer,
                 attempt, delay>>

(* stop.                                                                    *)
Stop ==
  /\ stopped' = TRUE
  /\ timers' = timers \ {reconnectTimer}
  /\ transport' = None
  /\ IF activeSocket # None THEN Close(activeSocket) ELSE UNCHANGED ws
  /\ UNCHANGED <<hello, stale, watchdogs, activeSocket, reconnectTimer,
                 attempt, delay>>

Next ==
  \/ \E s \in Socket :
       \/ Opens(s) \/ HelloAck(s) \/ Unauthorized(s) \/ HelloError(s)
       \/ Ping(s) \/ Silence(s) \/ WatchdogFires(s) \/ CloseEvent(s)
       \/ \E t \in Socket : TimerFires(t, s)
  \/ Stop

Spec == Init /\ [][Next]_vars

(* Time passes, intervals and timers fire, a socket that was closed or      *)
(* terminated emits 'close'.  The gateway owes nothing.                     *)
Fairness ==
  \A s \in Socket :
    /\ WF_vars(hello[s] # "acked" /\ Silence(s))
    /\ WF_vars(WatchdogFires(s))
    /\ WF_vars(ws[s] = "closing" /\ CloseEvent(s))
    /\ WF_vars(\E t \in Socket : TimerFires(t, s))

FairSpec == Spec /\ Fairness

-----------------------------------------------------------------------------
(* Every variable has its type.  A socket has a running watchdog from its   *)
(* dial to its close, and says hello only once open.                        *)
TypeOK ==
  /\ ws \in [Socket -> {"none", "connecting", "open", "closing", "closed"}]
  /\ hello \in [Socket -> {"unsent", "sent", "acked", "refused"}]
  /\ \A s \in Socket : ws[s] \in {"none", "connecting"} => hello[s] = "unsent"
  /\ stale \in [Socket -> BOOLEAN]
  /\ watchdogs = {s \in Socket : Live(s)}
  /\ activeSocket \in Socket \cup {None}
  /\ timers \subseteq Socket
  /\ reconnectTimer \in Socket \cup {None}
  /\ attempt \in Nat
  /\ transport \in Socket \cup {None}
  /\ stopped \in BOOLEAN

(* The connector is one link: a live socket, or an armed reconnect timer,   *)
(* or neither, never two of them.  activeSocket is the live socket and      *)
(* reconnectTimer the armed timer, so that stop finds what there is.  The   *)
(* gateway would close the older of two sessions of one connector, and each *)
(* would go on evicting the other.                                          *)
OneLink ==
  /\ \A s \in Socket : Live(s) => activeSocket = s /\ timers = {}
  /\ \A t \in timers : reconnectTimer = t
  /\ activeSocket # None => Live(activeSocket)

(* The outbox is never wired to a socket that has closed, nor to one whose  *)
(* hello was not acknowledged, although a hello_ack may come after stop or  *)
(* terminate.                                                               *)
TransportIsLive ==
  transport # None => Live(transport) /\ hello[transport] = "acked"

(* A stopped or refused connector leaves no timer that would keep its       *)
(* process running, or dial.                                                *)
StoppedForGood == stopped => timers = {}

(* Dials before socket t since the last acknowledged one.                   *)
FailedBefore(t) == {u \in 1 .. (t - 1) :
                      \A v \in (u + 1) .. t : hello[v] # "acked"}

(* "Jittered exponential backoff, base 1s, capped at 60s"                   *)
(* (packages/connector/README.md:35): the delay drawn when socket t closes  *)
(* doubles with each dial that got no session, and starts over only after   *)
(* one that did.  A gateway that accepts sockets and refuses hellos is      *)
(* backed off from like one that is down.                                   *)
WaitsFollowFailures ==
  \A t \in timers : delay = Backoff(Cardinality(FailedBefore(t)))

(* As long as nobody stops it the connector keeps trying: a dial that gets  *)
(* no acknowledgement ends, and every socket that closed is followed by     *)
(* another dial.                                                            *)
KeepsTrying ==
  /\ \A s \in Socket :
       (ws[s] = "connecting") ~> (hello[s] = "acked" \/ ws[s] = "closed")
  /\ \A s \in 1 .. (MaxDials - 1) :
       (ws[s] = "closed") ~> (stopped \/ ws[s + 1] # "none")

(* A stopped connector lets go of its sockets, its transport and every      *)
(* interval, so that the process may end.                                   *)
StopEnds ==
  stopped ~> (watchdogs = {} /\ transport = None
              /\ \A s \in Socket : ~Live(s))
=============================================================================
