-------------------------- MODULE GatewaySessionsProofs --------------------------
(***************************************************************************)
(* What is proved about GatewaySessions: its safety invariants, for any    *)
(* numbers of connectors, sockets and failures.                            *)
(***************************************************************************)
EXTENDS GatewaySessions, TLAPS

(* TypeOK, in parts.                                                        *)
Types ==
  /\ ws \in [Socket -> {"none", "open", "closing", "closed"}]
  /\ stage \in [Socket -> {"hello", "looking", "answered", "rejected",
                           "session"}]
  /\ claim \in [Socket -> Conn \cup {None}]
  /\ found \in [Socket -> BOOLEAN]
  /\ early \in [Socket -> BOOLEAN]
  /\ reg \in [Conn -> Socket \cup {None}]

CallRow == [op : {"connected", "disconnected"}, conn : Conn]

HubTypes ==
  /\ calls \in Seq(CallRow)
  /\ exists \in [Conn -> BOOLEAN]
  /\ stamp \in [Conn -> {"none", "connected", "disconnected"}]
  /\ missed \in [Conn -> BOOLEAN]
  /\ draining \in BOOLEAN
  /\ failures \in 0 .. MaxFailures

TimersGuard ==
  /\ timer \in [Socket -> BOOLEAN]
  /\ \A s \in Socket : timer[s] => Live(s)

HeartbeatsBeat ==
  /\ beating \in [Socket -> BOOLEAN] /\ silent \in [Socket -> BOOLEAN]
  /\ \A s \in Socket : beating[s] => stage[s] = "session"

(* What the registry and the stage of a socket say of each other.           *)
RegistryTells ==
  /\ \A c \in Conn : reg[c] # None => stage[reg[c]] = "session" /\ claim[reg[c]] = c
  /\ \A s \in Socket : /\ ws[s] = "none" => stage[s] = "hello"
                       /\ stage[s] = "answered" /\ found[s] => claim[s] # None
                       /\ stage[s] = "session" => claim[s] # None

(* Only a socket that closed before its lookup was answered can become a    *)
(* session when it is closed.                                               *)
ClosedEarly ==
  \A s \in Socket :
    ws[s] = "closed" /\ stage[s] \in {"looking", "answered"} => early[s]

(* The last stamp call that is due for a connector tells whether it has a   *)
(* session; so does the row, if none is due and none has been missed since. *)
CallsOf(c) == {i \in 1 .. Len(calls) : calls[i].conn = c}

LastTells(c) ==
  /\ CallsOf(c) = {} /\ exists[c] /\ ~missed[c] =>
       (stamp[c] = "connected" <=> reg[c] # None)
  /\ \A i \in CallsOf(c) : (\A j \in CallsOf(c) : j <= i) =>
       (calls[i].op = "connected" <=> reg[c] # None)

CallsTell == \A c \in Conn : LastTells(c)

SessionsInv ==
  /\ Types
  /\ RegistryTells /\ OpenSessionIsRegistered
  /\ ClosedEarly /\ GhostsOnlyFromLookup

IInv == SessionsInv /\ HubTypes /\ TimersGuard /\ HeartbeatsBeat /\ CallsTell

-----------------------------------------------------------------------------
LEMMA NoneIsNone == None \notin Conn /\ None \notin Socket
BY SessionsAssumption DEF Socket

LEMMA InitInv == Init => IInv
<1> SUFFICES ASSUME Init PROVE IInv
  OBVIOUS
<1>1. /\ Types
      /\ TimersGuard
      /\ HeartbeatsBeat
  <2>1. Types
    BY DEF Init, Types
  <2>2. TimersGuard
    BY DEF Init, TimersGuard
  <2>3. HeartbeatsBeat
    BY DEF Init, HeartbeatsBeat
  <2> QED
    BY <2>1, <2>2, <2>3
<1>2. HubTypes
  <2>1. calls \in Seq(CallRow)
    BY DEF Init
  <2>2. failures \in 0 .. MaxFailures
    BY SessionsAssumption DEF Init
  <2> QED
    BY <2>1, <2>2 DEF Init, HubTypes
<1>3. RegistryTells /\ OpenSessionIsRegistered /\ ClosedEarly
      /\ GhostsOnlyFromLookup
  BY DEF Init, RegistryTells, OpenSessionIsRegistered, ClosedEarly,
         GhostsOnlyFromLookup
<1>4. CallsTell
  BY DEF Init, CallsTell, LastTells, CallsOf
<1> QED
  BY <1>1, <1>2, <1>3, <1>4 DEF IInv, SessionsInv

LEMMA ClosingIs ==
  ASSUME Types, NEW S \in SUBSET Socket, ws' = Closing(S)
  PROVE  /\ ws' \in [Socket -> {"none", "open", "closing", "closed"}]
         /\ \A s \in Socket :
              /\ ws'[s] = "open" => ws[s] = "open" /\ s \notin S
              /\ ws'[s] = "none" <=> ws[s] = "none"
              /\ ws'[s] = "closed" <=> ws[s] = "closed"
              /\ ws[s] \in {"open", "closing"} => ws'[s] \in {"open", "closing"}
BY DEF Types, Closing

(* A step that registers and deregisters nobody, and may close sockets.     *)
LEMMA SocketStepInv ==
  ASSUME SessionsInv, Types', reg' = reg,
         \A s \in Socket :
           /\ ws'[s] = "open" => ws[s] \in {"none", "open"}
           /\ ws'[s] = "none" => ws[s] = "none"
           /\ ws'[s] = "closed" => ws[s] = "closed"
           /\ \/ stage'[s] = stage[s]
              \/ stage[s] = "hello" /\ stage'[s] \in {"looking", "rejected"}
                 /\ ws[s] \in {"open", "closing"} /\ ws'[s] # "none"
              \/ stage[s] = "looking" /\ stage'[s] = "answered"
              \/ stage[s] \in {"looking", "answered"} /\ stage'[s] = "rejected"
           /\ stage[s] # "hello" => claim'[s] = claim[s]
           /\ stage[s] # "looking" => found'[s] = found[s]
           /\ stage[s] = "looking" /\ stage'[s] = "answered" /\ found'[s] =>
                claim'[s] # None
           /\ early'[s] = early[s]
  PROVE  SessionsInv'
<1>1. RegistryTells'
  BY NoneIsNone DEF SessionsInv, RegistryTells, Types
<1>2. OpenSessionIsRegistered'
  BY DEF SessionsInv, RegistryTells, OpenSessionIsRegistered, Types
<1>3. ClosedEarly'
  BY DEF SessionsInv, ClosedEarly, Types
<1>4. GhostsOnlyFromLookup'
  BY DEF SessionsInv, GhostsOnlyFromLookup, Types
<1> QED
  BY <1>1, <1>2, <1>3, <1>4 DEF SessionsInv

LEMMA AcceptInv ==
  ASSUME SessionsInv, NEW s \in Socket, Accept(s)
  PROVE  SessionsInv'
<1>1. Types'
  BY DEF Accept, SessionsInv, Types
<1> QED
  BY <1>1, SocketStepInv DEF Accept, SessionsInv, Types

LEMMA HelloTimeoutInv ==
  ASSUME SessionsInv, NEW s \in Socket, HelloTimeout(s)
  PROVE  SessionsInv'
<1>1. Types'
  BY ClosingIs DEF HelloTimeout, SessionsInv, Types
<1> QED
  BY <1>1, ClosingIs, SocketStepInv DEF HelloTimeout, SessionsInv, Types

LEMMA BadHelloInv ==
  ASSUME SessionsInv, NEW s \in Socket, BadHello(s)
  PROVE  SessionsInv'
<1>1. Types'
  BY ClosingIs DEF BadHello, SessionsInv, Types
<1>2. /\ stage'[s] = "rejected"
      /\ \A t \in Socket \ {s} : stage'[t] = stage[t]
  BY DEF BadHello, SessionsInv, Types
<1> QED
  BY <1>1, <1>2, ClosingIs, SocketStepInv DEF BadHello, SessionsInv, Live

LEMMA HelloArrivesInv ==
  ASSUME SessionsInv, NEW s \in Socket, NEW c \in Conn \cup {None},
         HelloArrives(s, c)
  PROVE  SessionsInv'
<1>1. Types'
  BY DEF HelloArrives, SessionsInv, Types
<1> QED
  BY <1>1, SocketStepInv DEF HelloArrives, SessionsInv, Types, Live

LEMMA LookupRunsInv ==
  ASSUME SessionsInv, NEW s \in Socket, LookupRuns(s)
  PROVE  SessionsInv'
<1>1. Types'
  BY DEF LookupRuns, SessionsInv, Types
<1> QED
  BY <1>1, SocketStepInv DEF LookupRuns, SessionsInv, Types

LEMMA LookupFailsInv ==
  ASSUME SessionsInv, NEW s \in Socket, LookupFails(s)
  PROVE  SessionsInv'
<1>1. Types'
  BY ClosingIs, SessionsAssumption
     DEF LookupFails, SessionsInv, Types
<1>2. /\ stage'[s] = "rejected"
      /\ \A t \in Socket \ {s} : stage'[t] = stage[t]
  BY DEF LookupFails, SessionsInv, Types
<1> QED
  BY <1>1, <1>2, ClosingIs, SocketStepInv DEF LookupFails, SessionsInv

LEMMA UnauthorizedInv ==
  ASSUME SessionsInv, NEW s \in Socket, Unauthorized(s)
  PROVE  SessionsInv'
<1>1. Types'
  BY ClosingIs DEF Unauthorized, SessionsInv, Types
<1>2. /\ stage'[s] = "rejected"
      /\ \A t \in Socket \ {s} : stage'[t] = stage[t]
  BY DEF Unauthorized, SessionsInv, Types
<1> QED
  BY <1>1, <1>2, ClosingIs, SocketStepInv DEF Unauthorized, SessionsInv

LEMMA PeerVanishesInv ==
  ASSUME SessionsInv, NEW s \in Socket, PeerVanishes(s)
  PROVE  SessionsInv'
<1>1. Types'
  BY DEF PeerVanishes, SessionsInv, Types
<1> QED
  BY <1>1, SocketStepInv DEF PeerVanishes, SessionsInv, Types

-----------------------------------------------------------------------------
LEMMA RegisterInv ==
  ASSUME SessionsInv, NEW s \in Socket, Register(s)
  PROVE  SessionsInv'
<1> DEFINE c == claim[s]
<1>1. /\ stage[s] = "answered" /\ found[s] /\ c \in Conn
      /\ stage'[s] = "session" /\ reg'[c] = s
      /\ \A t \in Socket \ {s} : stage'[t] = stage[t]
      /\ \A d \in Conn \ {c} : reg'[d] = reg[d]
      /\ ws' = Closing(Replaced(c)) /\ Replaced(c) \in SUBSET Socket
      /\ UNCHANGED <<claim, found, early>>
  BY DEF Register, SessionsInv, Types, RegistryTells, Replaced
<1>2. Types'
  BY <1>1, ClosingIs DEF Register, SessionsInv, Types
<1>3. RegistryTells'
  <2>1. \A d \in Conn : reg'[d] # None =>
          stage'[reg'[d]] = "session" /\ claim'[reg'[d]] = d
    BY <1>1, <1>2 DEF SessionsInv, RegistryTells, Types
  <2>2. ws[s] # "none"
    BY <1>1 DEF SessionsInv, RegistryTells
  <2> QED
    BY <2>1, <2>2, <1>1, ClosingIs, NoneIsNone DEF SessionsInv, RegistryTells
<1>4. OpenSessionIsRegistered'
  <2> SUFFICES ASSUME NEW t \in Socket, stage'[t] = "session", ws'[t] = "open"
               PROVE  reg'[claim'[t]] = t
    BY DEF OpenSessionIsRegistered
  <2>1. CASE t = s
    BY <2>1, <1>1
  <2>2. CASE t # s
    <3>1. reg[claim[t]] = t /\ claim[t] \in Conn /\ t \notin Replaced(c)
      BY <2>2, <1>1, ClosingIs
         DEF SessionsInv, OpenSessionIsRegistered, RegistryTells, Types
    <3>2. claim[t] # c
      BY <3>1 DEF Replaced
    <3> QED
      BY <3>1, <3>2, <1>1
  <2> QED
    BY <2>1, <2>2
<1>5. ClosedEarly'
  BY <1>1, ClosingIs DEF SessionsInv, ClosedEarly
<1>6. GhostsOnlyFromLookup'
  <2> SUFFICES ASSUME NEW d \in Conn, reg'[d] # None, ws'[reg'[d]] = "closed"
               PROVE  early[reg'[d]]
    BY <1>1 DEF GhostsOnlyFromLookup
  <2>1. CASE d = c
    BY <2>1, <1>1, ClosingIs DEF SessionsInv, ClosedEarly
  <2>2. CASE d # c
    <3>1. reg[d] \in Socket /\ reg'[d] = reg[d]
      BY <2>2, <1>1 DEF SessionsInv, Types
    <3> QED
      BY <3>1, <1>1, ClosingIs DEF SessionsInv, GhostsOnlyFromLookup
  <2> QED
    BY <2>1, <2>2
<1> QED
  BY <1>2, <1>3, <1>4, <1>5, <1>6 DEF SessionsInv

LEMMA DeregisterIs ==
  ASSUME SessionsInv, NEW s \in Socket,
         IF stage[s] = "session" THEN Deregister(s) ELSE UNCHANGED <<reg, calls>>
  PROVE  /\ reg' \in [Conn -> Socket \cup {None}]
         /\ \A c \in Conn : reg'[c] = IF reg[c] = s THEN None ELSE reg[c]
<1>1. \A c \in Conn : reg[c] = s => stage[s] = "session" /\ claim[s] = c
  BY NoneIsNone DEF SessionsInv, RegistryTells
<1>2. CASE stage[s] = "session" /\ IsCurrent(s)
  <2>1. claim[s] \in Conn /\ reg[claim[s]] = s
    BY <1>2 DEF IsCurrent, SessionsInv, Types
  <2>2. /\ reg' = [reg EXCEPT ![claim[s]] = None]
        /\ calls' = Append(calls, Call("disconnected", claim[s]))
    BY <1>2 DEF Deregister
  <2> QED
    BY <1>1, <2>1, <2>2 DEF SessionsInv, Types
<1>3. CASE ~(stage[s] = "session" /\ IsCurrent(s))
  <2>1. UNCHANGED <<reg, calls>>
    BY <1>3 DEF Deregister
  <2>2. \A c \in Conn : reg[c] # s
    BY <1>1, <1>3, NoneIsNone DEF IsCurrent, SessionsInv, Types
  <2> QED
    BY <2>1, <2>2 DEF SessionsInv, Types
<1> QED
  BY <1>2, <1>3

LEMMA CloseEventInv ==
  ASSUME SessionsInv, NEW s \in Socket, Live(s), CloseEvent(s)
  PROVE  SessionsInv'
<1>1. /\ ws'[s] = "closed" /\ \A t \in Socket \ {s} : ws'[t] = ws[t]
      /\ early'[s] = (stage[s] # "session")
      /\ \A t \in Socket \ {s} : early'[t] = early[t]
      /\ UNCHANGED <<stage, claim, found>>
      /\ \A c \in Conn : reg'[c] = IF reg[c] = s THEN None ELSE reg[c]
  BY DeregisterIs DEF CloseEvent, SessionsInv, Types
<1>2. Types'
  BY DeregisterIs DEF CloseEvent, SessionsInv, Types, Live
<1>3. RegistryTells'
  BY <1>1 DEF SessionsInv, RegistryTells
<1>4. OpenSessionIsRegistered'
  BY <1>1 DEF SessionsInv, RegistryTells, OpenSessionIsRegistered, Types
<1>5. ClosedEarly'
  BY <1>1 DEF SessionsInv, ClosedEarly
<1>6. GhostsOnlyFromLookup'
  BY <1>1 DEF SessionsInv, GhostsOnlyFromLookup, Types
<1> QED
  BY <1>2, <1>3, <1>4, <1>5, <1>6 DEF SessionsInv

LEMMA ExitInv ==
  ASSUME SessionsInv, Exit
  PROVE  SessionsInv'
<1>1. /\ \A t \in Socket : /\ ws'[t] = IF Live(t) THEN "closed" ELSE ws[t]
                           /\ stage'[t] = IF ws[t] = "none" THEN "hello"
                                                            ELSE "rejected"
      /\ \A c \in Conn : reg'[c] = None
  BY DEF Exit
<1>2. Types'
  BY SessionsAssumption DEF Exit, SessionsInv, Types, Live
<1> QED
  BY <1>1, <1>2 DEF SessionsInv, RegistryTells, OpenSessionIsRegistered,
                    ClosedEarly, GhostsOnlyFromLookup, Live

(* Steps of Convex, and the beginning of a shutdown.                        *)
LEMMA HubStepsInv ==
  ASSUME SessionsInv, RunCall \/ CallFails \/ Drain
                      \/ \E c \in Conn : RemoveConnector(c)
  PROVE  SessionsInv'
<1>1. CASE RunCall
  <2>1. Types'
    BY <1>1 DEF RunCall, SessionsInv, Types, socketVars
  <2> QED
    BY <2>1, <1>1, SocketStepInv DEF RunCall, socketVars
<1>2. CASE CallFails
  <2>1. Types'
    BY <1>2, SessionsAssumption DEF CallFails, SessionsInv, Types, socketVars
  <2> QED
    BY <2>1, <1>2, SocketStepInv DEF CallFails, socketVars
<1>3. CASE Drain
  <2>1. Types'
    BY <1>3, ClosingIs DEF Drain, SessionsInv, Types
  <2> QED
    BY <2>1, <1>3, ClosingIs, SocketStepInv DEF Drain, SessionsInv
<1>4. ASSUME NEW c \in Conn, RemoveConnector(c)
      PROVE  SessionsInv'
  <2>1. Types'
    BY <1>4 DEF RemoveConnector, SessionsInv, Types, socketVars
  <2> QED
    BY <2>1, <1>4, SocketStepInv DEF RemoveConnector, socketVars
<1> QED
  BY <1>1, <1>2, <1>3, <1>4

LEMMA SessionsStepInv == SessionsInv /\ [Next]_vars => SessionsInv'
<1> SUFFICES ASSUME SessionsInv, [Next]_vars PROVE SessionsInv'
  OBVIOUS
<1>1. CASE Next
  BY <1>1, AcceptInv, HelloTimeoutInv, BadHelloInv, HelloArrivesInv,
     LookupRunsInv, LookupFailsInv, UnauthorizedInv, RegisterInv,
     PeerVanishesInv, CloseEventInv, HubStepsInv, ExitInv
     DEF Next, SocketCloses, HeartbeatTerminates
<1>2. CASE UNCHANGED vars
  BY <1>2 DEF vars, socketVars, hubVars, SessionsInv, Types, Live,
     RegistryTells, OpenSessionIsRegistered, ClosedEarly, GhostsOnlyFromLookup
<1> QED
  BY <1>1, <1>2

-----------------------------------------------------------------------------
LEMMA HubTypesStep == IInv /\ [Next]_vars => HubTypes'
<1> SUFFICES ASSUME IInv, [Next]_vars PROVE HubTypes'
  OBVIOUS
<1>1. HubTypes /\ Types
  BY DEF IInv, SessionsInv
<1>2. ASSUME NEW s \in Socket, Register(s)
      PROVE  HubTypes'
  <2>1. claim[s] \in Conn
    BY <1>1, <1>2 DEF Register, IInv, SessionsInv, Types, RegistryTells
  <2>2. Call("connected", claim[s]) \in CallRow
    BY <2>1 DEF Call, CallRow
  <2>3. calls' \in Seq(CallRow)
    BY <1>1, <1>2, <2>2 DEF Register, HubTypes
  <2> QED
    BY <1>1, <1>2, <2>3 DEF Register, HubTypes
<1>3. ASSUME NEW s \in Socket, CloseEvent(s)
      PROVE  HubTypes'
  <2>1. CASE stage[s] = "session" /\ IsCurrent(s)
    <3>1. claim[s] \in Conn
      BY <1>1, <2>1 DEF IsCurrent, Types
    <3>2. Call("disconnected", claim[s]) \in CallRow
      BY <3>1 DEF Call, CallRow
    <3>3. calls' = Append(calls, Call("disconnected", claim[s]))
      BY <1>3, <2>1 DEF CloseEvent, Deregister
    <3>4. calls' \in Seq(CallRow)
      BY <1>1, <3>2, <3>3 DEF HubTypes
    <3> QED
      BY <1>1, <1>3, <3>4 DEF CloseEvent, HubTypes
  <2>2. CASE ~(stage[s] = "session" /\ IsCurrent(s))
    BY <1>1, <1>3, <2>2 DEF CloseEvent, Deregister, HubTypes
  <2> QED
    BY <2>1, <2>2
<1>4. CASE RunCall
  <2>1. Head(calls) \in CallRow /\ calls' \in Seq(CallRow)
    BY <1>1, <1>4 DEF RunCall, HubTypes
  <2>2. stamp' \in [Conn -> {"none", "connected", "disconnected"}]
    BY <1>1, <1>4, <2>1 DEF RunCall, HubTypes, CallRow
  <2>3. missed' \in [Conn -> BOOLEAN]
    BY <1>1, <1>4 DEF RunCall, HubTypes
  <2> QED
    BY <1>1, <1>4, <2>1, <2>2, <2>3 DEF RunCall, HubTypes
<1>5. CASE CallFails \/ Exit \/ Drain \/ \E s \in Socket : LookupFails(s)
  <2>1. failures' \in 0 .. MaxFailures
    <3>1. \/ failures' = failures
          \/ failures < MaxFailures /\ failures' = failures + 1
      BY <1>5 DEF CallFails, Exit, Drain, LookupFails
    <3> QED
      BY <3>1, <1>1, SessionsAssumption DEF HubTypes
  <2>2. calls' \in Seq(CallRow)
    <3>1. \/ calls' = calls
          \/ calls' = <<>>
          \/ calls # <<>> /\ calls' = Tail(calls)
      BY <1>5 DEF CallFails, Exit, Drain, LookupFails, hubVars
    <3>2. calls \in Seq(CallRow)
      BY <1>1 DEF HubTypes
    <3>3. CASE calls # <<>> /\ calls' = Tail(calls)
      BY <3>2, <3>3
    <3>4. CASE calls' = <<>>
      BY <3>4
    <3>5. CASE calls' = calls
      BY <3>2, <3>5
    <3> QED
      BY <3>1, <3>3, <3>4, <3>5
  <2>3. draining' \in BOOLEAN /\ exists' = exists /\ stamp' = stamp
    BY <1>1, <1>5 DEF CallFails, Exit, Drain, LookupFails, HubTypes, hubVars
  <2>4. missed' \in [Conn -> BOOLEAN]
    <3>1. missed \in [Conn -> BOOLEAN]
      BY <1>1 DEF HubTypes
    <3>2. CASE CallFails
      BY <3>1, <3>2 DEF CallFails
    <3>3. CASE Exit
      BY <3>1, <3>3 DEF Exit
    <3>4. CASE Drain \/ \E s \in Socket : LookupFails(s)
      BY <3>1, <3>4 DEF Drain, LookupFails, hubVars
    <3> QED
      BY <1>5, <3>2, <3>3, <3>4
  <2> QED
    BY <2>1, <2>2, <2>3, <2>4, <1>1 DEF HubTypes
<1>6. ASSUME NEW c \in Conn, RemoveConnector(c)
      PROVE  HubTypes'
  BY <1>1, <1>6 DEF RemoveConnector, HubTypes
<1>7. ASSUME NEW s \in Socket,
             \/ Accept(s) \/ HelloTimeout(s) \/ BadHello(s)
             \/ \E c \in Conn \cup {None} : HelloArrives(s, c)
             \/ LookupRuns(s) \/ Unauthorized(s) \/ PeerVanishes(s)
      PROVE  HubTypes'
  BY <1>1, <1>7 DEF Accept, HelloTimeout, BadHello, HelloArrives, LookupRuns,
     Unauthorized, PeerVanishes, HubTypes, hubVars
<1>8. CASE UNCHANGED vars
  BY <1>1, <1>8 DEF HubTypes, vars, hubVars
<1> QED
  BY <1>2, <1>3, <1>4, <1>5, <1>6, <1>7, <1>8
     DEF Next, SocketCloses, HeartbeatTerminates

LEMMA TimersStep == IInv /\ [Next]_vars => TimersGuard'
<1> SUFFICES ASSUME IInv, [Next]_vars PROVE TimersGuard'
  OBVIOUS
<1>1. Types /\ TimersGuard
  BY DEF IInv, SessionsInv
<1>2. ASSUME \/ ws' = ws
             \/ \E S \in SUBSET Socket : ws' = Closing(S),
             timer' \in [Socket -> BOOLEAN],
             \A s \in Socket : timer'[s] => timer[s]
      PROVE  TimersGuard'
  BY <1>1, <1>2, ClosingIs DEF TimersGuard, Live
<1>3. ASSUME NEW s \in Socket, Accept(s) \/ CloseEvent(s)
      PROVE  TimersGuard'
  BY <1>1, <1>3 DEF Accept, CloseEvent, Types, TimersGuard, Live
<1>4. ASSUME NEW s \in Socket,
             HelloTimeout(s) \/ BadHello(s)
             \/ \E c \in Conn \cup {None} : HelloArrives(s, c)
      PROVE  TimersGuard'
  BY <1>1, <1>2, <1>4 DEF HelloTimeout, BadHello, HelloArrives, TimersGuard
<1>5. ASSUME NEW s \in Socket,
             LookupRuns(s) \/ LookupFails(s) \/ Unauthorized(s) \/ PeerVanishes(s)
      PROVE  TimersGuard'
  BY <1>1, <1>2, <1>5
     DEF LookupRuns, LookupFails, Unauthorized, PeerVanishes, TimersGuard
<1>6. ASSUME NEW s \in Socket, Register(s)
      PROVE  TimersGuard'
  <2>1. Replaced(claim[s]) \in SUBSET Socket
    BY DEF Replaced
  <2> QED
    BY <1>1, <1>2, <1>6, <2>1 DEF Register, TimersGuard
<1>7. CASE RunCall \/ CallFails \/ Drain \/ \E c \in Conn : RemoveConnector(c)
  BY <1>1, <1>2, <1>7
     DEF RunCall, CallFails, Drain, RemoveConnector, TimersGuard, socketVars
<1>8. CASE Exit
  BY <1>8 DEF Exit, TimersGuard
<1>9. CASE UNCHANGED vars
  BY <1>1, <1>2, <1>9 DEF vars, socketVars, TimersGuard
<1> QED
  BY <1>3, <1>4, <1>5, <1>6, <1>7, <1>8, <1>9
     DEF Next, SocketCloses, HeartbeatTerminates

LEMMA HeartbeatsStep == IInv /\ [Next]_vars => HeartbeatsBeat'
<1> SUFFICES ASSUME IInv, [Next]_vars PROVE HeartbeatsBeat'
  OBVIOUS
<1>1. Types /\ HeartbeatsBeat
  BY DEF IInv, SessionsInv
<1>2. ASSUME NEW s \in Socket,
             Accept(s) \/ HelloTimeout(s) \/ BadHello(s)
             \/ \E c \in Conn \cup {None} : HelloArrives(s, c)
      PROVE  HeartbeatsBeat'
  BY <1>1, <1>2
     DEF Accept, HelloTimeout, BadHello, HelloArrives, Types, HeartbeatsBeat
<1>3. ASSUME NEW s \in Socket,
             LookupRuns(s) \/ LookupFails(s) \/ Unauthorized(s)
      PROVE  HeartbeatsBeat'
  BY <1>1, <1>3
     DEF LookupRuns, LookupFails, Unauthorized, Types, HeartbeatsBeat
<1>4. ASSUME NEW s \in Socket, Register(s) \/ CloseEvent(s) \/ PeerVanishes(s)
      PROVE  HeartbeatsBeat'
  BY <1>1, <1>4 DEF Register, CloseEvent, PeerVanishes, Types, HeartbeatsBeat
<1>5. CASE RunCall \/ CallFails \/ Drain \/ \E c \in Conn : RemoveConnector(c)
  BY <1>1, <1>5
     DEF RunCall, CallFails, Drain, RemoveConnector, HeartbeatsBeat, socketVars
<1>6. CASE Exit
  BY <1>1, <1>6 DEF Exit, HeartbeatsBeat
<1>7. CASE UNCHANGED vars
  BY <1>1, <1>7 DEF vars, socketVars, HeartbeatsBeat
<1> QED
  BY <1>2, <1>3, <1>4, <1>5, <1>6, <1>7
     DEF Next, SocketCloses, HeartbeatTerminates

-----------------------------------------------------------------------------
(* The calls queue up in the order of the registrations they stamp.         *)
LEMMA CallQueued ==
  ASSUME Types, HubTypes, NEW c \in Conn, NEW op \in {"connected", "disconnected"},
         calls' = Append(calls, Call(op, c)),
         reg' \in [Conn -> Socket \cup {None}],
         op = "connected" <=> reg'[c] # None,
         \A d \in Conn \ {c} : reg'[d] = reg[d],
         UNCHANGED <<exists, stamp, missed>>, CallsTell
  PROVE  CallsTell'
<1> SUFFICES ASSUME NEW d \in Conn PROVE LastTells(d)'
  BY DEF CallsTell
<1>1. LastTells(d)
  BY DEF CallsTell
<1>2. /\ Len(calls') = Len(calls) + 1 /\ Len(calls) \in Nat
      /\ \A i \in 1 .. Len(calls) : calls'[i] = calls[i]
      /\ calls'[Len(calls) + 1].op = op /\ calls'[Len(calls) + 1].conn = c
  BY DEF HubTypes, Call, CallRow
<1>3. CASE d = c
  BY <1>2, <1>3 DEF LastTells, CallsOf
<1>4. CASE d # c
  <2>1. CallsOf(d)' = CallsOf(d)
    BY <1>2, <1>4 DEF CallsOf
  <2> QED
    BY <2>1, <1>1, <1>2, <1>4 DEF LastTells, CallsOf
<1> QED
  BY <1>3, <1>4

(* The next call is taken: it stamps its row, or it is missed.              *)
LEMMA CallTaken ==
  ASSUME Types, HubTypes, RunCall \/ CallFails, CallsTell
  PROVE  CallsTell'
<1> SUFFICES ASSUME NEW d \in Conn PROVE LastTells(d)'
  BY DEF CallsTell
<1> DEFINE h == calls[1]
<1>1. LastTells(d)
  BY DEF CallsTell
<1>2. /\ Len(calls) \in Nat \ {0} /\ Len(calls') = Len(calls) - 1
      /\ \A i \in 1 .. Len(calls') : calls'[i] = calls[i + 1]
      /\ h.conn \in Conn /\ Head(calls) = h
      /\ reg' = reg /\ exists' = exists
  <2>1. calls \in Seq(CallRow) /\ calls # <<>> /\ calls' = Tail(calls)
    BY DEF RunCall, CallFails, HubTypes
  <2>2. Len(calls) \in Nat \ {0} /\ h \in CallRow /\ Head(calls) = h
    BY <2>1
  <2>3. /\ Len(calls') = Len(calls) - 1
        /\ \A i \in 1 .. Len(calls') : calls'[i] = calls[i + 1]
    BY <2>1, <2>2
  <2> QED
    BY <2>2, <2>3 DEF CallRow, RunCall, CallFails
<1>3. /\ h.conn # d => missed'[d] = missed[d] /\ stamp'[d] = stamp[d]
      /\ h.conn = d /\ exists[d] => missed'[d] \/ stamp'[d] = h.op
  <2>1. CASE RunCall
    <3>1. /\ missed' = [missed EXCEPT ![h.conn] = FALSE]
          /\ stamp' = IF exists[h.conn] THEN [stamp EXCEPT ![h.conn] = h.op]
                      ELSE stamp
      BY <1>2, <2>1 DEF RunCall
    <3> QED
      BY <1>2, <3>1 DEF HubTypes
  <2>2. CASE CallFails
    <3>1. missed' = [missed EXCEPT ![h.conn] = TRUE] /\ stamp' = stamp
      BY <1>2, <2>2 DEF CallFails
    <3> QED
      BY <1>2, <3>1 DEF HubTypes
  <2> QED
    BY <2>1, <2>2
<1>4. \A i \in CallsOf(d)' : i + 1 \in CallsOf(d) /\ calls'[i] = calls[i + 1]
  BY <1>2 DEF CallsOf
<1>5. \A i \in CallsOf(d) : i = 1 \/ i - 1 \in CallsOf(d)'
  BY <1>2 DEF CallsOf
<1>6. \A i \in CallsOf(d)' : (\A j \in CallsOf(d)' : j <= i) =>
        (calls'[i].op = "connected" <=> reg[d] # None)
  <2> SUFFICES ASSUME NEW i \in CallsOf(d)', \A j \in CallsOf(d)' : j <= i
               PROVE  calls'[i].op = "connected" <=> reg[d] # None
    OBVIOUS
  <2>1. i \in Nat /\ i >= 1
    BY <1>2 DEF CallsOf
  <2>2. \A j \in CallsOf(d) : j <= i + 1
    BY <2>1, <1>5, <1>2 DEF CallsOf
  <2> QED
    BY <2>2, <1>1, <1>4 DEF LastTells
<1>7. CallsOf(d)' = {} /\ exists[d] /\ ~missed'[d] =>
        (stamp'[d] = "connected" <=> reg[d] # None)
  <2> SUFFICES ASSUME CallsOf(d)' = {}, exists[d], ~missed'[d]
               PROVE  stamp'[d] = "connected" <=> reg[d] # None
    OBVIOUS
  <2>1. CASE h.conn = d
    <3>1. 1 \in CallsOf(d) /\ \A j \in CallsOf(d) : j <= 1
      BY <2>1, <1>2, <1>5 DEF CallsOf
    <3> QED
      BY <3>1, <2>1, <1>1, <1>3 DEF LastTells
  <2>2. CASE h.conn # d
    <3>1. CallsOf(d) = {}
      BY <2>2, <1>5 DEF CallsOf
    <3> QED
      BY <3>1, <2>2, <1>1, <1>3 DEF LastTells
  <2> QED
    BY <2>1, <2>2
<1> QED
  BY <1>2, <1>6, <1>7 DEF LastTells

LEMMA CallsStay ==
  ASSUME CallsTell, UNCHANGED <<reg, calls, stamp, missed>>,
         \A c \in Conn : exists'[c] => exists[c]
  PROVE  CallsTell'
BY DEF CallsTell, LastTells, CallsOf

LEMMA CallsStepInv == IInv /\ [Next]_vars => CallsTell'
<1> SUFFICES ASSUME IInv, [Next]_vars PROVE CallsTell'
  OBVIOUS
<1>1. Types /\ HubTypes
  BY DEF IInv, SessionsInv
<1>2. ASSUME NEW s \in Socket, Register(s)
      PROVE  CallsTell'
  <2>1. claim[s] \in Conn /\ s # None
    BY <1>2, NoneIsNone DEF Register, IInv, SessionsInv, Types, RegistryTells
  <2>2. /\ reg' \in [Conn -> Socket \cup {None}] /\ reg'[claim[s]] = s
        /\ \A d \in Conn \ {claim[s]} : reg'[d] = reg[d]
    BY <1>2, <2>1, <1>1 DEF Register, Types
  <2> QED
    BY <1>1, <1>2, <2>1, <2>2, CallQueued DEF Register, IInv
<1>3. ASSUME NEW s \in Socket, CloseEvent(s)
      PROVE  CallsTell'
  <2>1. CASE stage[s] = "session" /\ IsCurrent(s)
    <3>1. claim[s] \in Conn
      BY <2>1, <1>1 DEF IsCurrent, Types
    <3>2. /\ reg' = [reg EXCEPT ![claim[s]] = None]
          /\ calls' = Append(calls, Call("disconnected", claim[s]))
      BY <2>1, <1>3 DEF CloseEvent, Deregister
    <3> QED
      BY <1>1, <1>3, <3>1, <3>2, CallQueued DEF CloseEvent, IInv, Types
  <2>2. CASE ~(stage[s] = "session" /\ IsCurrent(s))
    BY <2>2, <1>3, CallsStay DEF CloseEvent, Deregister, IInv
  <2> QED
    BY <2>1, <2>2
<1>4. CASE RunCall \/ CallFails
  BY <1>1, <1>4, CallTaken DEF IInv
<1>5. CASE Exit
  <2> SUFFICES ASSUME NEW c \in Conn PROVE LastTells(c)'
    BY DEF CallsTell
  <2>1. /\ calls' = <<>> /\ reg'[c] = None
        /\ UNCHANGED <<exists, stamp>>
        /\ ~missed'[c] => ~missed[c] /\ CallsOf(c) = {} /\ reg[c] = None
    BY <1>5 DEF Exit, Due, CallsOf
  <2>2. CallsOf(c)' = {}
    BY <2>1 DEF CallsOf
  <2>3. LastTells(c)
    BY DEF IInv, CallsTell
  <2> QED
    BY <2>1, <2>2, <2>3 DEF LastTells
<1>6. ASSUME NEW c \in Conn, RemoveConnector(c)
      PROVE  CallsTell'
  BY <1>1, <1>6, CallsStay DEF RemoveConnector, IInv, HubTypes
<1>7. CASE Drain
  BY <1>7, CallsStay DEF Drain, hubVars, IInv
<1>8. ASSUME NEW s \in Socket,
             \/ Accept(s) \/ HelloTimeout(s) \/ BadHello(s)
             \/ \E c \in Conn \cup {None} : HelloArrives(s, c)
             \/ LookupRuns(s) \/ LookupFails(s) \/ Unauthorized(s)
             \/ PeerVanishes(s)
      PROVE  CallsTell'
  BY <1>8, CallsStay DEF Accept, HelloTimeout, BadHello, HelloArrives,
     LookupRuns, LookupFails, Unauthorized, PeerVanishes, hubVars, IInv
<1>9. CASE UNCHANGED vars
  BY <1>9, CallsStay DEF vars, hubVars, IInv
<1> QED
  BY <1>2, <1>3, <1>4, <1>5, <1>6, <1>7, <1>8, <1>9
     DEF Next, SocketCloses, HeartbeatTerminates

-----------------------------------------------------------------------------
(* The invariant all results of this module rest on.                        *)
THEOREM SessionsInvariant == Spec => []IInv
<1>1. IInv /\ [Next]_vars => IInv'
  BY SessionsStepInv, CallsStepInv, HubTypesStep, TimersStep, HeartbeatsStep
     DEF IInv
<1> QED
  BY <1>1, InitInv, PTL DEF Spec

(* Every variable has its type; the hello timer is set only while a socket  *)
(* is there to be closed by it, and only sessions have a heartbeat.         *)
THEOREM SessionsTypeOK == Spec => []TypeOK
<1>1. IInv => TypeOK
  BY DEF IInv, SessionsInv, Types, HubTypes, TimersGuard, HeartbeatsBeat, TypeOK,
         CallRow
<1> QED
  BY <1>1, SessionsInvariant, PTL

(* For any number of sockets that present the same token, in any order of   *)
(* lookups, replacements and closes: an open session is the registered one  *)
(* (session-registry.ts; handle-connector-connection.ts).                   *)
THEOREM OpenSessionsAreRegistered == Spec => []OpenSessionIsRegistered
<1>1. IInv => OpenSessionIsRegistered
  BY DEF IInv, SessionsInv
<1> QED
  BY <1>1, SessionsInvariant, PTL

(* The only way a closed socket is left in the registry is that it closed   *)
(* while its lookup was under way (handle-connector-connection.ts,          *)
(* handleHello).                                                            *)
THEOREM GhostsCloseEarly == Spec => []GhostsOnlyFromLookup
<1>1. IInv => GhostsOnlyFromLookup
  BY DEF IInv, SessionsInv
<1> QED
  BY <1>1, SessionsInvariant, PTL

(* When no stamp of a connector is due and none was missed since, its row   *)
(* says what the registry says (markConnected, markDisconnected).           *)
THEOREM StampsTellSessions == Spec => []StampsSettle
<1>1. IInv => StampsSettle
  BY DEF IInv, CallsTell, LastTells, CallsOf, Due, StampsSettle
<1> QED
  BY <1>1, SessionsInvariant, PTL
=============================================================================
