--------------------------- MODULE LiveRelayClient ---------------------------
(***************************************************************************)
(* The connection of the client SDK (src/client/src/LiveRelayClient.ts):   *)
(* connect(), the listeners it adds and removes, reconnection after a      *)
(* close, and disconnect().                                                *)
(*                                                                         *)
(* WebSockets are numbered in the order they are created.  The four        *)
(* listeners of a handshake come and go together (`handshake`).  The       *)
(* cleanup of a handshake works on this.ws, which need not be its own      *)
(* socket any more.  Delays of the timer and the application's handlers    *)
(* are left out.                                                           *)
(***************************************************************************)
EXTENDS Naturals

CONSTANTS
  MaxSockets,    \* bound: WebSockets created
  MaxAttempts    \* maxReconnectAttempts

ASSUME ClientAssumption == MaxSockets \in Nat /\ MaxAttempts \in Nat

VARIABLES
  created,       \* number of WebSockets created
  ws,            \* this.ws, 0 for null
  ready,         \* readyState of each WebSocket
  handshake,     \* sockets with the listeners of connect()
  onMessage,     \* number of handlers of setupMessageHandler on each socket
  onClose,       \* number of handlers of setupCloseHandler on each socket
  connected,     \* this.connected
  attempts,      \* this.reconnectAttempts
  timers,        \* reconnect timers that are set
  autoReconnect, \* this.config.autoReconnect
  promise        \* of the connect() that created each socket

clientVars == <<created, ws, ready, handshake, onMessage, onClose,
                connected, attempts, timers, autoReconnect, promise>>

SocketIds == 1 .. MaxSockets

ClientInit ==
  /\ created = 0
  /\ ws = 0
  /\ ready = [s \in SocketIds |-> "none"]
  /\ handshake = {}
  /\ onMessage = [s \in SocketIds |-> 0]
  /\ onClose = [s \in SocketIds |-> 0]
  /\ connected = FALSE
  /\ attempts = 0
  /\ timers = 0
  /\ autoReconnect = TRUE
  /\ promise = [s \in SocketIds |-> "none"]

\* connect()
Dial ==
  /\ created < MaxSockets
  /\ created' = created + 1
  /\ ws' = created + 1
  /\ ready' = [ready EXCEPT ![created + 1] = "connecting"]
  /\ handshake' = handshake \cup {created + 1}
  /\ promise' = [promise EXCEPT ![created + 1] = "pending"]
  /\ UNCHANGED <<onMessage, onClose, connected, attempts, autoReconnect>>

\* Faulty: the handshake's listeners stay.
CleanupAdds(s) ==
  /\ UNCHANGED handshake
  /\ onMessage' = [t \in SocketIds |-> onMessage[t] + (IF t = ws THEN 1 ELSE 0)]
  /\ onClose' = [t \in SocketIds |-> onClose[t] + (IF t = ws THEN 1 ELSE 0)]

\* cleanup() of the handshake of s
Cleanup(s) ==
  /\ handshake' = IF ws = s THEN handshake \ {s} ELSE handshake
  /\ onMessage' = [t \in SocketIds |-> onMessage[t] + (IF t = ws THEN 1 ELSE 0)]
  /\ onClose' = [t \in SocketIds |-> onClose[t] + (IF t = ws THEN 1 ELSE 0)]

NoCleanup == UNCHANGED <<handshake, onMessage, onClose>>

Reject(s) ==
  promise' = [promise EXCEPT ![s] = IF @ = "pending" THEN "rejected" ELSE @]

\* onError and onClose, if they are still there
HandshakeFails(s) ==
  IF s \in handshake
    THEN Cleanup(s) /\ Reject(s)
    ELSE NoCleanup /\ UNCHANGED promise

OpenEvent(s) ==
  /\ ready' = [ready EXCEPT ![s] = "open"]
  /\ IF s \in handshake
       THEN connected' = TRUE /\ attempts' = 0 /\ Cleanup(s)
       ELSE UNCHANGED <<connected, attempts>> /\ NoCleanup
  /\ UNCHANGED <<created, ws, timers, autoReconnect, promise>>

\* The welcome resolves the promise of a handshake whose listener is there.
WelcomeEvent(s) ==
  /\ promise' = [promise EXCEPT
       ![s] = IF s \in handshake /\ @ = "pending" THEN "resolved" ELSE @]
  /\ UNCHANGED <<created, ws, ready, handshake, onMessage, onClose,
                 connected, attempts, timers, autoReconnect>>

\* A server ping is answered over this.ws if that is open.
Answers(s) ==
  /\ onMessage[s] > 0 \/ s \in handshake
  /\ ws # 0
  /\ ready[ws] = "open"

ErrorEvent(s) ==
  /\ HandshakeFails(s)
  /\ UNCHANGED <<created, ws, ready, connected, attempts, timers, autoReconnect>>

\* Faulty: only the first handler looks at the limit.
RestartsPastLimit(k) == IF autoReconnect /\ attempts < MaxAttempts THEN k ELSE 0

\* How many of the k close handlers start another attempt.
Restarts(k) ==
  IF ~autoReconnect THEN 0
  ELSE IF attempts + k <= MaxAttempts THEN k ELSE MaxAttempts - attempts

\* Faulty: a failed attempt is the last.
CloseEventOnce(s) ==
  LET k == IF connected THEN Restarts(onClose[s]) ELSE 0
  IN  /\ ready' = [ready EXCEPT ![s] = "closed"]
      /\ connected' = IF onClose[s] > 0 THEN FALSE ELSE connected
      /\ attempts' = attempts + k
      /\ timers' = timers + k
      /\ HandshakeFails(s)
      /\ UNCHANGED <<created, ws, autoReconnect>>

\* Handlers added during the event do not see it.
CloseEvent(s) ==
  LET k == Restarts(onClose[s])
  IN  /\ ready' = [ready EXCEPT ![s] = "closed"]
      /\ connected' = IF onClose[s] > 0 THEN FALSE ELSE connected
      /\ attempts' = attempts + k
      /\ timers' = timers + k
      /\ HandshakeFails(s)
      /\ UNCHANGED <<created, ws, autoReconnect>>

\* attemptReconnect's timer; a rejected promise is caught and dropped.
TimerFires ==
  /\ timers > 0
  /\ timers' = timers - 1
  /\ Dial

\* Faulty: the timer goes on.
DisconnectKeepsTimer ==
  /\ autoReconnect' = FALSE
  /\ ready' = [s \in SocketIds |->
       IF s = ws /\ ready[s] \in {"connecting", "open"} THEN "closing" ELSE ready[s]]
  /\ ws' = 0
  /\ connected' = FALSE
  /\ UNCHANGED <<created, handshake, onMessage, onClose, attempts, timers, promise>>

\* disconnect(): clears the timer that was set last.
Disconnect ==
  /\ autoReconnect' = FALSE
  /\ timers' = IF timers > 0 THEN timers - 1 ELSE 0
  /\ ready' = [s \in SocketIds |->
       IF s = ws /\ ready[s] \in {"connecting", "open"} THEN "closing" ELSE ready[s]]
  /\ ws' = 0
  /\ connected' = FALSE
  /\ UNCHANGED <<created, handshake, onMessage, onClose, attempts, promise>>
=============================================================================
