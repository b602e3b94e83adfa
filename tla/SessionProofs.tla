---------------------------- MODULE SessionProofs ----------------------------
(***************************************************************************)
(* Theorems about Session, for every interval, timeout and number of       *)
(* sockets.                                                                *)
(***************************************************************************)
EXTENDS Session, TLAPS

-----------------------------------------------------------------------------
(* Silence is bounded by what a round lets pass and the time since then.   *)

\* The part of the server's state the heartbeat works on
HeartbeatInv ==
  /\ serving \subseteq Sockets
  /\ silence \in [Sockets -> Nat]
  /\ due \in 0 .. Interval
  /\ \A s \in serving : silence[s] + due <= LongestSilence

LEMMA HeartbeatStarts == ASSUME Init PROVE HeartbeatInv
  BY HeartbeatAssumption DEF Init, HbInit, HeartbeatInv, LongestSilence

\* An upgrade, a ping and a close keep the invariant.
LEMMA OpenedStep ==
  ASSUME HeartbeatInv, NEW s \in Sockets, Opened(s) PROVE HeartbeatInv'
  BY HeartbeatAssumption DEF Opened, HeartbeatInv, LongestSilence

LEMMA PongStep ==
  ASSUME HeartbeatInv, NEW s \in Sockets, Pong(s) PROVE HeartbeatInv'
  BY HeartbeatAssumption DEF Pong, HeartbeatInv, LongestSilence

LEMMA ClosedStep ==
  ASSUME HeartbeatInv, NEW s \in Sockets, Closed(s) PROVE HeartbeatInv'
  BY HeartbeatAssumption DEF Closed, HeartbeatInv, LongestSilence

\* A round leaves only sockets that were silent for Interval + Timeout at most.
LEMMA RoundStep ==
  ASSUME HeartbeatInv, Round PROVE HeartbeatInv'
  <1>1. serving' = serving \ Missed /\ due' = Interval
    BY DEF Round
  <1>2. silence' \in [Sockets -> Nat]
    BY DEF Round, HeartbeatInv
  <1>3. ASSUME NEW s \in serving' PROVE silence'[s] + due' <= LongestSilence
    <2>1. s \in serving /\ s \notin Missed /\ s \in Sockets
      BY <1>1, <1>3 DEF HeartbeatInv
    <2>2. silence'[s] = silence[s]
      BY <2>1 DEF Round
    <2>3. silence[s] <= Interval + Timeout
      BY <2>1, HeartbeatAssumption DEF Missed, HeartbeatInv
    <2>. QED
      BY <1>1, <2>1, <2>2, <2>3, HeartbeatAssumption DEF HeartbeatInv, LongestSilence
  <1>. QED
    BY <1>1, <1>2, <1>3, HeartbeatAssumption DEF HeartbeatInv

\* Time that passes brings the next round nearer.
LEMMA ElapseStep ==
  ASSUME HeartbeatInv, Elapse PROVE HeartbeatInv'
  BY HeartbeatAssumption DEF Elapse, HeartbeatInv, LongestSilence, Capped

LEMMA IdleStep ==
  ASSUME HeartbeatInv, UNCHANGED hbVars PROVE HeartbeatInv'
  BY DEF HeartbeatInv, hbVars, LongestSilence

LEMMA HeartbeatKept ==
  ASSUME HeartbeatInv, [Next]_vars PROVE HeartbeatInv'
  <1>1. CASE AppConnect
    BY <1>1, IdleStep DEF AppConnect
  <1>2. CASE AppDisconnect
    BY <1>2, IdleStep DEF AppDisconnect
  <1>3. CASE Reconnect
    BY <1>3, IdleStep DEF Reconnect
  <1>4. ASSUME NEW s \in Sockets, Accepted(s) PROVE HeartbeatInv'
    BY <1>4, OpenedStep DEF Accepted
  <1>5. ASSUME NEW s \in Sockets, Refused(s) \/ GoesSilent(s) \/ GivenUp(s) PROVE HeartbeatInv'
    BY <1>5, IdleStep DEF Refused, GoesSilent, GivenUp
  <1>6. ASSUME NEW s \in Sockets, Reset(s) PROVE HeartbeatInv'
    BY <1>6, ClosedStep DEF Reset
  <1>7. ASSUME NEW s \in Sockets, ClientHandles(s) PROVE HeartbeatInv'
    BY <1>7, IdleStep DEF ClientHandles
  <1>8. ASSUME NEW s \in Sockets, ServerHandles(s) PROVE HeartbeatInv'
    <2>1. Pong(s) \/ Closed(s) \/ UNCHANGED hbVars
      BY <1>8 DEF ServerHandles
    <2>. QED
      BY <2>1, PongStep, ClosedStep, IdleStep
  <1>9. CASE HeartbeatRound
    BY <1>9, RoundStep DEF HeartbeatRound
  <1>10. CASE TimePasses
    BY <1>10, ElapseStep DEF TimePasses
  <1>11. CASE UNCHANGED vars
    BY <1>11, IdleStep DEF vars
  <1>. QED
    BY <1>1, <1>2, <1>3, <1>4, <1>5, <1>6, <1>7, <1>8, <1>9, <1>10, <1>11 DEF Next

LEMMA HeartbeatInvariant == Spec => []HeartbeatInv
  <1>1. Init => HeartbeatInv
    BY HeartbeatStarts
  <1>2. HeartbeatInv /\ [Next]_vars => HeartbeatInv'
    BY HeartbeatKept
  <1>. QED
    BY <1>1, <1>2, PTL DEF Spec

-----------------------------------------------------------------------------

\* The heartbeat ends every dead socket: the server serves none longer than two
\* intervals and the timeout after its last sign of life (Heartbeat.ts:19).
THEOREM SessionDeadEnded == Spec => []DeadEnded
  <1>1. HeartbeatInv => DeadEnded
    BY HeartbeatAssumption DEF HeartbeatInv, DeadEnded, LongestSilence
  <1>. QED
    BY <1>1, HeartbeatInvariant, PTL

-----------------------------------------------------------------------------
(* Types.                                                                  *)

Readiness == {"none", "connecting", "open", "closing", "closed"}
Promises == {"none", "pending", "resolved", "rejected"}

ClientTypes ==
  /\ created \in 0 .. MaxSockets /\ ws \in 0 .. created
  /\ ready \in [Sockets -> Readiness]
  /\ handshake \subseteq 1 .. created
  /\ onMessage \in [Sockets -> Nat] /\ onClose \in [Sockets -> Nat]
  /\ connected \in BOOLEAN /\ autoReconnect \in BOOLEAN
  /\ attempts \in 0 .. MaxAttempts /\ timers \in Nat
  /\ promise \in [Sockets -> Promises]

ServerTypes ==
  /\ serving \subseteq 1 .. created
  /\ silence \in [Sockets -> 0 .. Capped]
  /\ due \in 0 .. Interval

Queues == [Sockets -> Seq(Messages)]

TypeInv == ClientTypes /\ ServerTypes /\ toClient \in Queues /\ toServer \in Queues

\* The numbers of sockets, and what is known of the bounds.
LEMMA SocketNumbers ==
  ASSUME TypeInv
  PROVE  /\ Sockets = 1 .. MaxSockets /\ SocketIds = Sockets
         /\ MaxSockets \in Nat /\ MaxAttempts \in Nat
         /\ Interval \in Nat \ {0} /\ Timeout \in Nat
         /\ created \in Nat /\ created <= MaxSockets
         /\ 1 .. created \subseteq Sockets
         /\ ws \in Nat /\ (ws # 0 => ws \in Sockets)
  <1>1. Sockets = 1 .. MaxSockets /\ SocketIds = Sockets
        /\ MaxSockets \in Nat /\ MaxAttempts \in Nat
    BY SocketsAssumption, ClientAssumption DEF SocketIds
  <1>2. created \in 0 .. MaxSockets /\ ws \in 0 .. created
    BY DEF TypeInv, ClientTypes
  <1>. QED
    BY <1>1, <1>2, HeartbeatAssumption

LEMMA DialTypes ==
  ASSUME TypeInv, Dial, timers' \in Nat
  PROVE  ClientTypes' /\ created' = created + 1
  <1>1. /\ created < MaxSockets /\ created' = created + 1 /\ ws' = created + 1
        /\ ready' = [ready EXCEPT ![created + 1] = "connecting"]
        /\ handshake' = handshake \cup {created + 1}
        /\ promise' = [promise EXCEPT ![created + 1] = "pending"]
        /\ UNCHANGED <<onMessage, onClose, connected, attempts, autoReconnect>>
    BY DEF Dial
  <1>2. created \in Nat /\ MaxSockets \in Nat
    BY SocketNumbers
  <1>3. created' \in 0 .. MaxSockets /\ ws' \in 0 .. created' /\ created + 1 \in 1 .. created'
        /\ 1 .. created \subseteq 1 .. created'
    BY <1>1, <1>2
  <1>4. ready' \in [Sockets -> Readiness] /\ promise' \in [Sockets -> Promises]
    BY <1>1 DEF TypeInv, ClientTypes, Readiness, Promises
  <1>5. handshake' \subseteq 1 .. created'
    BY <1>1, <1>3 DEF TypeInv, ClientTypes
  <1>. QED
    BY <1>1, <1>3, <1>4, <1>5 DEF TypeInv, ClientTypes

LEMMA CleanupTypes ==
  ASSUME TypeInv, NEW s \in Sockets, Cleanup(s) \/ NoCleanup
  PROVE  /\ handshake' \subseteq 1 .. created
         /\ onMessage' \in [Sockets -> Nat] /\ onClose' \in [Sockets -> Nat]
  <1>1. SocketIds = Sockets /\ onMessage \in [Sockets -> Nat] /\ onClose \in [Sockets -> Nat]
        /\ handshake \subseteq 1 .. created
    BY SocketNumbers DEF TypeInv, ClientTypes
  <1>2. CASE Cleanup(s)
    <2>1. handshake' \subseteq handshake
      BY <1>2 DEF Cleanup
    <2>2. onMessage' = [t \in Sockets |-> onMessage[t] + (IF t = ws THEN 1 ELSE 0)]
          /\ onClose' = [t \in Sockets |-> onClose[t] + (IF t = ws THEN 1 ELSE 0)]
      BY <1>1, <1>2 DEF Cleanup
    <2>. QED
      BY <1>1, <2>1, <2>2
  <1>3. CASE NoCleanup
    BY <1>1, <1>3 DEF NoCleanup
  <1>. QED
    BY <1>2, <1>3

LEMMA RestartsBound ==
  ASSUME TypeInv, NEW k \in Nat
  PROVE  /\ Restarts(k) \in Nat /\ Restarts(k) <= k
         /\ attempts + Restarts(k) \in 0 .. MaxAttempts
         /\ ~autoReconnect => Restarts(k) = 0
  <1>1. attempts \in 0 .. MaxAttempts /\ MaxAttempts \in Nat
    BY SocketNumbers DEF TypeInv, ClientTypes
  <1>. QED
    BY <1>1 DEF Restarts

\* The events of a socket
Event(s) == OpenEvent(s) \/ WelcomeEvent(s) \/ ErrorEvent(s) \/ CloseEvent(s)

LEMMA EventTypes ==
  ASSUME TypeInv, NEW s \in Sockets, Event(s)
  PROVE  ClientTypes' /\ created' = created
  <1>1. created' = created /\ ws' = ws /\ autoReconnect' = autoReconnect
        /\ created \in 0 .. MaxSockets /\ ws \in 0 .. created /\ autoReconnect \in BOOLEAN
    BY DEF Event, OpenEvent, WelcomeEvent, ErrorEvent, CloseEvent, HandshakeFails, TypeInv, ClientTypes
  <1>2. ready' \in [Sockets -> Readiness]
    <2>1. ready' = ready \/ ready' = [ready EXCEPT ![s] = "open"] \/ ready' = [ready EXCEPT ![s] = "closed"]
      BY DEF Event, OpenEvent, WelcomeEvent, ErrorEvent, CloseEvent, HandshakeFails
    <2>2. ready \in [Sockets -> Readiness] /\ "open" \in Readiness /\ "closed" \in Readiness
      BY DEF TypeInv, ClientTypes, Readiness
    <2>. QED
      BY <2>1, <2>2
  <1>3. /\ handshake' \subseteq 1 .. created'
        /\ onMessage' \in [Sockets -> Nat] /\ onClose' \in [Sockets -> Nat]
    <2>1. Cleanup(s) \/ NoCleanup
      BY DEF Event, OpenEvent, WelcomeEvent, ErrorEvent, CloseEvent, HandshakeFails, NoCleanup
    <2>. QED
      BY <1>1, <2>1, CleanupTypes
  <1>4. promise' \in [Sockets -> Promises]
    <2>1. \/ promise' = promise
          \/ promise' = [promise EXCEPT ![s] = IF s \in handshake /\ @ = "pending" THEN "resolved" ELSE @]
          \/ promise' = [promise EXCEPT ![s] = IF @ = "pending" THEN "rejected" ELSE @]
      BY DEF Event, OpenEvent, WelcomeEvent, ErrorEvent, CloseEvent, HandshakeFails, Reject
    <2>2. promise \in [Sockets -> Promises] /\ "resolved" \in Promises /\ "rejected" \in Promises
      BY DEF TypeInv, ClientTypes, Promises
    <2>3. promise[s] \in Promises
      BY <2>2
    <2>. QED
      BY <2>1, <2>2, <2>3
  <1>5. connected' \in BOOLEAN
    <2>1. connected' = connected \/ connected' = TRUE \/ connected' = FALSE
      BY DEF Event, OpenEvent, WelcomeEvent, ErrorEvent, CloseEvent, HandshakeFails
    <2>. QED
      BY <2>1 DEF TypeInv, ClientTypes
  <1>6. attempts' \in 0 .. MaxAttempts /\ timers' \in Nat
    <2>1. attempts \in 0 .. MaxAttempts /\ timers \in Nat /\ 0 \in 0 .. MaxAttempts
      BY SocketNumbers DEF TypeInv, ClientTypes
    <2>2. CASE CloseEvent(s)
      <3>1. onClose[s] \in Nat
        BY DEF TypeInv, ClientTypes
      <3>2. attempts' = attempts + Restarts(onClose[s]) /\ timers' = timers + Restarts(onClose[s])
        BY <2>2 DEF CloseEvent, HandshakeFails
      <3>. QED
        BY <2>1, <3>1, <3>2, RestartsBound
    <2>3. CASE OpenEvent(s) \/ WelcomeEvent(s) \/ ErrorEvent(s)
      <3>1. (attempts' = attempts \/ attempts' = 0) /\ timers' = timers
        BY <2>3 DEF OpenEvent, WelcomeEvent, ErrorEvent, HandshakeFails
      <3>. QED
        BY <2>1, <3>1
    <2>. QED
      BY <2>2, <2>3 DEF Event
  <1>. QED
    BY <1>1, <1>2, <1>3, <1>4, <1>5, <1>6 DEF ClientTypes

LEMMA DisconnectTypes ==
  ASSUME TypeInv, Disconnect PROVE ClientTypes' /\ created' = created
  <1>1. SocketIds = Sockets /\ created \in Nat
    BY SocketNumbers
  <1>2. timers' \in Nat
    BY DEF Disconnect, TypeInv, ClientTypes
  <1>3. ready' \in [Sockets -> Readiness]
    <2>1. ready' = [s \in Sockets |->
            IF s = ws /\ ready[s] \in {"connecting", "open"} THEN "closing" ELSE ready[s]]
      BY <1>1 DEF Disconnect
    <2>2. ready \in [Sockets -> Readiness] /\ "closing" \in Readiness
      BY DEF TypeInv, ClientTypes, Readiness
    <2>. QED
      BY <2>1, <2>2
  <1>4. /\ autoReconnect' = FALSE /\ ws' = 0 /\ connected' = FALSE
        /\ UNCHANGED <<created, handshake, onMessage, onClose, attempts, promise>>
    BY DEF Disconnect
  <1>5. created' \in 0 .. MaxSockets /\ ws' \in 0 .. created'
    BY <1>1, <1>4 DEF TypeInv, ClientTypes
  <1>6. /\ handshake' \subseteq 1 .. created'
        /\ onMessage' \in [Sockets -> Nat] /\ onClose' \in [Sockets -> Nat]
        /\ attempts' \in 0 .. MaxAttempts /\ promise' \in [Sockets -> Promises]
    BY <1>4 DEF TypeInv, ClientTypes
  <1>. QED
    BY <1>2, <1>3, <1>4, <1>5, <1>6 DEF ClientTypes

LEMMA ClientSame ==
  ASSUME TypeInv, UNCHANGED clientVars PROVE ClientTypes' /\ created' = created
  BY DEF TypeInv, ClientTypes, clientVars

-----------------------------------------------------------------------------
(* The server's types. *)

LEMMA ServerTypesKept ==
  ASSUME TypeInv, ClientTypes', created' \in {created, created + 1},
         NEW s \in 1 .. created,
         Opened(s) \/ Pong(s) \/ Closed(s) \/ Round \/ Elapse \/ UNCHANGED hbVars
  PROVE  ServerTypes'
  <1>1. /\ serving \subseteq 1 .. created /\ silence \in [Sockets -> 0 .. Capped]
        /\ due \in 0 .. Interval /\ Interval \in Nat /\ Timeout \in Nat /\ s \in Sockets
        /\ created \in Nat /\ Capped \in Nat /\ 0 \in 0 .. Capped
    <2>1. /\ Interval \in Nat /\ Timeout \in Nat /\ created \in Nat /\ s \in Sockets
      BY SocketNumbers
    <2>2. Capped \in Nat /\ 0 \in 0 .. Capped
      BY <2>1 DEF Capped, LongestSilence
    <2>. QED
      BY <2>1, <2>2 DEF TypeInv, ServerTypes
  <1>2. 1 .. created \subseteq 1 .. created'
    BY <1>1
  <1>3. CASE Opened(s) \/ Pong(s) \/ Closed(s)
    <2>1. serving' \subseteq serving \cup {s}
      BY <1>3 DEF Opened, Pong, Closed
    <2>2. silence' = [silence EXCEPT ![s] = 0] /\ due' = due
      BY <1>3 DEF Opened, Pong, Closed
    <2>. QED
      BY <1>1, <1>2, <2>1, <2>2 DEF ServerTypes, Capped, LongestSilence
  <1>4. CASE Round
    <2>1. silence' = [t \in Sockets |-> IF t \in Missed THEN 0 ELSE silence[t]]
          /\ due' = Interval /\ serving' \subseteq serving
      BY <1>4 DEF Round
    <2>2. silence' \in [Sockets -> 0 .. Capped]
      BY <1>1, <2>1
    <2>3. due' \in 0 .. Interval
      BY <1>1, <2>1
    <2>4. serving' \subseteq 1 .. created'
      BY <1>1, <1>2, <2>1
    <2>. QED
      BY <2>2, <2>3, <2>4 DEF ServerTypes, Capped, LongestSilence
  <1>5. CASE Elapse
    <2>1. silence' = [t \in Sockets |->
            IF t \in serving /\ silence[t] < Capped THEN silence[t] + 1 ELSE silence[t]]
          /\ due > 0 /\ due' = due - 1 /\ serving' = serving
      BY <1>5 DEF Elapse
    <2>2. silence' \in [Sockets -> 0 .. Capped]
      BY <1>1, <2>1
    <2>. QED
      BY <1>1, <1>2, <2>1, <2>2 DEF ServerTypes, Capped, LongestSilence
  <1>6. CASE UNCHANGED hbVars
    BY <1>1, <1>2, <1>6 DEF hbVars, ServerTypes, Capped, LongestSilence
  <1>. QED
    BY <1>3, <1>4, <1>5, <1>6

-----------------------------------------------------------------------------
(* The messages. *)

Whats == {"open", "welcome", "error", "close", "ping"}

LEMMA MessageType ==
  ASSUME NEW w \in Whats, NEW a \in 0 .. Timeout
  PROVE  Msg(w, a) \in Messages /\ Msg(w, a).what = w /\ Msg(w, a).age = a
  BY DEF Msg, Messages, Whats

LEMMA NewMessage ==
  ASSUME NEW w \in Whats PROVE Msg(w, 0) \in Messages
  <1>1. 0 \in 0 .. Timeout
    BY HeartbeatAssumption
  <1>. QED
    BY <1>1, MessageType

\* One queue is set.
LEMMA SetQueue ==
  ASSUME NEW qs \in Queues, NEW s \in Sockets, NEW q \in Seq(Messages)
  PROVE  [qs EXCEPT ![s] = q] \in Queues
  BY DEF Queues

\* A message is added to a queue or taken from it.
LEMMA AppendQueue ==
  ASSUME NEW qs \in Queues, NEW s \in Sockets, NEW m \in Messages
  PROVE  [qs EXCEPT ![s] = Append(@, m)] \in Queues
  <1>1. Append(qs[s], m) \in Seq(Messages)
    BY DEF Queues
  <1>. QED
    BY <1>1 DEF Queues

LEMMA TakeQueue ==
  ASSUME NEW qs \in Queues, NEW s \in Sockets, qs[s] # <<>>
  PROVE  /\ [qs EXCEPT ![s] = Tail(@)] \in Queues
         /\ Head(qs[s]) \in Messages
  <1>1. qs[s] \in Seq(Messages)
    BY DEF Queues
  <1>2. Tail(qs[s]) \in Seq(Messages) /\ Head(qs[s]) \in Messages
    BY <1>1
  <1>. QED
    BY <1>2 DEF Queues

LEMMA FailureType ==
  ASSUME NEW s PROVE Failure(s) \in Seq(Messages)
  <1>1. Msg("error", 0) \in Messages /\ Msg("close", 0) \in Messages
    BY NewMessage DEF Whats
  <1>. QED
    BY <1>1 DEF Failure

\* Messages that are not too late grow older.
LEMMA OlderType ==
  ASSUME NEW q \in Seq(Messages), InTime(q)
  PROVE  /\ Older(q) \in Seq(Messages)
         /\ Len(Older(q)) = Len(q) /\ DOMAIN Older(q) = DOMAIN q
         /\ \A k \in DOMAIN q : Older(q)[k].what = q[k].what /\ Older(q)[k].age = q[k].age + 1
  <1>1. DOMAIN q = 1 .. Len(q) /\ Len(q) \in Nat
    OBVIOUS
  <1>2. Older(q) = [k \in 1 .. Len(q) |-> [q[k] EXCEPT !.age = @ + 1]]
    BY <1>1 DEF Older
  <1>3. ASSUME NEW k \in 1 .. Len(q)
        PROVE  /\ [q[k] EXCEPT !.age = @ + 1] \in Messages
               /\ [q[k] EXCEPT !.age = @ + 1].what = q[k].what
               /\ [q[k] EXCEPT !.age = @ + 1].age = q[k].age + 1
    <2>1. q[k] \in Messages /\ q[k].age < Timeout /\ Timeout \in Nat
      BY <1>1, HeartbeatAssumption DEF InTime
    <2>2. q[k].age \in 0 .. Timeout /\ q[k].age + 1 \in 0 .. Timeout
      BY <2>1 DEF Messages
    <2>3. [q[k] EXCEPT !.age = @ + 1] = [what |-> q[k].what, age |-> q[k].age + 1]
      BY <2>1 DEF Messages
    <2>4. q[k].what \in {"open", "welcome", "error", "close", "ping"}
      BY <2>1 DEF Messages
    <2>. QED
      BY <2>2, <2>3, <2>4 DEF Messages
  <1>4. Older(q) \in Seq(Messages) /\ Len(Older(q)) = Len(q)
    BY <1>1, <1>2, <1>3
  <1>. QED
    BY <1>1, <1>2, <1>3, <1>4

\* The queues keep their type.
LEMMA LinkTypesKept ==
  ASSUME TypeInv, [Next]_vars PROVE toClient' \in Queues /\ toServer' \in Queues
  <1>0. toClient \in Queues /\ toServer \in Queues /\ DOMAIN toServer = Sockets
    BY DEF TypeInv, Queues
  <1>e. <<>> \in Seq(Messages) /\ {"open", "welcome", "error", "close", "ping"} = Whats
    BY DEF Whats
  <1>1. CASE AppConnect \/ Reconnect \/ UNCHANGED vars
    BY <1>0, <1>1 DEF AppConnect, Reconnect, vars, linkVars
  <1>2. CASE AppDisconnect
    <2>1. toClient' = toClient
      BY <1>2 DEF AppDisconnect
    <2>2. PICK B \in SUBSET Sockets : toServer' = [s \in Sockets |->
            IF s \in B THEN Append(toServer[s], Msg("close", 0)) ELSE toServer[s]]
      <3>. DEFINE B == {s \in Sockets : s = ws /\ s \in serving \ silent /\ ready[s] \in {"connecting", "open"}}
      <3>1. toServer' = [s \in Sockets |->
            IF s \in B THEN Append(toServer[s], Msg("close", 0)) ELSE toServer[s]]
        BY <1>2 DEF AppDisconnect
      <3>. QED
        BY <3>1
    <2>3. ASSUME NEW s \in Sockets
          PROVE  toServer[s] \in Seq(Messages) /\ Append(toServer[s], Msg("close", 0)) \in Seq(Messages)
      <3>1. toServer[s] \in Seq(Messages) /\ Msg("close", 0) \in Messages
        BY <1>0, <1>e, NewMessage DEF Queues
      <3>. QED
        BY <3>1
    <2>4. toServer' \in Queues
      BY <2>2, <2>3 DEF Queues
    <2>. QED
      BY <1>0, <2>1, <2>4
  <1>3. ASSUME NEW s \in Sockets, Accepted(s) \/ Refused(s) \/ GivenUp(s) PROVE toClient' \in Queues /\ toServer' \in Queues
    <2>1. PICK q : toClient' = [toClient EXCEPT ![s] = q] /\ toServer' = toServer
                   /\ q \in {<<Msg("open", 0), Msg("welcome", 0)>>, <<Msg("error", 0), Msg("close", 0)>>, Failure(s)}
      BY <1>3 DEF Accepted, Refused, GivenUp
    <2>2. q \in Seq(Messages)
      <3>1. /\ Msg("open", 0) \in Messages /\ Msg("welcome", 0) \in Messages
            /\ Msg("error", 0) \in Messages /\ Msg("close", 0) \in Messages
        BY <1>e, NewMessage
      <3>2. /\ <<Msg("open", 0), Msg("welcome", 0)>> \in Seq(Messages)
            /\ <<Msg("error", 0), Msg("close", 0)>> \in Seq(Messages)
        BY <3>1
      <3>3. Failure(s) \in Seq(Messages)
        BY FailureType
      <3>. QED
        BY <2>1, <3>2, <3>3
    <2>. QED
      BY <1>0, <2>1, <2>2, SetQueue
  <1>4. ASSUME NEW s \in Sockets, Reset(s) \/ GoesSilent(s) PROVE toClient' \in Queues /\ toServer' \in Queues
    <2>1. toServer' = [toServer EXCEPT ![s] = <<>>]
      BY <1>4 DEF Reset, GoesSilent, Breaks
    <2>2. toServer' \in Queues
      BY <1>0, <1>e, <2>1, SetQueue
    <2>3. Failure(s) \in Seq(Messages)
      BY FailureType
    <2>4. PICK q : toClient' = [toClient EXCEPT ![s] = q] /\ (q = Failure(s) \/ q = <<>>)
      BY <1>4 DEF Reset, GoesSilent
    <2>5. q \in Seq(Messages)
      BY <1>e, <2>3, <2>4
    <2>6. toClient' \in Queues
      BY <1>0, <2>4, <2>5, SetQueue
    <2>. QED
      BY <2>2, <2>6
  <1>5. ASSUME NEW s \in Sockets, ClientHandles(s) PROVE toClient' \in Queues /\ toServer' \in Queues
    <2>1. toClient[s] # <<>> /\ toClient' = [toClient EXCEPT ![s] = Tail(@)]
      BY <1>5 DEF ClientHandles
    <2>2. toClient' \in Queues /\ Head(toClient[s]) \in Messages
      BY <1>0, <2>1, TakeQueue
    <2>3. Msg("ping", Head(toClient[s]).age) \in Messages
      <3>1. Head(toClient[s]).age \in 0 .. Timeout
        BY <2>2 DEF Messages
      <3>. QED
        BY <1>e, <3>1, MessageType
    <2>4. \/ toServer' = toServer
          \/ ws # 0 /\ toServer' = [toServer EXCEPT ![ws] = Append(@, Msg("ping", Head(toClient[s]).age))]
      BY <1>5 DEF ClientHandles, Answers
    <2>5. ws # 0 => ws \in Sockets
      BY SocketNumbers
    <2>. QED
      BY <1>0, <2>2, <2>3, <2>4, <2>5, AppendQueue
  <1>6. ASSUME NEW s \in Sockets, ServerHandles(s) PROVE toClient' \in Queues /\ toServer' \in Queues
    <2>1. toServer[s] # <<>> /\ toServer' = [toServer EXCEPT ![s] = Tail(@)]
      BY <1>6 DEF ServerHandles
    <2>2. toClient' = toClient \/ toClient' = [toClient EXCEPT ![s] = Append(@, Msg("close", 0))]
      BY <1>6 DEF ServerHandles
    <2>3. Msg("close", 0) \in Messages
      BY <1>e, NewMessage
    <2>4. toServer' \in Queues
      BY <1>0, <2>1, TakeQueue
    <2>5. toClient' \in Queues
      BY <1>0, <2>2, <2>3, AppendQueue
    <2>. QED
      BY <2>4, <2>5
  <1>7. CASE HeartbeatRound
    <2>1. toServer' = toServer /\ toClient' = [s \in Sockets |->
            IF s \notin serving \/ s \in silent THEN toClient[s]
            ELSE Append(toClient[s], Msg(IF s \in Missed THEN "close" ELSE "ping", 0))]
      BY <1>7 DEF HeartbeatRound
    <2>2. ASSUME NEW s \in Sockets, NEW w \in {"close", "ping"}
          PROVE  toClient[s] \in Seq(Messages) /\ Append(toClient[s], Msg(w, 0)) \in Seq(Messages)
      <3>1. toClient[s] \in Seq(Messages) /\ Msg(w, 0) \in Messages
        BY <1>0, <1>e, NewMessage DEF Queues
      <3>. QED
        BY <3>1
    <2>3. ASSUME NEW s \in Sockets PROVE toClient'[s] \in Seq(Messages)
      <3>1. CASE s \notin serving \/ s \in silent
        BY <2>1, <2>2, <3>1
      <3>2. CASE ~(s \notin serving \/ s \in silent) /\ s \in Missed
        <4>1. toClient'[s] = Append(toClient[s], Msg("close", 0))
          BY <2>1, <3>2
        <4>. QED
          BY <2>2, <4>1
      <3>3. CASE ~(s \notin serving \/ s \in silent) /\ s \notin Missed
        <4>1. toClient'[s] = Append(toClient[s], Msg("ping", 0))
          BY <2>1, <3>3
        <4>. QED
          BY <2>2, <4>1
      <3>. QED
        BY <3>1, <3>2, <3>3
    <2>. QED
      BY <1>0, <2>1, <2>3 DEF Queues
  <1>8. CASE TimePasses
    <2>1. /\ \A s \in Sockets : InTime(toClient[s]) /\ InTime(toServer[s])
          /\ toClient' = [s \in Sockets |-> Older(toClient[s])]
          /\ toServer' = [s \in Sockets |-> Older(toServer[s])]
      BY <1>8 DEF TimePasses
    <2>2. \A s \in Sockets : Older(toClient[s]) \in Seq(Messages) /\ Older(toServer[s]) \in Seq(Messages)
      BY <1>0, <2>1, OlderType DEF Queues
    <2>. QED
      BY <2>1, <2>2 DEF Queues
  <1>. QED
    BY <1>1, <1>2, <1>3, <1>4, <1>5, <1>6, <1>7, <1>8 DEF Next

LEMMA TypesStart == ASSUME Init PROVE TypeInv
  <1>1. Sockets = SocketIds /\ MaxSockets \in Nat /\ MaxAttempts \in Nat
        /\ Interval \in Nat \ {0} /\ Timeout \in Nat
    BY SocketsAssumption, ClientAssumption, HeartbeatAssumption
  <1>2. ClientTypes
    <2>1. created \in 0 .. MaxSockets /\ ws \in 0 .. created /\ attempts \in 0 .. MaxAttempts
      BY <1>1 DEF Init, ClientInit
    <2>. QED
      BY <1>1, <2>1 DEF Init, ClientInit, ClientTypes, Readiness, Promises
  <1>3. ServerTypes
    <2>1. 0 \in 0 .. Capped /\ due \in 0 .. Interval
      BY <1>1 DEF Init, HbInit, Capped, LongestSilence
    <2>. QED
      BY <2>1 DEF Init, HbInit, ServerTypes
  <1>4. toClient \in Queues /\ toServer \in Queues
    BY DEF Init, Queues
  <1>. QED
    BY <1>2, <1>3, <1>4 DEF TypeInv

LEMMA TypesKept ==
  ASSUME TypeInv, [Next]_vars PROVE TypeInv'
  <1>1. toClient' \in Queues /\ toServer' \in Queues
    BY LinkTypesKept
  <1>2. ClientTypes' /\ created' \in {created, created + 1}
    <2>1. CASE AppConnect \/ Reconnect
      <3>1. Dial /\ timers' \in Nat
        BY <2>1 DEF AppConnect, Reconnect, TimerFires, TypeInv, ClientTypes
      <3>. QED
        BY <3>1, DialTypes
    <2>2. CASE AppDisconnect
      BY <2>2, DisconnectTypes DEF AppDisconnect
    <2>3. ASSUME NEW s \in Sockets, ClientHandles(s) PROVE ClientTypes' /\ created' = created
      <3>1. Event(s) \/ UNCHANGED clientVars
        BY <2>3 DEF ClientHandles, Event
      <3>. QED
        BY <3>1, EventTypes, ClientSame
    <2>4. CASE UNCHANGED clientVars
      BY <2>4, ClientSame
    <2>5. \/ AppConnect \/ Reconnect \/ AppDisconnect \/ UNCHANGED clientVars
          \/ \E s \in Sockets : ClientHandles(s)
      BY DEF Next, Accepted, Refused, Reset, GoesSilent, Breaks, GivenUp, ServerHandles,
             HeartbeatRound, TimePasses, vars
    <2>. QED
      BY <2>1, <2>2, <2>3, <2>4, <2>5
  <1>3. ServerTypes'
    <2>1. CASE Round \/ Elapse \/ UNCHANGED hbVars
      <3>1. CASE created = 0
        <4>1. serving = {} /\ 1 .. created = {}
          BY <3>1 DEF TypeInv, ServerTypes
        <4>2. serving' = {}
          BY <2>1, <4>1 DEF Round, Elapse, hbVars
        <4>3. silence \in [Sockets -> 0 .. Capped] /\ due \in 0 .. Interval /\ Interval \in Nat \ {0}
          BY SocketNumbers DEF TypeInv, ServerTypes
        <4>4. silence' \in [Sockets -> 0 .. Capped]
          BY <2>1, <4>1, <4>3 DEF Round, Elapse, hbVars, Missed
        <4>5. due' \in 0 .. Interval
          BY <2>1, <4>3 DEF Round, Elapse, hbVars
        <4>. QED
          BY <4>2, <4>4, <4>5 DEF ServerTypes, Capped, LongestSilence
      <3>2. CASE created # 0
        <4>1. 1 \in 1 .. created
          BY <3>2, SocketNumbers
        <4>. QED
          BY <1>2, <2>1, <4>1, ServerTypesKept
      <3>. QED
        BY <3>1, <3>2
    <2>2. ASSUME NEW s \in Sockets, Opened(s) \/ Pong(s) \/ Closed(s), s \in 1 .. created
          PROVE  ServerTypes'
      BY <1>2, <2>2, ServerTypesKept
    <2>3. ASSUME NEW s \in Sockets, Accepted(s) PROVE Opened(s) /\ s \in 1 .. created
      BY <2>3 DEF Accepted, Dialled, TypeInv, ClientTypes
    <2>4. ASSUME NEW s \in Sockets, Reset(s) PROVE Closed(s) /\ s \in 1 .. created
      BY <2>4 DEF Reset, Breaks, TypeInv, ServerTypes
    <2>5. ASSUME NEW s \in Sockets, ServerHandles(s)
          PROVE  ((Pong(s) \/ Closed(s)) /\ s \in 1 .. created) \/ UNCHANGED hbVars
      BY <2>5 DEF ServerHandles, TypeInv, ServerTypes
    <2>6. \/ Round \/ Elapse \/ UNCHANGED hbVars
          \/ \E s \in Sockets : Accepted(s) \/ Reset(s) \/ ServerHandles(s)
      BY DEF Next, AppConnect, AppDisconnect, Reconnect, Refused, GoesSilent, GivenUp,
             ClientHandles, HeartbeatRound, TimePasses, vars
    <2>. QED
      BY <2>1, <2>2, <2>3, <2>4, <2>5, <2>6
  <1>. QED
    BY <1>1, <1>2, <1>3 DEF TypeInv

LEMMA TypeInvariant == Spec => []TypeInv
  <1>1. Init => TypeInv
    BY TypesStart
  <1>2. TypeInv /\ [Next]_vars => TypeInv'
    BY TypesKept
  <1>. QED
    BY <1>1, <1>2, PTL DEF Spec

\* Every variable of client, server and links keeps its type: the attempts stay
\* within the limit, only sockets that were created are served, and no message
\* is older than the timeout (LiveRelayClient.ts:207-226, Heartbeat.ts:19).
THEOREM SessionTypes == Spec => []SessionTypeOK
  <1>1. TypeInv => SessionTypeOK
    BY DEF TypeInv, ClientTypes, ServerTypes, Queues, Readiness, Promises, SessionTypeOK
  <1>. QED
    BY <1>1, TypeInvariant, PTL

-----------------------------------------------------------------------------
(* The events of a socket come in order: nothing follows its close event,  *)
(* and that comes only when the server serves the socket no more, or       *)
(* cannot know that it should not.                                         *)

HasClose(q) == \E k \in DOMAIN q : q[k].what = "close"

Ordered(q) ==
  \A k \in DOMAIN q :
    /\ q[k].what = "close" => k = Len(q)
    /\ q[k].what = "error" => k = 1 /\ Len(q) = 2 /\ q[2].what = "close"

StartsOpen(q) == q # <<>> /\ q[1].what = "open"

Linked(s) == s \in serving \ silent

SocketInv(s) ==
  /\ Ordered(toClient[s])
  /\ HasClose(toClient[s]) => ~Linked(s)
  /\ toClient[s] # <<>> => Live(s)
  /\ Linked(s) => Live(s)
  /\ s \in silent => toServer[s] = <<>>
  /\ Linked(s) /\ ready[s] = "connecting" => StartsOpen(toClient[s])

LEMMA NewQueues ==
  ASSUME NEW s
  PROVE  /\ Ordered(<<>>) /\ ~HasClose(<<>>)
         /\ Ordered(<<Msg("open", 0), Msg("welcome", 0)>>)
         /\ ~HasClose(<<Msg("open", 0), Msg("welcome", 0)>>)
         /\ StartsOpen(<<Msg("open", 0), Msg("welcome", 0)>>)
         /\ Ordered(<<Msg("error", 0), Msg("close", 0)>>)
         /\ Ordered(Failure(s))
  BY DEF Ordered, HasClose, StartsOpen, Failure, Msg

LEMMA TailOrdered ==
  ASSUME NEW q \in Seq(Messages), q # <<>>, Ordered(q)
  PROVE  /\ Ordered(Tail(q))
         /\ HasClose(Tail(q)) => HasClose(q)
         /\ Head(q).what = "close" => Tail(q) = <<>> /\ HasClose(q)
         /\ Head(q) = q[1] /\ 1 \in DOMAIN q
         /\ Len(Tail(q)) = Len(q) - 1
         /\ \A k \in DOMAIN Tail(q) : Tail(q)[k] = q[k + 1] /\ k + 1 \in DOMAIN q
  <1>1. Len(q) \in Nat \ {0} /\ DOMAIN q = 1 .. Len(q) /\ Head(q) = q[1] /\ 1 \in DOMAIN q
    OBVIOUS
  <1>2. Len(Tail(q)) = Len(q) - 1 /\ DOMAIN Tail(q) = 1 .. Len(q) - 1 /\ Tail(q) \in Seq(Messages)
    BY <1>1
  <1>3. \A k \in DOMAIN Tail(q) : Tail(q)[k] = q[k + 1] /\ k + 1 \in DOMAIN q /\ k + 1 # 1
    BY <1>1, <1>2
  <1>4. ASSUME NEW k \in DOMAIN Tail(q), Tail(q)[k].what = "close" PROVE k = Len(Tail(q))
    <2>1. k + 1 = Len(q)
      BY <1>3, <1>4 DEF Ordered
    <2>. QED
      BY <1>1, <1>2, <2>1
  <1>5. ASSUME NEW k \in DOMAIN Tail(q) PROVE Tail(q)[k].what # "error"
    BY <1>3 DEF Ordered
  <1>6. ASSUME Head(q).what = "close" PROVE Tail(q) = <<>>
    <2>1. Len(q) = 1
      BY <1>1, <1>6 DEF Ordered
    <2>. QED
      BY <1>2, <2>1
  <1>. QED
    BY <1>1, <1>2, <1>3, <1>4, <1>5, <1>6 DEF Ordered, HasClose

LEMMA AppendOrdered ==
  ASSUME NEW q \in Seq(Messages), Ordered(q), ~HasClose(q), NEW w \in {"close", "ping"}
  PROVE  /\ Ordered(Append(q, Msg(w, 0)))
         /\ w = "ping" => ~HasClose(Append(q, Msg(w, 0)))
         /\ StartsOpen(q) => StartsOpen(Append(q, Msg(w, 0)))
  <1>. DEFINE m == Msg(w, 0)
              a == Append(q, m)
  <1>0. m \in Messages /\ m.what = w
    BY NewMessage DEF Whats, Msg
  <1>1. Len(q) \in Nat /\ DOMAIN q = 1 .. Len(q) /\ DOMAIN a = 1 .. Len(q) + 1
        /\ Len(a) = Len(q) + 1 /\ a[Len(q) + 1] = m /\ \A k \in DOMAIN q : a[k] = q[k]
    BY <1>0
  <1>2. \A k \in DOMAIN q : q[k].what # "close" /\ q[k].what # "error"
    <2>. SUFFICES ASSUME NEW k \in DOMAIN q, q[k].what = "error" PROVE FALSE
      BY DEF HasClose
    <2>1. Len(q) = 2 /\ q[2].what = "close"
      BY DEF Ordered
    <2>. QED
      BY <1>1, <2>1 DEF HasClose
  <1>3. \A k \in DOMAIN a : k \in DOMAIN q \/ k = Len(a)
    BY <1>1
  <1>4. Ordered(a)
    BY <1>0, <1>1, <1>2, <1>3 DEF Ordered
  <1>5. w = "ping" => ~HasClose(a)
    BY <1>0, <1>1, <1>2, <1>3 DEF HasClose
  <1>6. StartsOpen(q) => StartsOpen(a)
    <2>. SUFFICES ASSUME q # <<>>, q[1].what = "open" PROVE StartsOpen(a)
      BY DEF StartsOpen
    <2>1. 1 \in DOMAIN q
      BY <1>1
    <2>2. a[1] = q[1] /\ a # <<>>
      BY <1>1, <2>1
    <2>. QED
      BY <2>2 DEF StartsOpen
  <1>. QED
    BY <1>4, <1>5, <1>6

LEMMA OlderOrdered ==
  ASSUME NEW q \in Seq(Messages), InTime(q)
  PROVE  /\ Ordered(q) => Ordered(Older(q))
         /\ HasClose(Older(q)) <=> HasClose(q)
         /\ StartsOpen(q) => StartsOpen(Older(q))
         /\ Older(q) = <<>> <=> q = <<>>
  <1>1. /\ Older(q) \in Seq(Messages) /\ Len(Older(q)) = Len(q) /\ DOMAIN Older(q) = DOMAIN q
        /\ \A k \in DOMAIN q : Older(q)[k].what = q[k].what
    BY OlderType
  <1>2. Len(q) \in Nat /\ DOMAIN q = 1 .. Len(q)
    OBVIOUS
  <1>3. Older(q) = <<>> <=> q = <<>>
    BY <1>1
  <1>4. Ordered(q) => Ordered(Older(q))
    BY <1>1, <1>2 DEF Ordered
  <1>5. HasClose(Older(q)) <=> HasClose(q)
    BY <1>1 DEF HasClose
  <1>6. StartsOpen(q) => StartsOpen(Older(q))
    <2>1. q # <<>> => 1 \in DOMAIN q
      BY <1>2
    <2>. QED
      BY <1>1, <1>3, <2>1 DEF StartsOpen
  <1>. QED
    BY <1>3, <1>4, <1>5, <1>6

\* What a step does to the readiness of the sockets.
LEMMA EventReady ==
  ASSUME TypeInv, NEW s \in Sockets, Event(s)
  PROVE  /\ \A t \in Sockets \ {s} : ready'[t] = ready[t]
         /\ OpenEvent(s) => ready'[s] = "open"
         /\ CloseEvent(s) => ready'[s] = "closed"
         /\ WelcomeEvent(s) \/ ErrorEvent(s) => ready'[s] = ready[s]
  BY DEF Event, OpenEvent, WelcomeEvent, ErrorEvent, CloseEvent, HandshakeFails, TypeInv, ClientTypes

LEMMA DialReady ==
  ASSUME TypeInv, Dial
  PROVE  /\ created + 1 \in Sockets /\ ready'[created + 1] = "connecting"
         /\ \A t \in Sockets \ {created + 1} : ready'[t] = ready[t]
         /\ created + 1 \notin serving
  <1>1. created \in Nat /\ MaxSockets \in Nat /\ created < MaxSockets /\ Sockets = 1 .. MaxSockets
        /\ ready' = [ready EXCEPT ![created + 1] = "connecting"]
    BY SocketNumbers DEF Dial
  <1>2. created + 1 \in Sockets /\ created + 1 \notin 1 .. created
    BY <1>1
  <1>. QED
    BY <1>1, <1>2 DEF TypeInv, ClientTypes, ServerTypes

LEMMA DisconnectReady ==
  ASSUME TypeInv, Disconnect, NEW t \in Sockets
  PROVE  /\ ready'[t] = IF t = ws /\ ready[t] \in {"connecting", "open"} THEN "closing" ELSE ready[t]
         /\ Live(t)' <=> Live(t)
  BY SocketNumbers DEF Disconnect, Live

\* The step of the client's event queue.
LEMMA HandledSocket ==
  ASSUME TypeInv, NEW s \in Sockets, SocketInv(s), ClientHandles(s) PROVE SocketInv(s)'
  <1>. DEFINE q == toClient[s]
              m == Head(q)
  <1>1. q # <<>> /\ toClient' = [toClient EXCEPT ![s] = Tail(q)] /\ serving' = serving /\ silent' = silent
    BY DEF ClientHandles, hbVars
  <1>2. q \in Seq(Messages) /\ toClient'[s] = Tail(q)
    BY <1>1 DEF TypeInv, Queues
  <1>3. Ordered(q) /\ Live(s) /\ (HasClose(q) => ~Linked(s))
    BY <1>1 DEF SocketInv
  <1>4. /\ Ordered(Tail(q))
        /\ HasClose(Tail(q)) => HasClose(q)
        /\ m.what = "close" => Tail(q) = <<>> /\ HasClose(q)
        /\ m = q[1]
    BY <1>1, <1>2, <1>3, TailOrdered
  <1>5. \/ m.what = "open" /\ ready[s] = "connecting" /\ OpenEvent(s)
        \/ m.what = "welcome" /\ ready[s] = "open" /\ WelcomeEvent(s)
        \/ m.what = "error" /\ ErrorEvent(s)
        \/ m.what = "close" /\ CloseEvent(s)
        \/ m.what = "ping" /\ UNCHANGED clientVars
        \/ m.what \in {"open", "welcome"} /\ ready[s] = "closing" /\ UNCHANGED clientVars
    BY DEF ClientHandles
  <1>6. \/ ready'[s] = ready[s] /\ (m.what = "open" => ready[s] # "connecting")
        \/ ready'[s] = "open"
        \/ ready'[s] = "closed" /\ Tail(q) = <<>> /\ HasClose(q)
    <2>1. UNCHANGED clientVars => ready' = ready
      BY DEF clientVars
    <2>2. OpenEvent(s) => ready'[s] = "open"
      BY EventReady DEF Event
    <2>3. WelcomeEvent(s) \/ ErrorEvent(s) => ready'[s] = ready[s]
      BY EventReady DEF Event
    <2>4. CloseEvent(s) => ready'[s] = "closed"
      BY EventReady DEF Event
    <2>. QED
      BY <1>4, <1>5, <2>1, <2>2, <2>3, <2>4
  <1>7. s \in silent => toServer'[s] = <<>>
    <2>1. \/ toServer' = toServer
          \/ ws \notin silent /\ toServer' = [toServer EXCEPT ![ws] = Append(@, Msg("ping", m.age))]
      BY DEF ClientHandles
    <2>2. s \in silent => toServer[s] = <<>>
      BY DEF SocketInv
    <2>3. toServer' = toServer \/ s \notin silent \/ (ws # s /\ toServer'[s] = toServer[s])
      BY <2>1 DEF TypeInv, Queues
    <2>. QED
      BY <2>2, <2>3
  <1>8. Linked(s)' <=> Linked(s)
    BY <1>1 DEF Linked
  <1>9. Linked(s) /\ ready'[s] = "connecting" => FALSE
    <2>. SUFFICES ASSUME Linked(s), ready'[s] = "connecting" PROVE FALSE
      OBVIOUS
    <2>1. ready[s] = "connecting" /\ m.what # "open"
      BY <1>6
    <2>2. StartsOpen(q)
      BY <2>1 DEF SocketInv
    <2>. QED
      BY <1>4, <2>1, <2>2 DEF StartsOpen
  <1>10. Tail(q) # <<>> \/ Linked(s) => Live(s)'
    BY <1>3, <1>6 DEF Live
  <1>11. s \in silent' => toServer'[s] = <<>>
    BY <1>1, <1>7
  <1>. QED
    BY <1>2, <1>3, <1>4, <1>8, <1>9, <1>10, <1>11 DEF SocketInv

\* A socket whose events, link and readiness stay as they are.
LEMMA SocketSame ==
  ASSUME NEW t \in Sockets, SocketInv(t),
         toClient'[t] = toClient[t], Linked(t)' => Linked(t),
         t \in silent' => t \in silent /\ toServer'[t] = toServer[t],
         ready'[t] = ready[t]
  PROVE  SocketInv(t)'
  BY DEF SocketInv, Live

\* A socket the client dials, or begins to close.
LEMMA SocketDialled ==
  ASSUME NEW t \in Sockets, SocketInv(t),
         UNCHANGED <<toClient, serving, silent>>,
         t \in silent => toServer'[t] = toServer[t],
         \/ ready'[t] = "connecting" /\ t \notin serving
         \/ ready'[t] = "closing" /\ Live(t)
  PROVE  SocketInv(t)'
  BY DEF SocketInv, Live, Linked

LEMMA SocketsKept ==
  ASSUME TypeInv, \A t \in Sockets : SocketInv(t), [Next]_vars, NEW t \in Sockets
  PROVE  SocketInv(t)'
  <1>0. SocketInv(t) /\ toClient[t] \in Seq(Messages) /\ toClient \in Queues /\ toServer \in Queues
        /\ DOMAIN toClient = Sockets /\ DOMAIN toServer = Sockets
    BY DEF TypeInv, Queues
  <1>1. CASE AppConnect \/ Reconnect
    <2>1. Dial /\ UNCHANGED <<toClient, toServer, serving, silent>>
      BY <1>1 DEF AppConnect, Reconnect, TimerFires, linkVars, hbVars
    <2>2. CASE t = created + 1
      <3>1. ready'[t] = "connecting" /\ t \notin serving
        BY <2>1, <2>2, DialReady
      <3>2. UNCHANGED <<toClient, serving, silent>> /\ toServer'[t] = toServer[t]
        BY <2>1
      <3>. QED
        BY <1>0, <3>1, <3>2, SocketDialled
    <2>3. CASE t # created + 1
      BY <1>0, <2>1, <2>3, DialReady, SocketSame DEF Linked
    <2>. QED
      BY <2>2, <2>3
  <1>2. CASE AppDisconnect
    <2>1. Disconnect /\ UNCHANGED <<toClient, serving, silent>>
      BY <1>2 DEF AppDisconnect, hbVars
    <2>2. t \in silent => toServer'[t] = toServer[t]
      BY <1>2 DEF AppDisconnect
    <2>3. CASE t = ws /\ ready[t] \in {"connecting", "open"}
      <3>1. ready'[t] = "closing" /\ Live(t)
        BY <2>1, <2>3, DisconnectReady DEF Live
      <3>. QED
        BY <1>0, <2>1, <2>2, <3>1, SocketDialled
    <2>4. CASE ~(t = ws /\ ready[t] \in {"connecting", "open"})
      <3>1. ready'[t] = ready[t]
        BY <2>1, <2>4, DisconnectReady
      <3>. QED
        BY <1>0, <2>1, <2>2, <3>1, SocketSame DEF Linked
    <2>. QED
      BY <2>3, <2>4
  <1>3. ASSUME NEW s \in Sockets, Accepted(s) PROVE SocketInv(t)'
    <2>1. /\ toClient' = [toClient EXCEPT ![s] = <<Msg("open", 0), Msg("welcome", 0)>>]
          /\ serving' = serving \cup {s} /\ ready[s] = "connecting"
          /\ UNCHANGED <<ready, silent, toServer>> /\ s \notin silent
      BY <1>3 DEF Accepted, Dialled, Opened, clientVars
    <2>2. CASE t = s
      <3>1. toClient'[t] = <<Msg("open", 0), Msg("welcome", 0)>>
        BY <1>0, <2>1, <2>2
      <3>. QED
        BY <2>1, <2>2, <3>1, NewQueues DEF SocketInv, Live, Linked
    <2>3. CASE t # s
      BY <1>0, <2>1, <2>3, SocketSame DEF Linked
    <2>. QED
      BY <2>2, <2>3
  <1>4. ASSUME NEW s \in Sockets, Refused(s) \/ GivenUp(s) PROVE SocketInv(t)'
    <2>1. /\ ~Linked(s) /\ Live(s)
          /\ UNCHANGED <<ready, silent, serving, toServer>>
      BY <1>4 DEF Refused, GivenUp, Dialled, Linked, Live, clientVars, hbVars
    <2>2. PICK q : /\ toClient' = [toClient EXCEPT ![s] = q]
                   /\ q \in {<<Msg("error", 0), Msg("close", 0)>>, Failure(s)}
      BY <1>4 DEF Refused, GivenUp
    <2>3. Ordered(q)
      BY <2>2, NewQueues
    <2>4. CASE t = s
      <3>1. toClient'[t] = q
        BY <1>0, <2>2, <2>4
      <3>. QED
        BY <1>0, <2>1, <2>3, <2>4, <3>1 DEF SocketInv, Live, Linked
    <2>5. CASE t # s
      BY <1>0, <2>1, <2>2, <2>5, SocketSame DEF Linked
    <2>. QED
      BY <2>4, <2>5
  <1>5. ASSUME NEW s \in Sockets, Reset(s) \/ GoesSilent(s) PROVE SocketInv(t)'
    <2>1. /\ toServer' = [toServer EXCEPT ![s] = <<>>] /\ ready' = ready /\ Linked(s)
      BY <1>5 DEF Reset, GoesSilent, Breaks, Linked, clientVars
    <2>2. /\ serving' \subseteq serving /\ silent \subseteq silent' /\ silent' \subseteq silent \cup {s}
          /\ ~Linked(s)'
      BY <1>5 DEF Reset, GoesSilent, Breaks, Closed, Linked, hbVars
    <2>3. PICK q : /\ toClient' = [toClient EXCEPT ![s] = q]
                   /\ q \in {<<>>, Failure(s)}
      BY <1>5 DEF Reset, GoesSilent
    <2>4. Ordered(q)
      BY <2>3, NewQueues
    <2>5. CASE t = s
      <3>1. toClient'[t] = q /\ toServer'[t] = <<>>
        BY <1>0, <2>1, <2>3, <2>5
      <3>2. Live(s) /\ Live(s)'
        BY <1>0, <2>1, <2>5 DEF SocketInv, Live
      <3>. QED
        BY <2>2, <2>4, <2>5, <3>1, <3>2 DEF SocketInv
    <2>6. CASE t # s
      <3>1. toClient'[t] = toClient[t] /\ toServer'[t] = toServer[t]
        BY <1>0, <2>1, <2>3, <2>6
      <3>2. (Linked(t)' => Linked(t)) /\ (t \in silent' => t \in silent)
        BY <2>2, <2>6 DEF Linked
      <3>. QED
        BY <1>0, <2>1, <3>1, <3>2, SocketSame
    <2>. QED
      BY <2>5, <2>6
  <1>6. ASSUME NEW s \in Sockets, ClientHandles(s) PROVE SocketInv(t)'
    <2>1. CASE t = s
      BY <1>6, <2>1, HandledSocket
    <2>2. CASE t # s
      <3>1. toClient' = [toClient EXCEPT ![s] = Tail(@)] /\ UNCHANGED <<serving, silent>>
        BY <1>6 DEF ClientHandles, hbVars
      <3>2. Event(s) \/ ready' = ready
        BY <1>6 DEF ClientHandles, Event, clientVars
      <3>3. ready'[t] = ready[t]
        BY <2>2, <3>2, EventReady
      <3>4. \/ toServer' = toServer
            \/ ws \notin silent /\ toServer' = [toServer EXCEPT ![ws] = Append(@, Msg("ping", Head(toClient[s]).age))]
        BY <1>6 DEF ClientHandles
      <3>5. t \in silent => toServer'[t] = toServer[t]
        BY <1>0, <3>4
      <3>6. toClient'[t] = toClient[t]
        BY <1>0, <2>2, <3>1
      <3>. QED
        BY <1>0, <3>1, <3>3, <3>5, <3>6, SocketSame DEF Linked
    <2>. QED
      BY <2>1, <2>2
  <1>7. ASSUME NEW s \in Sockets, ServerHandles(s) PROVE SocketInv(t)'
    <2>1. toServer[s] # <<>> /\ toServer' = [toServer EXCEPT ![s] = Tail(@)]
          /\ UNCHANGED <<ready, silent>>
      BY <1>7 DEF ServerHandles, clientVars
    <2>2. \/ UNCHANGED <<serving, toClient>>
          \/ /\ s \in serving /\ serving' = serving \ {s}
             /\ toClient' = [toClient EXCEPT ![s] = Append(@, Msg("close", 0))]
      BY <1>7 DEF ServerHandles, Pong, Closed, hbVars
    <2>3. s \notin silent
      BY <2>1 DEF SocketInv
    <2>4. t \in silent' => t \in silent /\ toServer'[t] = toServer[t]
      BY <1>0, <2>1, <2>3
    <2>5. CASE UNCHANGED <<serving, toClient>>
      BY <1>0, <2>1, <2>4, <2>5, SocketSame DEF Linked
    <2>6. CASE s \in serving /\ serving' = serving \ {s}
               /\ toClient' = [toClient EXCEPT ![s] = Append(@, Msg("close", 0))]
      <3>1. CASE t # s
        <4>1. toClient'[t] = toClient[t] /\ (Linked(t)' => Linked(t))
          BY <1>0, <2>1, <2>6, <3>1 DEF Linked
        <4>. QED
          BY <1>0, <2>1, <2>4, <4>1, SocketSame
      <3>2. CASE t = s
        <4>1. Linked(t) /\ ~Linked(t)'
          BY <2>3, <2>6, <3>2 DEF Linked
        <4>2. Ordered(toClient[t]) /\ ~HasClose(toClient[t]) /\ Live(t)
          BY <1>0, <4>1 DEF SocketInv
        <4>3. toClient'[t] = Append(toClient[t], Msg("close", 0))
          BY <1>0, <2>6, <3>2
        <4>4. Ordered(toClient'[t])
          BY <1>0, <4>2, <4>3, AppendOrdered
        <4>5. Live(t)' /\ t \notin silent'
          BY <2>1, <2>3, <3>2, <4>2 DEF Live
        <4>. QED
          BY <4>1, <4>4, <4>5 DEF SocketInv
      <3>. QED
        BY <3>1, <3>2
    <2>. QED
      BY <2>2, <2>5, <2>6
  <1>8. CASE HeartbeatRound
    <2>1. /\ UNCHANGED <<ready, silent, toServer>> /\ serving' = serving \ Missed
          /\ toClient' = [s \in Sockets |->
               IF s \notin serving \/ s \in silent THEN toClient[s]
               ELSE Append(toClient[s], Msg(IF s \in Missed THEN "close" ELSE "ping", 0))]
      BY <1>8 DEF HeartbeatRound, Round, clientVars
    <2>2. CASE ~Linked(t)
      <3>1. toClient'[t] = toClient[t]
        BY <2>1, <2>2 DEF Linked
      <3>2. Linked(t)' => Linked(t)
        BY <2>1 DEF Linked
      <3>. QED
        BY <1>0, <2>1, <3>1, <3>2, SocketSame
    <2>3. CASE Linked(t) /\ t \in Missed
      <3>1. toClient'[t] = Append(toClient[t], Msg("close", 0))
        BY <2>1, <2>3 DEF Linked
      <3>2. Ordered(toClient[t]) /\ ~HasClose(toClient[t]) /\ Live(t) /\ ~Linked(t)' /\ t \notin silent'
        BY <1>0, <2>1, <2>3 DEF SocketInv, Linked
      <3>3. Ordered(toClient'[t])
        BY <1>0, <3>1, <3>2, AppendOrdered
      <3>. QED
        BY <2>1, <3>2, <3>3 DEF SocketInv, Live
    <2>4. CASE Linked(t) /\ t \notin Missed
      <3>1. toClient'[t] = Append(toClient[t], Msg("ping", 0))
        BY <2>1, <2>4 DEF Linked
      <3>2. Ordered(toClient[t]) /\ ~HasClose(toClient[t]) /\ Live(t) /\ t \notin silent'
        BY <1>0, <2>1, <2>4 DEF SocketInv, Linked
      <3>3. Ordered(toClient'[t]) /\ ~HasClose(toClient'[t])
            /\ (StartsOpen(toClient[t]) => StartsOpen(toClient'[t]))
        BY <1>0, <3>1, <3>2, AppendOrdered
      <3>. QED
        BY <1>0, <2>1, <2>4, <3>2, <3>3 DEF SocketInv, Live
    <2>. QED
      BY <2>2, <2>3, <2>4
  <1>9. CASE TimePasses
    <2>1. /\ InTime(toClient[t]) /\ InTime(toServer[t])
          /\ toClient'[t] = Older(toClient[t]) /\ toServer'[t] = Older(toServer[t])
          /\ UNCHANGED <<ready, silent, serving>>
      BY <1>9 DEF TimePasses, Elapse, clientVars
    <2>2. /\ Ordered(toClient[t]) => Ordered(toClient'[t])
          /\ HasClose(toClient'[t]) <=> HasClose(toClient[t])
          /\ StartsOpen(toClient[t]) => StartsOpen(toClient'[t])
          /\ toClient'[t] = <<>> <=> toClient[t] = <<>>
      BY <1>0, <2>1, OlderOrdered
    <2>3. toServer'[t] = <<>> <=> toServer[t] = <<>>
      <3>1. toServer[t] \in Seq(Messages)
        BY <1>0 DEF Queues
      <3>. QED
        BY <2>1, <3>1, OlderOrdered
    <2>. QED
      BY <1>0, <2>1, <2>2, <2>3 DEF SocketInv, Live, Linked
  <1>10. CASE UNCHANGED vars
    BY <1>0, <1>10, SocketSame DEF vars, clientVars, hbVars, linkVars, Linked
  <1>. QED
    BY <1>1, <1>2, <1>3, <1>4, <1>5, <1>6, <1>7, <1>8, <1>9, <1>10 DEF Next

SocketsInv == \A t \in Sockets : SocketInv(t)

LEMMA SocketsInvariant == Spec => []SocketsInv
  <1>1. Init => SocketsInv
    BY NewQueues DEF Init, HbInit, SocketsInv, SocketInv, Linked
  <1>2. TypeInv /\ SocketsInv /\ [Next]_vars => SocketsInv'
    BY SocketsKept DEF SocketsInv
  <1>. QED
    BY <1>1, <1>2, TypeInvariant, PTL DEF Spec

-----------------------------------------------------------------------------
(* One socket: as long as connect() finds nothing left of the last         *)
(* connection, only this.ws is alive, with the listeners of a handshake    *)
(* or one handler of each kind, and a timer waits only while none is.      *)

\* Nothing is known of a socket that was not created.
FreshInv ==
  \A s \in Sockets : s > created => ready[s] = "none" /\ onMessage[s] = 0 /\ onClose[s] = 0

\* disconnect() switches reconnection off for good; a timer has been set by the
\* close of a socket.
WantedInv ==
  /\ autoReconnect /\ created > 0 => wanted
  /\ timers > 0 => created > 0

Alive(s) == ready[s] \in {"connecting", "open"}

\* The listeners of a socket that is alive; a handshake that lost them has only
\* its close event before it.
Listens(s) ==
  /\ s \in handshake => ready[s] = "connecting" /\ onMessage[s] = 0 /\ onClose[s] = 0
  /\ s \notin handshake =>
       /\ onMessage[s] = 1 /\ onClose[s] = 1
       /\ ready[s] = "connecting" => Len(toClient[s]) = 1 /\ HasClose(toClient[s])

OneInv ==
  /\ \A s \in Sockets : Alive(s) => s = ws /\ Listens(s)
  /\ \A s \in Sockets : ready[s] = "closing" => ws = 0 /\ ~autoReconnect
  /\ timers <= 1
  /\ timers > 0 => autoReconnect /\ wanted /\ \A s \in Sockets : ~Live(s)
  /\ connected <=> \E s \in Sockets : ready[s] = "open"

TidyInv == FreshInv /\ WantedInv /\ (~overlapped => OneInv)

LEMMA TidyStarts == ASSUME Init PROVE TidyInv
  <1>1. SocketIds = Sockets
    BY SocketsAssumption
  <1>2. \A s \in Sockets : ready[s] = "none" /\ onMessage[s] = 0 /\ onClose[s] = 0
    BY <1>1 DEF Init, ClientInit
  <1>3. created = 0 /\ timers = 0 /\ connected = FALSE
    BY DEF Init, ClientInit
  <1>. QED
    BY <1>2, <1>3 DEF TidyInv, FreshInv, WantedInv, OneInv, Alive, Live

\* A new socket is the only one, if there was none.
LEMMA DialTidy ==
  ASSUME TypeInv, TidyInv, Dial, autoReconnect => wanted', timers' \in Nat, UNCHANGED toClient,
         ~overlapped' => ~overlapped /\ timers' = 0 /\ \A s \in Sockets : ~Live(s)
  PROVE  TidyInv'
  <1>0. PICK n : n = created + 1
    OBVIOUS
  <1>1. /\ n \in Sockets /\ ready'[n] = "connecting" /\ n # 0 /\ n > created
        /\ \A t \in Sockets \ {n} : ready'[t] = ready[t]
        /\ created' = n /\ ws' = n /\ handshake' = handshake \cup {n}
        /\ UNCHANGED <<onMessage, onClose, connected, autoReconnect>>
    <2>1. created \in Nat
      BY SocketNumbers
    <2>. QED
      BY <1>0, <2>1, DialReady DEF Dial
  <1>2. \A t \in Sockets : t > created' => t > created /\ t # n
    BY <1>1, SocketNumbers
  <1>3. FreshInv'
    BY <1>1, <1>2 DEF TidyInv, FreshInv
  <1>4. WantedInv'
    BY <1>0, <1>1, SocketNumbers DEF WantedInv
  <1>5. ASSUME ~overlapped' PROVE OneInv'
    <2>1. timers' = 0 /\ OneInv /\ \A s \in Sockets : ~Live(s)
      BY <1>5 DEF TidyInv
    <2>2. \A s \in Sockets \ {n} : ready'[s] \notin {"connecting", "open", "closing"}
      BY <1>1, <2>1 DEF Live
    <2>3. onMessage[n] = 0 /\ onClose[n] = 0
      BY <1>1 DEF TidyInv, FreshInv
    <2>4. \A s \in Sockets : Alive(s)' => s = n
      BY <2>2 DEF Alive
    <2>5. Listens(n)'
      BY <1>1, <2>3 DEF Listens
    <2>6. connected = FALSE
      BY <2>1 DEF OneInv, Live, TypeInv, ClientTypes
    <2>. QED
      BY <1>1, <2>1, <2>2, <2>4, <2>5, <2>6 DEF OneInv
  <1>. QED
    BY <1>3, <1>4, <1>5 DEF TidyInv

LEMMA DisconnectTidy ==
  ASSUME TypeInv, TidyInv, Disconnect, ~wanted', UNCHANGED <<toClient, overlapped>>
  PROVE  TidyInv'
  <1>1. /\ autoReconnect' = FALSE /\ ws' = 0 /\ connected' = FALSE
        /\ UNCHANGED <<created, handshake, onMessage, onClose>>
    BY DEF Disconnect
  <1>2. \A t \in Sockets :
          ready'[t] = IF t = ws /\ ready[t] \in {"connecting", "open"} THEN "closing" ELSE ready[t]
    BY DisconnectReady
  <1>3. FreshInv'
    BY <1>1, <1>2 DEF TidyInv, FreshInv
  <1>4. WantedInv'
    <2>1. timers' > 0 => timers > 0
      BY DEF Disconnect, TypeInv, ClientTypes
    <2>. QED
      BY <1>1, <2>1 DEF TidyInv, WantedInv
  <1>5. ASSUME ~overlapped PROVE OneInv'
    <2>1. OneInv
      BY <1>5 DEF TidyInv
    <2>2. \A s \in Sockets : ~Alive(s)'
      BY <1>2, <2>1 DEF OneInv, Alive
    <2>3. timers' = 0
      <3>1. timers \in Nat /\ timers <= 1
        BY <2>1 DEF OneInv, TypeInv, ClientTypes
      <3>. QED
        BY <3>1 DEF Disconnect
    <2>. QED
      BY <1>1, <2>2, <2>3 DEF OneInv, Alive
  <1>. QED
    BY <1>3, <1>4, <1>5 DEF TidyInv

\* What the events of the client's sockets and their handlers depend on
tidyVars == <<created, ws, ready, handshake, onMessage, onClose, connected, timers,
              autoReconnect, wanted, overlapped>>

\* A step without them leaves a lone close event where it is.
LEMMA RestTidy ==
  ASSUME TypeInv, TidyInv, UNCHANGED tidyVars,
         \A s \in Sockets : Len(toClient[s]) = 1 /\ HasClose(toClient[s])
                              => Len(toClient'[s]) = 1 /\ HasClose(toClient'[s])
  PROVE  TidyInv'
  <1>1. FreshInv' /\ WantedInv'
    BY DEF TidyInv, FreshInv, WantedInv, tidyVars
  <1>2. ASSUME ~overlapped PROVE OneInv'
    <2>1. OneInv
      BY <1>2 DEF TidyInv
    <2>2. ASSUME NEW s \in Sockets, Alive(s)' PROVE s = ws' /\ Listens(s)'
      <3>1. s = ws /\ Listens(s)
        BY <2>1, <2>2 DEF OneInv, Alive, tidyVars
      <3>. QED
        BY <3>1 DEF Listens, tidyVars
    <2>. QED
      BY <2>1, <2>2 DEF OneInv, Alive, Live, tidyVars
  <1>3. overlapped' = overlapped
    BY DEF tidyVars
  <1>. QED
    BY <1>1, <1>2, <1>3 DEF TidyInv

\* The event that is handled, and what is left behind it
LEMMA HandledEvent ==
  ASSUME TypeInv, SocketsInv, TidyInv, NEW s \in Sockets, ClientHandles(s), NEW q, q = toClient[s]
  PROVE  /\ q \in Seq(Messages) /\ q # <<>> /\ Live(s) /\ s <= created /\ created > 0
         /\ toClient'[s] = Tail(q) /\ \A t \in Sockets \ {s} : toClient'[t] = toClient[t]
         /\ UNCHANGED <<wanted, overlapped, serving, silent>>
         /\ q[1].what = "error" => Len(Tail(q)) = 1 /\ HasClose(Tail(q)) /\ Len(q) = 2
         /\ Len(q) = 1 /\ HasClose(q) => q[1].what = "close"
         /\ \/ q[1].what = "open" /\ ready[s] = "connecting" /\ OpenEvent(s)
            \/ q[1].what = "error" /\ ErrorEvent(s)
            \/ q[1].what = "close" /\ CloseEvent(s)
            \/ q[1].what \in {"open", "welcome", "ping"} /\ UNCHANGED tidyVars
  <1>1. /\ q # <<>> /\ toClient' = [toClient EXCEPT ![s] = Tail(@)]
        /\ UNCHANGED <<wanted, overlapped, serving, silent>>
    BY DEF ClientHandles, hbVars
  <1>2. q \in Seq(Messages) /\ toClient'[s] = Tail(q) /\ \A t \in Sockets \ {s} : toClient'[t] = toClient[t]
    BY <1>1 DEF TypeInv, Queues
  <1>3. Live(s) /\ Ordered(q)
    BY <1>1 DEF SocketsInv, SocketInv
  <1>4. s <= created /\ created > 0
    <2>1. s \in Nat /\ s >= 1 /\ created \in Nat
      BY SocketNumbers
    <2>. QED
      BY <1>3, <2>1 DEF TidyInv, FreshInv, Live
  <1>5. Len(q) \in Nat \ {0} /\ DOMAIN q = 1 .. Len(q) /\ 1 \in DOMAIN q /\ Head(q) = q[1]
    BY <1>1, <1>2
  <1>6. Len(q) = 1 /\ HasClose(q) => q[1].what = "close"
    BY <1>5 DEF HasClose
  <1>7. ASSUME q[1].what = "error" PROVE Len(Tail(q)) = 1 /\ HasClose(Tail(q)) /\ Len(q) = 2
    <2>1. Len(q) = 2 /\ q[2].what = "close"
      BY <1>3, <1>5, <1>7 DEF Ordered
    <2>2. /\ Len(Tail(q)) = Len(q) - 1
          /\ \A k \in DOMAIN Tail(q) : Tail(q)[k] = q[k + 1]
          /\ Tail(q) \in Seq(Messages)
      BY <1>1, <1>2, <1>3, TailOrdered
    <2>3. Len(Tail(q)) = 1 /\ 1 \in DOMAIN Tail(q)
      BY <2>1, <2>2
    <2>4. Tail(q)[1] = q[2]
      BY <2>2, <2>3
    <2>. QED
      BY <2>1, <2>3, <2>4 DEF HasClose
  <1>8. \/ q[1].what = "open" /\ ready[s] = "connecting" /\ OpenEvent(s)
        \/ q[1].what = "error" /\ ErrorEvent(s)
        \/ q[1].what = "close" /\ CloseEvent(s)
        \/ q[1].what \in {"open", "welcome", "ping"} /\ UNCHANGED tidyVars
    BY <1>1, <1>5 DEF ClientHandles, WelcomeEvent, clientVars, tidyVars
  <1>. QED
    BY <1>1, <1>2, <1>3, <1>4, <1>6, <1>7, <1>8

\* What cleanup() adds, on this.ws or nowhere
LEMMA CleanupEffect ==
  ASSUME TypeInv, NEW s \in Sockets, Cleanup(s)
  PROVE  /\ \A t \in Sockets \ {ws} : onMessage'[t] = onMessage[t] /\ onClose'[t] = onClose[t]
         /\ \A t \in Sockets : t \in handshake' <=> t \in handshake /\ (t # s \/ ws # s)
         /\ ws = s => onMessage'[s] = onMessage[s] + 1 /\ onClose'[s] = onClose[s] + 1
  <1>1. SocketIds = Sockets
    BY SocketNumbers
  <1>2. \A t \in Sockets : /\ onMessage'[t] = onMessage[t] + (IF t = ws THEN 1 ELSE 0)
                           /\ onClose'[t] = onClose[t] + (IF t = ws THEN 1 ELSE 0)
    BY <1>1 DEF Cleanup
  <1>3. \A t \in Sockets : onMessage[t] \in Nat /\ onClose[t] \in Nat
    BY DEF TypeInv, ClientTypes
  <1>4. \A t \in Sockets : t \in handshake' <=> t \in handshake /\ (t # s \/ ws # s)
    BY DEF Cleanup
  <1>. QED
    BY <1>2, <1>3, <1>4

LEMMA EventTidy ==
  ASSUME TypeInv, SocketsInv, TidyInv, NEW s \in Sockets, ClientHandles(s)
  PROVE  TidyInv'
  <1>0. PICK q : q = toClient[s]
    OBVIOUS
  <1>1. /\ q \in Seq(Messages) /\ q # <<>> /\ Live(s) /\ s <= created /\ created > 0
        /\ toClient'[s] = Tail(q) /\ \A t \in Sockets \ {s} : toClient'[t] = toClient[t]
        /\ UNCHANGED <<wanted, overlapped>>
        /\ q[1].what = "error" => Len(Tail(q)) = 1 /\ HasClose(Tail(q)) /\ Len(q) = 2
        /\ Len(q) = 1 /\ HasClose(q) => q[1].what = "close"
        /\ \/ q[1].what = "open" /\ ready[s] = "connecting" /\ OpenEvent(s)
           \/ q[1].what = "error" /\ ErrorEvent(s)
           \/ q[1].what = "close" /\ CloseEvent(s)
           \/ q[1].what \in {"open", "welcome", "ping"} /\ UNCHANGED tidyVars
    BY <1>0, HandledEvent
  <1>n. ws \in Nat /\ created \in Nat /\ (ws # 0 => ws \in Sockets) /\ s \in Nat \ {0} /\ ws <= created
        /\ timers \in Nat /\ Sockets \subseteq Nat
    <2>1. Sockets = 1 .. MaxSockets /\ MaxSockets \in Nat /\ created \in Nat /\ created <= MaxSockets
      BY SocketNumbers DEF TypeInv, ClientTypes
    <2>2. ws \in 0 .. created /\ timers \in Nat
      BY DEF TypeInv, ClientTypes
    <2>. QED
      BY <2>1, <2>2
  <1>2. CASE q[1].what \in {"open", "welcome", "ping"} /\ UNCHANGED tidyVars
    <2>1. \A t \in Sockets : Len(toClient[t]) = 1 /\ HasClose(toClient[t])
                              => Len(toClient'[t]) = 1 /\ HasClose(toClient'[t])
      BY <1>0, <1>1, <1>2
    <2>. QED
      BY <1>2, <2>1, RestTidy
  <1>3. CASE OpenEvent(s) \/ ErrorEvent(s) \/ CloseEvent(s)
    <2>1. /\ UNCHANGED <<created, ws, autoReconnect>>
          /\ Cleanup(s) \/ NoCleanup
          /\ \A t \in Sockets \ {s} : ready'[t] = ready[t]
      BY <1>3, EventReady DEF OpenEvent, ErrorEvent, CloseEvent, HandshakeFails, NoCleanup, Event
    <2>2. \A t \in Sockets \ {ws} : onMessage'[t] = onMessage[t] /\ onClose'[t] = onClose[t]
      BY <2>1, CleanupEffect DEF NoCleanup
    <2>3. FreshInv'
      BY <1>1, <1>n, <2>1, <2>2 DEF TidyInv, FreshInv
    <2>4. WantedInv'
      BY <1>1, <2>1 DEF TidyInv, WantedInv
    <2>5. ASSUME ~overlapped PROVE OneInv'
      <3>1. OneInv /\ timers = 0
        BY <1>1, <1>n, <2>5 DEF TidyInv, OneInv
      <3>2. Alive(s) \/ ready[s] = "closing"
        BY <1>1 DEF Live, Alive
      <3>3. Alive(s) => s = ws /\ Listens(s) /\ \A t \in Sockets \ {s} : ~Live(t) /\ ~Live(t)'
        BY <1>n, <2>1, <3>1 DEF OneInv, Alive, Live
      <3>4. ready[s] = "closing" => /\ ws = 0 /\ ~autoReconnect
                                    /\ \A t \in Sockets : ~Alive(t) /\ (t # s => ~Alive(t)')
        <4>. SUFFICES ASSUME ready[s] = "closing"
                      PROVE  /\ ws = 0 /\ ~autoReconnect
                             /\ \A t \in Sockets : ~Alive(t) /\ (t # s => ~Alive(t)')
          OBVIOUS
        <4>1. ws = 0 /\ ~autoReconnect
          BY <3>1 DEF OneInv
        <4>2. \A t \in Sockets : t # 0
          BY <1>n, SocketNumbers
        <4>3. \A t \in Sockets : ~Alive(t)
          BY <3>1, <4>1, <4>2 DEF OneInv
        <4>4. \A t \in Sockets \ {s} : ~Alive(t)'
          BY <2>1, <4>3 DEF Alive
        <4>. QED
          BY <4>1, <4>3, <4>4
      <3>5. CASE q[1].what = "open" /\ ready[s] = "connecting" /\ OpenEvent(s)
        <4>1. Alive(s)
          BY <3>5 DEF Alive
        <4>2. s \in handshake
          BY <1>0, <1>1, <3>3, <3>5, <4>1 DEF Listens
        <4>3. connected' = TRUE /\ Cleanup(s) /\ ready'[s] = "open" /\ timers' = timers
          BY <3>5, <4>2, EventReady DEF OpenEvent, Event
        <4>4. onMessage'[s] = 1 /\ onClose'[s] = 1 /\ s \notin handshake'
          BY <3>3, <4>1, <4>2, <4>3, CleanupEffect DEF Listens
        <4>5. Listens(s)'
          BY <4>3, <4>4 DEF Listens
        <4>. QED
          BY <1>n, <2>1, <3>1, <3>3, <4>1, <4>3, <4>5 DEF OneInv, Alive, Live
      <3>6. CASE q[1].what = "error" /\ ErrorEvent(s)
        <4>1. ready' = ready /\ connected' = connected /\ timers' = timers
          BY <3>6 DEF ErrorEvent, HandshakeFails
        <4>2. CASE Alive(s)
          <5>1. Listens(s)'
            <6>1. CASE s \in handshake
              <7>1. Cleanup(s)
                BY <3>6, <6>1 DEF ErrorEvent, HandshakeFails
              <7>2. onMessage'[s] = 1 /\ onClose'[s] = 1 /\ s \notin handshake'
                BY <3>3, <4>2, <6>1, <7>1, CleanupEffect DEF Listens
              <7>. QED
                BY <1>1, <3>6, <7>2 DEF Listens
            <6>2. CASE s \notin handshake
              <7>1. UNCHANGED <<handshake, onMessage, onClose>>
                BY <3>6, <6>2 DEF ErrorEvent, HandshakeFails, NoCleanup
              <7>2. ready[s] # "connecting"
                BY <1>0, <1>1, <3>3, <3>6, <4>2, <6>2 DEF Listens
              <7>. QED
                BY <3>3, <4>1, <4>2, <6>2, <7>1, <7>2 DEF Listens
            <6>. QED
              BY <6>1, <6>2
          <5>. QED
            BY <2>1, <3>1, <3>3, <4>1, <4>2, <5>1 DEF OneInv, Alive, Live
        <4>3. CASE ready[s] = "closing"
          BY <2>1, <3>1, <3>4, <4>1, <4>3 DEF OneInv, Alive, Live
        <4>. QED
          BY <3>2, <4>2, <4>3
      <3>7. CASE q[1].what = "close" /\ CloseEvent(s)
        <4>1. /\ ready'[s] = "closed" /\ timers' = timers + Restarts(onClose[s])
              /\ connected' = IF onClose[s] > 0 THEN FALSE ELSE connected
          BY <3>7, EventReady DEF CloseEvent, HandshakeFails, Event
        <4>2. onClose[s] \in Nat
          BY DEF TypeInv, ClientTypes
        <4>3. /\ Restarts(onClose[s]) \in Nat /\ Restarts(onClose[s]) <= onClose[s]
              /\ ~autoReconnect => Restarts(onClose[s]) = 0
          BY <4>2, RestartsBound
        <4>4. CASE Alive(s)
          <5>1. onClose[s] <= 1
            BY <3>3, <4>4 DEF Listens
          <5>2. timers' <= 1 /\ (timers' > 0 => autoReconnect)
            BY <3>1, <4>1, <4>2, <4>3, <5>1
          <5>3. autoReconnect => wanted
            BY <1>1 DEF TidyInv, WantedInv
          <5>4. \A t \in Sockets : ~Live(t)'
            BY <3>3, <4>1, <4>4 DEF Live
          <5>5. connected' = FALSE
            <6>1. CASE onClose[s] > 0
              BY <4>1, <6>1
            <6>2. CASE ~(onClose[s] > 0)
              <7>1. onClose[s] = 0
                BY <4>2, <6>2
              <7>2. ready[s] = "connecting"
                BY <3>3, <4>4, <7>1 DEF Listens
              <7>3. \A t \in Sockets : ready[t] # "open"
                BY <3>3, <4>4, <7>2 DEF Live
              <7>. QED
                BY <3>1, <4>1, <6>2, <7>3 DEF OneInv, TypeInv, ClientTypes
            <6>. QED
              BY <6>1, <6>2
          <5>. QED
            BY <1>1, <2>1, <5>2, <5>3, <5>4, <5>5 DEF OneInv, Alive, Live
        <4>5. CASE ready[s] = "closing"
          <5>1. timers' = 0 /\ \A t \in Sockets : ~Alive(t)'
            BY <3>1, <3>4, <4>1, <4>3, <4>5 DEF Alive
          <5>2. connected' = FALSE
            <6>1. connected = FALSE
              BY <3>1, <3>4, <4>5 DEF OneInv, Alive, TypeInv, ClientTypes
            <6>. QED
              BY <4>1, <6>1
          <5>. QED
            BY <2>1, <3>4, <4>5, <5>1, <5>2 DEF OneInv, Alive
        <4>. QED
          BY <3>2, <4>4, <4>5
      <3>8. CASE q[1].what \in {"open", "welcome", "ping"} /\ UNCHANGED tidyVars
        <4>1. TidyInv'
          BY <1>2, <3>8
        <4>. QED
          BY <2>5, <3>8, <4>1 DEF TidyInv, tidyVars
      <3>. QED
        BY <1>1, <3>5, <3>6, <3>7, <3>8
    <2>. QED
      BY <1>1, <2>3, <2>4, <2>5 DEF TidyInv
  <1>. QED
    BY <1>1, <1>2, <1>3

\* Only the handling of its event removes a close event.
LEMMA CloseStays ==
  ASSUME TypeInv, SocketsInv, NEW t \in Sockets, Len(toClient[t]) = 1, HasClose(toClient[t]),
         \/ \E s \in Sockets : Accepted(s) \/ Refused(s) \/ GivenUp(s) \/ Reset(s)
                                 \/ GoesSilent(s) \/ ServerHandles(s)
         \/ HeartbeatRound \/ TimePasses \/ UNCHANGED vars
  PROVE  Len(toClient'[t]) = 1 /\ HasClose(toClient'[t])
  <1>0. toClient[t] \in Seq(Messages) /\ DOMAIN toClient = Sockets /\ ~Linked(t) /\ toClient[t] # <<>>
    <2>1. toClient[t] \in Seq(Messages) /\ DOMAIN toClient = Sockets
      BY DEF TypeInv, Queues
    <2>2. ~Linked(t)
      BY DEF SocketsInv, SocketInv
    <2>3. Len(<<>>) = 0
      OBVIOUS
    <2>. QED
      BY <2>1, <2>2, <2>3
  <1>1. ASSUME NEW s \in Sockets, Accepted(s) \/ Refused(s) \/ GivenUp(s)
        PROVE  toClient'[t] = toClient[t]
    <2>1. toClient[s] = <<>>
      BY <1>1 DEF Accepted, Refused, GivenUp, Dialled
    <2>2. t # s
      BY <1>0, <2>1
    <2>. QED
      BY <1>0, <1>1, <2>2 DEF Accepted, Refused, GivenUp
  <1>2. ASSUME NEW s \in Sockets, Reset(s) \/ GoesSilent(s)
        PROVE  toClient'[t] = toClient[t]
    <2>1. t # s
      BY <1>0, <1>2 DEF Reset, GoesSilent, Breaks, Linked
    <2>. QED
      BY <1>0, <1>2, <2>1 DEF Reset, GoesSilent
  <1>3. ASSUME NEW s \in Sockets, ServerHandles(s)
        PROVE  toClient'[t] = toClient[t]
    <2>1. toServer[s] # <<>> /\ s \notin silent
      BY <1>3 DEF ServerHandles, SocketsInv, SocketInv
    <2>2. \/ toClient' = toClient
          \/ s \in serving /\ toClient' = [toClient EXCEPT ![s] = Append(@, Msg("close", 0))]
      BY <1>3 DEF ServerHandles
    <2>. QED
      BY <1>0, <2>1, <2>2 DEF Linked
  <1>4. ASSUME HeartbeatRound PROVE toClient'[t] = toClient[t]
    BY <1>0, <1>4 DEF HeartbeatRound, Linked
  <1>5. ASSUME TimePasses PROVE Len(toClient'[t]) = 1 /\ HasClose(toClient'[t])
    <2>1. toClient'[t] = Older(toClient[t]) /\ InTime(toClient[t])
      BY <1>5 DEF TimePasses
    <2>. QED
      BY <1>0, <2>1, OlderOrdered, OlderType
  <1>6. ASSUME UNCHANGED vars PROVE toClient'[t] = toClient[t]
    BY <1>6 DEF vars, linkVars
  <1>. QED
    BY <1>1, <1>2, <1>3, <1>4, <1>5, <1>6

LEMMA TidyKept ==
  ASSUME TypeInv, SocketsInv, TidyInv, [Next]_vars PROVE TidyInv'
  <1>0. timers \in Nat
    BY DEF TypeInv, ClientTypes
  <1>1. CASE AppConnect
    <2>1. Dial /\ wanted' = TRUE /\ UNCHANGED <<toClient, timers>>
          /\ overlapped' = (overlapped \/ timers > 0 \/ \E s \in Sockets : Live(s))
      BY <1>1 DEF AppConnect, linkVars
    <2>2. ~overlapped' => ~overlapped /\ timers' = 0 /\ \A s \in Sockets : ~Live(s)
      <3>1. ~overlapped' => ~overlapped /\ ~(timers > 0) /\ \A s \in Sockets : ~Live(s)
        BY <2>1, Zenon
      <3>2. ~(timers > 0) => timers' = 0
        BY <1>0, <2>1
      <3>. QED
        BY <3>1, <3>2
    <2>. QED
      BY <1>0, <2>1, <2>2, DialTidy
  <1>2. CASE Reconnect
    <2>1. Dial /\ timers > 0 /\ timers' = timers - 1 /\ UNCHANGED <<toClient, wanted, overlapped>>
      BY <1>2 DEF Reconnect, TimerFires, linkVars, histVars
    <2>2. timers' \in Nat
      BY <1>0, <2>1
    <2>3. autoReconnect => wanted'
      BY <2>1 DEF TidyInv, WantedInv
    <2>4. ASSUME ~overlapped' PROVE ~overlapped /\ timers' = 0 /\ \A s \in Sockets : ~Live(s)
      <3>1. ~overlapped /\ timers <= 1 /\ \A s \in Sockets : ~Live(s)
        BY <2>1, <2>4 DEF TidyInv, OneInv
      <3>. QED
        BY <1>0, <2>1, <3>1
    <2>. QED
      BY <2>1, <2>2, <2>3, <2>4, DialTidy
  <1>3. CASE AppDisconnect
    <2>1. Disconnect /\ ~wanted' /\ UNCHANGED <<toClient, overlapped>>
      BY <1>3 DEF AppDisconnect
    <2>. QED
      BY <2>1, DisconnectTidy
  <1>4. ASSUME NEW s \in Sockets, ClientHandles(s) PROVE TidyInv'
    BY <1>4, EventTidy
  <1>5. CASE \/ \E s \in Sockets : Accepted(s) \/ Refused(s) \/ GivenUp(s) \/ Reset(s)
                                     \/ GoesSilent(s) \/ ServerHandles(s)
             \/ HeartbeatRound \/ TimePasses \/ UNCHANGED vars
    <2>1. UNCHANGED <<clientVars, histVars>>
      BY <1>5 DEF Accepted, Refused, GivenUp, Reset, GoesSilent, Breaks, ServerHandles,
                  HeartbeatRound, TimePasses, vars
    <2>2. UNCHANGED tidyVars
      BY <2>1 DEF clientVars, histVars, tidyVars
    <2>3. \A t \in Sockets : Len(toClient[t]) = 1 /\ HasClose(toClient[t])
                              => Len(toClient'[t]) = 1 /\ HasClose(toClient'[t])
      BY <1>5, CloseStays
    <2>. QED
      BY <2>2, <2>3, RestTidy
  <1>. QED
    BY <1>1, <1>2, <1>3, <1>4, <1>5 DEF Next

LEMMA TidyInvariant == Spec => []TidyInv
  <1>1. Init => TidyInv
    BY TidyStarts
  <1>2. TypeInv /\ SocketsInv /\ TidyInv /\ [Next]_vars => TidyInv'
    BY TidyKept
  <1>. QED
    BY <1>1, <1>2, TypeInvariant, SocketsInvariant, PTL DEF Spec

\* A client whose application calls connect() only when nothing is left of the
\* last connection has one socket or one timer; an open socket has one handler
\* of each kind, and `connected` tells whether there is one.
THEOREM SessionOneSocket == Spec => []OneSocket
  <1>1. ASSUME TypeInv, TidyInv PROVE OneSocket
    <2>. SUFFICES ASSUME ~overlapped,
                         NEW alive, alive = {s \in Sockets : ready[s] \in {"connecting", "open"}}
                  PROVE  /\ alive \subseteq {ws}
                         /\ timers <= (IF alive = {} THEN 1 ELSE 0)
                         /\ connected <=> \E s \in alive : ready[s] = "open"
                         /\ \A s \in alive : ready[s] = "open" =>
                              onMessage[s] = 1 /\ onClose[s] = 1 /\ s \notin handshake
      BY DEF OneSocket
    <2>1. OneInv
      BY <1>1 DEF TidyInv
    <2>2. \A s \in alive : s \in Sockets /\ Alive(s) /\ Live(s) /\ s = ws /\ Listens(s)
      BY <2>1 DEF OneInv, Alive, Live
    <2>3. timers <= (IF alive = {} THEN 1 ELSE 0)
      <3>1. timers \in Nat /\ timers <= 1
        BY <1>1, <2>1 DEF OneInv, TypeInv, ClientTypes
      <3>2. CASE alive = {}
        BY <3>1, <3>2
      <3>3. CASE alive # {}
        <4>1. ~(timers > 0)
          BY <2>1, <2>2, <3>3 DEF OneInv
        <4>. QED
          BY <3>1, <3>3, <4>1
      <3>. QED
        BY <3>2, <3>3
    <2>4. connected <=> \E s \in alive : ready[s] = "open"
      BY <2>1 DEF OneInv
    <2>5. \A s \in alive : ready[s] = "open" =>
            onMessage[s] = 1 /\ onClose[s] = 1 /\ s \notin handshake
      BY <2>2 DEF Listens
    <2>. QED
      BY <2>2, <2>3, <2>4, <2>5
  <1>. QED
    BY <1>1, TypeInvariant, TidyInvariant, PTL

\* After disconnect() the client opens no socket until connect() is called: a
\* timer that may still fire was set by a client that may reconnect, and
\* disconnect() takes that back for good.  It knows the last timer only, so this
\* is for an application that calls connect() when no socket and no timer is
\* alive.
THEOREM SessionNoComeback == Spec => NoComeback
  <1>1. ASSUME TypeInv, TidyInv, [Next]_vars, created' # created, ~overlapped' PROVE wanted'
    <2>1. CASE AppConnect
      BY <2>1 DEF AppConnect
    <2>2. CASE Reconnect
      <3>1. UNCHANGED <<wanted, overlapped>> /\ timers > 0
        BY <2>2 DEF Reconnect, TimerFires, histVars
      <3>. QED
        BY <1>1, <3>1 DEF TidyInv, OneInv
    <2>3. CASE AppDisconnect
      BY <1>1, <2>3 DEF AppDisconnect, Disconnect
    <2>4. ASSUME NEW s \in Sockets, ClientHandles(s) PROVE FALSE
      BY <1>1, <2>4 DEF ClientHandles, OpenEvent, WelcomeEvent, ErrorEvent, CloseEvent, HandshakeFails, clientVars
    <2>5. ASSUME \/ \E s \in Sockets : Accepted(s) \/ Refused(s) \/ GivenUp(s) \/ Reset(s)
                                     \/ GoesSilent(s) \/ ServerHandles(s)
                 \/ HeartbeatRound \/ TimePasses \/ UNCHANGED vars
          PROVE FALSE
      BY <1>1, <2>5 DEF Accepted, Refused, GivenUp, Reset, GoesSilent, Breaks, ServerHandles,
                        HeartbeatRound, TimePasses, vars, clientVars
    <2>. QED
      BY <1>1, <2>1, <2>2, <2>3, <2>4, <2>5 DEF Next
  <1>2. TypeInv /\ TidyInv /\ [Next]_vars => [created' # created /\ ~overlapped' => wanted']_vars
    BY <1>1
  <1>. QED
    BY <1>2, TypeInvariant, TidyInvariant, PTL DEF Spec, NoComeback

-----------------------------------------------------------------------------
(* A link that works: the silence of its socket ends in time for the next  *)
(* round, or a ping is under way, or its answer, as old as the excess.     *)

Pinged(q, n) == \E k \in DOMAIN q : q[k].what = "ping" /\ n <= Interval + q[k].age

Awaited(s) ==
  \/ silence[s] + due <= Interval
  \/ Pinged(toClient[s], silence[s])
  \/ Pinged(toServer[s], silence[s])

AwaitedInv == ~overlapped => \A s \in Sockets : Linked(s) /\ Alive(s) => Awaited(s)

LEMMA PingAppended ==
  ASSUME NEW q \in Seq(Messages), NEW m \in Messages, NEW n
  PROVE  /\ Pinged(q, n) => Pinged(Append(q, m), n)
         /\ m.what = "ping" /\ n <= Interval + m.age => Pinged(Append(q, m), n)
  <1>1. PICK a : a = Append(q, m)
    OBVIOUS
  <1>2. Len(q) \in Nat /\ DOMAIN q = 1 .. Len(q) /\ DOMAIN a = 1 .. Len(q) + 1
        /\ a[Len(q) + 1] = m /\ \A k \in DOMAIN q : a[k] = q[k]
    BY <1>1
  <1>3. DOMAIN q \subseteq DOMAIN a /\ Len(q) + 1 \in DOMAIN a
    BY <1>2
  <1>4. Pinged(q, n) => Pinged(a, n)
    BY <1>2, <1>3 DEF Pinged
  <1>5. m.what = "ping" /\ n <= Interval + m.age => Pinged(a, n)
    BY <1>2, <1>3 DEF Pinged
  <1>. QED
    BY <1>1, <1>4, <1>5

LEMMA PingTaken ==
  ASSUME NEW q \in Seq(Messages), q # <<>>, Ordered(q), NEW n, Pinged(q, n)
  PROVE  \/ Pinged(Tail(q), n)
         \/ Head(q).what = "ping" /\ n <= Interval + Head(q).age
  <1>1. PICK k \in DOMAIN q : q[k].what = "ping" /\ n <= Interval + q[k].age
    BY DEF Pinged
  <1>2. /\ Head(q) = q[1] /\ Len(Tail(q)) = Len(q) - 1
        /\ \A j \in DOMAIN Tail(q) : Tail(q)[j] = q[j + 1]
    BY TailOrdered
  <1>3. Len(q) \in Nat /\ DOMAIN q = 1 .. Len(q) /\ Tail(q) \in Seq(Messages)
    OBVIOUS
  <1>4. DOMAIN Tail(q) = 1 .. Len(q) - 1
    BY <1>2, <1>3
  <1>5. CASE k = 1
    BY <1>1, <1>2, <1>5
  <1>6. CASE k # 1
    <2>1. PICK j : j = k - 1
      OBVIOUS
    <2>2. j \in DOMAIN Tail(q) /\ j + 1 = k
      BY <1>3, <1>4, <1>6, <2>1
    <2>3. Tail(q)[j] = q[k]
      BY <1>2, <2>2
    <2>. QED
      BY <1>1, <2>2, <2>3 DEF Pinged
  <1>. QED
    BY <1>5, <1>6

LEMMA PingOlder ==
  ASSUME NEW q \in Seq(Messages), InTime(q), NEW n \in Nat, NEW i \in Nat, i <= n + 1, Pinged(q, n)
  PROVE  Pinged(Older(q), i)
  <1>1. PICK k \in DOMAIN q : q[k].what = "ping" /\ n <= Interval + q[k].age
    BY DEF Pinged
  <1>2. k \in DOMAIN Older(q) /\ Older(q)[k].what = "ping" /\ Older(q)[k].age = q[k].age + 1
    BY <1>1, OlderType
  <1>3. q[k].age \in Nat /\ Interval \in Nat
    <2>1. q[k] \in Messages /\ Timeout \in Nat /\ Interval \in Nat
      BY HeartbeatAssumption
    <2>. QED
      BY <2>1 DEF Messages
  <1>4. i <= Interval + Older(q)[k].age
    BY <1>1, <1>2, <1>3
  <1>. QED
    BY <1>2, <1>4 DEF Pinged

LEMMA PingBound ==
  ASSUME NEW q \in Seq(Messages), NEW n \in Nat, Pinged(q, n) PROVE n <= Interval + Timeout
  <1>1. PICK k \in DOMAIN q : n <= Interval + q[k].age
    BY DEF Pinged
  <1>2. q[k] \in Messages /\ Timeout \in Nat /\ Interval \in Nat
    BY HeartbeatAssumption
  <1>3. q[k].age \in Nat /\ q[k].age <= Timeout
    BY <1>2 DEF Messages
  <1>. QED
    BY <1>1, <1>2, <1>3

\* A step that loses no ping of a socket and leaves its silence as it is
LEMMA AwaitSame ==
  ASSUME NEW t \in Sockets, Awaited(t), silence'[t] = silence[t], due' = due,
         Pinged(toClient[t], silence[t]) => Pinged(toClient'[t], silence[t]) \/ Pinged(toServer'[t], silence[t]),
         Pinged(toServer[t], silence[t]) => Pinged(toServer'[t], silence[t])
  PROVE  Awaited(t)'
  BY DEF Awaited

\* A client that answers pings on the socket they come by
LEMMA AnswersPing ==
  ASSUME TypeInv, SocketsInv, OneInv, NEW s \in Sockets, ClientHandles(s), Linked(s), Alive(s),
         Head(toClient[s]).what = "ping"
  PROVE  toServer'[s] = Append(toServer[s], Msg("ping", Head(toClient[s]).age))
  <1>1. s = ws /\ Listens(s) /\ ws # 0
    BY SocketNumbers DEF OneInv
  <1>2. SocketInv(s) /\ toClient[s] \in Seq(Messages) /\ toClient[s] # <<>>
    BY DEF SocketsInv, ClientHandles, TypeInv, Queues
  <1>3. Head(toClient[s]) = toClient[s][1]
    BY <1>2
  <1>4. ready[s] = "open"
    BY <1>2, <1>3 DEF SocketInv, StartsOpen, Alive
  <1>5. onMessage[s] > 0
    BY <1>1, <1>4 DEF Listens
  <1>6. Answers(s) /\ ws \notin silent
    BY <1>1, <1>4, <1>5 DEF Answers, Linked
  <1>7. toServer' = [toServer EXCEPT ![ws] = Append(@, Msg("ping", Head(toClient[s]).age))]
    BY <1>4, <1>6 DEF ClientHandles
  <1>. QED
    BY <1>1, <1>7 DEF TypeInv, Queues

LEMMA AwaitedHandled ==
  ASSUME TypeInv, SocketsInv, OneInv, NEW s \in Sockets, ClientHandles(s),
         NEW t \in Sockets, Linked(t)', Alive(t)', Linked(t) /\ Alive(t) => Awaited(t)
  PROVE  Awaited(t)'
  <1>0. /\ toClient[t] \in Seq(Messages) /\ toServer[t] \in Seq(Messages) /\ SocketInv(t)
        /\ toClient[s] \in Seq(Messages) /\ DOMAIN toClient = Sockets /\ DOMAIN toServer = Sockets
    BY DEF SocketsInv, TypeInv, Queues
  <1>1. /\ toClient[s] # <<>> /\ toClient' = [toClient EXCEPT ![s] = Tail(@)]
        /\ UNCHANGED <<serving, silence, due, silent>>
    BY DEF ClientHandles, hbVars
  <1>2. Linked(t) /\ Alive(t)
    <2>1. Linked(t)
      BY <1>1 DEF Linked
    <2>2. \/ ready[s] = "connecting" /\ OpenEvent(s)
          \/ WelcomeEvent(s) \/ ErrorEvent(s)
          \/ CloseEvent(s)
          \/ ready' = ready
      BY DEF ClientHandles, clientVars
    <2>3. ready'[t] = ready[t] \/ (t = s /\ ready[s] = "connecting") \/ (t = s /\ ready'[s] = "closed")
      BY <2>2, EventReady DEF Event
    <2>. QED
      BY <2>1, <2>3 DEF Alive
  <1>3. Awaited(t)
    BY <1>2
  <1>4. \/ toServer'[t] = toServer[t]
        \/ toServer'[t] = Append(toServer[t], Msg("ping", Head(toClient[s]).age))
    <2>1. \/ toServer' = toServer
          \/ toServer' = [toServer EXCEPT ![ws] = Append(@, Msg("ping", Head(toClient[s]).age))]
      BY DEF ClientHandles
    <2>. QED
      BY <1>0, <2>1
  <1>5. Msg("ping", Head(toClient[s]).age) \in Messages /\ Head(toClient[s]) \in Messages
    <2>1. Head(toClient[s]) \in Messages
      BY <1>0, <1>1
    <2>. QED
      BY <2>1 DEF Messages, Msg
  <1>6. Pinged(toServer[t], silence[t]) => Pinged(toServer'[t], silence[t])
    <2>1. CASE toServer'[t] = toServer[t]
      BY <2>1
    <2>2. CASE toServer'[t] = Append(toServer[t], Msg("ping", Head(toClient[s]).age))
      <3>1. Pinged(toServer[t], silence[t])
              => Pinged(Append(toServer[t], Msg("ping", Head(toClient[s]).age)), silence[t])
        BY <1>0, <1>5, PingAppended
      <3>. QED
        BY <2>2, <3>1
    <2>. QED
      BY <1>4, <2>1, <2>2
  <1>7. Pinged(toClient[t], silence[t])
          => Pinged(toClient'[t], silence[t]) \/ Pinged(toServer'[t], silence[t])
    <2>1. CASE t # s
      BY <1>0, <1>1, <2>1
    <2>2. CASE t = s
      <3>. SUFFICES ASSUME Pinged(toClient[t], silence[t]), ~Pinged(Tail(toClient[t]), silence[t])
                    PROVE  Pinged(toServer'[t], silence[t])
        BY <1>0, <1>1, <2>2
      <3>1. Ordered(toClient[t]) /\ toClient[t] # <<>>
        BY <1>0, <1>1, <2>2 DEF SocketInv
      <3>2. Head(toClient[s]).what = "ping" /\ silence[t] <= Interval + Head(toClient[s]).age
        BY <1>0, <2>2, <3>1, PingTaken
      <3>3. toServer'[s] = Append(toServer[s], Msg("ping", Head(toClient[s]).age))
        BY <1>2, <2>2, <3>2, AnswersPing
      <3>4. Msg("ping", Head(toClient[s]).age).what = "ping"
            /\ silence[t] <= Interval + Msg("ping", Head(toClient[s]).age).age
        BY <3>2 DEF Msg
      <3>. QED
        BY <1>0, <1>5, <2>2, <3>3, <3>4, PingAppended
    <2>. QED
      BY <2>1, <2>2
  <1>8. silence'[t] = silence[t] /\ due' = due
    BY <1>1
  <1>. QED
    BY <1>3, <1>6, <1>7, <1>8, AwaitSame

LEMMA AwaitedKept ==
  ASSUME TypeInv, SocketsInv, TidyInv, AwaitedInv, [Next]_vars, ~overlapped',
         NEW t \in Sockets, Linked(t)', Alive(t)'
  PROVE  Awaited(t)'
  <1>0. ~overlapped /\ OneInv
    <2>1. \/ overlapped' = overlapped
          \/ overlapped' = (overlapped \/ timers > 0 \/ \E s \in Sockets : Live(s))
      BY DEF Next, AppConnect, AppDisconnect, Reconnect, Accepted, Refused, Reset, GoesSilent, GivenUp,
             Breaks, ClientHandles, ServerHandles, HeartbeatRound, TimePasses, histVars, vars
    <2>2. ~overlapped
      BY <2>1, Zenon
    <2>. QED
      BY <2>2 DEF TidyInv
  <1>1. Linked(t) /\ Alive(t) => Awaited(t)
    BY <1>0 DEF AwaitedInv
  <1>2. /\ toClient[t] \in Seq(Messages) /\ toServer[t] \in Seq(Messages) /\ SocketInv(t)
        /\ DOMAIN toClient = Sockets /\ DOMAIN toServer = Sockets /\ DOMAIN silence = Sockets
        /\ silence[t] \in Nat /\ due \in 0 .. Interval /\ Interval \in Nat /\ due \in Nat /\ due <= Interval
    BY HeartbeatAssumption DEF SocketsInv, TypeInv, Queues, ServerTypes
  <1>3. CASE AppConnect \/ Reconnect
    <2>1. Dial /\ UNCHANGED <<toClient, toServer, serving, silent, silence, due>>
      BY <1>3 DEF AppConnect, Reconnect, TimerFires, linkVars, hbVars
    <2>2. ready'[t] = ready[t] /\ Linked(t)
      <3>1. Linked(t)
        BY <2>1 DEF Linked
      <3>. QED
        BY <2>1, <3>1, DialReady DEF Linked
    <2>. QED
      BY <1>1, <2>1, <2>2, AwaitSame DEF Alive
  <1>4. CASE AppDisconnect
    <2>1. Disconnect /\ UNCHANGED <<toClient, serving, silent, silence, due>>
      BY <1>4 DEF AppDisconnect, hbVars
    <2>2. ready'[t] = ready[t] /\ ~(t = ws /\ ready[t] \in {"connecting", "open"})
      BY <2>1, DisconnectReady DEF Alive
    <2>3. toServer'[t] = toServer[t]
      BY <1>4, <2>2 DEF AppDisconnect
    <2>4. Linked(t) /\ Alive(t)
      BY <2>1, <2>2 DEF Linked, Alive
    <2>. QED
      BY <1>1, <2>1, <2>3, <2>4, AwaitSame
  <1>5. ASSUME NEW s \in Sockets, Accepted(s) PROVE Awaited(t)'
    <2>1. /\ silence' = [silence EXCEPT ![s] = 0] /\ serving' = serving \cup {s}
          /\ toClient' = [toClient EXCEPT ![s] = <<Msg("open", 0), Msg("welcome", 0)>>]
          /\ UNCHANGED <<due, toServer, silent, ready>>
      BY <1>5 DEF Accepted, Opened, clientVars
    <2>2. CASE t = s
      BY <1>2, <2>1, <2>2 DEF Awaited
    <2>3. CASE t # s
      <3>1. Linked(t) /\ Alive(t)
        BY <2>1, <2>3 DEF Linked, Alive
      <3>2. toClient'[t] = toClient[t] /\ silence'[t] = silence[t]
        BY <1>2, <2>1, <2>3
      <3>. QED
        BY <1>1, <2>1, <3>1, <3>2, AwaitSame
    <2>. QED
      BY <2>2, <2>3
  <1>6. ASSUME NEW s \in Sockets, Refused(s) \/ GivenUp(s) PROVE Awaited(t)'
    <2>1. s \notin serving \/ s \in silent
      BY <1>6 DEF Refused, GivenUp, Dialled
    <2>2. UNCHANGED <<serving, silent, silence, due, toServer, ready>>
      BY <1>6 DEF Refused, GivenUp, hbVars, clientVars
    <2>3. Linked(t) /\ Alive(t) /\ t # s
      BY <2>1, <2>2 DEF Linked, Alive
    <2>4. toClient'[t] = toClient[t]
      BY <1>2, <1>6, <2>3 DEF Refused, GivenUp
    <2>. QED
      BY <1>1, <2>2, <2>3, <2>4, AwaitSame
  <1>7. ASSUME NEW s \in Sockets, Reset(s) \/ GoesSilent(s) PROVE Awaited(t)'
    <2>1. /\ toServer' = [toServer EXCEPT ![s] = <<>>] /\ ready' = ready /\ due' = due
          /\ serving' \subseteq serving /\ silent \subseteq silent'
      BY <1>7 DEF Reset, GoesSilent, Breaks, Closed, hbVars, clientVars
    <2>2. t # s
      BY <1>7 DEF Reset, GoesSilent, Closed, Linked
    <2>3. Linked(t) /\ Alive(t)
      BY <2>1 DEF Linked, Alive
    <2>4. toClient'[t] = toClient[t] /\ silence'[t] = silence[t] /\ toServer'[t] = toServer[t]
      BY <1>2, <1>7, <2>1, <2>2 DEF Reset, GoesSilent, Closed, hbVars
    <2>. QED
      BY <1>1, <2>1, <2>3, <2>4, AwaitSame
  <1>8. ASSUME NEW s \in Sockets, ClientHandles(s) PROVE Awaited(t)'
    BY <1>0, <1>1, <1>8, AwaitedHandled
  <1>9. ASSUME NEW s \in Sockets, ServerHandles(s) PROVE Awaited(t)'
    <2>1. /\ toServer' = [toServer EXCEPT ![s] = Tail(@)] /\ UNCHANGED <<ready, silent>>
          /\ \/ s \in serving /\ Pong(s) /\ UNCHANGED toClient
             \/ s \in serving /\ Closed(s) /\ toClient' = [toClient EXCEPT ![s] = Append(@, Msg("close", 0))]
             \/ s \notin serving /\ UNCHANGED <<serving, silence, due, toClient>>
      BY <1>9 DEF ServerHandles, clientVars, hbVars
    <2>2. serving' \subseteq serving /\ due' = due /\ (t # s => silence'[t] = silence[t])
      BY <1>2, <2>1 DEF Pong, Closed
    <2>3. Linked(t) /\ Alive(t)
      BY <2>1, <2>2 DEF Linked, Alive
    <2>4. CASE t = s
      <3>1. Pong(s)
        BY <2>1, <2>3, <2>4 DEF Closed, Linked
      <3>2. silence'[t] = 0
        BY <1>2, <2>4, <3>1 DEF Pong
      <3>. QED
        BY <1>2, <2>2, <3>2 DEF Awaited
    <2>5. CASE t # s
      <3>1. toClient'[t] = toClient[t] /\ toServer'[t] = toServer[t]
        BY <1>2, <2>1, <2>5
      <3>. QED
        BY <1>1, <2>2, <2>3, <2>5, <3>1, AwaitSame
    <2>. QED
      BY <2>4, <2>5
  <1>10. CASE HeartbeatRound
    <2>1. /\ due = 0 /\ serving' = serving \ Missed /\ UNCHANGED <<toServer, silent, ready>>
          /\ silence' = [s \in Sockets |-> IF s \in Missed THEN 0 ELSE silence[s]]
      BY <1>10 DEF HeartbeatRound, Round, clientVars
    <2>2. Linked(t) /\ Alive(t) /\ t \notin Missed
      BY <2>1 DEF Linked, Alive
    <2>3. silence'[t] = silence[t]
      BY <2>1, <2>2
    <2>4. toClient'[t] = Append(toClient[t], Msg("ping", 0))
      BY <1>10, <2>2 DEF HeartbeatRound, Linked
    <2>5. Msg("ping", 0) \in Messages /\ Msg("ping", 0).what = "ping" /\ Msg("ping", 0).age = 0
      BY NewMessage DEF Whats, Msg
    <2>6. Pinged(toClient[t], silence[t]) => Pinged(toClient'[t], silence[t])
      BY <1>2, <2>4, <2>5, PingAppended
    <2>7. silence[t] + due <= Interval => Pinged(toClient'[t], silence[t])
      BY <1>2, <2>1, <2>4, <2>5, PingAppended
    <2>. QED
      BY <1>1, <2>1, <2>2, <2>3, <2>6, <2>7 DEF Awaited
  <1>11. CASE TimePasses
    <2>1. /\ due > 0 /\ due' = due - 1
          /\ InTime(toClient[t]) /\ InTime(toServer[t])
          /\ toClient'[t] = Older(toClient[t]) /\ toServer'[t] = Older(toServer[t])
          /\ UNCHANGED <<serving, silent, ready>>
          /\ silence'[t] = IF t \in serving /\ silence[t] < Capped THEN silence[t] + 1 ELSE silence[t]
      BY <1>11 DEF TimePasses, Elapse, clientVars
    <2>2. Linked(t) /\ Alive(t)
      BY <2>1 DEF Linked, Alive
    <2>3. silence'[t] \in Nat /\ silence'[t] <= silence[t] + 1
      BY <1>2, <2>1
    <2>4. silence[t] + due <= Interval => silence'[t] + due' <= Interval
      BY <1>2, <2>1, <2>3
    <2>5. Pinged(toClient[t], silence[t]) => Pinged(toClient'[t], silence'[t])
      BY <1>2, <2>1, <2>3, PingOlder
    <2>6. Pinged(toServer[t], silence[t]) => Pinged(toServer'[t], silence'[t])
      BY <1>2, <2>1, <2>3, PingOlder
    <2>. QED
      BY <1>1, <2>2, <2>4, <2>5, <2>6 DEF Awaited
  <1>12. CASE UNCHANGED vars
    BY <1>1, <1>12 DEF vars, clientVars, hbVars, linkVars, Linked, Alive, Awaited
  <1>. QED
    BY <1>3, <1>4, <1>5, <1>6, <1>7, <1>8, <1>9, <1>10, <1>11, <1>12 DEF Next

LEMMA AwaitedInvariant == Spec => []AwaitedInv
  <1>1. Init => AwaitedInv
    BY DEF Init, HbInit, AwaitedInv, Linked
  <1>2. TypeInv /\ SocketsInv /\ TidyInv /\ AwaitedInv /\ [Next]_vars => AwaitedInv'
    BY AwaitedKept DEF AwaitedInv
  <1>. QED
    BY <1>1, <1>2, TypeInvariant, SocketsInvariant, TidyInvariant, PTL DEF Spec

\* The heartbeat never ends the socket of a client whose link works, as long as
\* the client has not closed it itself and the application has not called
\* connect() while a socket or a timer was alive.
THEOREM SessionKeptAlive == Spec => []KeptAlive
  <1>1. ASSUME TypeInv, SocketsInv, AwaitedInv PROVE KeptAlive
    <2>. SUFFICES ASSUME ~overlapped, NEW s \in Missed, s \notin silent, ready[s] \notin {"closing", "closed"}
                  PROVE  FALSE
      BY DEF KeptAlive
    <2>1. s \in serving /\ silence[s] > Interval + Timeout
      BY DEF Missed
    <2>2. s \in Sockets /\ toClient[s] \in Seq(Messages) /\ toServer[s] \in Seq(Messages)
          /\ silence[s] \in Nat /\ due \in Nat /\ Interval \in Nat /\ Timeout \in Nat
      <3>1. s \in Sockets
        BY <1>1, <2>1, SocketNumbers DEF TypeInv, ServerTypes
      <3>. QED
        BY <1>1, <3>1, HeartbeatAssumption DEF TypeInv, ServerTypes, Queues
    <2>3. Linked(s) /\ Alive(s)
      BY <1>1, <2>1, <2>2 DEF SocketsInv, SocketInv, Linked, Live, Alive
    <2>4. Awaited(s)
      BY <1>1, <2>2, <2>3 DEF AwaitedInv
    <2>5. silence[s] <= Interval + Timeout
      BY <2>2, <2>4, PingBound DEF Awaited
    <2>. QED
      BY <2>1, <2>2, <2>5
  <1>. QED
    BY <1>1, TypeInvariant, SocketsInvariant, AwaitedInvariant, PTL
=============================================================================
