------------------------------- MODULE Session -------------------------------
(***************************************************************************)
(* A client with the SDK and the server's heartbeat at the other end of    *)
(* its WebSockets.  A connection may be refused, break so that both ends   *)
(* notice, or go silent so that neither does.                              *)
(*                                                                         *)
(* A message carries the time since the server's ping that caused it; on a *)
(* link that works, ping and answer take no longer than Timeout together.  *)
(***************************************************************************)
EXTENDS LiveRelayClient, Heartbeat, Sequences, FiniteSets

CONSTANTS
  MaxConnects,  \* bound: calls of connect() by the application
  MaxBreaks     \* bound: connections that break or go silent

ASSUME SocketsAssumption == Sockets = SocketIds

VARIABLES
  toClient,     \* events under way to each WebSocket of the client
  toServer,     \* messages under way to the server, on each connection
  silent,       \* connections that carry nothing any more
  breaks,
  calls         \* calls of connect() by the application

\* History: read by no guard.
VARIABLES
  wanted,       \* the last call was connect(), not disconnect()
  overlapped,   \* connect() was called while a socket or a timer was alive
  welcomed      \* sockets whose welcome the client has received

linkVars == <<toClient, toServer, silent>>
histVars == <<wanted, overlapped, welcomed>>
vars == <<clientVars, hbVars, linkVars, breaks, calls, histVars>>

Msg(what, age) == [what |-> what, age |-> age]
Live(s) == ready[s] \in {"connecting", "open", "closing"}

Init ==
  /\ ClientInit
  /\ HbInit
  /\ toClient = [s \in Sockets |-> <<>>]
  /\ toServer = [s \in Sockets |-> <<>>]
  /\ silent = {}
  /\ breaks = 0 /\ calls = 0
  /\ wanted = FALSE /\ overlapped = FALSE /\ welcomed = {}

-----------------------------------------------------------------------------
(* The application. *)

AppConnect ==
  /\ calls < MaxConnects
  /\ calls' = calls + 1
  /\ Dial
  /\ wanted' = TRUE
  /\ overlapped' = (overlapped \/ timers > 0 \/ \E s \in Sockets : Live(s))
  /\ UNCHANGED <<timers, hbVars, linkVars, breaks, welcomed>>

\* The close frame follows what was sent before it.
AppDisconnect ==
  /\ wanted
  /\ Disconnect
  /\ wanted' = FALSE
  /\ toServer' = [s \in Sockets |->
       IF s = ws /\ s \in serving \ silent /\ ready[s] \in {"connecting", "open"}
         THEN Append(toServer[s], Msg("close", 0)) ELSE toServer[s]]
  /\ UNCHANGED <<hbVars, toClient, silent, breaks, calls, overlapped, welcomed>>

Reconnect ==
  /\ TimerFires
  /\ UNCHANGED <<hbVars, linkVars, breaks, calls, histVars>>

-----------------------------------------------------------------------------
(* Connections. *)

\* A socket whose handshake the server has not seen yet.
Dialled(s) == ready[s] \in {"connecting", "closing"} /\ s \notin serving /\ s \notin silent
                /\ toClient[s] = <<>> /\ s \in handshake

Accepted(s) ==
  /\ Dialled(s)
  /\ ready[s] = "connecting"
  /\ Opened(s)
  /\ toClient' = [toClient EXCEPT ![s] = <<Msg("open", 0), Msg("welcome", 0)>>]
  /\ UNCHANGED <<clientVars, toServer, silent, breaks, calls, histVars>>

\* Refused, unreachable, or closed by the client before it opened.
Refused(s) ==
  /\ Dialled(s)
  /\ toClient' = [toClient EXCEPT ![s] = <<Msg("error", 0), Msg("close", 0)>>]
  /\ UNCHANGED <<clientVars, hbVars, toServer, silent, breaks, calls, histVars>>

Failure(s) ==
  IF ready[s] = "connecting" THEN <<Msg("error", 0), Msg("close", 0)>> ELSE <<Msg("close", 0)>>

Breaks(s) ==
  /\ breaks < MaxBreaks
  /\ breaks' = breaks + 1
  /\ s \in serving \ silent
  /\ toServer' = [toServer EXCEPT ![s] = <<>>]
  /\ UNCHANGED <<clientVars, calls, histVars>>

\* Both ends notice.
Reset(s) ==
  /\ Breaks(s)
  /\ Closed(s)
  /\ toClient' = [toClient EXCEPT ![s] = Failure(s)]
  /\ UNCHANGED silent

\* Neither end notices.
GoesSilent(s) ==
  /\ Breaks(s)
  /\ silent' = silent \cup {s}
  /\ toClient' = [toClient EXCEPT ![s] = <<>>]
  /\ UNCHANGED hbVars

\* The client's platform gives up on a handshake or on a closing handshake.
GivenUp(s) ==
  /\ s \in silent
  /\ ready[s] \in {"connecting", "closing"}
  /\ toClient[s] = <<>>
  /\ toClient' = [toClient EXCEPT ![s] = Failure(s)]
  /\ UNCHANGED <<clientVars, hbVars, toServer, silent, breaks, calls, histVars>>

-----------------------------------------------------------------------------
(* Events and messages arrive. *)

ClientHandles(s) ==
  LET m == Head(toClient[s])
  IN  /\ toClient[s] # <<>>
      /\ toClient' = [toClient EXCEPT ![s] = Tail(@)]
      /\ \/ m.what = "open" /\ ready[s] = "connecting" /\ OpenEvent(s)
         \/ m.what = "welcome" /\ ready[s] = "open" /\ WelcomeEvent(s)
         \/ m.what = "error" /\ ErrorEvent(s)
         \/ m.what = "close" /\ CloseEvent(s)
         \/ m.what = "ping" /\ UNCHANGED clientVars
         \/ m.what \in {"open", "welcome"} /\ ready[s] = "closing" /\ UNCHANGED clientVars
      /\ toServer' =
           IF m.what = "ping" /\ ready[s] = "open" /\ Answers(s) /\ ws \notin silent
             THEN [toServer EXCEPT ![ws] = Append(@, Msg("ping", m.age))]
             ELSE toServer
      /\ welcomed' = IF m.what = "welcome" /\ ready[s] = "open" THEN welcomed \cup {s} ELSE welcomed
      /\ UNCHANGED <<hbVars, silent, breaks, calls, wanted, overlapped>>

\* A client's ping or its close frame, which the server returns.
ServerHandles(s) ==
  LET m == Head(toServer[s])
  IN  /\ toServer[s] # <<>>
      /\ toServer' = [toServer EXCEPT ![s] = Tail(@)]
      /\ \/ m.what = "ping" /\ s \in serving /\ Pong(s) /\ UNCHANGED toClient
         \/ m.what = "close" /\ s \in serving /\ Closed(s)
              /\ toClient' = [toClient EXCEPT ![s] = Append(@, Msg("close", 0))]
         \/ s \notin serving /\ UNCHANGED <<hbVars, toClient>>
      /\ UNCHANGED <<clientVars, silent, breaks, calls, histVars>>

\* The heartbeat's round: pings, and close frames to those that missed theirs.
HeartbeatRound ==
  /\ Round
  /\ toClient' = [s \in Sockets |->
       IF s \notin serving \/ s \in silent THEN toClient[s]
       ELSE Append(toClient[s], Msg(IF s \in Missed THEN "close" ELSE "ping", 0))]
  /\ UNCHANGED <<clientVars, toServer, silent, breaks, calls, histVars>>

Older(q) == [k \in DOMAIN q |-> [q[k] EXCEPT !.age = @ + 1]]
InTime(q) == \A k \in DOMAIN q : q[k].age < Timeout

\* Time passes unless a message would be too late.
TimePasses ==
  /\ Elapse
  /\ \A s \in Sockets : InTime(toClient[s]) /\ InTime(toServer[s])
  /\ toClient' = [s \in Sockets |-> Older(toClient[s])]
  /\ toServer' = [s \in Sockets |-> Older(toServer[s])]
  /\ UNCHANGED <<clientVars, silent, breaks, calls, histVars>>

-----------------------------------------------------------------------------

Next ==
  \/ AppConnect \/ AppDisconnect \/ Reconnect
  \/ \E s \in Sockets :
       \/ Accepted(s) \/ Refused(s) \/ Reset(s) \/ GoesSilent(s) \/ GivenUp(s)
       \/ ClientHandles(s) \/ ServerHandles(s)
  \/ HeartbeatRound \/ TimePasses

Spec == Init /\ [][Next]_vars

\* A handshake ends one way or the other, events are handled, timers fire.
Fairness ==
  /\ WF_vars(Reconnect)
  /\ WF_vars(\E s \in Sockets : Accepted(s) \/ Refused(s) \/ GivenUp(s))
  /\ WF_vars(\E s \in Sockets : ClientHandles(s))

FairSpec == Spec /\ Fairness

-----------------------------------------------------------------------------
(* Properties. *)

Messages == [what : {"open", "welcome", "error", "close", "ping"}, age : 0 .. Timeout]

SessionTypeOK ==
  /\ created \in 0 .. MaxSockets /\ ws \in 0 .. created
  /\ ready \in [Sockets -> {"none", "connecting", "open", "closing", "closed"}]
  /\ handshake \subseteq 1 .. created
  /\ onMessage \in [Sockets -> Nat] /\ onClose \in [Sockets -> Nat]
  /\ connected \in BOOLEAN /\ autoReconnect \in BOOLEAN
  /\ attempts \in 0 .. MaxAttempts /\ timers \in Nat
  /\ promise \in [Sockets -> {"none", "pending", "resolved", "rejected"}]
  /\ serving \subseteq 1 .. created
  /\ silence \in [Sockets -> 0 .. Capped]
  /\ due \in 0 .. Interval
  /\ toClient \in [Sockets -> Seq(Messages)] /\ toServer \in [Sockets -> Seq(Messages)]

\* The heartbeat never ends the socket of a client whose link works, as long as
\* the client has not closed it itself and the application has not called
\* connect() while a socket or a timer was alive.
KeptAlive ==
  ~overlapped =>
    \A s \in Missed : s \in silent \/ ready[s] \in {"closing", "closed"}

\* The server serves no socket longer than two intervals and the timeout after
\* its last sign of life.
DeadEnded == \A s \in serving : silence[s] <= LongestSilence

\* A client whose application calls connect() only when nothing is left of the
\* last connection has one socket or one timer; an open socket has one handler
\* of each kind, and `connected` tells whether there is one.
OneSocket ==
  ~overlapped =>
    LET alive == {s \in Sockets : ready[s] \in {"connecting", "open"}}
    IN  /\ alive \subseteq {ws}
        /\ timers <= (IF alive = {} THEN 1 ELSE 0)
        /\ connected <=> \E s \in alive : ready[s] = "open"
        /\ \A s \in alive : ready[s] = "open" =>
             onMessage[s] = 1 /\ onClose[s] = 1 /\ s \notin handshake

\* After disconnect() the client opens no socket until connect() is called,
\* unless the application has called connect() while a socket or a timer was
\* alive: disconnect() knows the last socket and the last timer only.
NoComeback ==
  [][created' # created /\ ~overlapped' => wanted']_vars

\* The attempts are used up, and the last one has failed.
Exhausted == attempts = MaxAttempts /\ timers = 0 /\ ready[ws] = "closed"

\* A client that lost its connection gets another or uses up its attempts,
\* unless the application disconnects or did so before.  (The last disjunct is
\* the bound: a timer that would create one socket too many.)
Reconnects ==
  (wanted /\ ready[ws] = "closed")
    ~> \/ ~wanted \/ ~autoReconnect \/ overlapped
       \/ ready[ws] = "open" \/ Exhausted
       \/ created = MaxSockets /\ timers > 0

\* LiveRelay-Architecture.md:794 shows `await client.connect();`: a client that
\* has its welcome must not wait for connect() any more.
WelcomeResolves == \A s \in welcomed : promise[s] # "pending"

\* LiveRelay-Architecture.md:240 says "miss 3 pings = disconnect": whoever a
\* round ends was sent three pings since its last sign of life.
ThreePingsMissed == due = 0 => \A s \in Missed : silence[s] \div Interval >= 3
=============================================================================
