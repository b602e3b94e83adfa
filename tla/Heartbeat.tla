------------------------------ MODULE Heartbeat ------------------------------
(***************************************************************************)
(* The server's heartbeat (src/src/core/Heartbeat.ts).  Every Interval it  *)
(* ends the sockets that have been silent for more than Interval + Timeout *)
(* and sends a ping to the others.                                         *)
(*                                                                         *)
(* Only the time since `lastPong` and the time to the next round matter,   *)
(* so there is no clock.  Nothing is asked of a silence longer than the    *)
(* longest that can be seen, where it stops growing.                       *)
(***************************************************************************)
EXTENDS Naturals

CONSTANTS
  Sockets,
  Interval,   \* wsHeartbeatInterval
  Timeout     \* wsHeartbeatTimeout

ASSUME HeartbeatAssumption == Interval \in Nat \ {0} /\ Timeout \in Nat

VARIABLES
  serving,    \* the sockets in ConnectionManager
  silence,    \* time since lastPong of each socket, 0 if it is not served
  due         \* time to the next round

hbVars == <<serving, silence, due>>

\* No socket is served longer than this after its last sign of life.
LongestSilence == 2 * Interval + Timeout
Capped == LongestSilence + 1

HbInit ==
  /\ serving = {}
  /\ silence = [s \in Sockets |-> 0]
  /\ due = Interval

\* upgrade and open
Opened(s) ==
  /\ serving' = serving \cup {s}
  /\ silence' = [silence EXCEPT ![s] = 0]
  /\ UNCHANGED due

\* Faulty: lastPong is not set.
PongIgnored(s) == UNCHANGED hbVars

\* A client's ping, whether it answers the server's or not.
Pong(s) ==
  /\ silence' = [silence EXCEPT ![s] = 0]
  /\ UNCHANGED <<serving, due>>

\* The close handler
Closed(s) ==
  /\ serving' = serving \ {s}
  /\ silence' = [silence EXCEPT ![s] = 0]
  /\ UNCHANGED due

\* Faulty: two rounds may be missed.
MissedLate == {s \in serving : silence[s] > 2 * Interval + Timeout}

\* The sockets that missed their heartbeat
Missed == {s \in serving : silence[s] > Interval + Timeout}

\* The interval timer; ConnectionLoop has its loop step by step.
Round ==
  /\ due = 0
  /\ due' = Interval
  /\ serving' = serving \ Missed
  /\ silence' = [s \in Sockets |-> IF s \in Missed THEN 0 ELSE silence[s]]

\* closeAll of a shutdown
EndAll ==
  /\ serving' = {}
  /\ silence' = [s \in Sockets |-> 0]
  /\ UNCHANGED due

\* One unit of time
Elapse ==
  /\ due > 0
  /\ due' = due - 1
  /\ silence' = [s \in Sockets |->
       IF s \in serving /\ silence[s] < Capped THEN silence[s] + 1 ELSE silence[s]]
  /\ UNCHANGED serving

HbNext ==
  \/ \E s \in Sockets : Opened(s) \/ Pong(s) \/ Closed(s)
  \/ Round \/ EndAll \/ Elapse

HbSpec == HbInit /\ [][HbNext]_hbVars
=============================================================================
