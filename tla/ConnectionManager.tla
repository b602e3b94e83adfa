------------------------- MODULE ConnectionManager --------------------------
(***************************************************************************)
(* src/src/core/ConnectionManager.ts: the registry of open WebSockets.     *)
(*   connections      the connections known by id                          *)
(*   userConnections  userId -> connections of the user                    *)
(* A connection id is a fresh UUID, so an element of Conns stands for one  *)
(* WebSocket from its TCP connection to its close and is never reused; the *)
(* user of a connection comes from its token and never changes.            *)
(***************************************************************************)
EXTENDS Naturals, FiniteSets, SetMap

CONSTANTS
  Conns,
  UserOf,            \* UserOf[c]: the user of connection c
  MaxConnections     \* config.wsMaxConnections, a positive integer

ASSUME MaxConnectionsAssumption == MaxConnections \in Nat \ {0}

VARIABLES connections, userConnections

connVars == <<connections, userConnections>>

-----------------------------------------------------------------------------

\* getByUserId: the sockets that sendToUser writes to.
ConnectionsOf(u) == At(userConnections, u)

ConnInit ==
  /\ connections = {}
  /\ userConnections = EmptyMap

HasCapacity == Cardinality(connections) < MaxConnections

\* add(ws) returning true; without capacity it returns false, changing nothing.
AddConnection(c) ==
  /\ HasCapacity
  /\ connections' = connections \cup {c}
  /\ userConnections' = Put(userConnections, {UserOf[c]}, {c})

\* Faulty: the user's set keeps the closed socket.
RemoveConnectionHalf(c) ==
  /\ connections' = connections \ {c}
  /\ UNCHANGED userConnections

\* remove(ws)
RemoveConnection(c) ==
  /\ connections' = connections \ {c}
  /\ userConnections' = Drop(userConnections, {UserOf[c]}, {c})

\* The two clear() calls at the end of closeAll.
ClearConnections ==
  /\ connections' = {}
  /\ userConnections' = EmptyMap
=============================================================================
