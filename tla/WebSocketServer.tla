-------------------------- MODULE WebSocketServer ---------------------------
(***************************************************************************)
(* One server process: the WebSocket handlers of                           *)
(* src/src/transport/WebSocketServer.ts over the two registries, with the  *)
(* rate-limit check that stands between receiving a message and handling   *)
(* it, and the shutdown sequence of src/src/utils/gracefulShutdown.ts.     *)
(*                                                                         *)
(* A handler runs to completion on the event loop and is one action.  What *)
(* interleaves is what the code leaves to a later turn:                    *)
(*   - a message other than a ping waits in `pending` for the answer of    *)
(*     Redis to its rate check, and is handled when the answer arrives;    *)
(*   - the shutdown sequence waits for a timer and for Redis.              *)
(* pending is a queue: every check is one pipeline on the same Redis       *)
(* client, whose answers (or errors, which allow the message) come back in *)
(* the order of the requests.                                              *)
(*                                                                         *)
(* uWebSockets.js is external: end() runs the close handler before it      *)
(* returns, closing a socket drops its topics, and any later use of the    *)
(* socket object throws.  The code that waited for Redis holds such an     *)
(* object and catches nothing, so the throw is an unhandled rejection and  *)
(* ends the process.                                                       *)
(***************************************************************************)
EXTENDS RoomManager, ConnectionManager, Sequences

CONSTANTS
  JwtRooms,      \* JwtRooms[c]: the rooms claim of c's token, a sequence
  MaxPending     \* bound: rate checks under way at once

ASSUME ServerAssumption ==
  /\ UserOf \in [Conns -> Users]
  /\ JwtRooms \in [Conns -> Seq(Rooms)]
  /\ MaxPending \in Nat

VARIABLES
  socket,       \* state of each connection's socket
  topics,       \* room topics the socket is subscribed to (uWS)
  dataRooms,    \* rooms in the socket's user data
  pending,      \* commands sent to Redis and not answered, oldest first
  phase         \* how far the process is in its life

\* History variables: no action's guard reads them.
VARIABLES
  overlapped,      \* users that once had two sockets open at the same time
  inFlightAtCut    \* was a rate check unanswered when closeAll ran?

serverVars == <<socket, topics, dataRooms>>
historyVars == <<overlapped, inFlightAtCut>>
vars == <<roomVars, connVars, serverVars, pending, phase, historyVars>>

\* The messages that go through the rate check before they are handled.  The
\* room of a publish is left out: no state of this module depends on it.
Messages ==
  [conn : Conns, type : {"subscribe", "unsubscribe"}, room : Rooms]
    \cup [conn : Conns, type : {"publish"}]

\* The QUIT that the shutdown sequence sends on the client of the rate checks.
Quit == [type |-> "quit"]

Alive == phase \notin {"exited", "crashed"}

OpenConns == {c \in Conns : socket[c] = "open"}

JwtRange(c) == {JwtRooms[c][i] : i \in DOMAIN JwtRooms[c]}

Init ==
  /\ RoomInit
  /\ ConnInit
  /\ socket = [c \in Conns |-> "new"]
  /\ topics = [c \in Conns |-> {}]
  /\ dataRooms = [c \in Conns |-> {}]
  /\ pending = <<>>
  /\ phase = "running"
  /\ overlapped = {}
  /\ inFlightAtCut = FALSE

-----------------------------------------------------------------------------
(* Connections come and go. *)

\* The listen socket accepts a TCP connection; shutdown closes it first.
Accept(c) ==
  /\ phase = "running"
  /\ socket[c] = "new"
  /\ socket' = [socket EXCEPT ![c] = "tcp"]
  /\ UNCHANGED <<roomVars, connVars, topics, dataRooms, pending, phase, historyVars>>

\* The upgrade is refused (token, capacity) or the client gives up before it.
Reject(c) ==
  /\ Alive
  /\ socket[c] = "tcp"
  /\ socket' = [socket EXCEPT ![c] = "closed"]
  /\ UNCHANGED <<roomVars, connVars, topics, dataRooms, pending, phase, historyVars>>

\* A successful upgrade runs the open handler within the same call.  The
\* handler subscribes the socket to every room of the token and ignores
\* whether RoomManager admitted the user.
Open(c) ==
  /\ Alive
  /\ socket[c] = "tcp"
  /\ AddConnection(c)
  /\ SubscribeInTurn(UserOf[c], JwtRooms[c])
  /\ socket' = [socket EXCEPT ![c] = "open"]
  /\ topics' = [topics EXCEPT ![c] = JwtRange(c)]
  /\ dataRooms' = [dataRooms EXCEPT ![c] = JwtRange(c)]
  /\ overlapped' = IF \E d \in OpenConns : UserOf[d] = UserOf[c]
                     THEN overlapped \cup {UserOf[c]}
                     ELSE overlapped
  /\ UNCHANGED <<pending, phase, inFlightAtCut>>

\* uWS forgets the subscriptions and the user data of the sockets of cs.
SocketsClosed(cs) ==
  /\ socket' = [c \in Conns |-> IF c \in cs THEN "closed" ELSE socket[c]]
  /\ topics' = [c \in Conns |-> IF c \in cs THEN {} ELSE topics[c]]
  /\ dataRooms' = [c \in Conns |-> IF c \in cs THEN {} ELSE dataRooms[c]]

\* Faulty: the rooms are only cleaned up after the user's last socket.
CloseLastCleansUp(c) ==
  /\ Alive
  /\ socket[c] = "open"
  /\ RemoveConnection(c)
  /\ IF ConnectionsOf(UserOf[c]) = {c}
       THEN RemoveUserFromAllRooms(UserOf[c])
       ELSE UNCHANGED roomVars
  /\ SocketsClosed({c})
  /\ UNCHANGED <<pending, phase, historyVars>>

\* The close handler: the peer closed, the network failed, or the heartbeat
\* ended the socket.  It takes the user out of every room, whether or not the
\* user has another socket open.
Close(c) ==
  /\ Alive
  /\ socket[c] = "open"
  /\ RemoveConnection(c)
  /\ RemoveUserFromAllRooms(UserOf[c])
  /\ SocketsClosed({c})
  /\ UNCHANGED <<pending, phase, historyVars>>

-----------------------------------------------------------------------------
(* Messages: received in one turn, handled in a later one. *)

\* The message handler starts the rate check and returns.
ReceiveMessage(m) ==
  /\ Alive
  /\ socket[m.conn] = "open"
  /\ Len(pending) < MaxPending
  /\ pending' = Append(pending, m)
  /\ UNCHANGED <<roomVars, connVars, serverVars, phase, historyVars>>

\* Redis answers the oldest command, and that is the rate check of message m.
Answered(m) ==
  /\ Alive
  /\ pending # <<>>
  /\ m = Head(pending)

\* The socket is still open when the answer arrives.
Handled(m) ==
  /\ Answered(m)
  /\ socket[m.conn] = "open"
  /\ pending' = Tail(pending)
  /\ UNCHANGED <<connVars, socket, phase, historyVars>>

\* Over the limit: the client gets an error, the message is dropped.
RateLimited(m) ==
  /\ Handled(m)
  /\ UNCHANGED <<roomVars, topics, dataRooms>>

HandleSubscribe(m) ==
  /\ Handled(m)
  /\ m.type = "subscribe"
  /\ Subscribe(UserOf[m.conn], m.room)
  /\ topics' = [topics EXCEPT ![m.conn] = @ \cup {m.room}]
  /\ dataRooms' = [dataRooms EXCEPT ![m.conn] = @ \cup {m.room}]

\* Faulty: the socket gets the topic although RoomManager refused the user.
RefuseSubscribeKeepsTopic(m) ==
  /\ Handled(m)
  /\ m.type = "subscribe"
  /\ ~CanSubscribe(UserOf[m.conn])
  /\ topics' = [topics EXCEPT ![m.conn] = @ \cup {m.room}]
  /\ dataRooms' = [dataRooms EXCEPT ![m.conn] = @ \cup {m.room}]
  /\ UNCHANGED roomVars

\* "Max room subscriptions reached"
RefuseSubscribe(m) ==
  /\ Handled(m)
  /\ m.type = "subscribe"
  /\ ~CanSubscribe(UserOf[m.conn])
  /\ UNCHANGED <<roomVars, topics, dataRooms>>

\* Faulty: the room stays in the user data.
HandleUnsubscribeKeepsData(m) ==
  /\ Handled(m)
  /\ m.type = "unsubscribe"
  /\ topics' = [topics EXCEPT ![m.conn] = @ \ {m.room}]
  /\ UNCHANGED dataRooms
  /\ \/ Unsubscribe(UserOf[m.conn], m.room)
     \/ m.room \notin DOMAIN rooms /\ UNCHANGED roomVars

\* The topic goes first; RoomManager returns early for an unknown room.
HandleUnsubscribe(m) ==
  /\ Handled(m)
  /\ m.type = "unsubscribe"
  /\ topics' = [topics EXCEPT ![m.conn] = @ \ {m.room}]
  /\ dataRooms' = [dataRooms EXCEPT ![m.conn] = @ \ {m.room}]
  /\ \/ Unsubscribe(UserOf[m.conn], m.room)
     \/ m.room \notin DOMAIN rooms /\ UNCHANGED roomVars

\* Published, or refused without the send permission: no state changes here.
HandlePublish(m) ==
  /\ Handled(m)
  /\ m.type = "publish"
  /\ UNCHANGED <<roomVars, topics, dataRooms>>

-----------------------------------------------------------------------------
(* The end of the process. *)

\* Memory, sockets and what Redis still has to answer go with the process.
ProcessEnds(end) ==
  /\ phase' = end
  /\ pending' = <<>>
  /\ rooms' = EmptyMap
  /\ userRooms' = EmptyMap
  /\ ClearConnections
  /\ SocketsClosed({c \in Conns : socket[c] # "new"})
  /\ UNCHANGED historyVars

\* Every way to handle an answered message touches the socket first or last;
\* a closed socket throws and nothing catches it.
CrashOnClosedSocket(m) ==
  /\ Answered(m)
  /\ socket[m.conn] = "closed"
  /\ ProcessEnds("crashed")

\* SIGTERM or SIGINT, once: the listen socket closes, clients are told.
Shutdown ==
  /\ phase = "running"
  /\ phase' = "draining"
  /\ UNCHANGED <<roomVars, connVars, serverVars, pending, historyVars>>

\* Faulty: waits until no message is in flight, which a client can prevent.
CloseAllWhenIdle ==
  /\ phase = "draining"
  /\ pending = <<>>
  /\ phase' = "closing"
  /\ RemoveFromAllRooms({UserOf[c] : c \in connections})
  /\ ClearConnections
  /\ SocketsClosed(connections)
  /\ inFlightAtCut' = FALSE
  /\ UNCHANGED <<pending, overlapped>>

\* After two seconds closeAll ends every socket; end() runs the close handler
\* of each before the registries are cleared.
CloseAll ==
  /\ phase = "draining"
  /\ phase' = "closing"
  /\ RemoveFromAllRooms({UserOf[c] : c \in connections})
  /\ ClearConnections
  /\ SocketsClosed(connections)
  /\ inFlightAtCut' = (pending # <<>>)
  /\ UNCHANGED <<pending, overlapped>>

\* Faulty: QUIT overtakes the rate checks.
QuitRedisAtOnce ==
  /\ phase = "closing"
  /\ phase' = "quitting"
  /\ pending' = <<Quit>> \o pending
  /\ UNCHANGED <<roomVars, connVars, serverVars, historyVars>>

\* Once the Redis subscriptions are gone, QUIT queues behind the rate checks.
QuitRedis ==
  /\ phase = "closing"
  /\ phase' = "quitting"
  /\ pending' = Append(pending, Quit)
  /\ UNCHANGED <<roomVars, connVars, serverVars, historyVars>>

QuitAnswered ==
  /\ Answered(Quit)
  /\ pending' = Tail(pending)
  /\ UNCHANGED <<roomVars, connVars, serverVars, phase, historyVars>>

\* The other two clients have quit as well: process.exit(0).
Exit ==
  /\ phase = "quitting"
  /\ \A i \in DOMAIN pending : pending[i] # Quit
  /\ ProcessEnds("exited")

\* Nothing happens in a process that is gone.
Gone == ~Alive /\ UNCHANGED vars

-----------------------------------------------------------------------------

\* What the answer to the rate check of m leads to.
Answer(m) ==
  \/ RateLimited(m)
  \/ HandleSubscribe(m)
  \/ RefuseSubscribe(m)
  \/ HandleUnsubscribe(m)
  \/ HandlePublish(m)
  \/ CrashOnClosedSocket(m)

RedisAnswers == QuitAnswered \/ \E m \in Messages : Answer(m)

Next ==
  \/ \E c \in Conns : Accept(c) \/ Reject(c) \/ Open(c) \/ Close(c)
  \/ \E m \in Messages : ReceiveMessage(m)
  \/ RedisAnswers
  \/ Shutdown
  \/ CloseAll
  \/ QuitRedis
  \/ Exit
  \/ Gone

Spec == Init /\ [][Next]_vars

\* Redis answers or the client gives up after its retries; the timer fires;
\* the shutdown sequence goes on when what it awaits has settled.  Nothing
\* obliges a client to connect, send or leave.
Fairness ==
  /\ WF_vars(RedisAnswers)
  /\ WF_vars(CloseAll)
  /\ WF_vars(QuitRedis)
  /\ WF_vars(Exit)

FairSpec == Spec /\ Fairness

-----------------------------------------------------------------------------
(* Properties. *)

WsTypeOK ==
  /\ RoomTypeOK
  /\ connections \subseteq Conns
  /\ userConnections \in SetMaps(Users, Conns)
  /\ socket \in [Conns -> {"new", "tcp", "open", "closed"}]
  /\ topics \in [Conns -> SUBSET Rooms]
  /\ dataRooms \in [Conns -> SUBSET Rooms]
  /\ pending \in Seq(Messages \cup {Quit})
  /\ phase \in {"running", "draining", "closing", "quitting", "exited", "crashed"}
  /\ overlapped \subseteq Users
  /\ inFlightAtCut \in BOOLEAN

\* Both registries know exactly the open sockets and never more than allowed:
\* sendToUser, broadcastAll and closeAll write to what they find there, and a
\* socket that is closed makes them throw.
RegistryExact ==
  /\ connections = OpenConns
  /\ \A u \in Users : ConnectionsOf(u) = {c \in OpenConns : UserOf[c] = u}
  /\ Cardinality(connections) <= MaxConnections

\* The rooms in a socket's user data are the room topics it is subscribed to,
\* through token rooms that exceed the limit, refusals and repeated requests.
TopicsMatchData == \A c \in Conns : topics[c] = dataRooms[c]

\* Whoever RoomManager counts as a member can be reached: the user has an open
\* socket with the room's topic.  getMemberCount (the `delivered` of a send)
\* never counts somebody no publish can reach.
MembersReachable ==
  \A u \in Users, r \in Rooms :
    u \in MembersOf(r) =>
      \E c \in OpenConns : UserOf[c] = u /\ r \in topics[c]

\* For a user with never more than one socket at a time and a token within the
\* room limit, RoomManager and the topics agree in both directions.
SoleConnectionExact ==
  \A c \in OpenConns :
    /\ UserOf[c] \notin overlapped
    /\ Cardinality(JwtRange(c)) <= MaxRoomsPerUser
    => RoomsOf(UserOf[c]) = topics[c]

\* A process that ends by exit(0) had no message in flight when closeAll cut
\* the sockets: any such message is answered before the QUIT and crashes it.
CleanExit == [][phase' = "exited" /\ Alive => ~inFlightAtCut]_vars

\* Shutdown reaches an end once the signal came.
ShutdownEnds == phase = "draining" ~> ~Alive

\* What a comment in gracefulShutdown.ts and the error-handling task of the
\* architecture document say: connection errors do not end the process.
NeverCrashes == phase # "crashed"
=============================================================================
