----------------------------- MODULE RedisState -----------------------------
(***************************************************************************)
(* What the instances keep about their users in Redis: the set of users    *)
(* that are online (src/src/redis/RedisPresence.ts), and for every room    *)
(* its members and for every user its rooms                                *)
(* (src/src/redis/RedisRoomSync.ts).  The WebSocket handlers fire these    *)
(* calls off and never wait for them.                                      *)
(*                                                                         *)
(* The commands of an instance go over one link, in order; a pipeline is   *)
(* no transaction, so commands of other instances may come between its     *)
(* own.  A command stays in `queue` until its answer is back: the link may *)
(* be lost in between, and ioredis then sends it again, or gives up.       *)
(*                                                                         *)
(* A command is [op, user, rooms]: the rooms it names, or, for an executed *)
(* SMEMBERS, the rooms it found.  Scores and queries are left out.         *)
(***************************************************************************)
EXTENDS Naturals, SequencesExt

CONSTANTS
  Instances,   \* server processes
  Conns,       \* WebSockets, each opened once
  Users,
  Rooms,
  Home,        \* Home[c]: the instance c connects to
  UserOf,      \* UserOf[c]: user of c
  JwtRooms,    \* JwtRooms[c]: the rooms in the token of c, a sequence
  Active,      \* connections whose client subscribes and unsubscribes
  Fragile,     \* instances that may fail or shut down
  MaxChanges,  \* bound: subscriptions and cancellations
  MaxFaults    \* bound: links lost, crashes and shutdowns

ASSUME RedisAssumption ==
  /\ Home \in [Conns -> Instances] /\ UserOf \in [Conns -> Users]
  /\ JwtRooms \in [Conns -> Seq(Rooms)]
  /\ Active \subseteq Conns

VARIABLES
  socket,      \* state of each WebSocket
  roomsOf,     \* data.rooms of each socket
  link,        \* of each instance: open, closing (sockets cut), quit (QUIT sent)
  queue,       \* commands of each instance not yet answered, oldest first
  executed,    \* how many of those Redis has executed
  online,      \* presence:online
  members,     \* room:*:members, pairs of room and user
  userRooms    \* user:*:rooms, pairs of user and room

\* History and bounds: `raced`, `shared` and `hurt` are read by no guard.
VARIABLES
  raced,       \* users changed at two instances at once, or while a clean-up reads
  shared,      \* users with two sockets since one was first open
  hurt,        \* <<"presence" or "rooms", u>>: a command about u never came to Redis
  changes,
  faults

redisVars == <<online, members, userRooms>>
vars == <<socket, roomsOf, link, queue, executed, redisVars,
          raced, shared, hurt, changes, faults>>

-----------------------------------------------------------------------------
(* Commands. *)

Cmd(op, u, rs) == [op |-> op, user |-> u, rooms |-> rs]

SetOnline(u) == <<Cmd("zadd", u, {})>>
SetOffline(u) == <<Cmd("zrem", u, {})>>

\* Faulty: the arguments, both strings in the code, are swapped.
AddMemberSwapped(r, u) == <<Cmd("saddRoom", r, {u}), Cmd("saddUser", r, {u})>>
AddMember(r, u) == <<Cmd("saddRoom", u, {r}), Cmd("saddUser", u, {r})>>

\* Faulty: the user's set keeps the room.
RemoveMemberHalf(r, u) == <<Cmd("sremRoom", u, {r})>>
RemoveMember(r, u) == <<Cmd("sremRoom", u, {r}), Cmd("sremUser", u, {r})>>

\* removeUserFromAllRooms reads the rooms; the answer sends the second pipeline,
\* whose SREMs, one for every room, are taken for one command.
ReadRooms(u) == <<Cmd("smembers", u, {})>>
RemoveFound(u, rs) == <<Cmd("sremRoom", u, rs), Cmd("del", u, {})>>

\* The commands of the pipelines ps, two each, one pipeline after the other.
Pipelines(ps) == [k \in 1 .. 2 * Len(ps) |-> ps[(k + 1) \div 2][2 - (k % 2)]]

AddMembers(rs, u) == Pipelines([k \in DOMAIN rs |-> AddMember(rs[k], u)])

PresenceOps == {"zadd", "zrem"}
Table(cmd) == IF cmd.op \in PresenceOps THEN "presence" ELSE "rooms"

Waiting(i, u) == {cmd \in ToSet(queue[i]) : cmd.user = u}
Quiet(u) == \A i \in Instances : Waiting(i, u) = {}

\* A clean-up of u at i whose second pipeline is not in the queue yet.
Reading(i, u) == \E cmd \in Waiting(i, u) : cmd.op = "smembers"

OpenConns == {c \in Conns : socket[c] = "open"}
OpenOf(u) == {c \in OpenConns : UserOf[c] = u}

\* Instance i sends the commands cmds; after QUIT they are refused.
Send(i, cmds) ==
  IF link[i] = "quit"
    THEN /\ hurt' = hurt \cup {<<Table(cmd), cmd.user>> : cmd \in ToSet(cmds)}
         /\ UNCHANGED queue
    ELSE /\ queue' = [queue EXCEPT ![i] = @ \o cmds]
         /\ UNCHANGED hurt

\* A turn of instance i changes what Redis is to hold about the users us.
Races(i, us, adds) ==
  raced' = raced \cup {u \in us : \/ adds /\ Reading(i, u)
                                 \/ \E j \in Instances \ {i} : Waiting(j, u) # {}}

Init ==
  /\ socket = [c \in Conns |-> "new"]
  /\ roomsOf = [c \in Conns |-> {}]
  /\ link = [i \in Instances |-> "open"]
  /\ queue = [i \in Instances |-> <<>>]
  /\ executed = [i \in Instances |-> 0]
  /\ online = {} /\ members = {} /\ userRooms = {}
  /\ raced = {} /\ shared = {} /\ hurt = {}
  /\ changes = 0 /\ faults = 0

-----------------------------------------------------------------------------
(* Handlers. *)

Open(c) ==
  LET u == UserOf[c]
      i == Home[c]
  IN  /\ socket[c] = "new"
      /\ socket' = [socket EXCEPT ![c] = "open"]
      /\ roomsOf' = [roomsOf EXCEPT ![c] = ToSet(JwtRooms[c])]
      /\ Send(i, SetOnline(u) \o AddMembers(JwtRooms[c], u))
      /\ Races(i, {u}, TRUE)
      /\ shared' = IF OpenOf(u) # {} THEN shared \cup {u} ELSE shared
      /\ UNCHANGED <<link, executed, redisVars, changes, faults>>

Subscribe(c, r) ==
  /\ socket[c] = "open"
  /\ changes < MaxChanges
  /\ changes' = changes + 1
  /\ roomsOf' = [roomsOf EXCEPT ![c] = @ \cup {r}]
  /\ Send(Home[c], AddMember(r, UserOf[c]))
  /\ Races(Home[c], {UserOf[c]}, TRUE)
  /\ UNCHANGED <<socket, link, executed, redisVars, shared, faults>>

Unsubscribe(c, r) ==
  /\ socket[c] = "open"
  /\ changes < MaxChanges
  /\ changes' = changes + 1
  /\ roomsOf' = [roomsOf EXCEPT ![c] = @ \ {r}]
  /\ Send(Home[c], RemoveMember(r, UserOf[c]))
  /\ Races(Home[c], {UserOf[c]}, FALSE)
  /\ UNCHANGED <<socket, link, executed, redisVars, shared, faults>>

\* The sockets cs are gone.
Gone(cs) ==
  /\ socket' = [c \in Conns |-> IF c \in cs THEN "closed" ELSE socket[c]]
  /\ roomsOf' = [c \in Conns |-> IF c \in cs THEN {} ELSE roomsOf[c]]
  /\ shared' = {u \in shared : OpenOf(u) \ cs # {}}

\* What the close handler of socket c sends.
CleanUp(c) == SetOffline(UserOf[c]) \o ReadRooms(UserOf[c])

\* Faulty: a socket without rooms has nothing to clean up.
CloseTurnIfRooms(i, cs) ==
  LET handlers == SetToSeq({c \in cs : roomsOf[c] # {}})
  IN  /\ Gone(cs)
      /\ Send(i, Pipelines([k \in DOMAIN handlers |-> CleanUp(handlers[k])]))
      /\ Races(i, {UserOf[c] : c \in cs}, FALSE)

\* The close handlers of the sockets cs of instance i run in one turn.
CloseTurn(i, cs) ==
  LET handlers == SetToSeq(cs)
  IN  /\ Gone(cs)
      /\ Send(i, Pipelines([k \in DOMAIN handlers |-> CleanUp(handlers[k])]))
      /\ Races(i, {UserOf[c] : c \in cs}, FALSE)

Close(c) ==
  /\ socket[c] = "open"
  /\ CloseTurn(Home[c], {c})
  /\ UNCHANGED <<link, executed, redisVars, changes, faults>>

-----------------------------------------------------------------------------
(* Redis. *)

Execute(i) ==
  LET k == executed[i] + 1
      cmd == queue[i][k]
      u == cmd.user
  IN  /\ executed[i] < Len(queue[i])
      /\ executed' = [executed EXCEPT ![i] = k]
      /\ online' = CASE cmd.op = "zadd" -> online \cup {u}
                     [] cmd.op = "zrem" -> online \ {u}
                     [] OTHER -> online
      /\ members' = CASE cmd.op = "saddRoom" -> members \cup (cmd.rooms \X {u})
                      [] cmd.op = "sremRoom" -> members \ (cmd.rooms \X {u})
                      [] OTHER -> members
      /\ userRooms' = CASE cmd.op = "saddUser" -> userRooms \cup ({u} \X cmd.rooms)
                        [] cmd.op = "sremUser" -> userRooms \ ({u} \X cmd.rooms)
                        [] cmd.op = "del" -> userRooms \ ({u} \X Rooms)
                        [] OTHER -> userRooms
      /\ queue' = IF cmd.op = "smembers"
                    THEN [queue EXCEPT ![i][k].rooms = {r \in Rooms : <<u, r>> \in userRooms}]
                    ELSE queue
      /\ UNCHANGED <<socket, roomsOf, link, raced, shared, hurt, changes, faults>>

\* Faulty: only the user's own set goes, the rooms keep the user.
FollowUpKeepsMembers(cmd) ==
  IF cmd.op = "smembers" /\ cmd.rooms # {} THEN <<Cmd("del", cmd.user, {})>> ELSE <<>>

\* What the answer of a command makes the instance send.
FollowUp(cmd) ==
  IF cmd.op = "smembers" /\ cmd.rooms # {} THEN RemoveFound(cmd.user, cmd.rooms) ELSE <<>>

\* The oldest answer arrives.
Answer(i) ==
  LET cmd == Head(queue[i])
      more == FollowUp(cmd)
  IN  /\ executed[i] > 0
      /\ executed' = [executed EXCEPT ![i] = @ - 1]
      /\ queue' = [queue EXCEPT ![i] = Tail(@) \o (IF link[i] = "quit" THEN <<>> ELSE more)]
      /\ hurt' = IF link[i] = "quit" /\ more # <<>>
                   THEN hurt \cup {<<"rooms", cmd.user>>} ELSE hurt
      /\ UNCHANGED <<socket, roomsOf, link, redisVars, raced, shared, changes, faults>>

-----------------------------------------------------------------------------
(* Failures and shutdown. *)

Fault(i) ==
  /\ i \in Fragile
  /\ faults < MaxFaults
  /\ faults' = faults + 1

HurtBy(cmds) == {<<Table(cmd), cmd.user>> : cmd \in cmds}

\* The link is lost and comes back: what was not answered is sent again.
LinkLost(i) ==
  /\ Fault(i)
  /\ link[i] = "open"
  /\ executed[i] > 0
  /\ executed' = [executed EXCEPT ![i] = 0]
  /\ UNCHANGED <<socket, roomsOf, link, queue, redisVars, raced, shared, hurt, changes>>

\* The link stays down for maxRetriesPerRequest attempts: the commands that
\* wait fail and are logged.
GiveUp(i) ==
  /\ Fault(i)
  /\ queue[i] # <<>>
  /\ queue' = [queue EXCEPT ![i] = <<>>]
  /\ executed' = [executed EXCEPT ![i] = 0]
  /\ hurt' = hurt \cup HurtBy(ToSet(queue[i]))
  /\ UNCHANGED <<socket, roomsOf, link, redisVars, raced, shared, changes>>

\* The process ends and a new one takes its place; no close handler runs.
ProcessEnds(i) ==
  LET cs == {c \in OpenConns : Home[c] = i}
  IN  /\ Gone(cs)
      /\ link' = [link EXCEPT ![i] = "open"]
      /\ queue' = [queue EXCEPT ![i] = <<>>]
      /\ executed' = [executed EXCEPT ![i] = 0]
      /\ hurt' = hurt \cup HurtBy(ToSet(queue[i]))
                   \cup ({"presence", "rooms"} \X {UserOf[c] : c \in cs})
      /\ UNCHANGED <<redisVars, raced, changes>>

CrashRestart(i) == Fault(i) /\ ProcessEnds(i)

\* Graceful shutdown: closeAll cuts the sockets of the instance.
CloseAll(i) ==
  /\ Fault(i)
  /\ link[i] = "open"
  /\ link' = [link EXCEPT ![i] = "closing"]
  /\ CloseTurn(i, {c \in OpenConns : Home[c] = i})
  /\ UNCHANGED <<executed, redisVars, changes>>

\* QUIT follows once the subscriber, on a link of its own, has unsubscribed.
QuitRedis(i) ==
  /\ link[i] = "closing"
  /\ link' = [link EXCEPT ![i] = "quit"]
  /\ UNCHANGED <<socket, roomsOf, queue, executed, redisVars, raced, shared, hurt, changes, faults>>

\* QUIT was answered: process.exit.  A socket that was opened after closeAll
\* goes without its close handler.
Exit(i) ==
  /\ link[i] = "quit"
  /\ queue[i] = <<>>
  /\ ProcessEnds(i)
  /\ UNCHANGED faults

-----------------------------------------------------------------------------

Next ==
  \/ \E c \in Conns : Open(c) \/ Close(c)
  \/ \E c \in Active, r \in Rooms : Subscribe(c, r) \/ Unsubscribe(c, r)
  \/ \E i \in Instances :
       \/ Execute(i) \/ Answer(i)
       \/ LinkLost(i) \/ GiveUp(i) \/ CrashRestart(i)
       \/ CloseAll(i) \/ QuitRedis(i) \/ Exit(i)

Spec == Init /\ [][Next]_vars

\* Redis executes what it was sent and its answers arrive; a link that stays
\* down makes the commands fail instead.
Fairness == \A i \in Instances : WF_vars(Execute(i)) /\ WF_vars(Answer(i))

FairSpec == Spec /\ Fairness

-----------------------------------------------------------------------------
(* Properties. *)

Commands ==
  [op : {"zadd", "zrem", "saddRoom", "saddUser", "sremRoom", "sremUser", "smembers", "del"},
   user : Users, rooms : SUBSET Rooms]

RedisTypeOK ==
  /\ socket \in [Conns -> {"new", "open", "closed"}]
  /\ roomsOf \in [Conns -> SUBSET Rooms]
  /\ link \in [Instances -> {"open", "closing", "quit"}]
  /\ queue \in [Instances -> Seq(Commands)]
  /\ \A i \in Instances : executed[i] \in 0 .. Len(queue[i])
  /\ online \subseteq Users
  /\ members \subseteq Rooms \X Users
  /\ userRooms \subseteq Users \X Rooms
  /\ raced \subseteq Users /\ shared \subseteq Users
  /\ hurt \subseteq {"presence", "rooms"} \X Users

\* A user who is online in Redis has an open socket somewhere, or the command
\* that takes the user offline is on its way; whatever the sockets of the user
\* do at whatever instances, through links that come back and a shutdown: only
\* a command given up or a process that ends with the socket open (a crash, or
\* an upgrade after closeAll) leaves an online user behind.
OnlineAccounted ==
  \A u \in online :
    \/ OpenOf(u) # {}
    \/ \E i \in Instances : \E cmd \in Waiting(i, u) : cmd.op = "zrem"
    \/ <<"presence", u>> \in hurt

\* A removal of <<r, u>> from the members is on its way at instance i.
Removing(i, r, u) ==
  \E k \in DOMAIN queue[i] :
    LET cmd == queue[i][k]
    IN  /\ cmd.user = u
        /\ \/ cmd.op = "sremRoom" /\ r \in cmd.rooms
           \/ cmd.op = "smembers" /\ (k > executed[i] \/ r \in cmd.rooms)

\* A user Redis counts in a room is there with an open socket, or is about to
\* be removed; unless a change of the user came while another instance had
\* commands about the user on the way, or between the two pipelines of a
\* clean-up, or a command never came to Redis.
MemberAccounted ==
  \A p \in members :
    LET r == p[1]
        u == p[2]
    IN  \/ \E c \in OpenOf(u) : r \in roomsOf[c]
        \/ \E i \in Instances : Removing(i, r, u)
        \/ u \in raced
        \/ <<"rooms", u>> \in hurt

\* Once no command about a user is on its way, Redis knows the user online, in
\* the rooms of the socket and in both sets, if and only if the user has a
\* socket: for a user whose sockets follow each other, each of them opened
\* when the clean-up after the one before was past its first pipeline.
QuietExact ==
  \A u \in Users : Quiet(u) /\ u \notin raced \cup shared =>
    LET rs == UNION {roomsOf[c] : c \in OpenOf(u)}
    IN  /\ <<"presence", u>> \notin hurt => (u \in online <=> OpenOf(u) # {})
        /\ <<"rooms", u>> \notin hurt =>
             /\ {r \in Rooms : <<r, u>> \in members} = rs
             /\ {r \in Rooms : <<u, r>> \in userRooms} = rs

\* After its last socket closed, a user is forgotten by the online set and by
\* the rooms, under the same provisos.
Forgotten(u) ==
  /\ u \notin online \/ <<"presence", u>> \in hurt
  /\ (\A r \in Rooms : <<r, u>> \notin members) \/ u \in raced \/ <<"rooms", u>> \in hurt

Departed(u) == \A c \in Conns : UserOf[c] = u => socket[c] = "closed"

DepartedForgotten == \A u \in Users : Departed(u) ~> Forgotten(u)
=============================================================================
