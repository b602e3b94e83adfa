---------------------------- MODULE RedisStateProofs ----------------------------
(***************************************************************************)
(* Theorems about RedisState, for any number of instances, sockets, users  *)
(* and failures: what Redis holds about the users that left.               *)
(*                                                                         *)
(* The invariants say of the commands in the queues which of them come     *)
(* after which: a class of commands is a set, as the commands that take    *)
(* the user u out of the room r.                                           *)
(***************************************************************************)
EXTENDS RedisState, SequenceTheorems, FiniteSetTheorems, TLAPS

-----------------------------------------------------------------------------
(* Commands and their order. *)

Of(ops, u) == {cmd \in Commands : cmd.op \in ops /\ cmd.user = u}
Naming(ops, r, u) == {cmd \in Commands : cmd.op \in ops /\ cmd.user = u /\ r \in cmd.rooms}

AddOps == {"saddRoom", "saddUser"}

\* What takes u out of the room r, or reads the rooms to leave;
RoomLosses(r, u) == Of({"smembers"}, u) \cup Naming({"sremRoom"}, r, u)

\* what takes r out of the user's set, or reads whether to delete it.
UserLosses(r, u) == Of({"smembers", "del"}, u) \cup Naming({"sremUser"}, r, u)

\* At instance i a command of S comes after position k; is still to be executed.
After(i, k, S) == \E l \in DOMAIN queue[i] : l > k /\ queue[i][l] \in S
Ahead(i, S) == \E l \in DOMAIN queue[i] : l > executed[i] /\ queue[i][l] \in S

\* At instance i each command of S is followed by one of T.
Follows(i, S, T) == \A k \in DOMAIN queue[i] : queue[i][k] \in S => After(i, k, T)

\* At instance i no command of S is followed by one of T.
Bars(i, S, T) == \A k \in DOMAIN queue[i] : queue[i][k] \in S => ~After(i, k, T)

\* Instance i has commands about u.
About(i, u) == \E k \in DOMAIN queue[i] : queue[i][k].user = u

-----------------------------------------------------------------------------
(* Invariants about the online set. *)

HurtOnline(u) == <<"presence", u>> \in hurt

ConnectedTo(i, u) == \E c \in OpenConns : UserOf[c] = u /\ Home[c] = i

\* Every zadd is followed by a zrem, unless the user has a socket there.
ZaddCovered ==
  \A i \in Instances, u \in Users :
    ~HurtOnline(u) /\ ~ConnectedTo(i, u) => Follows(i, Of({"zadd"}, u), Of({"zrem"}, u))

OnlineCovered ==
  \A u \in online :
    ~HurtOnline(u) /\ OpenOf(u) = {} => \E i \in Instances : Ahead(i, Of({"zrem"}, u))

-----------------------------------------------------------------------------
(* Invariants about rooms and members. *)

Fine(u) == u \notin raced /\ <<"rooms", u>> \notin hurt

InRoom(r, u) == \E c \in OpenOf(u) : r \in roomsOf[c]

\* Only one instance has commands about a user that was never raced.
OneInstance ==
  \A u \in Users \ raced : \A i, j \in Instances : About(i, u) /\ About(j, u) => i = j

\* The order of the commands of a user that was never raced: a clean-up never
\* comes before an addition while it reads, and never after one once it has read.
CleanUpOrder ==
  \A u \in Users \ raced, i \in Instances :
    /\ Bars(i, Of({"smembers"}, u), Of(AddOps, u))
    /\ Bars(i, Of(AddOps, u), Of({"del"}, u))

\* The two commands of a pipeline are neighbours.
Paired ==
  \A i \in Instances : \A k \in DOMAIN queue[i] :
    /\ queue[i][k].op = "saddRoom" =>
         /\ k + 1 \in DOMAIN queue[i] /\ queue[i][k + 1].op = "saddUser"
         /\ queue[i][k + 1].user = queue[i][k].user /\ queue[i][k + 1].rooms = queue[i][k].rooms
    /\ k > 1 /\ queue[i][k].op \in {"sremUser", "del"} =>
         /\ queue[i][k - 1].op = "sremRoom" /\ queue[i][k - 1].user = queue[i][k].user
         /\ queue[i][k].op = "sremUser" => queue[i][k - 1].rooms = queue[i][k].rooms

\* An addition is followed by its removal, unless the user is in the room.
AddCovered ==
  \A r \in Rooms, u \in Users, i \in Instances :
    Fine(u) /\ ~InRoom(r, u) =>
      /\ Follows(i, Naming({"saddRoom"}, r, u), RoomLosses(r, u))
      /\ Follows(i, Naming({"saddUser"}, r, u), UserLosses(r, u))

MemberCovered ==
  \A r \in Rooms, u \in Users :
    <<r, u>> \in members /\ Fine(u) /\ ~InRoom(r, u) =>
      \E i \in Instances :
        Ahead(i, RoomLosses(r, u)) \/ After(i, 0, Naming({"smembers"}, r, u))

\* A room that counts the user is in the user's set, or about to come there.
MemberMirrored ==
  \A r \in Rooms, u \in Users :
    <<r, u>> \in members /\ Fine(u) =>
      <<u, r>> \in userRooms \/ \E i \in Instances : Ahead(i, Naming({"saddUser"}, r, u))

\* What a clean-up found is all there is,
FoundAll ==
  \A i \in Instances : \A k \in DOMAIN queue[i] :
    LET cmd == queue[i][k]
    IN  cmd.op = "smembers" /\ k <= executed[i] /\ Fine(cmd.user) =>
          \A r \in Rooms : <<cmd.user, r>> \in userRooms => r \in cmd.rooms

\* and what it deletes with the user's set.
DelFollows ==
  \A i \in Instances : \A k \in DOMAIN queue[i] :
    LET cmd == queue[i][k]
    IN  cmd.op = "del" /\ k > 1 /\ Fine(cmd.user) =>
          \A r \in Rooms :
            <<cmd.user, r>> \in userRooms =>
              r \in queue[i][k - 1].rooms \/ After(i, k, Naming({"saddUser"}, r, cmd.user))

\* A user's set loses a room only when the room has lost the user.
UserLast ==
  \A i \in Instances : \A k \in DOMAIN queue[i] :
    LET cmd == queue[i][k]
    IN  cmd.op \in {"sremUser", "del"} /\ (k <= executed[i] + 1 \/ k = 1) /\ Fine(cmd.user) =>
          \A r \in Rooms :
            /\ cmd.op = "sremUser" => r \in cmd.rooms
            /\ <<cmd.user, r>> \in userRooms /\ <<r, cmd.user>> \in members
            => After(i, k, Naming({"saddUser"}, r, cmd.user))

-----------------------------------------------------------------------------
(* Invariants about users whose sockets follow each other. *)

Single(u) == u \notin raced \cup shared

OneSocketEach == \A u \in Users \ shared : \A c, d \in OpenOf(u) : c = d

NoneReads ==
  \A u \in Users : Single(u) /\ OpenOf(u) # {} =>
    \A i \in Instances : ~After(i, 0, Of({"smembers"}, u))

OnlineKept ==
  \A u \in Users : Single(u) /\ OpenOf(u) # {} /\ ~HurtOnline(u) =>
    /\ u \in online \/ \E i \in Instances : Ahead(i, Of({"zadd"}, u))
    /\ \A i \in Instances : Follows(i, Of({"zrem"}, u), Of({"zadd"}, u))

MemberKept ==
  \A r \in Rooms, u \in Users : Single(u) /\ Fine(u) /\ InRoom(r, u) =>
    /\ <<r, u>> \in members \/ \E i \in Instances : Ahead(i, Naming({"saddRoom"}, r, u))
    /\ \A i \in Instances :
         Follows(i, Naming({"sremRoom"}, r, u), Naming({"saddRoom"}, r, u))

UserRoomKept ==
  \A r \in Rooms, u \in Users : Single(u) /\ Fine(u) /\ InRoom(r, u) =>
    /\ <<u, r>> \in userRooms \/ \E i \in Instances : Ahead(i, Naming({"saddUser"}, r, u))
    /\ \A i \in Instances :
         Follows(i, Of({"del"}, u) \cup Naming({"sremUser"}, r, u), Naming({"saddUser"}, r, u))

UserRoomCovered ==
  \A r \in Rooms, u \in Users :
    <<u, r>> \in userRooms /\ Fine(u) /\ ~InRoom(r, u) =>
      \E i \in Instances :
        Ahead(i, UserLosses(r, u)) \/ After(i, 0, Of({"smembers"}, u))

-----------------------------------------------------------------------------
(* Types. *)

Types == RedisTypeOK /\ executed \in [Instances -> Nat] /\ IsFiniteSet(OpenConns)

\* What the types say of a queue
LEMMA QueueFacts ==
  ASSUME Types, NEW i \in Instances
  PROVE  /\ queue[i] \in Seq(Commands)
         /\ Len(queue[i]) \in Nat /\ DOMAIN queue[i] = 1 .. Len(queue[i])
         /\ executed[i] \in Nat /\ executed[i] <= Len(queue[i])
         /\ \A k \in DOMAIN queue[i] : k \in Nat /\ k >= 1 /\ queue[i][k] \in Commands
  <1>1. queue[i] \in Seq(Commands) /\ executed[i] \in 0 .. Len(queue[i]) /\ executed[i] \in Nat
    BY DEF Types, RedisTypeOK
  <1>2. Len(queue[i]) \in Nat /\ DOMAIN queue[i] = 1 .. Len(queue[i])
    BY <1>1
  <1>3. \A k \in DOMAIN queue[i] : queue[i][k] \in Commands
    BY <1>1, <1>2
  <1>. QED
    BY <1>1, <1>2, <1>3

LEMMA CommandFacts ==
  /\ \A cmd \in Commands :
       /\ cmd.user \in Users /\ cmd.rooms \subseteq Rooms
       /\ Table(cmd) = IF cmd.op \in PresenceOps THEN "presence" ELSE "rooms"
  /\ \A u \in Users :
       /\ Cmd("zadd", u, {}) \in Commands /\ Cmd("zrem", u, {}) \in Commands
       /\ Cmd("smembers", u, {}) \in Commands /\ Cmd("del", u, {}) \in Commands
  /\ \A u \in Users, r \in Rooms :
       /\ Cmd("saddRoom", u, {r}) \in Commands /\ Cmd("saddUser", u, {r}) \in Commands
       /\ Cmd("sremRoom", u, {r}) \in Commands /\ Cmd("sremUser", u, {r}) \in Commands
  /\ \A u \in Users, rs \in SUBSET Rooms : Cmd("sremRoom", u, rs) \in Commands
  BY DEF Commands, Cmd, Table

\* cmds holds the n pairs ps of commands, side by side.
SideBySide(cmds, ps, n) ==
  /\ cmds \in Seq(Commands) /\ Len(cmds) = 2 * n /\ DOMAIN cmds = 1 .. 2 * n
  /\ \A m \in 1 .. n :
       /\ 2 * m - 1 \in DOMAIN cmds /\ cmds[2 * m - 1] = ps[m][1]
       /\ 2 * m \in DOMAIN cmds /\ cmds[2 * m] = ps[m][2]
  /\ \A k \in DOMAIN cmds : \E m \in 1 .. n : k = 2 * m - 1 \/ k = 2 * m

LEMMA PipelinesFacts ==
  ASSUME NEW n \in Nat, NEW ps, DOMAIN ps = 1 .. n, Len(ps) = n,
         NEW p, p = Pipelines(ps), \A m \in 1 .. n : ps[m][1] \in Commands /\ ps[m][2] \in Commands
  PROVE  SideBySide(p, ps, n)
  <1>1. p = [k \in 1 .. 2 * n |-> ps[(k + 1) \div 2][2 - (k % 2)]]
    BY DEF Pipelines
  <1>2. \A m \in 1 .. n :
          /\ 2 * m - 1 \in 1 .. 2 * n /\ (2 * m - 1 + 1) \div 2 = m /\ (2 * m - 1) % 2 = 1
          /\ 2 * m \in 1 .. 2 * n /\ (2 * m + 1) \div 2 = m /\ (2 * m) % 2 = 0
    OBVIOUS
  <1>3. \A m \in 1 .. n : p[2 * m - 1] = ps[m][1] /\ p[2 * m] = ps[m][2]
    <2>. TAKE m \in 1 .. n
    <2>1. p[2 * m - 1] = ps[m][2 - 1]
      BY <1>1, <1>2
    <2>2. p[2 * m] = ps[m][2 - 0]
      BY <1>1, <1>2
    <2>. QED
      BY <2>1, <2>2
  <1>4. ASSUME NEW k \in 1 .. 2 * n
        PROVE  \E m \in 1 .. n : k = 2 * m - 1 \/ k = 2 * m
    <2>1. (k + 1) \div 2 \in 1 .. n
      OBVIOUS
    <2>2. k = 2 * ((k + 1) \div 2) - 1 \/ k = 2 * ((k + 1) \div 2)
      OBVIOUS
    <2>. QED
      BY <2>1, <2>2
  <1>5. \A k \in 1 .. 2 * n : p[k] \in Commands
    <2>. TAKE k \in 1 .. 2 * n
    <2>1. PICK m \in 1 .. n : k = 2 * m - 1 \/ k = 2 * m
      BY <1>4
    <2>. QED
      BY <1>3, <2>1
  <1>6. DOMAIN p = 1 .. 2 * n /\ 2 * n \in Nat
    BY <1>1
  <1>7. p \in Seq(Commands)
    BY <1>1, <1>5, <1>6
  <1>8. Len(p) = 2 * n
    BY <1>6, <1>7
  <1>. QED
    BY <1>2, <1>3, <1>4, <1>6, <1>7, <1>8 DEF SideBySide

-----------------------------------------------------------------------------
(* What an instance sends in a turn. *)

Arrivals == {"zadd", "saddRoom", "saddUser"}
Departures == {"zrem", "smembers", "sremRoom", "sremUser"}

\* The pipelines of the list cmds are whole.
Pairs(cmds) ==
  \A m \in DOMAIN cmds :
    /\ cmds[m].op = "saddRoom" =>
         /\ m + 1 \in DOMAIN cmds /\ cmds[m + 1].op = "saddUser"
         /\ cmds[m + 1].user = cmds[m].user /\ cmds[m + 1].rooms = cmds[m].rooms
    /\ cmds[m].op \in {"sremUser", "del"} =>
         /\ m - 1 \in DOMAIN cmds /\ cmds[m - 1].op = "sremRoom"
         /\ cmds[m - 1].user = cmds[m].user
         /\ cmds[m].op = "sremUser" => cmds[m - 1].rooms = cmds[m].rooms

\* The list cmds holds a command of S.
Holds(cmds, S) == \E m \in DOMAIN cmds : cmds[m] \in S

\* In one turn instance i sends cmds: what the turn adds for a user is true of
\* the user's sockets after it, and what a socket no longer is it takes away.
Turn(i, cmds, adds) ==
  /\ cmds \in Seq(Commands)
  /\ Send(i, cmds)
  /\ UNCHANGED <<executed, redisVars>>
  /\ raced \subseteq raced'
  /\ \A m \in DOMAIN cmds : cmds[m].op \in (IF adds THEN Arrivals ELSE Departures)
  /\ \A m \in DOMAIN cmds :
       LET u == cmds[m].user
       IN  u \notin raced' =>
             /\ \A j \in Instances : About(j, u) => j = i
             /\ adds => ~After(i, 0, Of({"smembers"}, u))
  /\ Pairs(cmds)

LEMMA AddMembersFacts ==
  ASSUME NEW u \in Users, NEW rs \in Seq(Rooms), NEW cmds, cmds = AddMembers(rs, u)
  PROVE  /\ cmds \in Seq(Commands) /\ Pairs(cmds)
         /\ \A m \in DOMAIN cmds :
              /\ cmds[m].op \in AddOps /\ cmds[m].user = u
              /\ \E k \in DOMAIN rs : cmds[m].rooms = {rs[k]}
         /\ \A k \in DOMAIN rs :
              /\ Holds(cmds, Naming({"saddRoom"}, rs[k], u))
              /\ Holds(cmds, Naming({"saddUser"}, rs[k], u))
  <1>. DEFINE ps == [k \in DOMAIN rs |-> AddMember(rs[k], u)]
              n == Len(rs)
  <1>1. n \in Nat /\ DOMAIN rs = 1 .. n /\ DOMAIN ps = 1 .. n /\ \A k \in 1 .. n : rs[k] \in Rooms
    OBVIOUS
  <1>2. \A m \in 1 .. n : ps[m][1] = Cmd("saddRoom", u, {rs[m]}) /\ ps[m][2] = Cmd("saddUser", u, {rs[m]})
    BY <1>1 DEF AddMember
  <1>3. \A m \in 1 .. n : ps[m][1] \in Commands /\ ps[m][2] \in Commands
    BY <1>1, <1>2, CommandFacts
  <1>4. Len(ps) = n
    BY <1>1
  <1>5. cmds = Pipelines(ps)
    BY DEF AddMembers
  <1>. HIDE DEF ps, n
  <1>6. /\ cmds \in Seq(Commands) /\ DOMAIN cmds = 1 .. 2 * n
        /\ \A m \in 1 .. n :
             /\ 2 * m - 1 \in DOMAIN cmds /\ cmds[2 * m - 1] = ps[m][1]
             /\ 2 * m \in DOMAIN cmds /\ cmds[2 * m] = ps[m][2]
        /\ \A k \in DOMAIN cmds : \E m \in 1 .. n : k = 2 * m - 1 \/ k = 2 * m
    <2>1. SideBySide(cmds, ps, n)
      BY <1>1, <1>3, <1>4, <1>5, PipelinesFacts
    <2>. QED
      BY <2>1 DEF SideBySide
  <1>7. \A m \in 1 .. n :
          /\ cmds[2 * m - 1].op = "saddRoom" /\ cmds[2 * m - 1].user = u
          /\ cmds[2 * m - 1].rooms = {rs[m]}
          /\ cmds[2 * m].op = "saddUser" /\ cmds[2 * m].user = u /\ cmds[2 * m].rooms = {rs[m]}
    <2>. TAKE m \in 1 .. n
    <2>1. cmds[2 * m - 1] = Cmd("saddRoom", u, {rs[m]}) /\ cmds[2 * m] = Cmd("saddUser", u, {rs[m]})
      BY <1>2, <1>6
    <2>. QED
      BY <2>1 DEF Cmd
  <1>8. ASSUME NEW k \in DOMAIN cmds
        PROVE  /\ cmds[k].op \in AddOps /\ cmds[k].user = u
               /\ \E m \in DOMAIN rs : cmds[k].rooms = {rs[m]}
    <2>1. PICK m \in 1 .. n : k = 2 * m - 1 \/ k = 2 * m
      BY <1>6
    <2>2. CASE k = 2 * m - 1
      BY <1>1, <1>7, <2>2 DEF AddOps
    <2>3. CASE k = 2 * m
      BY <1>1, <1>7, <2>3 DEF AddOps
    <2>. QED
      BY <2>1, <2>2, <2>3
  <1>9. ASSUME NEW k \in DOMAIN cmds
        PROVE  /\ cmds[k].op = "saddRoom" =>
                    /\ k + 1 \in DOMAIN cmds /\ cmds[k + 1].op = "saddUser"
                    /\ cmds[k + 1].user = cmds[k].user /\ cmds[k + 1].rooms = cmds[k].rooms
               /\ cmds[k].op \in AddOps
    <2>1. PICK m \in 1 .. n : k = 2 * m - 1 \/ k = 2 * m
      BY <1>6
    <2>2. CASE k = 2 * m - 1
      <3>1. k + 1 = 2 * m
        BY <2>2
      <3>2. k + 1 \in DOMAIN cmds
        BY <1>6, <3>1
      <3>3. cmds[k + 1].op = "saddUser" /\ cmds[k + 1].user = u /\ cmds[k + 1].rooms = {rs[m]}
        BY <1>7, <3>1
      <3>4. cmds[k].user = u /\ cmds[k].rooms = {rs[m]}
        BY <1>7, <2>2
      <3>. QED
        BY <1>8, <3>2, <3>3, <3>4
    <2>3. CASE k = 2 * m
      BY <1>7, <1>8, <2>3
    <2>. QED
      BY <2>1, <2>2, <2>3
  <1>10. Pairs(cmds)
    BY <1>9 DEF Pairs, AddOps
  <1>11. ASSUME NEW k \in DOMAIN rs
         PROVE  /\ Holds(cmds, Naming({"saddRoom"}, rs[k], u))
                /\ Holds(cmds, Naming({"saddUser"}, rs[k], u))
    <2>1. cmds[2 * k - 1] \in Commands /\ cmds[2 * k] \in Commands
      BY <1>1, <1>2, <1>3, <1>6
    <2>2. cmds[2 * k - 1] \in Naming({"saddRoom"}, rs[k], u) /\ cmds[2 * k] \in Naming({"saddUser"}, rs[k], u)
      BY <1>1, <1>7, <2>1 DEF Naming
    <2>. QED
      BY <1>1, <1>6, <2>2 DEF Holds
  <1>. QED
    BY <1>6, <1>8, <1>10, <1>11

LEMMA WaitingFacts ==
  ASSUME Types, NEW i \in Instances, NEW u
  PROVE  /\ Waiting(i, u) # {} <=> About(i, u)
         /\ Reading(i, u) <=> After(i, 0, Of({"smembers"}, u))
  <1>1. \A k \in DOMAIN queue[i] : k > 0 /\ queue[i][k] \in Commands
    BY QueueFacts
  <1>2. Waiting(i, u) # {} <=> About(i, u)
    BY DEF Waiting, About, ToSet
  <1>3. Reading(i, u) <=> \E k \in DOMAIN queue[i] : queue[i][k].user = u /\ queue[i][k].op = "smembers"
    BY DEF Reading, Waiting, ToSet
  <1>. QED
    BY <1>1, <1>2, <1>3 DEF After, Of

\* A turn about the users us, with its provisos
LEMMA TurnMade ==
  ASSUME Types, NEW i \in Instances, NEW cmds \in Seq(Commands), NEW us, NEW adds \in BOOLEAN,
         Send(i, cmds), Races(i, us, adds), UNCHANGED <<executed, redisVars>>,
         \A m \in DOMAIN cmds : cmds[m].user \in us,
         \A m \in DOMAIN cmds : cmds[m].op \in (IF adds THEN Arrivals ELSE Departures),
         Pairs(cmds)
  PROVE  Turn(i, cmds, adds)
  <1>1. raced \subseteq raced'
    BY DEF Races
  <1>2. ASSUME NEW m \in DOMAIN cmds, cmds[m].user \notin raced'
        PROVE  /\ \A j \in Instances : About(j, cmds[m].user) => j = i
               /\ adds => ~After(i, 0, Of({"smembers"}, cmds[m].user))
    <2>1. ~(adds /\ Reading(i, cmds[m].user))
      BY <1>2 DEF Races
    <2>2. \A j \in Instances \ {i} : ~(Waiting(j, cmds[m].user) # {})
      BY <1>2 DEF Races
    <2>3. \A j \in Instances \ {i} : ~About(j, cmds[m].user)
      BY <2>2, WaitingFacts
    <2>. QED
      BY <2>1, <2>3, WaitingFacts
  <1>. QED
    BY <1>1, <1>2 DEF Turn

\* What a turn of instance i does to the sockets, and what it sends for it:
\* commands that add something name a user who is there now,
\* and what is no longer there is taken away.
Told(i, cmds) ==
  \A u \in Users :
    /\ Holds(cmds, Of({"zadd"}, u)) => ConnectedTo(i, u)'
    /\ \A j \in Instances :
         ConnectedTo(j, u) /\ ~ConnectedTo(j, u)' => j = i /\ Holds(cmds, Of({"zrem"}, u))
    /\ \A r \in Rooms :
         /\ Holds(cmds, Naming(AddOps, r, u)) => InRoom(r, u)'
         /\ InRoom(r, u) /\ ~InRoom(r, u)' =>
              Holds(cmds, RoomLosses(r, u)) /\ Holds(cmds, UserLosses(r, u))

\* For a user with one socket, what is there now is there to stay.
ToldLast(cmds, adds) ==
  \A u \in Users \ shared' : OpenOf(u)' # {} =>
    /\ u \notin shared
    /\ ~Holds(cmds, Of({"zrem", "smembers"}, u))
    /\ OpenOf(u) # {} \/ (adds /\ Holds(cmds, Of({"zadd"}, u)))
    /\ \A r \in Rooms : InRoom(r, u)' =>
         \/ InRoom(r, u) /\ ~Holds(cmds, Naming({"sremRoom", "sremUser"}, r, u))
         \/ /\ adds
            /\ Holds(cmds, Naming({"saddRoom"}, r, u)) /\ Holds(cmds, Naming({"saddUser"}, r, u))

SocketsTold(i, cmds, adds) == Turn(i, cmds, adds) /\ Told(i, cmds) /\ ToldLast(cmds, adds)

LEMMA ConnFacts ==
  ASSUME Types, NEW c \in Conns
  PROVE  /\ UserOf[c] \in Users /\ Home[c] \in Instances
         /\ JwtRooms[c] \in Seq(Rooms) /\ ToSet(JwtRooms[c]) \subseteq Rooms
         /\ roomsOf[c] \subseteq Rooms
  <1>1. JwtRooms[c] \in Seq(Rooms)
    BY RedisAssumption
  <1>2. ToSet(JwtRooms[c]) \subseteq Rooms
    BY <1>1 DEF ToSet
  <1>. QED
    BY <1>1, <1>2, RedisAssumption DEF Types, RedisTypeOK

LEMMA OpenTurn ==
  ASSUME Types, OneSocketEach, NEW c \in Conns, Open(c)
  PROVE  /\ \E i \in Instances, adds \in BOOLEAN : \E cmds : SocketsTold(i, cmds, adds)
         /\ OneSocketEach'
  <1>. DEFINE u == UserOf[c]
              i == Home[c]
              adding == AddMembers(JwtRooms[c], u)
              cmds == SetOnline(u) \o adding
  <1>1. u \in Users /\ i \in Instances /\ JwtRooms[c] \in Seq(Rooms)
    BY ConnFacts
  <1>2. /\ socket[c] = "new" /\ socket' = [socket EXCEPT ![c] = "open"]
        /\ roomsOf' = [roomsOf EXCEPT ![c] = ToSet(JwtRooms[c])]
        /\ Send(i, cmds) /\ Races(i, {u}, TRUE)
        /\ shared' = IF OpenOf(u) # {} THEN shared \cup {u} ELSE shared
        /\ UNCHANGED <<executed, redisVars>>
    BY DEF Open
  <1>3. socket \in [Conns -> {"new", "open", "closed"}] /\ roomsOf \in [Conns -> SUBSET Rooms]
    BY DEF Types, RedisTypeOK
  <1>4. /\ OpenConns' = OpenConns \cup {c} /\ c \notin OpenConns
        /\ \A d \in Conns : roomsOf'[d] = IF d = c THEN ToSet(JwtRooms[c]) ELSE roomsOf[d]
    BY <1>2, <1>3 DEF OpenConns
  <1>5. /\ adding \in Seq(Commands) /\ Pairs(adding)
        /\ \A m \in DOMAIN adding :
              /\ adding[m].op \in AddOps /\ adding[m].user = u
              /\ \E k \in DOMAIN JwtRooms[c] : adding[m].rooms = {JwtRooms[c][k]}
        /\ \A k \in DOMAIN JwtRooms[c] :
              /\ Holds(adding, Naming({"saddRoom"}, JwtRooms[c][k], u))
              /\ Holds(adding, Naming({"saddUser"}, JwtRooms[c][k], u))
    BY <1>1, AddMembersFacts
  <1>6. /\ cmds \in Seq(Commands) /\ cmds[1] = Cmd("zadd", u, {}) /\ 1 \in DOMAIN cmds
        /\ \A m \in DOMAIN adding : m + 1 \in DOMAIN cmds /\ cmds[m + 1] = adding[m]
        /\ \A k \in DOMAIN cmds : k = 1 \/ \E m \in DOMAIN adding : k = m + 1
    <2>. DEFINE first == SetOnline(u)
    <2>1. first \in Seq(Commands) /\ Len(first) = 1 /\ first[1] = Cmd("zadd", u, {})
      <3>1. Cmd("zadd", u, {}) \in Commands
        BY <1>1, CommandFacts
      <3>. QED
        BY <3>1 DEF SetOnline
    <2>0. cmds = first \o adding
      OBVIOUS
    <2>. HIDE DEF first, adding, cmds
    <2>2. /\ cmds \in Seq(Commands) /\ Len(cmds) = 1 + Len(adding)
          /\ \A k \in 1 .. 1 + Len(adding) :
               cmds[k] = IF k <= 1 THEN first[k] ELSE adding[k - 1]
      <3>1. adding \in Seq(Commands) /\ Len(adding) \in Nat
        BY <1>5
      <3>2. cmds \in Seq(Commands) /\ Len(cmds) = Len(first) + Len(adding)
        BY <3>1, <2>0, <2>1, ConcatProperties
      <3>3. \A k \in 1 .. Len(first) + Len(adding) :
               cmds[k] = IF k <= Len(first) THEN first[k] ELSE adding[k - Len(first)]
        BY <3>1, <2>0, <2>1, ConcatProperties
      <3>. QED
        BY <2>1, <3>1, <3>2, <3>3
    <2>3. Len(adding) \in Nat /\ DOMAIN adding = 1 .. Len(adding) /\ DOMAIN cmds = 1 .. 1 + Len(adding)
      BY <1>5, <2>2
    <2>4. ASSUME NEW k \in DOMAIN cmds, k # 1 PROVE k - 1 \in DOMAIN adding /\ k = (k - 1) + 1
      BY <2>3, <2>4
    <2>. QED
      BY <2>1, <2>2, <2>3, <2>4
  <1>. HIDE DEF adding, cmds, u, i
  <1>7. ASSUME NEW k \in DOMAIN cmds
        PROVE  /\ cmds[k].user = u /\ cmds[k].op \in Arrivals
               /\ cmds[k].op = "zadd" \/ \E m \in DOMAIN JwtRooms[c] : cmds[k].rooms = {JwtRooms[c][m]}
    <2>1. CASE k = 1
      BY <1>6, <2>1 DEF Cmd, Arrivals
    <2>2. CASE \E m \in DOMAIN adding : k = m + 1
      <3>1. PICK m \in DOMAIN adding : cmds[k] = adding[m]
        BY <1>6, <2>2
      <3>. QED
        BY <1>5, <3>1 DEF AddOps, Arrivals
    <2>. QED
      BY <1>6, <2>1, <2>2
  <1>8. \A S : Holds(adding, S) => Holds(cmds, S)
    BY <1>6 DEF Holds
  <1>9. Pairs(cmds)
    <2>. SUFFICES ASSUME NEW k \in DOMAIN cmds
                  PROVE  /\ cmds[k].op = "saddRoom" =>
                              /\ k + 1 \in DOMAIN cmds /\ cmds[k + 1].op = "saddUser"
                              /\ cmds[k + 1].user = cmds[k].user /\ cmds[k + 1].rooms = cmds[k].rooms
                         /\ cmds[k].op \notin {"sremUser", "del"}
      BY DEF Pairs
    <2>1. CASE k = 1
      BY <1>6, <2>1 DEF Cmd
    <2>2. CASE k # 1
      <3>1. PICK m \in DOMAIN adding : k = m + 1
        BY <1>6, <2>2
      <3>2. cmds[k] = adding[m]
        BY <1>6, <3>1
      <3>3. ASSUME adding[m].op = "saddRoom"
            PROVE  m + 1 \in DOMAIN adding /\ k + 1 \in DOMAIN cmds /\ cmds[k + 1] = adding[m + 1]
        BY <1>5, <1>6, <3>1, <3>3 DEF Pairs
      <3>4. cmds[k].op \notin {"sremUser", "del"}
        BY <1>5, <3>2 DEF AddOps
      <3>. QED
        BY <1>5, <3>2, <3>3, <3>4 DEF Pairs
    <2>. QED
      BY <2>1, <2>2
  <1>10. Turn(i, cmds, TRUE)
    BY <1>1, <1>2, <1>6, <1>7, <1>9, TurnMade
  <1>11. c \in OpenConns' /\ UserOf[c] = u /\ Home[c] = i /\ \A d \in OpenConns : d \in OpenConns' /\ roomsOf'[d] = roomsOf[d]
    BY <1>4 DEF u, i, OpenConns
  <1>12. Holds(cmds, Of({"zadd"}, u))
    BY <1>1, <1>6, CommandFacts DEF Holds, Of, Cmd
  <1>13. Told(i, cmds)
    <2>1. \A w \in Users : Holds(cmds, Of({"zadd"}, w)) => ConnectedTo(i, w)'
      BY <1>7, <1>11 DEF Holds, Of, ConnectedTo
    <2>2. \A w \in Users, j \in Instances : ConnectedTo(j, w) => ConnectedTo(j, w)'
      BY <1>11 DEF ConnectedTo
    <2>3. \A w \in Users, r \in Rooms : InRoom(r, w) => InRoom(r, w)'
      BY <1>11 DEF InRoom, OpenOf
    <2>4. ASSUME NEW w \in Users, NEW r \in Rooms, Holds(cmds, Naming(AddOps, r, w))
          PROVE  InRoom(r, w)'
      <3>1. PICK k \in DOMAIN cmds : cmds[k] \in Naming(AddOps, r, w)
        BY <2>4 DEF Holds
      <3>2. w = u /\ \E m \in DOMAIN JwtRooms[c] : r = JwtRooms[c][m]
        BY <1>7, <3>1 DEF Naming, AddOps
      <3>3. r \in roomsOf'[c]
        BY <1>4, <3>2 DEF ToSet
      <3>. QED
        BY <1>11, <3>2, <3>3 DEF InRoom, OpenOf
    <2>. QED
      BY <2>1, <2>2, <2>3, <2>4 DEF Told
  <1>14. ToldLast(cmds, TRUE)
    <2>. SUFFICES ASSUME NEW w \in Users \ shared', OpenOf(w)' # {}
                  PROVE  /\ w \notin shared
                         /\ ~Holds(cmds, Of({"zrem", "smembers"}, w))
                         /\ OpenOf(w) # {} \/ Holds(cmds, Of({"zadd"}, w))
                         /\ \A r \in Rooms : InRoom(r, w)' =>
                              \/ InRoom(r, w) /\ ~Holds(cmds, Naming({"sremRoom", "sremUser"}, r, w))
                              \/ Holds(cmds, Naming({"saddRoom"}, r, w)) /\ Holds(cmds, Naming({"saddUser"}, r, w))
      BY DEF ToldLast
    <2>1. w \notin shared
      BY <1>2
    <2>2. ~Holds(cmds, Of({"zrem", "smembers"}, w)) 
      BY <1>7 DEF Holds, Of, Arrivals
    <2>3. \A r \in Rooms : ~Holds(cmds, Naming({"sremRoom", "sremUser"}, r, w))
      BY <1>7 DEF Holds, Naming, Arrivals
    <2>4. w # u => OpenOf(w) = OpenOf(w)'
      BY <1>4, <1>11 DEF OpenOf
    <2>5. ASSUME NEW r \in Rooms, InRoom(r, w)', ~InRoom(r, w)
          PROVE  Holds(cmds, Naming({"saddRoom"}, r, w)) /\ Holds(cmds, Naming({"saddUser"}, r, w))
      <3>1. PICK d \in OpenConns' : UserOf[d] = w /\ r \in roomsOf'[d]
        BY <2>5 DEF InRoom, OpenOf
      <3>2. d = c
        BY <1>4, <1>11, <2>5, <3>1 DEF InRoom, OpenOf
      <3>3. w = u /\ r \in ToSet(JwtRooms[c])
        BY <1>4, <1>11, <3>1, <3>2
      <3>4. PICK k \in DOMAIN JwtRooms[c] : r = JwtRooms[c][k]
        BY <3>3 DEF ToSet
      <3>. QED
        BY <1>5, <1>8, <3>3, <3>4
    <2>. QED
      BY <1>12, <2>1, <2>2, <2>3, <2>4, <2>5
  <1>15. OneSocketEach'
    <2>. SUFFICES ASSUME NEW w \in Users \ shared', NEW d \in OpenOf(w)', NEW e \in OpenOf(w)' PROVE d = e
      BY DEF OneSocketEach
    <2>1. CASE w = u
      <3>1. OpenOf(u) = {}
        BY <1>2, <2>1
      <3>. QED
        BY <1>4, <2>1, <3>1 DEF OpenOf
    <2>2. CASE w # u
      <3>1. OpenOf(w)' = OpenOf(w) /\ w \notin shared
        BY <1>2, <1>4, <1>11, <2>2 DEF OpenOf
      <3>. QED
        BY <3>1 DEF OneSocketEach
    <2>. QED
      BY <2>1, <2>2
  <1>. QED
    BY <1>1, <1>10, <1>13, <1>14, <1>15 DEF SocketsTold

LEMMA TwoCommands ==
  ASSUME NEW a \in Commands, NEW b \in Commands, NEW cmds, cmds = <<a, b>>
  PROVE  /\ cmds \in Seq(Commands) /\ DOMAIN cmds = {1, 2} /\ cmds[1] = a /\ cmds[2] = b
         /\ \A S : Holds(cmds, S) <=> a \in S \/ b \in S
  <1>1. cmds \in Seq(Commands) /\ Len(cmds) = 2 /\ cmds[1] = a /\ cmds[2] = b
    OBVIOUS
  <1>2. DOMAIN cmds = {1, 2}
    BY <1>1
  <1>. QED
    BY <1>1, <1>2 DEF Holds

LEMMA SubscribeTurn ==
  ASSUME Types, OneSocketEach, NEW c \in Conns, NEW r \in Rooms, Subscribe(c, r)
  PROVE  /\ \E i \in Instances, adds \in BOOLEAN : \E cmds : SocketsTold(i, cmds, adds)
         /\ OneSocketEach'
  <1>. DEFINE u == UserOf[c]
              i == Home[c]
              cmds == AddMember(r, u)
              a == Cmd("saddRoom", u, {r})
              b == Cmd("saddUser", u, {r})
  <1>1. u \in Users /\ i \in Instances
    BY ConnFacts
  <1>2. /\ socket[c] = "open" /\ socket' = socket
        /\ roomsOf' = [roomsOf EXCEPT ![c] = @ \cup {r}]
        /\ Send(i, cmds) /\ Races(i, {u}, TRUE)
        /\ shared' = shared
        /\ UNCHANGED <<executed, redisVars>>
    BY DEF Subscribe
  <1>3. roomsOf \in [Conns -> SUBSET Rooms]
    BY DEF Types, RedisTypeOK
  <1>4. /\ OpenConns' = OpenConns /\ c \in OpenConns
        /\ \A d \in Conns : roomsOf'[d] = IF d = c THEN roomsOf[c] \cup {r} ELSE roomsOf[d]
        /\ \A w : OpenOf(w)' = OpenOf(w)
    BY <1>2, <1>3 DEF OpenConns, OpenOf
  <1>5. a \in Commands /\ b \in Commands
    BY <1>1, CommandFacts
  <1>6. /\ a.op = "saddRoom" /\ b.op = "saddUser" /\ a.user = u /\ b.user = u
        /\ a.rooms = {r} /\ b.rooms = {r}
    BY DEF Cmd
  <1>7. cmds = <<a, b>>
    BY DEF AddMember
  <1>. HIDE DEF a, b, cmds, u, i
  <1>8. /\ cmds \in Seq(Commands) /\ DOMAIN cmds = {1, 2} /\ cmds[1] = a /\ cmds[2] = b
        /\ \A S : Holds(cmds, S) <=> a \in S \/ b \in S
    BY <1>5, <1>7, TwoCommands
  <1>9. Pairs(cmds)
    <2>1. /\ 1 + 1 \in DOMAIN cmds /\ cmds[1 + 1] = b
          /\ \A m \in DOMAIN cmds : m = 1 \/ m = 2
      BY <1>8
    <2>2. \A m \in DOMAIN cmds : cmds[m].op \notin {"sremUser", "del"}
      BY <1>6, <1>8
    <2>3. cmds[1].rooms = cmds[1 + 1].rooms /\ cmds[1].user = cmds[1 + 1].user /\ cmds[1 + 1].op = "saddUser"
      BY <1>6, <1>8, <2>1
    <2>4. cmds[2].op # "saddRoom"
      BY <1>6, <1>8
    <2>. QED
      BY <2>1, <2>2, <2>3, <2>4 DEF Pairs
  <1>10. \A m \in DOMAIN cmds : cmds[m].user \in {u} /\ cmds[m].op \in Arrivals
    BY <1>6, <1>8 DEF Arrivals
  <1>11. Turn(i, cmds, TRUE)
    BY <1>1, <1>2, <1>8, <1>9, <1>10, TurnMade
  <1>12. c \in OpenConns' /\ UserOf[c] = u /\ \A d \in OpenConns : d \in OpenConns' /\ roomsOf[d] \subseteq roomsOf'[d]
    BY <1>4 DEF u, OpenConns
  <1>13. Told(i, cmds)
    <2>1. \A w \in Users : ~Holds(cmds, Of({"zadd"}, w))
      BY <1>6, <1>8 DEF Of
    <2>2. \A w \in Users, j \in Instances : ConnectedTo(j, w) => ConnectedTo(j, w)'
      BY <1>12 DEF ConnectedTo
    <2>3. \A w \in Users, q \in Rooms : InRoom(q, w) => InRoom(q, w)'
      BY <1>4, <1>12 DEF InRoom, OpenOf
    <2>4. ASSUME NEW w \in Users, NEW q \in Rooms, Holds(cmds, Naming(AddOps, q, w))
          PROVE  InRoom(q, w)'
      <3>1. w = u /\ q = r
        BY <1>6, <1>8, <2>4 DEF Naming
      <3>2. r \in roomsOf'[c]
        BY <1>4
      <3>. QED
        BY <1>12, <3>1, <3>2 DEF InRoom, OpenOf
    <2>. QED
      BY <2>1, <2>2, <2>3, <2>4 DEF Told
  <1>14. ToldLast(cmds, TRUE)
    <2>2. \A w : ~Holds(cmds, Of({"zrem", "smembers"}, w)) 
      BY <1>6, <1>8 DEF Of
    <2>3. \A q, w : ~Holds(cmds, Naming({"sremRoom", "sremUser"}, q, w))
      BY <1>6, <1>8 DEF Naming
    <2>5. ASSUME NEW w, NEW q \in Rooms, InRoom(q, w)', ~InRoom(q, w)
          PROVE  Holds(cmds, Naming({"saddRoom"}, q, w)) /\ Holds(cmds, Naming({"saddUser"}, q, w))
      <3>1. PICK d \in OpenOf(w) : q \in roomsOf'[d]
        BY <1>4, <2>5 DEF InRoom
      <3>2. d = c /\ w = u /\ q = r
        BY <1>4, <1>12, <2>5, <3>1 DEF InRoom, OpenOf, OpenConns
      <3>. QED
        BY <1>5, <1>6, <1>8, <3>2 DEF Naming
    <2>. QED
      BY <1>2, <1>4, <2>2, <2>3, <2>5 DEF ToldLast
  <1>15. OneSocketEach'
    BY <1>2, <1>4 DEF OneSocketEach
  <1>. QED
    BY <1>1, <1>11, <1>13, <1>14, <1>15 DEF SocketsTold

LEMMA UnsubscribeTurn ==
  ASSUME Types, OneSocketEach, NEW c \in Conns, NEW r \in Rooms, Unsubscribe(c, r)
  PROVE  /\ \E i \in Instances, adds \in BOOLEAN : \E cmds : SocketsTold(i, cmds, adds)
         /\ OneSocketEach'
  <1>. DEFINE u == UserOf[c]
              i == Home[c]
              cmds == RemoveMember(r, u)
              a == Cmd("sremRoom", u, {r})
              b == Cmd("sremUser", u, {r})
  <1>1. u \in Users /\ i \in Instances
    BY ConnFacts
  <1>2. /\ socket[c] = "open" /\ socket' = socket
        /\ roomsOf' = [roomsOf EXCEPT ![c] = @ \ {r}]
        /\ Send(i, cmds) /\ Races(i, {u}, FALSE)
        /\ shared' = shared
        /\ UNCHANGED <<executed, redisVars>>
    BY DEF Unsubscribe
  <1>3. roomsOf \in [Conns -> SUBSET Rooms]
    BY DEF Types, RedisTypeOK
  <1>4. /\ OpenConns' = OpenConns /\ c \in OpenConns
        /\ \A d \in Conns : roomsOf'[d] = IF d = c THEN roomsOf[c] \ {r} ELSE roomsOf[d]
        /\ \A w : OpenOf(w)' = OpenOf(w)
    BY <1>2, <1>3 DEF OpenConns, OpenOf
  <1>5. a \in Commands /\ b \in Commands
    BY <1>1, CommandFacts
  <1>6. /\ a.op = "sremRoom" /\ b.op = "sremUser" /\ a.user = u /\ b.user = u
        /\ a.rooms = {r} /\ b.rooms = {r}
    BY DEF Cmd
  <1>7. cmds = <<a, b>>
    BY DEF RemoveMember
  <1>. HIDE DEF a, b, cmds, u, i
  <1>8. /\ cmds \in Seq(Commands) /\ DOMAIN cmds = {1, 2} /\ cmds[1] = a /\ cmds[2] = b
        /\ \A S : Holds(cmds, S) <=> a \in S \/ b \in S
    BY <1>5, <1>7, TwoCommands
  <1>9. Pairs(cmds)
    <2>1. /\ 2 - 1 \in DOMAIN cmds /\ cmds[2 - 1] = a
          /\ \A m \in DOMAIN cmds : m = 1 \/ m = 2
      BY <1>8
    <2>2. \A m \in DOMAIN cmds : cmds[m].op # "saddRoom"
      BY <1>6, <1>8
    <2>3. cmds[2].rooms = cmds[2 - 1].rooms /\ cmds[2].user = cmds[2 - 1].user /\ cmds[2 - 1].op = "sremRoom"
      BY <1>6, <1>8, <2>1
    <2>4. cmds[1].op \notin {"sremUser", "del"}
      BY <1>6, <1>8
    <2>. QED
      BY <2>1, <2>2, <2>3, <2>4 DEF Pairs
  <1>10. \A m \in DOMAIN cmds : cmds[m].user \in {u} /\ cmds[m].op \in Departures
    BY <1>6, <1>8 DEF Departures
  <1>11. Turn(i, cmds, FALSE)
    BY <1>1, <1>2, <1>8, <1>9, <1>10, TurnMade
  <1>12. c \in OpenOf(u) /\ \A w : OpenOf(w) \subseteq Conns
    BY <1>4 DEF u, OpenConns, OpenOf
  <1>13. Told(i, cmds)
    <2>1. \A w \in Users : ~Holds(cmds, Of({"zadd"}, w))
      BY <1>6, <1>8 DEF Of
    <2>2. \A w \in Users, j \in Instances : ConnectedTo(j, w) => ConnectedTo(j, w)'
      BY <1>4 DEF ConnectedTo
    <2>3. ASSUME NEW w \in Users, NEW q \in Rooms, InRoom(q, w), ~InRoom(q, w)'
          PROVE  Holds(cmds, RoomLosses(q, w)) /\ Holds(cmds, UserLosses(q, w))
      <3>1. PICK d \in OpenOf(w) : q \in roomsOf[d] /\ q \notin roomsOf'[d]
        BY <1>4, <2>3 DEF InRoom
      <3>2. d = c /\ w = u /\ q = r
        BY <1>4, <1>12, <3>1 DEF u, OpenOf
      <3>. QED
        BY <1>5, <1>6, <1>8, <3>2 DEF RoomLosses, UserLosses, Of, Naming
    <2>4. \A w \in Users, q \in Rooms : ~Holds(cmds, Naming(AddOps, q, w))
      BY <1>6, <1>8 DEF Naming, AddOps
    <2>. QED
      BY <2>1, <2>2, <2>3, <2>4 DEF Told
  <1>14. ToldLast(cmds, FALSE)
    <2>2. \A w : ~Holds(cmds, Of({"zrem", "smembers"}, w)) 
      BY <1>6, <1>8 DEF Of
    <2>3. ASSUME NEW w \in Users \ shared, NEW q \in Rooms, InRoom(q, w)'
          PROVE  InRoom(q, w) /\ ~Holds(cmds, Naming({"sremRoom", "sremUser"}, q, w))
      <3>1. PICK d \in OpenOf(w) : q \in roomsOf'[d]
        BY <1>4, <2>3 DEF InRoom
      <3>2. InRoom(q, w)
        BY <1>4, <1>12, <3>1 DEF InRoom
      <3>3. ASSUME Holds(cmds, Naming({"sremRoom", "sremUser"}, q, w)) PROVE FALSE
        <4>1. w = u /\ q = r
          BY <1>6, <1>8, <3>3 DEF Naming
        <4>2. d = c
          BY <1>12, <3>1, <4>1 DEF OneSocketEach
        <4>. QED
          BY <1>4, <3>1, <4>1, <4>2
      <3>. QED
        BY <3>2, <3>3
    <2>. QED
      BY <1>2, <1>4, <2>2, <2>3 DEF ToldLast
  <1>15. OneSocketEach'
    BY <1>2, <1>4 DEF OneSocketEach
  <1>. QED
    BY <1>1, <1>11, <1>13, <1>14, <1>15 DEF SocketsTold

-----------------------------------------------------------------------------
(* Close handlers. *)

LEMMA SetToSeqFacts ==
  ASSUME NEW S, IsFiniteSet(S), NEW s, s = SetToSeq(S)
  PROVE  /\ s \in Seq(S) /\ DOMAIN s = 1 .. Len(s)
         /\ \A x \in S : \E k \in DOMAIN s : s[k] = x
  <1>1. Cardinality(S) \in Nat /\ \E f : f \in Bijection(1 .. Cardinality(S), S)
    BY FS_CardinalityType DEF ExistsBijection
  <1>2. PICK f : f \in Bijection(1 .. Cardinality(S), S)
    BY <1>1
  <1>3. f \in [1 .. Cardinality(S) -> S] /\ IsInjective(f)
    BY <1>2 DEF Bijection, Injection, IsInjective
  <1>4. s \in [1 .. Cardinality(S) -> S] /\ IsInjective(s)
    BY <1>3 DEF SetToSeq
  <1>5. s \in Injection(1 .. Cardinality(S), S)
    BY <1>4 DEF Injection, IsInjective
  <1>6. IsFiniteSet(1 .. Cardinality(S)) /\ Cardinality(1 .. Cardinality(S)) = Cardinality(S)
    BY <1>1, FS_Interval
  <1>7. s \in Surjection(1 .. Cardinality(S), S)
    BY <1>5, <1>6, FS_Injection
  <1>8. s \in Seq(S) /\ Len(s) = Cardinality(S)
    BY <1>1, <1>4
  <1>. QED
    BY <1>4, <1>7, <1>8 DEF Surjection

\* The close handlers of the open sockets cs of instance i
LEMMA CloseTurnTold ==
  ASSUME Types, OneSocketEach, NEW i \in Instances,
         NEW cs, cs \subseteq {c \in OpenConns : Home[c] = i}, CloseTurn(i, cs),
         UNCHANGED <<executed, redisVars>>
  PROVE  /\ \E adds \in BOOLEAN : \E cmds : SocketsTold(i, cmds, adds)
         /\ OneSocketEach'
  <1>. DEFINE handlers == SetToSeq(cs)
              ps == [k \in DOMAIN handlers |-> CleanUp(handlers[k])]
              cmds == Pipelines(ps)
              n == Len(handlers)
              us == {UserOf[c] : c \in cs}
  <1>1. /\ Send(i, cmds) /\ Races(i, us, FALSE)
        /\ socket' = [c \in Conns |-> IF c \in cs THEN "closed" ELSE socket[c]]
        /\ roomsOf' = [c \in Conns |-> IF c \in cs THEN {} ELSE roomsOf[c]]
        /\ shared' = {u \in shared : OpenOf(u) \ cs # {}}
    BY DEF CloseTurn, Gone
  <1>2. cs \subseteq Conns /\ \A c \in cs : c \in OpenConns /\ Home[c] = i /\ UserOf[c] \in Users
    BY ConnFacts DEF OpenConns
  <1>3. handlers \in Seq(cs) /\ DOMAIN handlers = 1 .. n /\ \A x \in cs : \E k \in DOMAIN handlers : handlers[k] = x
    <2>1. IsFiniteSet(cs)
      BY FS_Subset DEF Types
    <2>. QED
      BY <2>1, SetToSeqFacts
  <1>4. n \in Nat /\ DOMAIN ps = 1 .. n /\ Len(ps) = n /\ \A k \in 1 .. n : handlers[k] \in cs
    BY <1>3
  <1>5. \A m \in 1 .. n :
          /\ ps[m][1] = Cmd("zrem", UserOf[handlers[m]], {})
          /\ ps[m][2] = Cmd("smembers", UserOf[handlers[m]], {})
    BY <1>4 DEF CleanUp, SetOffline, ReadRooms
  <1>. HIDE DEF handlers, ps, cmds, n, us
  <1>6. \A m \in 1 .. n : ps[m][1] \in Commands /\ ps[m][2] \in Commands
    BY <1>2, <1>4, <1>5, CommandFacts
  <1>7. SideBySide(cmds, ps, n)
    BY <1>4, <1>6, PipelinesFacts DEF cmds
  <1>8. /\ cmds \in Seq(Commands)
        /\ \A m \in 1 .. n :
             /\ 2 * m - 1 \in DOMAIN cmds /\ cmds[2 * m - 1] = Cmd("zrem", UserOf[handlers[m]], {})
             /\ 2 * m \in DOMAIN cmds /\ cmds[2 * m] = Cmd("smembers", UserOf[handlers[m]], {})
    BY <1>5, <1>7 DEF SideBySide
  <1>9. ASSUME NEW k \in DOMAIN cmds
        PROVE  cmds[k].op \in {"zrem", "smembers"} /\ cmds[k].user \in us
    <2>1. PICK m \in 1 .. n : k = 2 * m - 1 \/ k = 2 * m
      BY <1>7 DEF SideBySide
    <2>2. cmds[k] = Cmd("zrem", UserOf[handlers[m]], {}) \/ cmds[k] = Cmd("smembers", UserOf[handlers[m]], {})
      BY <1>8, <2>1
    <2>3. UserOf[handlers[m]] \in us
      BY <1>4 DEF us
    <2>. QED
      BY <2>2, <2>3 DEF Cmd
  <1>10. ASSUME NEW c \in cs
         PROVE  /\ Holds(cmds, Of({"zrem"}, UserOf[c])) /\ Holds(cmds, Of({"smembers"}, UserOf[c]))
    <2>1. PICK m \in 1 .. n : handlers[m] = c
      BY <1>3
    <2>. DEFINE a == Cmd("zrem", UserOf[c], {})
                b == Cmd("smembers", UserOf[c], {})
    <2>4. a \in Of({"zrem"}, UserOf[c]) /\ b \in Of({"smembers"}, UserOf[c])
      <3>1. a \in Commands /\ b \in Commands
        BY <1>2, CommandFacts
      <3>. QED
        BY <3>1 DEF Of, Cmd
    <2>2. cmds[2 * m - 1] \in Of({"zrem"}, UserOf[c])
      BY <1>8, <2>1, <2>4
    <2>3. cmds[2 * m] \in Of({"smembers"}, UserOf[c])
      BY <1>8, <2>1, <2>4
    <2>. QED
      BY <1>8, <2>2, <2>3 DEF Holds
  <1>11. Pairs(cmds)
    BY <1>9 DEF Pairs
  <1>12. Turn(i, cmds, FALSE)
    BY <1>1, <1>8, <1>9, <1>11, TurnMade DEF Departures
  <1>13. /\ OpenConns' = OpenConns \ cs /\ \A c \in OpenConns \ cs : roomsOf'[c] = roomsOf[c]
         /\ \A u : OpenOf(u)' = OpenOf(u) \ cs
    BY <1>1, <1>2 DEF OpenConns, OpenOf
  <1>14. Told(i, cmds)
    <2>1. \A u \in Users : ~Holds(cmds, Of({"zadd"}, u))
      BY <1>9 DEF Holds, Of
    <2>2. ASSUME NEW u \in Users, NEW j \in Instances, ConnectedTo(j, u), ~ConnectedTo(j, u)'
          PROVE  j = i /\ Holds(cmds, Of({"zrem"}, u))
      <3>1. PICK c \in OpenConns : UserOf[c] = u /\ Home[c] = j
        BY <2>2 DEF ConnectedTo
      <3>2. c \in cs
        BY <1>13, <2>2, <3>1 DEF ConnectedTo
      <3>. QED
        BY <1>2, <1>10, <3>1, <3>2
    <2>3. ASSUME NEW u \in Users, NEW r \in Rooms, InRoom(r, u), ~InRoom(r, u)'
          PROVE  Holds(cmds, RoomLosses(r, u)) /\ Holds(cmds, UserLosses(r, u))
      <3>1. PICK c \in OpenOf(u) : r \in roomsOf[c]
        BY <2>3 DEF InRoom
      <3>2. c \in cs /\ UserOf[c] = u
        BY <1>13, <2>3, <3>1 DEF InRoom, OpenOf
      <3>3. Holds(cmds, Of({"smembers"}, u))
        BY <1>10, <3>2
      <3>. QED
        BY <3>3 DEF Holds, RoomLosses, UserLosses, Of
    <2>4. \A u \in Users, r \in Rooms : ~Holds(cmds, Naming(AddOps, r, u))
      BY <1>9 DEF Holds, Naming, AddOps
    <2>. QED
      BY <2>1, <2>2, <2>3, <2>4 DEF Told
  <1>15. ASSUME NEW u \in Users \ shared', OpenOf(u)' # {}
         PROVE  u \notin shared /\ OpenOf(u)' = OpenOf(u)
    <2>1. u \notin shared
      BY <1>1, <1>13, <1>15
    <2>. QED
      BY <1>13, <1>15, <2>1 DEF OneSocketEach
  <1>16. ToldLast(cmds, FALSE)
    <2>1. \A q, w : ~Holds(cmds, Naming({"sremRoom", "sremUser"}, q, w))
      BY <1>9 DEF Holds, Naming
    <2>2. ASSUME NEW u \in Users \ shared', OpenOf(u)' # {}, Holds(cmds, Of({"zrem", "smembers"}, u))
          PROVE  FALSE
      <3>1. u \in us
        BY <1>9, <2>2 DEF Holds, Of
      <3>2. PICK c \in cs : UserOf[c] = u
        BY <3>1 DEF us
      <3>3. c \in OpenOf(u)
        BY <1>2, <3>2 DEF OpenOf
      <3>. QED
        BY <1>13, <1>15, <2>2, <3>3
    <2>3. ASSUME NEW u \in Users \ shared', OpenOf(u)' # {}, NEW r \in Rooms, InRoom(r, u)'
          PROVE  InRoom(r, u)
      BY <1>13, <2>3 DEF InRoom, OpenOf
    <2>. QED
      BY <1>15, <2>1, <2>2, <2>3 DEF ToldLast
  <1>17. OneSocketEach'
    BY <1>13, <1>15 DEF OneSocketEach
  <1>. QED
    BY <1>12, <1>14, <1>16, <1>17 DEF SocketsTold

\* Every action that sends commands, but Answer, is such a turn.
LEMMA Turns ==
  ASSUME Types, OneSocketEach,
         \/ \E c \in Conns : Open(c) \/ Close(c)
         \/ \E c \in Active, r \in Rooms : Subscribe(c, r) \/ Unsubscribe(c, r)
         \/ \E i \in Instances : CloseAll(i)
  PROVE  /\ \E i \in Instances, adds \in BOOLEAN : \E cmds : SocketsTold(i, cmds, adds)
         /\ OneSocketEach'
  <1>1. ASSUME NEW c \in Conns, Close(c)
        PROVE  /\ \E i \in Instances, adds \in BOOLEAN : \E cmds : SocketsTold(i, cmds, adds)
               /\ OneSocketEach'
    <2>1. Home[c] \in Instances /\ {c} \subseteq {d \in OpenConns : Home[d] = Home[c]}
      BY <1>1, ConnFacts DEF Close, OpenConns
    <2>2. CloseTurn(Home[c], {c}) /\ UNCHANGED <<executed, redisVars>>
      BY <1>1 DEF Close
    <2>. QED
      BY <2>1, <2>2, CloseTurnTold
  <1>2. ASSUME NEW i \in Instances, CloseAll(i)
        PROVE  /\ \E j \in Instances, adds \in BOOLEAN : \E cmds : SocketsTold(j, cmds, adds)
               /\ OneSocketEach'
    <2>1. /\ CloseTurn(i, {c \in OpenConns : Home[c] = i})
          /\ UNCHANGED <<executed, redisVars>>
      BY <1>2 DEF CloseAll
    <2>. QED
      BY <2>1, CloseTurnTold
  <1>3. Active \subseteq Conns
    BY RedisAssumption
  <1>. QED
    BY <1>1, <1>2, <1>3, OpenTurn, SubscribeTurn, UnsubscribeTurn

-----------------------------------------------------------------------------
(* What each kind of step does to the queues. *)

\* A command stays in the class S when an SMEMBERS is given other rooms.
Stable(S) ==
  \A a, b \in Commands :
    a.op = b.op /\ a.user = b.user /\ (a.op = "smembers" \/ a = b) => (a \in S <=> b \in S)

LEMMA StableClasses ==
  ASSUME NEW r, NEW u
  PROVE  /\ \A ops : Stable(Of(ops, u)) /\ ("smembers" \notin ops => Stable(Naming(ops, r, u)))
         /\ Stable(RoomLosses(r, u)) /\ Stable(UserLosses(r, u))
         /\ \A ops : "smembers" \notin ops => Stable(Of({"del"}, u) \cup Naming(ops, r, u))
  BY DEF Stable, Of, Naming, RoomLosses, UserLosses

\* The sockets are as they were.
SameSockets ==
  /\ \A u : OpenOf(u)' = OpenOf(u)
  /\ \A i, u : ConnectedTo(i, u)' <=> ConnectedTo(i, u)
  /\ \A r, u : InRoom(r, u)' <=> InRoom(r, u)

LEMMA SocketsSame ==
  ASSUME UNCHANGED <<socket, roomsOf>>
  PROVE  SameSockets
  <1>1. OpenConns' = OpenConns
    BY DEF OpenConns
  <1>. QED
    BY <1>1 DEF SameSockets, OpenOf, ConnectedTo, InRoom

\* A turn: the queue of i grows by cmds, or i has quit.
Grown(i, cmds) ==
  /\ \A j \in Instances : \A k \in DOMAIN queue[j] :
       k \in DOMAIN queue'[j] /\ queue'[j][k] = queue[j][k]
  /\ \A j \in Instances : \A k \in DOMAIN queue'[j] :
       \/ k \in DOMAIN queue[j] /\ queue'[j][k] = queue[j][k]
       \/ /\ j = i /\ k > Len(queue[i])
          /\ \E m \in DOMAIN cmds : k = Len(queue[i]) + m /\ queue'[j][k] = cmds[m]
  /\ hurt \subseteq hurt'
  /\ \/ /\ \A m \in DOMAIN cmds : <<Table(cmds[m]), cmds[m].user>> \in hurt'
        /\ queue' = queue
     \/ /\ \A m \in DOMAIN cmds :
             Len(queue[i]) + m \in DOMAIN queue'[i] /\ queue'[i][Len(queue[i]) + m] = cmds[m]
        /\ hurt' = hurt

LEMMA TurnGrows ==
  ASSUME Types, NEW i \in Instances, NEW cmds \in Seq(Commands), Send(i, cmds)
  PROVE  /\ Grown(i, cmds) /\ queue' \in [Instances -> Seq(Commands)]
         /\ hurt' \subseteq {"presence", "rooms"} \X Users
         /\ \A j \in Instances : Len(queue'[j]) >= Len(queue[j])
  <1>1. queue \in [Instances -> Seq(Commands)] /\ hurt \subseteq {"presence", "rooms"} \X Users
    BY DEF Types, RedisTypeOK
  <1>2. /\ Len(cmds) \in Nat /\ DOMAIN cmds = 1 .. Len(cmds)
        /\ \A m \in DOMAIN cmds : cmds[m] \in Commands /\ m \in Nat /\ m >= 1
    OBVIOUS
  <1>3. CASE link[i] = "quit"
    <2>1. queue' = queue /\ hurt' = hurt \cup {<<Table(cmd), cmd.user>> : cmd \in ToSet(cmds)}
      BY <1>3 DEF Send
    <2>2. \A m \in DOMAIN cmds : <<Table(cmds[m]), cmds[m].user>> \in hurt'
      BY <2>1 DEF ToSet
    <2>3. \A cmd \in ToSet(cmds) : cmd \in Commands
      BY <1>2 DEF ToSet
    <2>4. \A cmd \in Commands : Table(cmd) \in {"presence", "rooms"} /\ cmd.user \in Users
      BY CommandFacts
    <2>. QED
      BY <1>1, <2>1, <2>2, <2>3, <2>4, QueueFacts DEF Grown
  <1>4. CASE link[i] # "quit"
    <2>1. queue' = [queue EXCEPT ![i] = @ \o cmds] /\ hurt' = hurt
      BY <1>4 DEF Send
    <2>2. queue[i] \in Seq(Commands) /\ Len(queue[i]) \in Nat /\ DOMAIN queue[i] = 1 .. Len(queue[i])
      BY QueueFacts
    <2>3. queue'[i] = queue[i] \o cmds /\ \A j \in Instances \ {i} : queue'[j] = queue[j]
      BY <1>1, <2>1
    <2>4. queue'[i] \in Seq(Commands) /\ Len(queue'[i]) = Len(queue[i]) + Len(cmds)
      BY <2>2, <2>3, ConcatProperties
    <2>5. \A k \in 1 .. Len(queue[i]) + Len(cmds) :
             queue'[i][k] = IF k <= Len(queue[i]) THEN queue[i][k] ELSE cmds[k - Len(queue[i])]
      BY <2>2, <2>3, ConcatProperties
    <2>6. DOMAIN queue'[i] = 1 .. Len(queue[i]) + Len(cmds)
      BY <2>4
    <2>7. \A k \in DOMAIN queue[i] : k \in DOMAIN queue'[i] /\ queue'[i][k] = queue[i][k]
      BY <1>2, <2>2, <2>5, <2>6
    <2>8. ASSUME NEW k \in DOMAIN queue'[i], k \notin DOMAIN queue[i]
          PROVE  k > Len(queue[i]) /\ \E m \in DOMAIN cmds : k = Len(queue[i]) + m /\ queue'[i][k] = cmds[m]
      <3>1. k - Len(queue[i]) \in DOMAIN cmds /\ k > Len(queue[i])
        BY <1>2, <2>2, <2>6, <2>8
      <3>2. queue'[i][k] = cmds[k - Len(queue[i])]
        BY <1>2, <2>2, <2>5, <2>6, <3>1
      <3>3. k = Len(queue[i]) + (k - Len(queue[i]))
        BY <2>2, <2>6, <1>2
      <3>. QED
        BY <3>1, <3>2, <3>3
    <2>9. ASSUME NEW m \in DOMAIN cmds
          PROVE  Len(queue[i]) + m \in DOMAIN queue'[i] /\ queue'[i][Len(queue[i]) + m] = cmds[m]
      <3>1. Len(queue[i]) + m \in 1 .. Len(queue[i]) + Len(cmds) /\ ~(Len(queue[i]) + m <= Len(queue[i]))
        BY <1>2, <2>2
      <3>2. (Len(queue[i]) + m) - Len(queue[i]) = m
        BY <1>2, <2>2
      <3>. DEFINE n == Len(queue[i]) + m
      <3>3. n \in DOMAIN queue'[i]
        BY <2>6, <3>1
      <3>4. n \in 1 .. Len(queue[i]) + Len(cmds) /\ ~(n <= Len(queue[i])) /\ n - Len(queue[i]) = m
        BY <3>1, <3>2
      <3>. HIDE DEF n
      <3>5. queue'[i][n] = cmds[m]
        BY <2>5, <3>4
      <3>. QED
        BY <3>3, <3>5 DEF n
    <2>10. queue' \in [Instances -> Seq(Commands)]
      BY <1>1, <2>1, <2>3, <2>4
    <2>11. \A j \in Instances : Len(queue'[j]) >= Len(queue[j])
      <3>1. Len(queue'[i]) >= Len(queue[i])
        BY <1>2, <2>2, <2>4
      <3>2. ASSUME NEW j \in Instances, j # i PROVE Len(queue'[j]) >= Len(queue[j])
        BY <2>3, <3>2, QueueFacts
      <3>. QED
        BY <3>1, <3>2
    <2>. QED
      BY <1>1, <2>1, <2>3, <2>7, <2>8, <2>9, <2>10, <2>11 DEF Grown
  <1>. QED
    BY <1>3, <1>4

\* What comes after what, when queues grow
LEMMA GrownAfter ==
  ASSUME Types, NEW i \in Instances, NEW cmds \in Seq(Commands), Grown(i, cmds), executed' = executed
  PROVE  /\ \A j \in Instances : \A k, S :
              /\ After(j, k, S) => After(j, k, S)'
              /\ Ahead(j, S) => Ahead(j, S)'
         /\ \A j \in Instances : \A u : About(j, u) => About(j, u)'
         /\ \A j \in Instances : \A S, T :
              Follows(j, S, T) /\ (j # i \/ ~Holds(cmds, S)) => Follows(j, S, T)'
         /\ \A j \in Instances : \A k, S :
              After(j, k, S)' => After(j, k, S) \/ (j = i /\ Holds(cmds, S))
  <1>1. \A j \in Instances : \A k \in DOMAIN queue[j] :
          k \in DOMAIN queue'[j] /\ queue'[j][k] = queue[j][k]
    BY DEF Grown
  <1>2. \A j \in Instances : \A k \in DOMAIN queue'[j] :
          \/ k \in DOMAIN queue[j] /\ queue'[j][k] = queue[j][k]
          \/ j = i /\ \E m \in DOMAIN cmds : queue'[j][k] = cmds[m]
    BY DEF Grown
  <1>3. \A j \in Instances : \A k, S : After(j, k, S) => After(j, k, S)'
    BY <1>1 DEF After
  <1>4. \A j \in Instances : \A S : Ahead(j, S) => Ahead(j, S)'
    BY <1>1 DEF Ahead
  <1>5. \A j \in Instances : \A u : About(j, u) => About(j, u)'
    BY <1>1 DEF About
  <1>6. ASSUME NEW j \in Instances, NEW S, NEW T, Follows(j, S, T), j # i \/ ~Holds(cmds, S)
        PROVE  Follows(j, S, T)'
    <2>. SUFFICES ASSUME NEW k \in DOMAIN queue'[j], queue'[j][k] \in S PROVE After(j, k, T)'
      BY DEF Follows
    <2>1. k \in DOMAIN queue[j] /\ queue'[j][k] = queue[j][k]
      BY <1>2, <1>6 DEF Holds
    <2>. QED
      BY <1>3, <1>6, <2>1 DEF Follows
  <1>7. \A j \in Instances : \A k, S : After(j, k, S)' => After(j, k, S) \/ (j = i /\ Holds(cmds, S))
    BY <1>2 DEF After, Holds
  <1>. QED
    BY <1>3, <1>4, <1>5, <1>6, <1>7

\* What a turn sends comes after everything that was there, or is hurt.
LEMMA GrownNew ==
  ASSUME Types, NEW i \in Instances, NEW cmds \in Seq(Commands), Grown(i, cmds), executed' = executed,
         NEW S, Holds(cmds, S), NEW t, NEW u,
         \A cmd \in S : Table(cmd) = t /\ cmd.user = u, <<t, u>> \notin hurt'
  PROVE  /\ \A k \in DOMAIN queue[i] : After(i, k, S)'
         /\ After(i, 0, S)' /\ Ahead(i, S)'
         /\ \A T : ~Holds(cmds, T) => Follows(i, T, S)'
  <1>1. PICK m \in DOMAIN cmds : cmds[m] \in S
    BY DEF Holds
  <1>2. m \in Nat /\ m >= 1 /\ Len(queue[i]) \in Nat /\ DOMAIN queue[i] = 1 .. Len(queue[i])
        /\ executed[i] \in Nat /\ executed[i] <= Len(queue[i])
    BY QueueFacts
  <1>3. Len(queue[i]) + m \in DOMAIN queue'[i] /\ queue'[i][Len(queue[i]) + m] = cmds[m]
    BY <1>1 DEF Grown
  <1>4. \A k \in DOMAIN queue[i] : After(i, k, S)'
    <2>1. \A k \in DOMAIN queue[i] : Len(queue[i]) + m > k
      BY <1>2
    <2>. QED
      BY <1>1, <1>3, <2>1 DEF After
  <1>5. After(i, 0, S)'
    <2>1. Len(queue[i]) + m > 0
      BY <1>2
    <2>. QED
      BY <1>1, <1>3, <2>1 DEF After
  <1>6. Ahead(i, S)'
    <2>1. Len(queue[i]) + m > executed'[i]
      BY <1>2
    <2>. QED
      BY <1>1, <1>3, <2>1 DEF Ahead
  <1>7. ASSUME NEW T, ~Holds(cmds, T) PROVE Follows(i, T, S)'
    <2>1. \A k \in DOMAIN queue'[i] : queue'[i][k] \in T => k \in DOMAIN queue[i]
      BY <1>7 DEF Grown, Holds
    <2>. QED
      BY <1>4, <2>1 DEF Follows
  <1>. QED
    BY <1>4, <1>5, <1>6, <1>7

\* Redis executes the command cmd at position k of the queue of i.
Executes(i, k, cmd) ==
  /\ k \in DOMAIN queue[i] /\ k = executed[i] + 1 /\ cmd = queue[i][k] /\ cmd \in Commands
  /\ executed'[i] = k /\ \A j \in Instances \ {i} : executed'[j] = executed[j]
  /\ \A j \in Instances :
       /\ DOMAIN queue'[j] = DOMAIN queue[j]
       /\ \A l \in DOMAIN queue[j] :
            /\ queue'[j][l] \in Commands
            /\ queue'[j][l].op = queue[j][l].op /\ queue'[j][l].user = queue[j][l].user
            /\ queue[j][l].op = "smembers" \/ queue'[j][l] = queue[j][l]
            /\ j # i \/ l # k => queue'[j][l] = queue[j][l]
  /\ cmd.op = "smembers" => queue'[i][k].rooms = {r \in Rooms : <<cmd.user, r>> \in userRooms}
  /\ \A u \in Users :
       u \in online' <=> cmd \in Of({"zadd"}, u) \/ (u \in online /\ cmd \notin Of({"zrem"}, u))
  /\ \A r \in Rooms, u \in Users :
       /\ <<r, u>> \in members' <=>
            \/ cmd \in Naming({"saddRoom"}, r, u)
            \/ <<r, u>> \in members /\ cmd \notin Naming({"sremRoom"}, r, u)
       /\ <<u, r>> \in userRooms' <=>
            \/ cmd \in Naming({"saddUser"}, r, u)
            \/ /\ <<u, r>> \in userRooms
               /\ cmd \notin Of({"del"}, u) \cup Naming({"sremUser"}, r, u)
  /\ SameSockets /\ UNCHANGED <<raced, shared, hurt>>

LEMMA ExecuteFacts ==
  ASSUME Types, NEW i \in Instances, Execute(i)
  PROVE  /\ \E k, cmd : Executes(i, k, cmd)
         /\ queue' \in [Instances -> Seq(Commands)] /\ executed' \in [Instances -> Nat]
         /\ \A j \in Instances : executed'[j] <= Len(queue'[j])
         /\ online' \subseteq Users /\ members' \subseteq Rooms \X Users
         /\ userRooms' \subseteq Users \X Rooms
  <1>. DEFINE k == executed[i] + 1
              cmd == queue[i][k]
              found == {r \in Rooms : <<cmd.user, r>> \in userRooms}
  <1>1. /\ queue \in [Instances -> Seq(Commands)] /\ executed \in [Instances -> Nat]
        /\ online \subseteq Users /\ members \subseteq Rooms \X Users
        /\ userRooms \subseteq Users \X Rooms
    BY DEF Types, RedisTypeOK
  <1>2. /\ executed[i] < Len(queue[i])
        /\ executed' = [executed EXCEPT ![i] = k]
        /\ UNCHANGED <<socket, roomsOf, raced, shared, hurt>>
    BY DEF Execute
  <1>3. queue' = IF cmd.op = "smembers" THEN [queue EXCEPT ![i][k].rooms = found] ELSE queue
    BY DEF Execute
  <1>4. /\ online' = CASE cmd.op = "zadd" -> online \cup {cmd.user}
                       [] cmd.op = "zrem" -> online \ {cmd.user}
                       [] OTHER -> online
        /\ members' = CASE cmd.op = "saddRoom" -> members \cup (cmd.rooms \X {cmd.user})
                        [] cmd.op = "sremRoom" -> members \ (cmd.rooms \X {cmd.user})
                        [] OTHER -> members
        /\ userRooms' = CASE cmd.op = "saddUser" -> userRooms \cup ({cmd.user} \X cmd.rooms)
                          [] cmd.op = "sremUser" -> userRooms \ ({cmd.user} \X cmd.rooms)
                          [] cmd.op = "del" -> userRooms \ ({cmd.user} \X Rooms)
                          [] OTHER -> userRooms
    BY DEF Execute
  <1>5. /\ queue[i] \in Seq(Commands) /\ DOMAIN queue[i] = 1 .. Len(queue[i]) /\ Len(queue[i]) \in Nat
        /\ executed[i] \in Nat /\ \A l \in DOMAIN queue[i] : queue[i][l] \in Commands
    BY QueueFacts
  <1>6. k \in DOMAIN queue[i] /\ cmd \in Commands /\ k \in Nat /\ k <= Len(queue[i])
    BY <1>2, <1>5
  <1>7. executed'[i] = k /\ \A j \in Instances \ {i} : executed'[j] = executed[j]
    BY <1>1, <1>2
  <1>. HIDE DEF k, cmd
  <1>8. cmd \in [op : {"zadd", "zrem", "saddRoom", "saddUser", "sremRoom", "sremUser", "smembers", "del"},
                 user : Users, rooms : SUBSET Rooms] /\ cmd = queue[i][k]
    BY <1>6 DEF Commands, cmd
  <1>9. /\ queue' \in [Instances -> Seq(Commands)]
        /\ \A j \in Instances \ {i} : queue'[j] = queue[j]
        /\ Len(queue'[i]) = Len(queue[i]) /\ DOMAIN queue'[i] = DOMAIN queue[i]
        /\ \A l \in DOMAIN queue[i] : l # k => queue'[i][l] = queue[i][l]
        /\ queue'[i][k] = IF cmd.op = "smembers" THEN [cmd EXCEPT !.rooms = found] ELSE cmd
    <2>1. CASE cmd.op = "smembers"
      <3>. DEFINE q == [queue[i] EXCEPT ![k] = [cmd EXCEPT !.rooms = found]]
      <3>1. queue' = [queue EXCEPT ![i] = q]
        BY <1>3, <1>8, <2>1
      <3>2. [cmd EXCEPT !.rooms = found] \in Commands
        BY <1>8 DEF Commands
      <3>3. q \in Seq(Commands) /\ Len(q) = Len(queue[i])
            /\ \A l \in 1 .. Len(queue[i]) : q[l] = IF l = k THEN [cmd EXCEPT !.rooms = found] ELSE queue[i][l]
        BY <1>5, <1>6, <3>2, ExceptSeq
      <3>4. queue'[i] = q /\ \A j \in Instances \ {i} : queue'[j] = queue[j]
        BY <1>1, <3>1
      <3>5. queue' \in [Instances -> Seq(Commands)]
        BY <1>1, <3>1, <3>3
      <3>6. DOMAIN q = 1 .. Len(queue[i])
        BY <3>3
      <3>. HIDE DEF q
      <3>. QED
        BY <1>5, <1>6, <2>1, <3>3, <3>4, <3>5, <3>6
    <2>2. CASE cmd.op # "smembers"
      BY <1>1, <1>3, <1>8, <2>2
    <2>. QED
      BY <2>1, <2>2
  <1>10. ASSUME NEW j \in Instances, NEW l \in DOMAIN queue[j]
         PROVE  /\ queue'[j][l] \in Commands
                /\ queue'[j][l].op = queue[j][l].op /\ queue'[j][l].user = queue[j][l].user
                /\ queue[j][l].op = "smembers" \/ queue'[j][l] = queue[j][l]
                /\ j # i \/ l # k => queue'[j][l] = queue[j][l]
    <2>1. queue[j][l] \in Commands
      BY QueueFacts
    <2>2. CASE j # i \/ l # k
      BY <1>9, <2>1, <2>2
    <2>3. CASE j = i /\ l = k
      <3>1. [cmd EXCEPT !.rooms = found] \in Commands
        BY <1>8 DEF Commands
      <3>2. [cmd EXCEPT !.rooms = found].op = cmd.op /\ [cmd EXCEPT !.rooms = found].user = cmd.user
        BY <1>8
      <3>. QED
        BY <1>8, <1>9, <2>1, <2>3, <3>1, <3>2
    <2>. QED
      BY <2>2, <2>3
  <1>11. cmd.op = "smembers" => queue'[i][k].rooms = found
    BY <1>8, <1>9
  <1>12. /\ \A u \in Users :
              u \in online' <=> cmd \in Of({"zadd"}, u) \/ (u \in online /\ cmd \notin Of({"zrem"}, u))
         /\ online' \subseteq Users
    BY <1>1, <1>4, <1>6, <1>8 DEF Of
  <1>13. /\ \A r \in Rooms, u \in Users :
              <<r, u>> \in members' <=>
                \/ cmd \in Naming({"saddRoom"}, r, u)
                \/ <<r, u>> \in members /\ cmd \notin Naming({"sremRoom"}, r, u)
         /\ members' \subseteq Rooms \X Users
    BY <1>1, <1>4, <1>6, <1>8 DEF Naming
  <1>14. /\ \A r \in Rooms, u \in Users :
              <<u, r>> \in userRooms' <=>
                \/ cmd \in Naming({"saddUser"}, r, u)
                \/ /\ <<u, r>> \in userRooms
                   /\ cmd \notin Of({"del"}, u) \cup Naming({"sremUser"}, r, u)
         /\ userRooms' \subseteq Users \X Rooms
    BY <1>1, <1>4, <1>6, <1>8 DEF Of, Naming
  <1>15. \A j \in Instances : executed'[j] <= Len(queue'[j])
    BY <1>6, <1>7, <1>9, QueueFacts
  <1>16. executed' \in [Instances -> Nat]
    BY <1>1, <1>2, <1>6
  <1>17. SameSockets
    BY <1>2, SocketsSame
  <1>18. \A j \in Instances : DOMAIN queue'[j] = DOMAIN queue[j]
    BY <1>9
  <1>19. Executes(i, k, cmd)
    BY <1>2, <1>6, <1>7, <1>8, <1>10, <1>11, <1>12, <1>13, <1>14, <1>17, <1>18 DEF Executes, k
  <1>. QED
    BY <1>9, <1>12, <1>13, <1>14, <1>15, <1>16, <1>19

LEMMA ExecutesAfter ==
  ASSUME Types, NEW i \in Instances, NEW k, NEW cmd, Executes(i, k, cmd)
  PROVE  /\ \A j \in Instances : \A S : Stable(S) => \A l \in DOMAIN queue[j] : queue'[j][l] \in S <=> queue[j][l] \in S
         /\ \A j \in Instances : \A l, S : Stable(S) => (After(j, l, S) <=> After(j, l, S)')
         /\ \A j \in Instances : \A u : About(j, u)' => About(j, u)
         /\ \A j \in Instances : \A S, T :
              Stable(S) /\ Stable(T) /\ Follows(j, S, T) => Follows(j, S, T)'
         /\ \A j \in Instances : \A S :
              Stable(S) /\ Ahead(j, S) => Ahead(j, S)' \/ (j = i /\ cmd \in S)
         /\ \A S, T : Stable(T) /\ Follows(i, S, T) /\ cmd \in S => Ahead(i, T)'
         /\ \A S : Stable(S) /\ After(i, k, S) => Ahead(i, S)'
  <1>1. \A j \in Instances : DOMAIN queue'[j] = DOMAIN queue[j]
    BY DEF Executes
  <1>2. ASSUME NEW j \in Instances, NEW S, Stable(S), NEW l \in DOMAIN queue[j]
        PROVE  queue'[j][l] \in S <=> queue[j][l] \in S
    <2>1. queue[j][l] \in Commands
      BY QueueFacts
    <2>2. /\ queue'[j][l] \in Commands
          /\ queue'[j][l].op = queue[j][l].op /\ queue'[j][l].user = queue[j][l].user
          /\ queue[j][l].op = "smembers" \/ queue'[j][l] = queue[j][l]
      BY DEF Executes
    <2>. QED
      BY <1>2, <2>1, <2>2 DEF Stable
  <1>3. \A j \in Instances : \A l, S : Stable(S) => (After(j, l, S) <=> After(j, l, S)')
    BY <1>1, <1>2 DEF After
  <1>4. \A j \in Instances : \A u : About(j, u)' => About(j, u)
    <2>1. \A j \in Instances : \A l \in DOMAIN queue[j] : queue'[j][l].user = queue[j][l].user
      BY DEF Executes
    <2>. QED
      BY <1>1, <2>1 DEF About
  <1>5. \A j \in Instances : \A S, T :
          Stable(S) /\ Stable(T) /\ Follows(j, S, T) => Follows(j, S, T)'
    BY <1>1, <1>2, <1>3 DEF Follows
  <1>6. ASSUME NEW S, Stable(S), After(i, k, S) PROVE Ahead(i, S)'
    <2>1. executed'[i] = k
      BY DEF Executes
    <2>. QED
      BY <1>1, <1>2, <1>6, <2>1 DEF After, Ahead
  <1>7. ASSUME NEW j \in Instances, NEW S, Stable(S), Ahead(j, S), ~(j = i /\ cmd \in S)
        PROVE  Ahead(j, S)'
    <2>1. CASE j # i
      <3>1. executed'[j] = executed[j]
        BY <2>1 DEF Executes
      <3>. QED
        BY <1>1, <1>2, <1>7, <3>1 DEF Ahead
    <2>2. CASE j = i
      <3>1. PICK l \in DOMAIN queue[i] : l > executed[i] /\ queue[i][l] \in S
        BY <1>7, <2>2 DEF Ahead
      <3>2. l # k /\ k = executed[i] + 1
        BY <1>7, <2>2, <3>1 DEF Executes
      <3>3. l > k
        BY <3>1, <3>2, QueueFacts
      <3>. QED
        BY <1>6, <1>7, <2>2, <3>1, <3>3 DEF After
    <2>. QED
      BY <2>1, <2>2
  <1>8. ASSUME NEW S, NEW T, Stable(T), Follows(i, S, T), cmd \in S PROVE Ahead(i, T)'
    <2>1. k \in DOMAIN queue[i] /\ cmd = queue[i][k]
      BY DEF Executes
    <2>. QED
      BY <1>6, <1>8, <2>1 DEF Follows
  <1>. QED
    BY <1>2, <1>3, <1>4, <1>5, <1>6, <1>7, <1>8

\* The oldest command of i is answered; the answer of a clean-up that found
\* rooms sends its second pipeline.
SendsMore(i) == queue[i][1].op = "smembers" /\ queue[i][1].rooms # {} /\ link[i] # "quit"

Answers(i) ==
  /\ 1 \in DOMAIN queue[i] /\ executed[i] >= 1
  /\ executed'[i] = executed[i] - 1 /\ \A j \in Instances \ {i} : executed'[j] = executed[j]
  /\ \A j \in Instances \ {i} : queue'[j] = queue[j]
  /\ \A l \in DOMAIN queue[i] : l > 1 => l - 1 \in DOMAIN queue'[i] /\ queue'[i][l - 1] = queue[i][l]
  /\ DOMAIN queue'[i] \subseteq Nat \ {0}
  /\ \A l \in DOMAIN queue'[i] :
       \/ l + 1 \in DOMAIN queue[i] /\ queue'[i][l] = queue[i][l + 1]
       \/ /\ SendsMore(i) /\ l = Len(queue[i])
          /\ queue'[i][l] = Cmd("sremRoom", queue[i][1].user, queue[i][1].rooms)
       \/ /\ SendsMore(i) /\ l = Len(queue[i]) + 1
          /\ queue'[i][l] = Cmd("del", queue[i][1].user, {})
  /\ SendsMore(i) =>
       /\ Len(queue[i]) \in DOMAIN queue'[i] /\ Len(queue[i]) + 1 \in DOMAIN queue'[i]
       /\ queue'[i][Len(queue[i])] = Cmd("sremRoom", queue[i][1].user, queue[i][1].rooms)
       /\ queue'[i][Len(queue[i]) + 1] = Cmd("del", queue[i][1].user, {})
  /\ hurt \subseteq hurt'
  /\ queue[i][1].op = "smembers" /\ queue[i][1].rooms # {} /\ ~SendsMore(i) =>
       <<"rooms", queue[i][1].user>> \in hurt'
  /\ SameSockets /\ UNCHANGED <<redisVars, raced, shared>>

LEMMA AnswerFacts ==
  ASSUME Types, NEW i \in Instances, Answer(i)
  PROVE  /\ Answers(i)
         /\ queue' \in [Instances -> Seq(Commands)] /\ executed' \in [Instances -> Nat]
         /\ \A j \in Instances : executed'[j] <= Len(queue'[j])
         /\ hurt' \subseteq {"presence", "rooms"} \X Users
  <1>. DEFINE first == queue[i][1]
              rest == Tail(queue[i])
              more == IF SendsMore(i) THEN RemoveFound(first.user, first.rooms) ELSE <<>>
  <1>1. /\ queue \in [Instances -> Seq(Commands)] /\ executed \in [Instances -> Nat]
        /\ hurt \subseteq {"presence", "rooms"} \X Users
    BY DEF Types, RedisTypeOK
  <1>2. /\ queue[i] \in Seq(Commands) /\ DOMAIN queue[i] = 1 .. Len(queue[i]) /\ Len(queue[i]) \in Nat
        /\ executed[i] \in Nat /\ executed[i] <= Len(queue[i])
    BY QueueFacts
  <1>3. /\ executed[i] > 0 /\ executed' = [executed EXCEPT ![i] = @ - 1]
        /\ UNCHANGED <<socket, roomsOf, redisVars, raced, shared>>
    BY DEF Answer
  <1>4. 1 \in DOMAIN queue[i] /\ queue[i] # <<>> /\ Head(queue[i]) = first /\ first \in Commands
    BY <1>2, <1>3
  <1>5. /\ queue' = [queue EXCEPT ![i] = Tail(@) \o (IF link[i] = "quit" THEN <<>> ELSE FollowUp(first))]
        /\ hurt' = IF link[i] = "quit" /\ FollowUp(first) # <<>>
                     THEN hurt \cup {<<"rooms", first.user>>} ELSE hurt
    BY <1>4 DEF Answer
  <1>6. (IF link[i] = "quit" THEN <<>> ELSE FollowUp(first)) = more
    BY DEF FollowUp, SendsMore
  <1>7. queue' = [queue EXCEPT ![i] = rest \o more]
    BY <1>5, <1>6
  <1>8. rest \in Seq(Commands) /\ Len(rest) = Len(queue[i]) - 1
        /\ \A l \in 1 .. Len(queue[i]) - 1 : rest[l] = queue[i][l + 1]
    BY <1>2, <1>4, HeadTailProperties
  <1>9. /\ more \in Seq(Commands)
        /\ SendsMore(i) =>
             /\ Len(more) = 2 /\ more[1] = Cmd("sremRoom", first.user, first.rooms)
             /\ more[2] = Cmd("del", first.user, {})
        /\ ~SendsMore(i) => Len(more) = 0
    <2>1. Cmd("sremRoom", first.user, first.rooms) \in Commands /\ Cmd("del", first.user, {}) \in Commands
      <3>1. first.user \in Users /\ first.rooms \subseteq Rooms
        BY <1>4, CommandFacts
      <3>. QED
        BY <3>1, CommandFacts
    <2>2. CASE SendsMore(i)
      BY <2>1, <2>2 DEF RemoveFound
    <2>3. CASE ~SendsMore(i)
      BY <2>3
    <2>. QED
      BY <2>2, <2>3
  <1>10. queue'[i] = rest \o more /\ \A j \in Instances \ {i} : queue'[j] = queue[j]
    BY <1>1, <1>7
  <1>. HIDE DEF rest, more
  <1>0. rest \in Seq(Commands) /\ more \in Seq(Commands)
    BY <1>8, <1>9
  <1>11. queue'[i] \in Seq(Commands) /\ Len(queue'[i]) = Len(rest) + Len(more)
    BY <1>10, <1>0, ConcatProperties
  <1>12. \A l \in 1 .. Len(rest) + Len(more) :
            queue'[i][l] = IF l <= Len(rest) THEN rest[l] ELSE more[l - Len(rest)]
    BY <1>10, <1>0, ConcatProperties
  <1>13. DOMAIN queue'[i] = 1 .. Len(queue[i]) - 1 + Len(more) /\ Len(more) \in Nat
         /\ Len(queue'[i]) = Len(queue[i]) - 1 + Len(more) /\ Len(rest) = Len(queue[i]) - 1
    BY <1>8, <1>9, <1>11
  <1>14. ASSUME NEW l \in DOMAIN queue[i], l > 1
         PROVE  l - 1 \in DOMAIN queue'[i] /\ queue'[i][l - 1] = queue[i][l]
    <2>1. l - 1 \in 1 .. Len(queue[i]) - 1 /\ (l - 1) + 1 = l
      BY <1>2, <1>14
    <2>2. rest[l - 1] = queue[i][l]
      BY <1>8, <2>1
    <2>3. l - 1 \in 1 .. Len(rest) + Len(more) /\ l - 1 <= Len(rest)
      BY <1>2, <1>13, <2>1
    <2>. QED
      BY <1>12, <1>13, <2>2, <2>3
  <1>15. ASSUME SendsMore(i)
         PROVE  /\ Len(queue[i]) \in DOMAIN queue'[i] /\ Len(queue[i]) + 1 \in DOMAIN queue'[i]
                /\ queue'[i][Len(queue[i])] = Cmd("sremRoom", first.user, first.rooms)
                /\ queue'[i][Len(queue[i]) + 1] = Cmd("del", first.user, {})
                /\ DOMAIN queue'[i] = 1 .. Len(queue[i]) + 1
    <2>1. /\ Len(more) = 2 /\ more[1] = Cmd("sremRoom", first.user, first.rooms)
          /\ more[2] = Cmd("del", first.user, {})
      BY <1>9, <1>15
    <2>2. /\ Len(queue[i]) \in 1 .. Len(rest) + Len(more) /\ Len(queue[i]) + 1 \in 1 .. Len(rest) + Len(more)
          /\ Len(queue[i]) - Len(rest) = 1 /\ Len(queue[i]) + 1 - Len(rest) = 2
          /\ ~(Len(queue[i]) <= Len(rest)) /\ ~(Len(queue[i]) + 1 <= Len(rest))
      BY <1>2, <1>3, <1>13, <2>1
    <2>3. DOMAIN queue'[i] = 1 .. Len(queue[i]) + 1
      BY <1>2, <1>13, <2>1
    <2>. QED
      BY <1>12, <2>1, <2>2, <2>3, <1>2, <1>4
  <1>16. ASSUME NEW l \in DOMAIN queue'[i]
         PROVE  \/ l + 1 \in DOMAIN queue[i] /\ queue'[i][l] = queue[i][l + 1]
                \/ /\ SendsMore(i) /\ l = Len(queue[i])
                   /\ queue'[i][l] = Cmd("sremRoom", first.user, first.rooms)
                \/ /\ SendsMore(i) /\ l = Len(queue[i]) + 1
                   /\ queue'[i][l] = Cmd("del", first.user, {})
    <2>1. CASE l <= Len(queue[i]) - 1
      <3>1. l \in 1 .. Len(queue[i]) - 1 /\ l + 1 \in DOMAIN queue[i]
        BY <1>2, <1>13, <2>1
      <3>2. l \in 1 .. Len(rest) + Len(more) /\ l <= Len(rest)
        BY <1>2, <1>13, <3>1
      <3>. QED
        BY <1>8, <1>12, <3>1, <3>2
    <2>2. CASE ~(l <= Len(queue[i]) - 1)
      <3>1. SendsMore(i)
        <4>1. Len(more) # 0
          BY <1>2, <1>13, <2>2
        <4>. QED
          BY <1>9, <4>1
      <3>2. l = Len(queue[i]) \/ l = Len(queue[i]) + 1
        BY <1>2, <1>15, <2>2, <3>1
      <3>. QED
        BY <1>15, <3>1, <3>2
    <2>. QED
      BY <2>1, <2>2
  <1>17. executed'[i] = executed[i] - 1 /\ \A j \in Instances \ {i} : executed'[j] = executed[j]
    BY <1>1, <1>3
  <1>18. executed' \in [Instances -> Nat]
    <2>1. executed[i] - 1 \in Nat
      BY <1>2, <1>3
    <2>. QED
      BY <1>1, <1>3, <2>1
  <1>19. \A j \in Instances : executed'[j] <= Len(queue'[j])
    <2>1. executed'[i] <= Len(queue'[i])
      BY <1>2, <1>13, <1>17
    <2>. QED
      BY <1>10, <1>17, <2>1, QueueFacts
  <1>20. queue' \in [Instances -> Seq(Commands)]
    BY <1>1, <1>7, <1>10, <1>11
  <1>21. first.op = "smembers" /\ first.rooms # {} /\ ~SendsMore(i) => <<"rooms", first.user>> \in hurt'
    BY <1>5 DEF SendsMore, FollowUp, RemoveFound
  <1>22. hurt \subseteq hurt' /\ hurt' \subseteq {"presence", "rooms"} \X Users
    BY <1>1, <1>4, <1>5, CommandFacts
  <1>23. SameSockets
    BY <1>3, SocketsSame
  <1>25. DOMAIN queue'[i] \subseteq Nat \ {0}
    BY <1>2, <1>13
  <1>26. /\ 1 \in DOMAIN queue[i] /\ executed[i] >= 1
         /\ UNCHANGED <<redisVars, raced, shared>>
    BY <1>2, <1>3, <1>4
  <1>27. SendsMore(i) =>
           /\ Len(queue[i]) \in DOMAIN queue'[i] /\ Len(queue[i]) + 1 \in DOMAIN queue'[i]
           /\ queue'[i][Len(queue[i])] = Cmd("sremRoom", first.user, first.rooms)
           /\ queue'[i][Len(queue[i]) + 1] = Cmd("del", first.user, {})
    BY <1>15
  <1>24. Answers(i)
    BY <1>10, <1>14, <1>25, <1>26, <1>27, <1>16, <1>17, <1>21, <1>22, <1>23 DEF Answers
  <1>. QED
    BY <1>18, <1>19, <1>20, <1>22, <1>24

LEMMA AnswersAfter ==
  ASSUME Types, NEW i \in Instances, Answers(i)
  PROVE  /\ \A k \in Nat : \A S : After(i, k + 1, S) => After(i, k, S)'
         /\ \A j \in Instances \ {i} : \A k, S : After(j, k, S) <=> After(j, k, S)'
         /\ \A j \in Instances : \A S : Ahead(j, S) => Ahead(j, S)'
         /\ \A j \in Instances : \A u : About(j, u)' => About(j, u)
         /\ \A j \in Instances : \A S, T :
              /\ Follows(j, S, T)
              /\ \/ j # i
                 \/ \A cmd \in S : cmd.op \notin {"sremRoom", "del"} \/ ~SendsMore(i) \/ cmd.user # queue[i][1].user
              => Follows(j, S, T)'
         /\ \A S : After(i, 0, S) => After(i, 0, S)' \/ queue[i][1] \in S
         /\ \A S : (\A cmd \in S : cmd.op \notin {"sremRoom", "del"}) /\ After(i, 0, S)' => After(i, 0, S)
  <1>0. /\ \A j \in Instances : \A l \in DOMAIN queue[j] : l \in Nat /\ l >= 1
        /\ \A j \in Instances : executed[j] \in Nat
        /\ DOMAIN queue[i] = 1 .. Len(queue[i]) /\ Len(queue[i]) \in Nat
    BY QueueFacts
  <1>1. \A l \in DOMAIN queue[i] : l > 1 => l - 1 \in DOMAIN queue'[i] /\ queue'[i][l - 1] = queue[i][l]
    BY DEF Answers
  <1>2. \A j \in Instances \ {i} : queue'[j] = queue[j] /\ executed'[j] = executed[j]
    BY DEF Answers
  <1>3. ASSUME NEW k \in Nat, NEW S, After(i, k + 1, S) PROVE After(i, k, S)'
    <2>1. PICK l \in DOMAIN queue[i] : l > k + 1 /\ queue[i][l] \in S
      BY <1>3 DEF After
    <2>2. l > 1 /\ l - 1 > k
      BY <1>0, <2>1
    <2>. QED
      BY <1>1, <2>1, <2>2 DEF After
  <1>4. \A j \in Instances \ {i} : \A k, S : After(j, k, S) <=> After(j, k, S)'
    BY <1>2 DEF After
  <1>5. ASSUME NEW j \in Instances, NEW S, Ahead(j, S) PROVE Ahead(j, S)'
    <2>1. CASE j # i
      BY <1>2, <1>5, <2>1 DEF Ahead
    <2>2. CASE j = i
      <3>1. PICK l \in DOMAIN queue[i] : l > executed[i] /\ queue[i][l] \in S
        BY <1>5, <2>2 DEF Ahead
      <3>2. executed[i] >= 1 /\ executed'[i] = executed[i] - 1
        BY DEF Answers
      <3>3. l > 1 /\ l - 1 > executed'[i]
        BY <1>0, <3>1, <3>2
      <3>. QED
        BY <1>1, <2>2, <3>1, <3>3 DEF Ahead
    <2>. QED
      BY <2>1, <2>2
  <1>6. ASSUME NEW l \in DOMAIN queue'[i]
        PROVE  \/ l + 1 \in DOMAIN queue[i] /\ queue'[i][l] = queue[i][l + 1]
               \/ /\ SendsMore(i) /\ queue'[i][l].user = queue[i][1].user
                  /\ queue'[i][l].op \in {"sremRoom", "del"}
    BY DEF Answers, Cmd
  <1>7. ASSUME NEW j \in Instances, NEW u, About(j, u)' PROVE About(j, u)
    <2>1. CASE j # i
      BY <1>2, <1>7, <2>1 DEF About
    <2>2. CASE j = i
      <3>1. PICK l \in DOMAIN queue'[i] : queue'[i][l].user = u
        BY <1>7, <2>2 DEF About
      <3>2. 1 \in DOMAIN queue[i]
        BY DEF Answers
      <3>. QED
        BY <1>6, <2>2, <3>1, <3>2 DEF About
    <2>. QED
      BY <2>1, <2>2
  <1>8. ASSUME NEW j \in Instances, NEW S, NEW T, Follows(j, S, T),
               \/ j # i
               \/ \A cmd \in S : cmd.op \notin {"sremRoom", "del"} \/ ~SendsMore(i) \/ cmd.user # queue[i][1].user
        PROVE  Follows(j, S, T)'
    <2>1. CASE j # i
      BY <1>2, <1>8, <2>1 DEF Follows, After
    <2>2. CASE j = i
      <3>. SUFFICES ASSUME NEW l \in DOMAIN queue'[i], queue'[i][l] \in S PROVE After(i, l, T)'
        BY <2>2 DEF Follows
      <3>1. l + 1 \in DOMAIN queue[i] /\ queue'[i][l] = queue[i][l + 1]
        BY <1>6, <1>8, <2>2
      <3>2. After(i, l + 1, T)
        BY <1>8, <2>2, <3>1 DEF Follows
      <3>3. l \in Nat
        BY DEF Answers
      <3>. QED
        BY <1>3, <3>2, <3>3
    <2>. QED
      BY <2>1, <2>2
  <1>9. ASSUME NEW S, After(i, 0, S), queue[i][1] \notin S PROVE After(i, 0, S)'
    <2>1. PICK l \in DOMAIN queue[i] : l > 0 /\ queue[i][l] \in S
      BY <1>9 DEF After
    <2>2. l > 1
      BY <1>0, <1>9, <2>1
    <2>3. l - 1 > 0
      BY <1>0, <2>2
    <2>. QED
      BY <1>1, <2>1, <2>2, <2>3 DEF After
  <1>10. ASSUME NEW S, \A cmd \in S : cmd.op \notin {"sremRoom", "del"}, After(i, 0, S)'
         PROVE  After(i, 0, S)
    <2>1. PICK l \in DOMAIN queue'[i] : queue'[i][l] \in S
      BY <1>10 DEF After
    <2>2. l + 1 \in DOMAIN queue[i] /\ queue[i][l + 1] \in S
      BY <1>6, <1>10, <2>1
    <2>3. l + 1 > 0
      BY <1>0, <2>2
    <2>. QED
      BY <2>2, <2>3 DEF After
  <1>. QED
    BY <1>3, <1>4, <1>5, <1>7, <1>8, <1>9, <1>10

\* The commands of i are lost, with its sockets or not.
Clears(i) ==
  /\ DOMAIN queue'[i] = {}
  /\ \A j \in Instances \ {i} : queue'[j] = queue[j] /\ executed'[j] = executed[j]
  /\ hurt \subseteq hurt'
  /\ \A k \in DOMAIN queue[i] : <<Table(queue[i][k]), queue[i][k].user>> \in hurt'
  /\ \A u \in Users : <<"presence", u>> \notin hurt' \/ <<"rooms", u>> \notin hurt' =>
       /\ OpenOf(u)' = OpenOf(u)
       /\ \A j \in Instances : ConnectedTo(j, u)' <=> ConnectedTo(j, u)
       /\ \A r \in Rooms : InRoom(r, u)' <=> InRoom(r, u)
  /\ \A u : OpenOf(u)' \subseteq OpenOf(u)
  /\ \A u \in Users \ shared' : OpenOf(u)' # {} => u \notin shared
  /\ UNCHANGED <<redisVars, raced>>

\* Nothing is sent, executed or answered; a link may come back.
Rests ==
  /\ queue' = queue
  /\ \A j \in Instances : executed'[j] = executed[j] \/ executed'[j] = 0
  /\ SameSockets /\ UNCHANGED <<redisVars, raced, shared, hurt>>

LEMMA HurtTyped ==
  ASSUME Types, NEW i \in Instances
  PROVE  /\ HurtBy(ToSet(queue[i])) \subseteq {"presence", "rooms"} \X Users
         /\ \A k \in DOMAIN queue[i] : <<Table(queue[i][k]), queue[i][k].user>> \in HurtBy(ToSet(queue[i]))
  <1>1. \A cmd \in ToSet(queue[i]) : cmd \in Commands
    BY QueueFacts DEF ToSet
  <1>2. \A cmd \in Commands : Table(cmd) \in {"presence", "rooms"} /\ cmd.user \in Users
    BY CommandFacts
  <1>3. \A k \in DOMAIN queue[i] : queue[i][k] \in ToSet(queue[i])
    BY DEF ToSet
  <1>. QED
    BY <1>1, <1>2, <1>3 DEF HurtBy

LEMMA CleanFacts ==
  ASSUME Types, NEW i \in Instances,
         queue' = [queue EXCEPT ![i] = <<>>], executed' = [executed EXCEPT ![i] = 0]
  PROVE  /\ DOMAIN queue'[i] = {}
         /\ \A j \in Instances \ {i} : queue'[j] = queue[j] /\ executed'[j] = executed[j]
         /\ queue' \in [Instances -> Seq(Commands)] /\ executed' \in [Instances -> Nat]
         /\ \A j \in Instances : executed'[j] <= Len(queue'[j])
  <1>1. queue \in [Instances -> Seq(Commands)] /\ executed \in [Instances -> Nat]
    BY DEF Types, RedisTypeOK
  <1>2. <<>> \in Seq(Commands) /\ Len(<<>>) = 0
    BY EmptySeq
  <1>3. queue'[i] = <<>> /\ executed'[i] = 0
    BY <1>1
  <1>4. \A j \in Instances \ {i} : queue'[j] = queue[j] /\ executed'[j] = executed[j]
    BY <1>1
  <1>5. DOMAIN queue'[i] = {}
    BY <1>3
  <1>6. queue' \in [Instances -> Seq(Commands)] /\ executed' \in [Instances -> Nat]
    BY <1>1, <1>2
  <1>7. \A j \in Instances : executed'[j] <= Len(queue'[j])
    BY <1>2, <1>3, <1>4, QueueFacts
  <1>. QED
    BY <1>4, <1>5, <1>6, <1>7

LEMMA GiveUpClears ==
  ASSUME Types, NEW i \in Instances, GiveUp(i)
  PROVE  /\ Clears(i) /\ SameSockets /\ shared' = shared
         /\ hurt' \subseteq {"presence", "rooms"} \X Users
  <1>1. /\ queue' = [queue EXCEPT ![i] = <<>>] /\ executed' = [executed EXCEPT ![i] = 0]
        /\ hurt' = hurt \cup HurtBy(ToSet(queue[i]))
        /\ UNCHANGED <<socket, roomsOf, redisVars, raced, shared>>
    BY DEF GiveUp
  <1>2. SameSockets
    BY <1>1, SocketsSame
  <1>3. hurt' \subseteq {"presence", "rooms"} \X Users
    BY <1>1, HurtTyped DEF Types, RedisTypeOK
  <1>. QED
    BY <1>1, <1>2, <1>3, CleanFacts, HurtTyped DEF Clears, SameSockets

LEMMA ProcessEndsClears ==
  ASSUME Types, OneSocketEach, NEW i \in Instances, ProcessEnds(i)
  PROVE  Clears(i) /\ OneSocketEach' /\ hurt' \subseteq {"presence", "rooms"} \X Users
  <1>. DEFINE cs == {c \in OpenConns : Home[c] = i}
              us == {UserOf[c] : c \in cs}
  <1>1. /\ queue' = [queue EXCEPT ![i] = <<>>] /\ executed' = [executed EXCEPT ![i] = 0]
        /\ hurt' = hurt \cup HurtBy(ToSet(queue[i])) \cup ({"presence", "rooms"} \X us)
        /\ UNCHANGED <<redisVars, raced>>
        /\ socket' = [c \in Conns |-> IF c \in cs THEN "closed" ELSE socket[c]]
        /\ roomsOf' = [c \in Conns |-> IF c \in cs THEN {} ELSE roomsOf[c]]
        /\ shared' = {u \in shared : OpenOf(u) \ cs # {}}
    BY DEF ProcessEnds, Gone
  <1>2. cs \subseteq Conns /\ cs \subseteq OpenConns /\ OpenConns \subseteq Conns
    BY DEF OpenConns
  <1>. HIDE DEF cs
  <1>3. /\ OpenConns' = OpenConns \ cs /\ \A c \in OpenConns \ cs : roomsOf'[c] = roomsOf[c]
        /\ \A u : OpenOf(u)' = OpenOf(u) \ cs
    BY <1>1, <1>2 DEF OpenConns, OpenOf
  <1>4. us \subseteq Users
    BY <1>2, ConnFacts
  <1>5. ASSUME NEW u \in Users, <<"presence", u>> \notin hurt' \/ <<"rooms", u>> \notin hurt'
        PROVE  /\ OpenOf(u)' = OpenOf(u)
               /\ \A j \in Instances : ConnectedTo(j, u)' <=> ConnectedTo(j, u)
               /\ \A r \in Rooms : InRoom(r, u)' <=> InRoom(r, u)
    <2>1. u \notin us
      BY <1>1, <1>5
    <2>2. OpenOf(u)' = OpenOf(u)
      BY <1>3, <2>1 DEF OpenOf
    <2>3. \A c \in OpenOf(u) : c \in OpenConns \ cs
      BY <2>1 DEF OpenOf
    <2>4. \A j \in Instances : ConnectedTo(j, u)' <=> ConnectedTo(j, u)
      BY <1>3, <2>1 DEF ConnectedTo
    <2>5. \A r \in Rooms : InRoom(r, u)' <=> InRoom(r, u)
      BY <1>3, <2>2, <2>3 DEF InRoom
    <2>. QED
      BY <2>2, <2>4, <2>5
  <1>6. \A u \in Users \ shared' : OpenOf(u)' # {} => u \notin shared
    BY <1>1, <1>3
  <1>7. OneSocketEach'
    BY <1>3, <1>6 DEF OneSocketEach
  <1>8. hurt' \subseteq {"presence", "rooms"} \X Users
    BY <1>1, <1>4, HurtTyped DEF Types, RedisTypeOK
  <1>9. /\ hurt \subseteq hurt'
        /\ \A k \in DOMAIN queue[i] : <<Table(queue[i][k]), queue[i][k].user>> \in hurt'
    BY <1>1, HurtTyped
  <1>10. \A u : OpenOf(u)' \subseteq OpenOf(u)
    BY <1>3
  <1>. QED
    BY <1>1, <1>5, <1>6, <1>7, <1>8, <1>9, <1>10, CleanFacts DEF Clears

LEMMA LinkLostRests ==
  ASSUME Types, NEW i \in Instances, LinkLost(i)
  PROVE  /\ Rests /\ executed' \in [Instances -> Nat]
         /\ \A j \in Instances : executed'[j] <= Len(queue'[j])
  <1>1. /\ executed' = [executed EXCEPT ![i] = 0]
        /\ UNCHANGED <<socket, roomsOf, queue, redisVars, raced, shared, hurt>>
    BY DEF LinkLost
  <1>2. executed \in [Instances -> Nat]
    BY DEF Types
  <1>3. executed'[i] = 0 /\ \A j \in Instances \ {i} : executed'[j] = executed[j]
    BY <1>1, <1>2
  <1>4. \A j \in Instances : executed'[j] <= Len(queue'[j])
    BY <1>1, <1>3, QueueFacts
  <1>5. \A j \in Instances : executed'[j] = executed[j] \/ executed'[j] = 0
    BY <1>3
  <1>6. executed' \in [Instances -> Nat]
    BY <1>1, <1>2
  <1>7. SameSockets
    BY <1>1, SocketsSame
  <1>. QED
    BY <1>1, <1>4, <1>5, <1>6, <1>7 DEF Rests

\* The variables that are no sequence keep their types.
PlainTypes ==
  /\ socket \in [Conns -> {"new", "open", "closed"}]
  /\ roomsOf \in [Conns -> SUBSET Rooms]
  /\ link \in [Instances -> {"open", "closing", "quit"}]
  /\ raced \subseteq Users /\ shared \subseteq Users

LEMMA PlainTypesKept ==
  ASSUME Types, [Next]_vars
  PROVE  PlainTypes'
  <1>1. PlainTypes
    BY DEF Types, RedisTypeOK, PlainTypes
  <1>2. \A c \in Conns : UserOf[c] \in Users /\ ToSet(JwtRooms[c]) \subseteq Rooms
    BY ConnFacts
  <1>3. \A c \in OpenConns : UserOf[c] \in Users
    BY <1>2 DEF OpenConns
  <1>4. ASSUME NEW c \in Conns, Open(c) PROVE PlainTypes'
    BY <1>1, <1>2, <1>4 DEF Open, Races, PlainTypes
  <1>5. ASSUME NEW c \in Conns, NEW r \in Rooms, Subscribe(c, r) \/ Unsubscribe(c, r) PROVE PlainTypes'
    BY <1>1, <1>2, <1>5 DEF Subscribe, Unsubscribe, Races, PlainTypes
  <1>6. ASSUME NEW c \in Conns, Close(c) PROVE PlainTypes'
    BY <1>1, <1>2, <1>6 DEF Close, CloseTurn, Gone, Races, PlainTypes
  <1>7. ASSUME NEW i \in Instances, CloseAll(i) PROVE PlainTypes'
    BY <1>1, <1>3, <1>7 DEF CloseAll, CloseTurn, Gone, Races, PlainTypes
  <1>8. ASSUME NEW i \in Instances, ProcessEnds(i) PROVE PlainTypes'
    BY <1>1, <1>8 DEF ProcessEnds, Gone, PlainTypes
  <1>9. ASSUME NEW i \in Instances,
               Execute(i) \/ Answer(i) \/ LinkLost(i) \/ GiveUp(i) \/ QuitRedis(i)
        PROVE  PlainTypes'
    BY <1>1, <1>9 DEF Execute, Answer, LinkLost, GiveUp, QuitRedis, PlainTypes
  <1>10. CASE UNCHANGED vars
    BY <1>1, <1>10 DEF vars, PlainTypes
  <1>11. Active \subseteq Conns
    BY RedisAssumption
  <1>. QED
    BY <1>4, <1>5, <1>6, <1>7, <1>8, <1>9, <1>10, <1>11 DEF Next, CrashRestart, Exit

\* Only finitely many sockets are open, since a step opens at most one.
LEMMA OpenFiniteKept ==
  ASSUME Types, [Next]_vars
  PROVE  IsFiniteSet(OpenConns)'
  <1>1. socket \in [Conns -> {"new", "open", "closed"}] /\ IsFiniteSet(OpenConns)
    BY DEF Types, RedisTypeOK
  <1>2. ASSUME OpenConns' \subseteq OpenConns PROVE IsFiniteSet(OpenConns)'
    BY <1>1, <1>2, FS_Subset
  <1>3. ASSUME NEW c \in Conns, Open(c) PROVE IsFiniteSet(OpenConns)'
    <2>1. OpenConns' \subseteq OpenConns \cup {c}
      BY <1>1, <1>3 DEF Open, OpenConns
    <2>. QED
      BY <1>1, <2>1, FS_AddElement, FS_Subset
  <1>4. ASSUME NEW cs, Gone(cs) PROVE IsFiniteSet(OpenConns)'
    <2>1. OpenConns' \subseteq OpenConns
      BY <1>1, <1>4 DEF Gone, OpenConns
    <2>. QED
      BY <1>2, <2>1
  <1>5. ASSUME socket' = socket PROVE IsFiniteSet(OpenConns)'
    <2>1. OpenConns' \subseteq OpenConns
      BY <1>5 DEF OpenConns
    <2>. QED
      BY <1>2, <2>1
  <1>6. ASSUME NEW c \in Conns, Close(c) PROVE IsFiniteSet(OpenConns)'
    BY <1>4, <1>6 DEF Close, CloseTurn
  <1>7. ASSUME NEW i \in Instances, CloseAll(i) \/ ProcessEnds(i) PROVE IsFiniteSet(OpenConns)'
    BY <1>4, <1>7 DEF CloseAll, CloseTurn, ProcessEnds
  <1>8. ASSUME NEW c, NEW r, Subscribe(c, r) \/ Unsubscribe(c, r) PROVE IsFiniteSet(OpenConns)'
    BY <1>5, <1>8 DEF Subscribe, Unsubscribe
  <1>9. ASSUME NEW i \in Instances,
               Execute(i) \/ Answer(i) \/ LinkLost(i) \/ GiveUp(i) \/ QuitRedis(i)
        PROVE  IsFiniteSet(OpenConns)'
    BY <1>5, <1>9 DEF Execute, Answer, LinkLost, GiveUp, QuitRedis
  <1>10. CASE UNCHANGED vars
    BY <1>5, <1>10 DEF vars
  <1>. QED
    BY <1>3, <1>6, <1>7, <1>8, <1>9, <1>10 DEF Next, CrashRestart, Exit

\* Every step is of one of these kinds.
LEMMA Kinds ==
  ASSUME Types, OneSocketEach, [Next]_vars
  PROVE  /\ Types' /\ OneSocketEach'
         /\ \/ \E i \in Instances, adds \in BOOLEAN : \E cmds :
                  SocketsTold(i, cmds, adds) /\ Grown(i, cmds)
            \/ \E i \in Instances : \E k, cmd : Executes(i, k, cmd)
            \/ \E i \in Instances : Answers(i)
            \/ \E i \in Instances : Clears(i)
            \/ Rests
  <1>. DEFINE QueueTypes == /\ queue \in [Instances -> Seq(Commands)] /\ executed \in [Instances -> Nat]
                            /\ \A j \in Instances : executed[j] <= Len(queue[j])
              RedisTypes == /\ online \subseteq Users /\ members \subseteq Rooms \X Users
                            /\ userRooms \subseteq Users \X Rooms
              HurtTypes == hurt \subseteq {"presence", "rooms"} \X Users
              Kind == \/ \E i \in Instances, adds \in BOOLEAN : \E cmds :
                            SocketsTold(i, cmds, adds) /\ Grown(i, cmds)
                      \/ \E i \in Instances : \E k, cmd : Executes(i, k, cmd)
                      \/ \E i \in Instances : Answers(i)
                      \/ \E i \in Instances : Clears(i)
                      \/ Rests
              Goal == QueueTypes' /\ RedisTypes' /\ HurtTypes' /\ OneSocketEach' /\ Kind
  <1>1. QueueTypes /\ RedisTypes /\ HurtTypes
    BY QueueFacts DEF Types, RedisTypeOK
  <1>2. ASSUME \/ \E c \in Conns : Open(c) \/ Close(c)
               \/ \E c \in Active, r \in Rooms : Subscribe(c, r) \/ Unsubscribe(c, r)
               \/ \E i \in Instances : CloseAll(i)
        PROVE  Goal
    <2>1. OneSocketEach' /\ \E i \in Instances, adds \in BOOLEAN : \E cmds : SocketsTold(i, cmds, adds)
      BY <1>2, Turns
    <2>2. PICK i \in Instances, adds \in BOOLEAN : \E cmds : SocketsTold(i, cmds, adds)
      BY <2>1
    <2>3. PICK cmds : SocketsTold(i, cmds, adds)
      BY <2>2
    <2>4. cmds \in Seq(Commands) /\ Send(i, cmds) /\ UNCHANGED <<executed, redisVars>>
      BY <2>3 DEF SocketsTold, Turn
    <2>5. /\ Grown(i, cmds) /\ queue' \in [Instances -> Seq(Commands)] /\ HurtTypes'
          /\ \A j \in Instances : Len(queue'[j]) >= Len(queue[j])
      BY <2>4, TurnGrows
    <2>6. QueueTypes'
      <3>1. \A j \in Instances : executed[j] \in Nat /\ Len(queue[j]) \in Nat /\ executed[j] <= Len(queue[j])
        BY QueueFacts
      <3>2. \A j \in Instances : Len(queue'[j]) \in Nat
        BY <2>5
      <3>. QED
        BY <1>1, <2>4, <2>5, <3>1, <3>2
    <2>7. RedisTypes'
      BY <1>1, <2>4 DEF redisVars
    <2>. QED
      BY <2>1, <2>3, <2>5, <2>6, <2>7
  <1>3. ASSUME NEW i \in Instances, Execute(i) PROVE Goal
    <2>1. SameSockets /\ shared' = shared /\ hurt' = hurt
      BY <1>3, ExecuteFacts DEF Executes
    <2>2. OneSocketEach'
      BY <2>1 DEF OneSocketEach, SameSockets
    <2>. QED
      BY <1>1, <1>3, <2>1, <2>2, ExecuteFacts
  <1>4. ASSUME NEW i \in Instances, Answer(i) PROVE Goal
    <2>1. SameSockets /\ shared' = shared /\ UNCHANGED redisVars
      BY <1>4, AnswerFacts DEF Answers
    <2>2. OneSocketEach'
      BY <2>1 DEF OneSocketEach, SameSockets
    <2>. QED
      BY <1>1, <1>4, <2>1, <2>2, AnswerFacts DEF redisVars
  <1>5. ASSUME NEW i \in Instances, LinkLost(i) PROVE Goal
    <2>1. Rests /\ executed' \in [Instances -> Nat] /\ \A j \in Instances : executed'[j] <= Len(queue'[j])
      BY <1>5, LinkLostRests
    <2>2. OneSocketEach'
      BY <2>1 DEF OneSocketEach, SameSockets, Rests
    <2>. QED
      BY <1>1, <2>1, <2>2 DEF Rests, redisVars
  <1>6. ASSUME NEW i \in Instances, GiveUp(i) PROVE Goal
    <2>1. Clears(i) /\ SameSockets /\ shared' = shared /\ HurtTypes'
      BY <1>6, GiveUpClears
    <2>2. OneSocketEach'
      BY <2>1 DEF OneSocketEach, SameSockets
    <2>3. QueueTypes'
      BY <1>6, CleanFacts DEF GiveUp
    <2>4. RedisTypes'
      BY <1>1, <2>1 DEF Clears, redisVars
    <2>. QED
      BY <2>1, <2>2, <2>3, <2>4
  <1>7. ASSUME NEW i \in Instances, ProcessEnds(i) PROVE Goal
    <2>1. Clears(i) /\ OneSocketEach' /\ HurtTypes'
      BY <1>7, ProcessEndsClears
    <2>2. QueueTypes'
      BY <1>7, CleanFacts DEF ProcessEnds
    <2>3. RedisTypes'
      BY <1>1, <2>1 DEF Clears, redisVars
    <2>. QED
      BY <2>1, <2>2, <2>3
  <1>8. ASSUME UNCHANGED <<socket, roomsOf, queue, executed, redisVars, raced, shared, hurt>> PROVE Goal
    <2>1. SameSockets
      BY <1>8, SocketsSame
    <2>2. Rests
      BY <1>8, <2>1 DEF Rests
    <2>3. OneSocketEach'
      BY <1>8, <2>1 DEF OneSocketEach, SameSockets
    <2>. QED
      BY <1>1, <1>8, <2>2, <2>3 DEF redisVars
  <1>9. ASSUME NEW i \in Instances, QuitRedis(i) PROVE Goal
    BY <1>8, <1>9 DEF QuitRedis
  <1>10. ASSUME UNCHANGED vars PROVE Goal
    BY <1>8, <1>10 DEF vars
  <1>. HIDE DEF Goal
  <1>11. Goal
    BY <1>2, <1>3, <1>4, <1>5, <1>6, <1>7, <1>9, <1>10 DEF Next, CrashRestart, Exit
  <1>12. Types'
    <2>1. PlainTypes'
      BY PlainTypesKept
    <2>2. \A j \in Instances : executed'[j] \in 0 .. Len(queue'[j])
      <3>1. \A j \in Instances : executed'[j] \in Nat /\ Len(queue'[j]) \in Nat /\ executed'[j] <= Len(queue'[j])
        BY <1>11 DEF Goal
      <3>. QED
        BY <3>1
    <2>3. QueueTypes' /\ RedisTypes' /\ HurtTypes'
      BY <1>11 DEF Goal
    <2>4. IsFiniteSet(OpenConns)'
      BY OpenFiniteKept
    <2>. QED
      BY <2>1, <2>2, <2>3, <2>4 DEF Types, RedisTypeOK, PlainTypes
  <1>. QED
    BY <1>11, <1>12 DEF Goal

\* What a lost queue and a rest leave of the order
LEMMA ClearsAfter ==
  ASSUME Types, NEW i \in Instances, Clears(i)
  PROVE  /\ \A j \in Instances \ {i} : \A k, S :
              (After(j, k, S)' <=> After(j, k, S)) /\ (Ahead(j, S)' <=> Ahead(j, S))
         /\ \A j \in Instances : \A S, T : Follows(j, S, T) => Follows(j, S, T)'
         /\ \A j \in Instances : \A u : About(j, u)' => About(j, u)
         /\ \A j \in Instances : \A k, S : After(j, k, S)' => After(j, k, S)
         /\ \A k, S, t, u :
              /\ \A cmd \in S : Table(cmd) = t /\ cmd.user = u
              /\ After(i, k, S) \/ Ahead(i, S)
              => <<t, u>> \in hurt'
  <1>1. /\ DOMAIN queue'[i] = {}
        /\ \A j \in Instances \ {i} : queue'[j] = queue[j] /\ executed'[j] = executed[j]
    BY DEF Clears
  <1>2. \A j \in Instances \ {i} : \A k, S :
          (After(j, k, S)' <=> After(j, k, S)) /\ (Ahead(j, S)' <=> Ahead(j, S))
    BY <1>1 DEF After, Ahead
  <1>3. \A S, T : Follows(i, S, T)'
    BY <1>1 DEF Follows
  <1>4. \A j \in Instances \ {i} : \A S, T : Follows(j, S, T) => Follows(j, S, T)'
    BY <1>1 DEF Follows, After
  <1>5. \A j \in Instances : \A u : About(j, u)' => About(j, u)
    BY <1>1 DEF About
  <1>6. \A k, S : ~After(i, k, S)'
    BY <1>1 DEF After
  <1>7. ASSUME NEW k, NEW S, NEW t, NEW u,
               \A cmd \in S : Table(cmd) = t /\ cmd.user = u,
               After(i, k, S) \/ Ahead(i, S)
        PROVE  <<t, u>> \in hurt'
    <2>1. PICK l \in DOMAIN queue[i] : queue[i][l] \in S
      BY <1>7 DEF After, Ahead
    <2>. QED
      BY <1>7, <2>1 DEF Clears
  <1>. QED
    BY <1>2, <1>3, <1>4, <1>5, <1>6, <1>7

LEMMA RestsAfter ==
  ASSUME Types, Rests
  PROVE  \A j \in Instances :
           /\ \A k, S : After(j, k, S)' <=> After(j, k, S)
           /\ \A S : Ahead(j, S) => Ahead(j, S)'
           /\ \A S, T : Follows(j, S, T)' <=> Follows(j, S, T)
           /\ \A u : About(j, u)' <=> About(j, u)
  <1>1. queue' = queue
    BY DEF Rests
  <1>2. ASSUME NEW j \in Instances, NEW S, Ahead(j, S) PROVE Ahead(j, S)'
    <2>1. PICK l \in DOMAIN queue[j] : l > executed[j] /\ queue[j][l] \in S
      BY <1>2 DEF Ahead
    <2>2. executed'[j] = executed[j] \/ executed'[j] = 0
      BY DEF Rests
    <2>3. l \in Nat /\ l >= 1
      BY QueueFacts
    <2>4. l > executed'[j]
      BY <2>1, <2>2, <2>3
    <2>. QED
      BY <1>1, <2>1, <2>4 DEF Ahead
  <1>. QED
    BY <1>1, <1>2 DEF After, Follows, About

\* Every command of these classes is about u, and in one of the tables.
LEMMA ClassTables ==
  ASSUME NEW r, NEW u
  PROVE  /\ \A cmd \in Of({"zadd"}, u) \cup Of({"zrem"}, u) : Table(cmd) = "presence" /\ cmd.user = u
         /\ \A cmd \in RoomLosses(r, u) \cup UserLosses(r, u) : Table(cmd) = "rooms" /\ cmd.user = u
         /\ \A ops : ops \cap PresenceOps = {} =>
              \A cmd \in Naming(ops, r, u) \cup Of(ops, u) : Table(cmd) = "rooms" /\ cmd.user = u
  BY DEF Of, Naming, RoomLosses, UserLosses, Table, PresenceOps

LEMMA ToldGrown ==
  ASSUME Types, NEW i \in Instances, NEW adds, NEW cmds, SocketsTold(i, cmds, adds)
  PROVE  /\ cmds \in Seq(Commands) /\ executed' = executed /\ UNCHANGED <<redisVars, online, members, userRooms>>
         /\ Told(i, cmds) /\ ToldLast(cmds, adds)
         /\ \A m \in DOMAIN cmds : cmds[m] \in Commands
  BY DEF SocketsTold, Turn, redisVars

-----------------------------------------------------------------------------
(* The online set. *)

LEMMA ZaddCoveredKept ==
  ASSUME Types, OneSocketEach, ZaddCovered, [Next]_vars
  PROVE  ZaddCovered'
  <1>. SUFFICES ASSUME NEW h \in Instances, NEW u \in Users, ~HurtOnline(u)', ~ConnectedTo(h, u)'
                PROVE  Follows(h, Of({"zadd"}, u), Of({"zrem"}, u))'
    BY DEF ZaddCovered
  <1>. DEFINE Z == Of({"zadd"}, u)
              R == Of({"zrem"}, u)
  <1>1. ~HurtOnline(u) /\ ~ConnectedTo(h, u) => Follows(h, Z, R)
    BY DEF ZaddCovered
  <1>2. Stable(Z) /\ Stable(R)
    BY StableClasses
  <1>3. \A cmd \in R : Table(cmd) = "presence" /\ cmd.user = u
    BY ClassTables
  <1>4. \A cmd \in Z : cmd.op \notin {"sremRoom", "del"}
    BY DEF Of
  <1>. HIDE DEF Z, R
  <1>5. ASSUME NEW i \in Instances, NEW adds \in BOOLEAN, NEW cmds, SocketsTold(i, cmds, adds), Grown(i, cmds)
        PROVE  Follows(h, Z, R)'
    <2>1. cmds \in Seq(Commands) /\ executed' = executed /\ Told(i, cmds)
      BY <1>5, ToldGrown
    <2>2. ~HurtOnline(u)
      BY <1>5 DEF Grown, HurtOnline
    <2>3. h = i => ~Holds(cmds, Z)
      BY <2>1 DEF Told, Z
    <2>4. CASE ConnectedTo(h, u)
      <3>1. h = i /\ Holds(cmds, R)
        BY <2>1, <2>4 DEF Told, R
      <3>2. <<"presence", u>> \notin hurt'
        BY DEF HurtOnline
      <3>. QED
        BY <1>3, <1>5, <2>1, <2>3, <3>1, <3>2, GrownNew
    <2>5. CASE ~ConnectedTo(h, u)
      BY <1>1, <1>5, <2>1, <2>2, <2>3, <2>5, GrownAfter
    <2>. QED
      BY <2>4, <2>5
  <1>6. ASSUME NEW i \in Instances, NEW k, NEW cmd, Executes(i, k, cmd) PROVE Follows(h, Z, R)'
    <2>1. ~HurtOnline(u) /\ ~ConnectedTo(h, u)
      BY <1>6 DEF Executes, SameSockets, HurtOnline
    <2>. QED
      BY <1>1, <1>2, <1>6, <2>1, ExecutesAfter
  <1>7. ASSUME NEW i \in Instances, Answers(i) PROVE Follows(h, Z, R)'
    <2>1. ~HurtOnline(u) /\ ~ConnectedTo(h, u)
      BY <1>7 DEF Answers, SameSockets, HurtOnline
    <2>. QED
      BY <1>1, <1>4, <1>7, <2>1, AnswersAfter
  <1>8. ASSUME NEW i \in Instances, Clears(i) PROVE Follows(h, Z, R)'
    <2>1. ~HurtOnline(u) /\ ~ConnectedTo(h, u)
      BY <1>8 DEF Clears, HurtOnline
    <2>. QED
      BY <1>1, <1>8, <2>1, ClearsAfter
  <1>9. ASSUME Rests PROVE Follows(h, Z, R)'
    <2>1. ~HurtOnline(u) /\ ~ConnectedTo(h, u)
      BY <1>9 DEF Rests, SameSockets, HurtOnline
    <2>. QED
      BY <1>1, <1>9, <2>1, RestsAfter
  <1>10. Follows(h, Z, R)'
    BY <1>5, <1>6, <1>7, <1>8, <1>9, Kinds
  <1>. QED
    BY <1>10 DEF Z, R

LEMMA OnlineCoveredKept ==
  ASSUME Types, OneSocketEach, ZaddCovered, OnlineCovered, [Next]_vars
  PROVE  OnlineCovered'
  <1>. SUFFICES ASSUME NEW u \in online', ~HurtOnline(u)', OpenOf(u)' = {}
                PROVE  \E j \in Instances : Ahead(j, Of({"zrem"}, u))'
    BY DEF OnlineCovered
  <1>. DEFINE Z == Of({"zadd"}, u)
              R == Of({"zrem"}, u)
  <1>1. u \in Users
    BY Kinds DEF Types, RedisTypeOK
  <1>2. u \in online /\ ~HurtOnline(u) /\ OpenOf(u) = {} => \E j \in Instances : Ahead(j, R)
    BY DEF OnlineCovered
  <1>3. \A cmd \in R : Table(cmd) = "presence" /\ cmd.user = u
    BY ClassTables
  <1>4. Stable(Z) /\ Stable(R)
    BY StableClasses
  <1>. HIDE DEF Z, R
  <1>5. ASSUME NEW i \in Instances, NEW adds \in BOOLEAN, NEW cmds, SocketsTold(i, cmds, adds), Grown(i, cmds)
        PROVE  \E j \in Instances : Ahead(j, R)'
    <2>1. cmds \in Seq(Commands) /\ executed' = executed /\ Told(i, cmds) /\ online' = online
      BY <1>5, ToldGrown
    <2>2. ~HurtOnline(u)
      BY <1>5 DEF Grown, HurtOnline
    <2>3. CASE OpenOf(u) = {}
      <3>1. PICK j \in Instances : Ahead(j, R)
        BY <1>2, <2>1, <2>2, <2>3
      <3>. QED
        BY <1>5, <2>1, <3>1, GrownAfter
    <2>4. CASE OpenOf(u) # {}
      <3>1. PICK c \in OpenConns : UserOf[c] = u
        BY <2>4 DEF OpenOf
      <3>2. Home[c] \in Instances
        BY RedisAssumption DEF OpenConns
      <3>3. ConnectedTo(Home[c], u)
        BY <3>1 DEF ConnectedTo
      <3>4. ~ConnectedTo(Home[c], u)'
        BY DEF ConnectedTo, OpenOf
      <3>5. Holds(cmds, R)
        BY <1>1, <2>1, <3>2, <3>3, <3>4 DEF Told, R
      <3>6. <<"presence", u>> \notin hurt'
        BY DEF HurtOnline
      <3>7. Ahead(i, R)'
        BY <1>3, <1>5, <2>1, <3>5, <3>6, GrownNew
      <3>. QED
        BY <3>7
    <2>. QED
      BY <2>3, <2>4
  <1>6. ASSUME NEW i \in Instances, NEW k, NEW cmd, Executes(i, k, cmd)
        PROVE  \E j \in Instances : Ahead(j, R)'
    <2>1. ~HurtOnline(u) /\ OpenOf(u) = {}
      BY <1>6 DEF Executes, SameSockets, HurtOnline
    <2>2. cmd \in Z \/ (u \in online /\ cmd \notin R)
      BY <1>1, <1>6 DEF Executes, Z, R
    <2>3. CASE cmd \in Z
      <3>1. ~ConnectedTo(i, u)
        BY <2>1 DEF ConnectedTo, OpenOf
      <3>2. Follows(i, Z, R)
        BY <1>1, <2>1, <3>1 DEF ZaddCovered, Z, R
      <3>3. Ahead(i, R)'
        BY <1>4, <1>6, <2>3, <3>2, ExecutesAfter
      <3>. QED
        BY <3>3
    <2>4. CASE u \in online /\ cmd \notin R
      <3>1. PICK j \in Instances : Ahead(j, R)
        BY <1>2, <2>1, <2>4
      <3>2. Ahead(j, R)'
        BY <1>4, <1>6, <2>4, <3>1, ExecutesAfter
      <3>. QED
        BY <3>2
    <2>. QED
      BY <2>2, <2>3, <2>4
  <1>7. ASSUME NEW i \in Instances, Answers(i) PROVE \E j \in Instances : Ahead(j, R)'
    <2>1. ~HurtOnline(u) /\ OpenOf(u) = {} /\ u \in online
      BY <1>7 DEF Answers, SameSockets, HurtOnline, redisVars
    <2>2. PICK j \in Instances : Ahead(j, R)
      BY <1>2, <2>1
    <2>. QED
      BY <1>7, <2>2, AnswersAfter
  <1>8. ASSUME NEW i \in Instances, Clears(i) PROVE \E j \in Instances : Ahead(j, R)'
    <2>1. ~HurtOnline(u) /\ OpenOf(u) = {} /\ u \in online
      BY <1>1, <1>8 DEF Clears, HurtOnline, redisVars
    <2>2. PICK j \in Instances : Ahead(j, R)
      BY <1>2, <2>1
    <2>3. j # i
      BY <1>3, <1>8, <2>2, ClearsAfter DEF HurtOnline
    <2>. QED
      BY <1>8, <2>2, <2>3, ClearsAfter
  <1>9. ASSUME Rests PROVE \E j \in Instances : Ahead(j, R)'
    <2>1. ~HurtOnline(u) /\ OpenOf(u) = {} /\ u \in online
      BY <1>9 DEF Rests, SameSockets, HurtOnline, redisVars
    <2>2. PICK j \in Instances : Ahead(j, R)
      BY <1>2, <2>1
    <2>. QED
      BY <1>9, <2>2, RestsAfter
  <1>10. \E j \in Instances : Ahead(j, R)'
    BY <1>5, <1>6, <1>7, <1>8, <1>9, Kinds
  <1>. QED
    BY <1>10 DEF R

-----------------------------------------------------------------------------
(* The order of the commands. *)

LEMMA OneInstanceKept ==
  ASSUME Types, OneSocketEach, OneInstance, [Next]_vars
  PROVE  OneInstance'
  <1>. SUFFICES ASSUME NEW u \in Users, u \notin raced', NEW g \in Instances, NEW h \in Instances,
                       About(g, u)', About(h, u)'
                PROVE  g = h
    BY DEF OneInstance
  <1>1. u \notin raced /\ About(g, u) /\ About(h, u) => g = h
    BY DEF OneInstance
  <1>2. ASSUME NEW i \in Instances, NEW adds \in BOOLEAN, NEW cmds, SocketsTold(i, cmds, adds), Grown(i, cmds)
        PROVE  g = h
    <2>1. \A j \in Instances : About(j, u)' => About(j, u) \/ (j = i /\ \E m \in DOMAIN cmds : cmds[m].user = u)
      BY <1>2 DEF Grown, About
    <2>2. /\ raced \subseteq raced'
          /\ \A m \in DOMAIN cmds : cmds[m].user = u => \A j \in Instances : About(j, u) => j = i
      BY <1>2 DEF SocketsTold, Turn
    <2>. QED
      BY <1>1, <2>1, <2>2
  <1>3. ASSUME NEW i \in Instances, NEW k, NEW cmd, Executes(i, k, cmd) PROVE g = h
    BY <1>1, <1>3, ExecutesAfter DEF Executes
  <1>4. ASSUME NEW i \in Instances, Answers(i) PROVE g = h
    BY <1>1, <1>4, AnswersAfter DEF Answers
  <1>5. ASSUME NEW i \in Instances, Clears(i) PROVE g = h
    BY <1>1, <1>5, ClearsAfter DEF Clears
  <1>6. ASSUME Rests PROVE g = h
    BY <1>1, <1>6, RestsAfter DEF Rests
  <1>. QED
    BY <1>2, <1>3, <1>4, <1>5, <1>6, Kinds

LEMMA GrownBars ==
  ASSUME Types, NEW i \in Instances, NEW cmds \in Seq(Commands), Grown(i, cmds),
         NEW j \in Instances, NEW S, NEW T, Bars(j, S, T),
         \/ ~Holds(cmds, T)
         \/ ~Holds(cmds, S) /\ ~After(i, 0, S)
  PROVE  Bars(j, S, T)'
  <1>. SUFFICES ASSUME NEW k \in DOMAIN queue'[j], queue'[j][k] \in S,
                       NEW l \in DOMAIN queue'[j], l > k, queue'[j][l] \in T
                PROVE  FALSE
    BY DEF Bars, After
  <1>1. \/ k \in DOMAIN queue[j] /\ queue'[j][k] = queue[j][k]
        \/ j = i /\ k > Len(queue[i]) /\ Holds(cmds, S)
    BY DEF Grown, Holds
  <1>2. \/ l \in DOMAIN queue[j] /\ queue'[j][l] = queue[j][l]
        \/ j = i /\ Holds(cmds, T)
    BY DEF Grown, Holds
  <1>3. /\ \A m \in DOMAIN queue[j] : m \in Nat /\ m > 0 /\ m <= Len(queue[j])
        /\ Len(queue[j]) \in Nat
    BY QueueFacts
  <1>4. ASSUME k \in DOMAIN queue[j], queue'[j][k] = queue[j][k],
               l \in DOMAIN queue[j], queue'[j][l] = queue[j][l]
        PROVE  FALSE
    BY <1>4 DEF Bars, After
  <1>5. CASE ~Holds(cmds, T)
    <2>1. l \in DOMAIN queue[j] /\ queue'[j][l] = queue[j][l]
      BY <1>2, <1>5
    <2>2. l <= Len(queue[j]) /\ l \in Nat /\ Len(queue[j]) \in Nat
      BY <1>3, <2>1
    <2>3. DOMAIN queue'[j] \subseteq Nat
      <3>1. ASSUME NEW n \in DOMAIN queue'[j] PROVE n \in Nat
        <4>1. n \in DOMAIN queue[j] \/ (j = i /\ \E m \in DOMAIN cmds : n = Len(queue[i]) + m)
          BY DEF Grown
        <4>2. \A m \in DOMAIN cmds : m \in Nat
          OBVIOUS
        <4>. QED
          BY <1>3, <4>1, <4>2
      <3>. QED
        BY <3>1
    <2>4. ~(j = i /\ k > Len(queue[i]))
      BY <2>2, <2>3
    <2>. QED
      BY <1>1, <1>4, <2>1, <2>4
  <1>6. CASE ~Holds(cmds, S) /\ ~After(i, 0, S)
    <2>1. k \in DOMAIN queue[j] /\ queue[j][k] \in S
      BY <1>1, <1>6
    <2>2. CASE j = i
      <3>1. k > 0
        BY <1>3, <2>1
      <3>. QED
        BY <1>6, <2>1, <2>2, <3>1 DEF After
    <2>3. CASE j # i
      BY <1>1, <1>2, <1>4, <2>3
    <2>. QED
      BY <2>2, <2>3
  <1>. QED
    BY <1>5, <1>6

LEMMA AnswersBars ==
  ASSUME Types, NEW i \in Instances, Answers(i),
         NEW j \in Instances, NEW S, NEW T, Bars(j, S, T),
         j # i \/ \A cmd \in T : cmd.op \notin {"sremRoom", "del"} \/ ~SendsMore(i) \/ cmd.user # queue[i][1].user
  PROVE  Bars(j, S, T)'
  <1>1. CASE j # i
    BY <1>1 DEF Bars, After, Answers
  <1>2. CASE j = i
    <2>. SUFFICES ASSUME NEW k \in DOMAIN queue'[i], queue'[i][k] \in S,
                         NEW l \in DOMAIN queue'[i], l > k, queue'[i][l] \in T
                  PROVE  FALSE
      BY <1>2 DEF Bars, After
    <2>1. l + 1 \in DOMAIN queue[i] /\ queue'[i][l] = queue[i][l + 1]
      BY <1>2 DEF Answers, Cmd
    <2>2. k \in Nat /\ l \in Nat /\ DOMAIN queue[i] = 1 .. Len(queue[i]) /\ Len(queue[i]) \in Nat
      BY QueueFacts DEF Answers
    <2>3. k # Len(queue[i]) /\ k # Len(queue[i]) + 1
      BY <2>1, <2>2
    <2>4. k + 1 \in DOMAIN queue[i] /\ queue'[i][k] = queue[i][k + 1]
      BY <2>3 DEF Answers
    <2>5. l + 1 > k + 1
      BY <2>2
    <2>. QED
      BY <1>2, <2>1, <2>4, <2>5 DEF Bars, After
  <1>. QED
    BY <1>1, <1>2

\* The other steps keep a bar.
LEMMA OtherBars ==
  ASSUME Types, NEW j \in Instances, NEW S, NEW T, Bars(j, S, T)
  PROVE  /\ \A i \in Instances : \A k, cmd : Executes(i, k, cmd) /\ Stable(S) /\ Stable(T) => Bars(j, S, T)'
         /\ \A i \in Instances : Clears(i) => Bars(j, S, T)'
         /\ Rests => Bars(j, S, T)'
  <1>1. ASSUME NEW i \in Instances, NEW k, NEW cmd, Executes(i, k, cmd), Stable(S), Stable(T)
        PROVE  Bars(j, S, T)'
    <2>1. DOMAIN queue'[j] = DOMAIN queue[j]
      BY <1>1 DEF Executes
    <2>2. \A l \in DOMAIN queue[j] : queue'[j][l] \in S <=> queue[j][l] \in S
      BY <1>1, ExecutesAfter
    <2>3. \A l : After(j, l, T)' => After(j, l, T)
      BY <1>1, ExecutesAfter
    <2>. QED
      BY <2>1, <2>2, <2>3 DEF Bars
  <1>2. ASSUME NEW i \in Instances, Clears(i) PROVE Bars(j, S, T)'
    BY <1>2 DEF Clears, Bars, After
  <1>3. ASSUME Rests PROVE Bars(j, S, T)'
    BY <1>3 DEF Rests, Bars, After
  <1>. QED
    BY <1>1, <1>2, <1>3

LEMMA CleanUpOrderKept ==
  ASSUME Types, OneSocketEach, CleanUpOrder, [Next]_vars
  PROVE  CleanUpOrder'
  <1>. SUFFICES ASSUME NEW u \in Users, u \notin raced', NEW h \in Instances
                PROVE  /\ Bars(h, Of({"smembers"}, u), Of(AddOps, u))'
                       /\ Bars(h, Of(AddOps, u), Of({"del"}, u))'
    BY DEF CleanUpOrder
  <1>. DEFINE R == Of({"smembers"}, u)
              A == Of(AddOps, u)
              D == Of({"del"}, u)
  <1>1. u \notin raced => Bars(h, R, A) /\ Bars(h, A, D)
    BY DEF CleanUpOrder
  <1>2. Stable(R) /\ Stable(A) /\ Stable(D)
    BY StableClasses
  <1>3. ASSUME NEW i \in Instances, NEW adds \in BOOLEAN, NEW cmds, SocketsTold(i, cmds, adds), Grown(i, cmds)
        PROVE  Bars(h, R, A)' /\ Bars(h, A, D)'
    <2>1. cmds \in Seq(Commands)
      BY <1>3, ToldGrown
    <2>2. Bars(h, R, A) /\ Bars(h, A, D)
      BY <1>1, <1>3 DEF SocketsTold, Turn
    <2>3. ~Holds(cmds, D)
      BY <1>3 DEF SocketsTold, Turn, Holds, Of, Arrivals, Departures
    <2>4. \/ ~Holds(cmds, A)
          \/ ~Holds(cmds, R) /\ ~After(i, 0, R)
      <3>1. ASSUME Holds(cmds, A) PROVE ~Holds(cmds, R) /\ ~After(i, 0, R)
        <4>1. PICK m \in DOMAIN cmds : cmds[m].op \in AddOps /\ cmds[m].user = u
          BY <3>1 DEF Holds, Of
        <4>2. \A n \in DOMAIN cmds : cmds[n].op \in (IF adds THEN Arrivals ELSE Departures)
          BY <1>3 DEF SocketsTold, Turn
        <4>3. adds
          BY <4>1, <4>2 DEF AddOps, Departures
        <4>4. ~Holds(cmds, R)
          BY <4>2, <4>3 DEF Arrivals, Holds, Of
        <4>5. ~After(i, 0, R)
          BY <1>3, <4>1, <4>3 DEF SocketsTold, Turn
        <4>. QED
          BY <4>4, <4>5
      <3>. QED
        BY <3>1
    <2>. QED
      BY <1>3, <2>1, <2>2, <2>3, <2>4, GrownBars
  <1>4. ASSUME NEW i \in Instances, NEW k, NEW cmd, Executes(i, k, cmd)
        PROVE  Bars(h, R, A)' /\ Bars(h, A, D)'
    <2>1. Bars(h, R, A) /\ Bars(h, A, D)
      BY <1>1, <1>4 DEF Executes
    <2>. QED
      BY <1>2, <1>4, <2>1, OtherBars
  <1>5. ASSUME NEW i \in Instances, Answers(i) PROVE Bars(h, R, A)' /\ Bars(h, A, D)'
    <2>1. Bars(h, R, A) /\ Bars(h, A, D)
      BY <1>1, <1>5 DEF Answers
    <2>2. Bars(h, R, A)'
      <3>1. \A cmd \in A : cmd.op \notin {"sremRoom", "del"}
        BY DEF Of, AddOps
      <3>. QED
        BY <1>5, <2>1, <3>1, AnswersBars
    <2>3. CASE h # i \/ ~SendsMore(i) \/ u # queue[i][1].user
      <3>1. \A cmd \in D : cmd.user = u
        BY DEF Of
      <3>. QED
        BY <1>5, <2>1, <2>2, <2>3, <3>1, AnswersBars
    <2>4. CASE h = i /\ SendsMore(i) /\ u = queue[i][1].user
      <3>1. 1 \in DOMAIN queue[i] /\ queue[i][1] \in R
        BY <1>5, <2>4, QueueFacts DEF Answers, SendsMore, Of
      <3>2. ~After(i, 1, A)
        BY <2>1, <2>4, <3>1 DEF Bars
      <3>3. \A k \in DOMAIN queue'[i] : queue'[i][k] \notin A
        <4>. SUFFICES ASSUME NEW k \in DOMAIN queue'[i], queue'[i][k] \in A PROVE FALSE
          OBVIOUS
        <4>1. queue'[i][k].op \notin {"sremRoom", "del"}
          BY DEF Of, AddOps
        <4>2. k + 1 \in DOMAIN queue[i] /\ queue[i][k + 1] \in A /\ k \in Nat \ {0}
          BY <1>5, <4>1 DEF Answers, Cmd
        <4>3. k + 1 > 1
          BY <4>2
        <4>. QED
          BY <3>2, <4>2, <4>3 DEF After
      <3>. QED
        BY <2>2, <2>4, <3>3 DEF Bars
    <2>. QED
      BY <2>2, <2>3, <2>4
  <1>6. ASSUME NEW i \in Instances, Clears(i) PROVE Bars(h, R, A)' /\ Bars(h, A, D)'
    BY <1>1, <1>6, OtherBars DEF Clears
  <1>7. ASSUME Rests PROVE Bars(h, R, A)' /\ Bars(h, A, D)'
    BY <1>1, <1>7, OtherBars DEF Rests
  <1>. QED
    BY <1>3, <1>4, <1>5, <1>6, <1>7, Kinds

LEMMA PairedKept ==
  ASSUME Types, OneSocketEach, Paired, [Next]_vars
  PROVE  Paired'
  <1>. SUFFICES ASSUME NEW h \in Instances, NEW k \in DOMAIN queue'[h]
                PROVE  /\ queue'[h][k].op = "saddRoom" =>
                            /\ k + 1 \in DOMAIN queue'[h] /\ queue'[h][k + 1].op = "saddUser"
                            /\ queue'[h][k + 1].user = queue'[h][k].user
                            /\ queue'[h][k + 1].rooms = queue'[h][k].rooms
                       /\ k > 1 /\ queue'[h][k].op \in {"sremUser", "del"} =>
                            /\ queue'[h][k - 1].op = "sremRoom"
                            /\ queue'[h][k - 1].user = queue'[h][k].user
                            /\ queue'[h][k].op = "sremUser" => queue'[h][k - 1].rooms = queue'[h][k].rooms
    BY DEF Paired
  <1>. DEFINE P(l) == /\ queue[h][l].op = "saddRoom" =>
                            /\ l + 1 \in DOMAIN queue[h] /\ queue[h][l + 1].op = "saddUser"
                            /\ queue[h][l + 1].user = queue[h][l].user
                            /\ queue[h][l + 1].rooms = queue[h][l].rooms
                      /\ l > 1 /\ queue[h][l].op \in {"sremUser", "del"} =>
                            /\ queue[h][l - 1].op = "sremRoom"
                            /\ queue[h][l - 1].user = queue[h][l].user
                            /\ queue[h][l].op = "sremUser" => queue[h][l - 1].rooms = queue[h][l].rooms
              Q(l) == /\ queue'[h][l].op = "saddRoom" =>
                            /\ l + 1 \in DOMAIN queue'[h] /\ queue'[h][l + 1].op = "saddUser"
                            /\ queue'[h][l + 1].user = queue'[h][l].user
                            /\ queue'[h][l + 1].rooms = queue'[h][l].rooms
                      /\ l > 1 /\ queue'[h][l].op \in {"sremUser", "del"} =>
                            /\ queue'[h][l - 1].op = "sremRoom"
                            /\ queue'[h][l - 1].user = queue'[h][l].user
                            /\ queue'[h][l].op = "sremUser" => queue'[h][l - 1].rooms = queue'[h][l].rooms
  <1>1. \A l \in DOMAIN queue[h] : P(l)
    BY DEF Paired
  <1>2. /\ DOMAIN queue[h] = 1 .. Len(queue[h]) /\ Len(queue[h]) \in Nat
        /\ \A l \in DOMAIN queue[h] : l \in Nat /\ l >= 1
        /\ \A l \in DOMAIN queue[h] : l > 1 => l - 1 \in DOMAIN queue[h]
    BY QueueFacts
  <1>3. ASSUME queue'[h] = queue[h] PROVE Q(k)
    BY <1>1, <1>3
  <1>4. ASSUME NEW i \in Instances, NEW adds \in BOOLEAN, NEW cmds, SocketsTold(i, cmds, adds), Grown(i, cmds)
        PROVE  Q(k)
    <2>1. CASE k \in DOMAIN queue[h]
      <3>1. \A l \in DOMAIN queue[h] : l \in DOMAIN queue'[h] /\ queue'[h][l] = queue[h][l]
        BY <1>4 DEF Grown
      <3>2. P(k) /\ queue'[h][k] = queue[h][k]
        BY <1>1, <2>1, <3>1
      <3>3. ASSUME queue[h][k].op = "saddRoom"
            PROVE  k + 1 \in DOMAIN queue'[h] /\ queue'[h][k + 1] = queue[h][k + 1]
        BY <3>1, <3>2, <3>3
      <3>4. ASSUME k > 1 PROVE queue'[h][k - 1] = queue[h][k - 1]
        BY <1>2, <2>1, <3>1, <3>4
      <3>. QED
        BY <3>2, <3>3, <3>4
    <2>2. CASE k \notin DOMAIN queue[h]
      <3>1. PICK m \in DOMAIN cmds : k = Len(queue[i]) + m /\ queue'[h][k] = cmds[m] /\ h = i
        BY <1>4, <2>2 DEF Grown
      <3>2. \A n \in DOMAIN cmds :
               Len(queue[h]) + n \in DOMAIN queue'[h] /\ queue'[h][Len(queue[h]) + n] = cmds[n]
        BY <1>4, <2>2, <3>1 DEF Grown
      <3>3. /\ cmds[m].op = "saddRoom" =>
                 /\ m + 1 \in DOMAIN cmds /\ cmds[m + 1].op = "saddUser"
                 /\ cmds[m + 1].user = cmds[m].user /\ cmds[m + 1].rooms = cmds[m].rooms
            /\ cmds[m].op \in {"sremUser", "del"} =>
                 /\ m - 1 \in DOMAIN cmds /\ cmds[m - 1].op = "sremRoom"
                 /\ cmds[m - 1].user = cmds[m].user
                 /\ cmds[m].op = "sremUser" => cmds[m - 1].rooms = cmds[m].rooms
        BY <1>4 DEF SocketsTold, Turn, Pairs
      <3>4. m \in Nat
        BY <1>4, ToldGrown
      <3>5. k + 1 = Len(queue[h]) + (m + 1) /\ k - 1 = Len(queue[h]) + (m - 1)
        BY <1>2, <3>1, <3>4
      <3>6. ASSUME cmds[m].op = "saddRoom"
            PROVE  k + 1 \in DOMAIN queue'[h] /\ queue'[h][k + 1] = cmds[m + 1]
        BY <3>2, <3>3, <3>5, <3>6
      <3>7. ASSUME cmds[m].op \in {"sremUser", "del"}
            PROVE  queue'[h][k - 1] = cmds[m - 1]
        BY <3>2, <3>3, <3>5, <3>7
      <3>. QED
        BY <3>1, <3>3, <3>6, <3>7
    <2>. QED
      BY <2>1, <2>2
  <1>5. ASSUME NEW i \in Instances, NEW n, NEW cmd, Executes(i, n, cmd) PROVE Q(k)
    <2>1. DOMAIN queue'[h] = DOMAIN queue[h]
      BY <1>5 DEF Executes
    <2>2. \A l \in DOMAIN queue[h] :
            /\ queue'[h][l].op = queue[h][l].op /\ queue'[h][l].user = queue[h][l].user
            /\ queue[h][l].op = "smembers" \/ queue'[h][l] = queue[h][l]
      BY <1>5 DEF Executes
    <2>3. P(k)
      BY <1>1, <2>1
    <2>4. ASSUME queue[h][k].op = "saddRoom"
          PROVE  k + 1 \in DOMAIN queue'[h] /\ queue'[h][k + 1] = queue[h][k + 1] /\ queue'[h][k] = queue[h][k]
      <3>1. k + 1 \in DOMAIN queue[h] /\ queue[h][k + 1].op = "saddUser"
        BY <2>3, <2>4
      <3>2. queue[h][k + 1].op # "smembers" /\ queue[h][k].op # "smembers"
        BY <2>4, <3>1
      <3>. QED
        BY <2>1, <2>2, <3>1, <3>2
    <2>5. ASSUME k > 1, queue[h][k].op \in {"sremUser", "del"}
          PROVE  queue'[h][k - 1] = queue[h][k - 1] /\ queue'[h][k] = queue[h][k]
      <3>1. k - 1 \in DOMAIN queue[h] /\ queue[h][k - 1].op = "sremRoom"
        BY <1>2, <2>1, <2>3, <2>5
      <3>2. queue[h][k - 1].op # "smembers" /\ queue[h][k].op # "smembers"
        BY <2>5, <3>1
      <3>. QED
        BY <2>1, <2>2, <3>1, <3>2
    <2>6. queue'[h][k].op = queue[h][k].op
      BY <2>1, <2>2
    <2>. QED
      BY <2>3, <2>4, <2>5, <2>6
  <1>6. ASSUME NEW i \in Instances, Answers(i) PROVE Q(k)
    <2>1. CASE h # i
      BY <1>3, <1>6, <2>1 DEF Answers
    <2>2. CASE h = i /\ k + 1 \in DOMAIN queue[h] /\ queue'[h][k] = queue[h][k + 1]
      <3>1. P(k + 1) /\ k \in Nat /\ k >= 1
        BY <1>1, <1>6, <2>2 DEF Answers
      <3>2. \A l \in DOMAIN queue[h] : l > 1 => l - 1 \in DOMAIN queue'[h] /\ queue'[h][l - 1] = queue[h][l]
        BY <1>6, <2>2 DEF Answers
      <3>3. ASSUME queue[h][k + 1].op = "saddRoom"
            PROVE  k + 1 \in DOMAIN queue'[h] /\ queue'[h][k + 1] = queue[h][(k + 1) + 1]
        <4>1. PICK l : l = (k + 1) + 1
          OBVIOUS
        <4>2. l \in DOMAIN queue[h] /\ l > 1 /\ l - 1 = k + 1
          BY <3>1, <3>3, <4>1
        <4>3. l - 1 \in DOMAIN queue'[h] /\ queue'[h][l - 1] = queue[h][l]
          BY <3>2, <4>2
        <4>. QED
          BY <4>1, <4>2, <4>3
      <3>4. ASSUME k > 1 PROVE queue'[h][k - 1] = queue[h][(k + 1) - 1] /\ k + 1 > 1
        <4>1. k \in DOMAIN queue[h] /\ (k + 1) - 1 = k
          BY <1>2, <2>2, <3>1
        <4>. QED
          BY <3>1, <3>2, <3>4, <4>1
      <3>. QED
        BY <2>2, <3>1, <3>3, <3>4
    <2>3. CASE /\ h = i /\ SendsMore(i) /\ k = Len(queue[i])
               /\ queue'[i][k] = Cmd("sremRoom", queue[i][1].user, queue[i][1].rooms)
      BY <2>3 DEF Cmd
    <2>4. CASE /\ h = i /\ SendsMore(i) /\ k = Len(queue[i]) + 1
               /\ queue'[i][k] = Cmd("del", queue[i][1].user, {})
      <3>1. k - 1 = Len(queue[i])
        BY <1>2, <2>4
      <3>2. queue'[i][k - 1] = Cmd("sremRoom", queue[i][1].user, queue[i][1].rooms)
        BY <1>6, <2>4, <3>1 DEF Answers
      <3>. QED
        BY <2>4, <3>2 DEF Cmd
    <2>. QED
      BY <1>6, <2>1, <2>2, <2>3, <2>4 DEF Answers
  <1>7. ASSUME NEW i \in Instances, Clears(i) PROVE Q(k)
    BY <1>3, <1>7 DEF Clears
  <1>8. ASSUME Rests PROVE Q(k)
    BY <1>3, <1>8 DEF Rests
  <1>. HIDE DEF Q
  <1>9. Q(k)
    BY <1>4, <1>5, <1>6, <1>7, <1>8, Kinds
  <1>. QED
    BY <1>9 DEF Q

-----------------------------------------------------------------------------
(* Rooms and members. *)

\* A step that does not disturb the user u, or what it is about u.
LEMMA FineBefore ==
  ASSUME Types, OneSocketEach, [Next]_vars, NEW u \in Users, Fine(u)'
  PROVE  /\ Fine(u)
         /\ u \notin raced' /\ u \notin raced /\ <<"rooms", u>> \notin hurt'
  <1>1. raced \subseteq raced' /\ hurt \subseteq hurt'
    <2>1. ASSUME NEW i \in Instances, NEW adds \in BOOLEAN, NEW cmds, SocketsTold(i, cmds, adds), Grown(i, cmds)
          PROVE  raced \subseteq raced' /\ hurt \subseteq hurt'
      BY <2>1 DEF SocketsTold, Turn, Grown
    <2>2. \A i \in Instances : \A k, cmd : Executes(i, k, cmd) => raced \subseteq raced' /\ hurt \subseteq hurt'
      BY DEF Executes
    <2>3. \A i \in Instances : Answers(i) \/ Clears(i) => raced \subseteq raced' /\ hurt \subseteq hurt'
      BY DEF Answers, Clears
    <2>4. Rests => raced \subseteq raced' /\ hurt \subseteq hurt'
      BY DEF Rests
    <2>. QED
      BY <2>1, <2>2, <2>3, <2>4, Kinds
  <1>. QED
    BY <1>1 DEF Fine

\* Additions of u to r stay followed by what takes u out again.
LEMMA AddFollowed ==
  ASSUME Types, OneSocketEach, [Next]_vars,
         NEW r \in Rooms, NEW u \in Users, NEW h \in Instances, NEW S, NEW T,
         Fine(u)', ~InRoom(r, u)', Stable(S), Stable(T),
         S \subseteq Naming(AddOps, r, u), T = RoomLosses(r, u) \/ T = UserLosses(r, u),
         ~InRoom(r, u) => Follows(h, S, T)
  PROVE  Follows(h, S, T)'
  <1>1. Fine(u) /\ u \notin raced' /\ <<"rooms", u>> \notin hurt'
    BY FineBefore
  <1>2. \A cmd \in S : cmd.user = u /\ cmd.op \notin {"sremRoom", "del"}
    BY DEF Naming, AddOps
  <1>3. \A cmd \in T : Table(cmd) = "rooms" /\ cmd.user = u
    BY ClassTables
  <1>4. ASSUME NEW i \in Instances, NEW adds \in BOOLEAN, NEW cmds, SocketsTold(i, cmds, adds), Grown(i, cmds)
        PROVE  Follows(h, S, T)'
    <2>1. cmds \in Seq(Commands) /\ executed' = executed /\ Told(i, cmds)
      BY <1>4, ToldGrown
    <2>2. ~Holds(cmds, S)
      BY <2>1 DEF Told, Holds
    <2>3. CASE ~InRoom(r, u)
      BY <1>4, <2>1, <2>2, <2>3, GrownAfter
    <2>4. CASE InRoom(r, u) /\ h = i
      <3>1. Holds(cmds, T)
        BY <2>1, <2>4 DEF Told
      <3>. QED
        BY <1>1, <1>3, <1>4, <2>1, <2>2, <2>4, <3>1, GrownNew
    <2>5. CASE InRoom(r, u) /\ h # i
      <3>1. PICK m \in DOMAIN cmds : cmds[m] \in T
        BY <2>1, <2>5 DEF Told, Holds
      <3>2. cmds[m].user = u
        BY <1>3, <3>1
      <3>3. ~About(h, u)
        BY <1>1, <1>4, <2>5, <3>2 DEF SocketsTold, Turn
      <3>4. Follows(h, S, T)
        BY <1>2, <3>3 DEF Follows, About
      <3>. QED
        BY <1>4, <2>1, <2>5, <3>4, GrownAfter
    <2>. QED
      BY <2>3, <2>4, <2>5
  <1>5. ASSUME NEW i \in Instances, NEW k, NEW cmd, Executes(i, k, cmd) PROVE Follows(h, S, T)'
    <2>1. ~InRoom(r, u)
      BY <1>5 DEF Executes, SameSockets
    <2>. QED
      BY <1>5, <2>1, ExecutesAfter
  <1>6. ASSUME NEW i \in Instances, Answers(i) PROVE Follows(h, S, T)'
    <2>1. ~InRoom(r, u)
      BY <1>6 DEF Answers, SameSockets
    <2>. QED
      BY <1>2, <1>6, <2>1, AnswersAfter
  <1>7. ASSUME NEW i \in Instances, Clears(i) PROVE Follows(h, S, T)'
    <2>1. ~InRoom(r, u)
      BY <1>1, <1>7 DEF Clears
    <2>. QED
      BY <1>7, <2>1, ClearsAfter
  <1>8. ASSUME Rests PROVE Follows(h, S, T)'
    <2>1. ~InRoom(r, u)
      BY <1>8 DEF Rests, SameSockets
    <2>. QED
      BY <1>8, <2>1, RestsAfter
  <1>. QED
    BY <1>4, <1>5, <1>6, <1>7, <1>8, Kinds

LEMMA AddCoveredKept ==
  ASSUME Types, OneSocketEach, AddCovered, [Next]_vars
  PROVE  AddCovered'
  <1>. SUFFICES ASSUME NEW r \in Rooms, NEW u \in Users, NEW h \in Instances, Fine(u)', ~InRoom(r, u)'
                PROVE  /\ Follows(h, Naming({"saddRoom"}, r, u), RoomLosses(r, u))'
                       /\ Follows(h, Naming({"saddUser"}, r, u), UserLosses(r, u))'
    BY DEF AddCovered
  <1>. DEFINE SR == Naming({"saddRoom"}, r, u)
              SU == Naming({"saddUser"}, r, u)
              TR == RoomLosses(r, u)
              TU == UserLosses(r, u)
  <1>1. Fine(u)
    BY FineBefore
  <1>2. Stable(SR) /\ Stable(SU) /\ Stable(TR) /\ Stable(TU)
    BY StableClasses
  <1>3. SR \subseteq Naming(AddOps, r, u) /\ SU \subseteq Naming(AddOps, r, u)
    BY DEF Naming, AddOps
  <1>4. ~InRoom(r, u) => Follows(h, SR, TR) /\ Follows(h, SU, TU)
    BY <1>1 DEF AddCovered
  <1>5. TR = RoomLosses(r, u) /\ TU = UserLosses(r, u)
    OBVIOUS
  <1>. HIDE DEF SR, SU, TR, TU
  <1>6. Follows(h, SR, TR)'
    BY <1>2, <1>3, <1>4, <1>5, AddFollowed
  <1>7. Follows(h, SU, TU)'
    BY <1>2, <1>3, <1>4, <1>5, AddFollowed
  <1>. QED
    BY <1>6, <1>7 DEF SR, SU, TR, TU

LEMMA MemberCoveredKept ==
  ASSUME Types, OneSocketEach, OneInstance, CleanUpOrder, AddCovered, MemberMirrored, MemberCovered,
         [Next]_vars
  PROVE  MemberCovered'
  <1>. SUFFICES ASSUME NEW r \in Rooms, NEW u \in Users, <<r, u>> \in members', Fine(u)', ~InRoom(r, u)'
                PROVE  \E j \in Instances : Ahead(j, RoomLosses(r, u))' \/ After(j, 0, Naming({"smembers"}, r, u))'
    BY DEF MemberCovered
  <1>. DEFINE R == RoomLosses(r, u)
              N == Naming({"smembers"}, r, u)
              Goal == \E j \in Instances : Ahead(j, R)' \/ After(j, 0, N)'
  <1>1. Fine(u) /\ u \notin raced /\ <<"rooms", u>> \notin hurt'
    BY FineBefore
  <1>2. <<r, u>> \in members /\ ~InRoom(r, u) => \E j \in Instances : Ahead(j, R) \/ After(j, 0, N)
    BY <1>1 DEF MemberCovered
  <1>3. /\ \A cmd \in R : Table(cmd) = "rooms" /\ cmd.user = u
        /\ \A cmd \in N : Table(cmd) = "rooms" /\ cmd.user = u
    <2>1. {"smembers"} \cap PresenceOps = {}
      BY DEF PresenceOps
    <2>. QED
      BY <2>1, ClassTables
  <1>4. Stable(R)
    BY StableClasses
  <1>5. /\ R = Of({"smembers"}, u) \cup Naming({"sremRoom"}, r, u)
        /\ N = {cmd \in Commands : cmd.op = "smembers" /\ cmd.user = u /\ r \in cmd.rooms}
    BY DEF RoomLosses, Naming
  <1>. HIDE DEF R, N
  <1>6. ASSUME NEW i \in Instances, NEW adds \in BOOLEAN, NEW cmds, SocketsTold(i, cmds, adds), Grown(i, cmds)
        PROVE  Goal
    <2>1. cmds \in Seq(Commands) /\ executed' = executed /\ Told(i, cmds) /\ members' = members
      BY <1>6, ToldGrown
    <2>2. CASE ~InRoom(r, u)
      <3>1. PICK j \in Instances : Ahead(j, R) \/ After(j, 0, N)
        BY <1>2, <2>1, <2>2
      <3>. QED
        BY <1>6, <2>1, <3>1, GrownAfter
    <2>3. CASE InRoom(r, u)
      <3>1. Holds(cmds, R)
        BY <2>1, <2>3 DEF Told, R
      <3>2. Ahead(i, R)'
        BY <1>1, <1>3, <1>6, <2>1, <3>1, GrownNew
      <3>. QED
        BY <3>2
    <2>. QED
      BY <2>2, <2>3
  <1>7. ASSUME NEW i \in Instances, NEW k, NEW cmd, Executes(i, k, cmd) PROVE Goal
    <2>1. ~InRoom(r, u)
      BY <1>7 DEF Executes, SameSockets
    <2>2. /\ cmd \in Naming({"saddRoom"}, r, u) \/ (<<r, u>> \in members /\ cmd \notin Naming({"sremRoom"}, r, u))
          /\ k \in DOMAIN queue[i] /\ cmd = queue[i][k] /\ k = executed[i] + 1
      BY <1>7 DEF Executes
    <2>3. CASE cmd \in Naming({"saddRoom"}, r, u)
      <3>1. Follows(i, Naming({"saddRoom"}, r, u), R)
        BY <1>1, <2>1 DEF AddCovered, R
      <3>2. Ahead(i, R)'
        BY <1>4, <1>7, <2>3, <3>1, ExecutesAfter
      <3>. QED
        BY <3>2
    <2>4. CASE <<r, u>> \in members /\ cmd \in Of({"smembers"}, u)
      <3>1. ~After(i, k, Of(AddOps, u))
        BY <1>1, <2>2, <2>4 DEF CleanUpOrder, Bars
      <3>2. \A l \in Instances : ~Ahead(l, Naming({"saddUser"}, r, u))
        <4>. SUFFICES ASSUME NEW l \in Instances, NEW m \in DOMAIN queue[l], m > executed[l],
                             queue[l][m] \in Naming({"saddUser"}, r, u)
                      PROVE  FALSE
          BY DEF Ahead
        <4>1. About(l, u) /\ About(i, u)
          BY <2>2, <2>4 DEF About, Naming, Of
        <4>2. l = i
          BY <1>1, <4>1 DEF OneInstance
        <4>3. m # k
          BY <2>2, <2>4, <4>2 DEF Naming, Of
        <4>4. m > k
          BY <2>2, <4>2, <4>3, QueueFacts
        <4>. QED
          BY <3>1, <4>2, <4>4 DEF After, Naming, Of, AddOps
      <3>3. <<u, r>> \in userRooms
        BY <1>1, <2>4, <3>2 DEF MemberMirrored
      <3>4. queue'[i][k] \in N
        <4>1. queue'[i][k] \in Commands /\ queue'[i][k].op = "smembers" /\ queue'[i][k].user = u
          BY <1>7, <2>2, <2>4 DEF Executes, Of
        <4>2. r \in queue'[i][k].rooms
          BY <1>7, <2>4, <3>3 DEF Executes, Of
        <4>. QED
          BY <1>5, <4>1, <4>2
      <3>5. k \in DOMAIN queue'[i] /\ k > 0
        BY <1>7, <2>2, QueueFacts DEF Executes
      <3>. QED
        BY <3>4, <3>5 DEF After
    <2>5. CASE /\ <<r, u>> \in members
               /\ cmd \notin Of({"smembers"}, u) \cup Naming({"sremRoom"}, r, u)
      <3>1. PICK j \in Instances : Ahead(j, R) \/ After(j, 0, N)
        BY <1>2, <2>1, <2>5
      <3>2. CASE Ahead(j, R)
        BY <1>4, <1>5, <1>7, <2>5, <3>2, ExecutesAfter
      <3>3. CASE After(j, 0, N)
        <4>1. PICK l \in DOMAIN queue[j] : l > 0 /\ queue[j][l] \in N
          BY <3>3 DEF After
        <4>2. j # i \/ l # k
          BY <1>5, <2>2, <2>5, <4>1 DEF Of
        <4>3. l \in DOMAIN queue'[j] /\ queue'[j][l] = queue[j][l]
          BY <1>7, <4>2 DEF Executes
        <4>. QED
          BY <4>1, <4>3 DEF After
      <3>. QED
        BY <3>1, <3>2, <3>3
    <2>. QED
      BY <2>2, <2>3, <2>4, <2>5
  <1>8. ASSUME NEW i \in Instances, Answers(i) PROVE Goal
    <2>1. ~InRoom(r, u) /\ <<r, u>> \in members
      BY <1>8 DEF Answers, SameSockets, redisVars
    <2>2. PICK j \in Instances : Ahead(j, R) \/ After(j, 0, N)
      BY <1>2, <2>1
    <2>3. CASE Ahead(j, R) \/ j # i
      BY <1>8, <2>2, <2>3, AnswersAfter
    <2>4. CASE j = i /\ After(i, 0, N)
      <3>1. CASE queue[i][1] \notin N
        BY <1>8, <2>4, <3>1, AnswersAfter
      <3>2. CASE queue[i][1] \in N
        <4>1. queue[i][1].op = "smembers" /\ queue[i][1].user = u /\ r \in queue[i][1].rooms /\ queue[i][1].rooms \subseteq Rooms
          BY <1>5, <3>2, CommandFacts
        <4>2. SendsMore(i)
          BY <1>1, <1>8, <4>1 DEF Answers
        <4>3. Cmd("sremRoom", u, queue[i][1].rooms) \in R
          BY <1>5, <4>1, CommandFacts DEF Naming, Cmd
        <4>4. Len(queue[i]) \in DOMAIN queue'[i] /\ queue'[i][Len(queue[i])] \in R
          BY <1>8, <4>1, <4>2, <4>3 DEF Answers
        <4>5. Len(queue[i]) > executed'[i]
          <5>1. executed'[i] = executed[i] - 1
            BY <1>8 DEF Answers
          <5>. QED
            BY <5>1, QueueFacts
        <4>. QED
          BY <4>4, <4>5 DEF Ahead
      <3>. QED
        BY <3>1, <3>2
    <2>. QED
      BY <2>2, <2>3, <2>4
  <1>9. ASSUME NEW i \in Instances, Clears(i) PROVE Goal
    <2>1. ~InRoom(r, u) /\ <<r, u>> \in members
      BY <1>1, <1>9 DEF Clears, redisVars
    <2>2. PICK j \in Instances : Ahead(j, R) \/ After(j, 0, N)
      BY <1>2, <2>1
    <2>3. j # i
      BY <1>1, <1>3, <1>9, <2>2, ClearsAfter
    <2>. QED
      BY <1>9, <2>2, <2>3, ClearsAfter
  <1>10. ASSUME Rests PROVE Goal
    <2>1. ~InRoom(r, u) /\ <<r, u>> \in members
      BY <1>10 DEF Rests, SameSockets, redisVars
    <2>2. PICK j \in Instances : Ahead(j, R) \/ After(j, 0, N)
      BY <1>2, <2>1
    <2>. QED
      BY <1>10, <2>2, RestsAfter
  <1>. HIDE DEF Goal
  <1>11. Goal
    BY <1>6, <1>7, <1>8, <1>9, <1>10, Kinds
  <1>. QED
    BY <1>11 DEF Goal, R, N

LEMMA MemberMirroredKept ==
  ASSUME Types, OneSocketEach, Paired, UserLast, MemberMirrored, [Next]_vars
  PROVE  MemberMirrored'
  <1>. SUFFICES ASSUME NEW r \in Rooms, NEW u \in Users, <<r, u>> \in members', Fine(u)'
                PROVE  <<u, r>> \in userRooms' \/ \E j \in Instances : Ahead(j, Naming({"saddUser"}, r, u))'
    BY DEF MemberMirrored
  <1>. DEFINE A == Naming({"saddUser"}, r, u)
              Goal == <<u, r>> \in userRooms' \/ \E j \in Instances : Ahead(j, A)'
  <1>1. Fine(u) /\ <<"rooms", u>> \notin hurt'
    BY FineBefore
  <1>2. <<r, u>> \in members => <<u, r>> \in userRooms \/ \E j \in Instances : Ahead(j, A)
    BY <1>1 DEF MemberMirrored
  <1>3. \A cmd \in A : Table(cmd) = "rooms" /\ cmd.user = u
    <2>1. {"saddUser"} \cap PresenceOps = {}
      BY DEF PresenceOps
    <2>. QED
      BY <2>1, ClassTables
  <1>4. Stable(A)
    BY StableClasses
  <1>5. A = {cmd \in Commands : cmd.op = "saddUser" /\ cmd.user = u /\ r \in cmd.rooms}
    BY DEF Naming
  <1>. HIDE DEF A
  <1>6. ASSUME NEW i \in Instances, NEW adds \in BOOLEAN, NEW cmds, SocketsTold(i, cmds, adds), Grown(i, cmds)
        PROVE  Goal
    <2>1. cmds \in Seq(Commands) /\ executed' = executed /\ members' = members /\ userRooms' = userRooms
      BY <1>6, ToldGrown
    <2>. QED
      BY <1>2, <1>6, <2>1, GrownAfter
  <1>7. ASSUME NEW i \in Instances, NEW k, NEW cmd, Executes(i, k, cmd) PROVE Goal
    <2>1. /\ cmd \in Naming({"saddRoom"}, r, u) \/ <<r, u>> \in members
          /\ k \in DOMAIN queue[i] /\ cmd = queue[i][k] /\ k = executed[i] + 1
      BY <1>7 DEF Executes
    <2>2. CASE cmd \in Naming({"saddRoom"}, r, u)
      <3>1. k + 1 \in DOMAIN queue[i] /\ queue[i][k + 1] \in A
        <4>1. k + 1 \in DOMAIN queue[i] /\ queue[i][k + 1].op = "saddUser"
              /\ queue[i][k + 1].user = u /\ r \in queue[i][k + 1].rooms
          BY <2>1, <2>2 DEF Paired, Naming
        <4>. QED
          BY <1>5, <4>1, QueueFacts
      <3>2. k + 1 > k
        BY <2>1, QueueFacts
      <3>3. After(i, k, A)
        BY <3>1, <3>2 DEF After
      <3>. QED
        BY <1>4, <1>7, <3>3, ExecutesAfter
    <2>3. CASE <<r, u>> \in members /\ <<u, r>> \in userRooms
      <3>1. CASE cmd \notin Of({"del"}, u) \cup Naming({"sremUser"}, r, u)
        BY <1>7, <2>3, <3>1 DEF Executes
      <3>2. CASE cmd \in Of({"del"}, u) \cup Naming({"sremUser"}, r, u)
        <4>1. /\ cmd.op \in {"sremUser", "del"} /\ cmd.user = u
              /\ cmd.op = "sremUser" => r \in cmd.rooms
              /\ k <= executed[i] + 1
          BY <2>1, <3>2, QueueFacts DEF Of, Naming
        <4>2. After(i, k, A)
          BY <1>1, <2>1, <2>3, <4>1 DEF UserLast, A
        <4>. QED
          BY <1>4, <1>7, <4>2, ExecutesAfter
      <3>. QED
        BY <3>1, <3>2
    <2>4. CASE <<r, u>> \in members /\ <<u, r>> \notin userRooms
      <3>1. PICK j \in Instances : Ahead(j, A)
        BY <1>2, <2>4
      <3>2. CASE j = i /\ cmd \in A
        BY <1>7, <3>2 DEF Executes, A
      <3>3. CASE ~(j = i /\ cmd \in A)
        BY <1>4, <1>7, <3>1, <3>3, ExecutesAfter
      <3>. QED
        BY <3>2, <3>3
    <2>. QED
      BY <2>1, <2>2, <2>3, <2>4
  <1>8. ASSUME NEW i \in Instances, Answers(i) PROVE Goal
    <2>1. members' = members /\ userRooms' = userRooms
      BY <1>8 DEF Answers, redisVars
    <2>. QED
      BY <1>2, <1>8, <2>1, AnswersAfter
  <1>9. ASSUME NEW i \in Instances, Clears(i) PROVE Goal
    <2>1. members' = members /\ userRooms' = userRooms
      BY <1>9 DEF Clears, redisVars
    <2>2. ~Ahead(i, A)
      BY <1>1, <1>3, <1>9, ClearsAfter
    <2>. QED
      BY <1>2, <1>9, <2>1, <2>2, ClearsAfter
  <1>10. ASSUME Rests PROVE Goal
    <2>1. members' = members /\ userRooms' = userRooms
      BY <1>10 DEF Rests, redisVars
    <2>. QED
      BY <1>2, <1>10, <2>1, RestsAfter
  <1>. HIDE DEF Goal
  <1>11. Goal
    BY <1>6, <1>7, <1>8, <1>9, <1>10, Kinds
  <1>. QED
    BY <1>11 DEF Goal, A

LEMMA FoundAllKept ==
  ASSUME Types, OneSocketEach, OneInstance, CleanUpOrder, FoundAll, [Next]_vars
  PROVE  FoundAll'
  <1>. SUFFICES ASSUME NEW h \in Instances, NEW k \in DOMAIN queue'[h],
                       NEW u, u = queue'[h][k].user, queue'[h][k].op = "smembers", k <= executed'[h],
                       Fine(u)', NEW r \in Rooms, <<u, r>> \in userRooms'
                PROVE  r \in queue'[h][k].rooms
    BY DEF FoundAll
  <1>0. u \in Users
    BY Kinds DEF Types, RedisTypeOK
  <1>1. Fine(u) /\ u \notin raced
    BY <1>0, FineBefore
  <1>2. \A l \in DOMAIN queue[h] :
          queue[h][l].op = "smembers" /\ l <= executed[h] /\ queue[h][l].user = u /\ <<u, r>> \in userRooms
            => r \in queue[h][l].rooms
    BY <1>1 DEF FoundAll
  <1>3. /\ DOMAIN queue[h] = 1 .. Len(queue[h]) /\ Len(queue[h]) \in Nat
        /\ executed[h] \in Nat /\ executed[h] <= Len(queue[h])
    BY QueueFacts
  <1>4. ASSUME NEW i \in Instances, NEW adds \in BOOLEAN, NEW cmds, SocketsTold(i, cmds, adds), Grown(i, cmds)
        PROVE  r \in queue'[h][k].rooms
    <2>1. executed' = executed /\ userRooms' = userRooms
      BY <1>4, ToldGrown
    <2>2. CASE k \in DOMAIN queue[h]
      <3>1. queue'[h][k] = queue[h][k]
        BY <1>4, <2>2 DEF Grown
      <3>. QED
        BY <1>2, <2>1, <2>2, <3>1
    <2>3. CASE k \notin DOMAIN queue[h]
      <3>1. PICK m \in DOMAIN cmds : k = Len(queue[h]) + m
        BY <1>4, <2>3 DEF Grown
      <3>2. m \in Nat /\ m >= 1
        BY <1>4, ToldGrown
      <3>. QED
        BY <1>3, <2>1, <3>1, <3>2
    <2>. QED
      BY <2>2, <2>3
  <1>5. ASSUME NEW i \in Instances, NEW n, NEW cmd, Executes(i, n, cmd) PROVE r \in queue'[h][k].rooms
    <2>1. /\ k \in DOMAIN queue[h] /\ queue[h][k].op = "smembers" /\ queue[h][k].user = u
          /\ queue[h][k] \in Commands
      BY <1>5, QueueFacts DEF Executes
    <2>2. /\ cmd \in Naming({"saddUser"}, r, u) \/ <<u, r>> \in userRooms
          /\ n \in DOMAIN queue[i] /\ cmd = queue[i][n] /\ n = executed[i] + 1 /\ executed'[i] = n
          /\ h # i => executed'[h] = executed[h]
      BY <1>0, <1>5 DEF Executes
    <2>3. CASE h = i /\ k = n
      <3>1. cmd.op = "smembers" /\ cmd.user = u
        BY <2>1, <2>2, <2>3
      <3>2. <<u, r>> \in userRooms
        BY <2>2, <3>1 DEF Naming
      <3>. QED
        BY <1>5, <2>3, <3>1, <3>2 DEF Executes
    <2>4. CASE ~(h = i /\ k = n)
      <3>1. queue'[h][k] = queue[h][k]
        BY <1>5, <2>1, <2>4 DEF Executes
      <3>2. k <= executed[h]
        BY <1>3, <2>1, <2>2, <2>4
      <3>3. CASE <<u, r>> \in userRooms
        BY <1>2, <2>1, <3>1, <3>2, <3>3
      <3>4. CASE cmd \in Naming({"saddUser"}, r, u)
        <4>1. About(i, u) /\ About(h, u)
          BY <2>1, <2>2, <3>4 DEF About, Naming
        <4>2. h = i
          BY <1>0, <1>1, <4>1 DEF OneInstance
        <4>3. n > k
          BY <1>3, <2>1, <2>2, <3>2, <4>2
        <4>4. queue[i][n] \in Of(AddOps, u) /\ queue[i][k] \in Of({"smembers"}, u)
          BY <2>1, <2>2, <3>4, <4>2 DEF Naming, Of, AddOps
        <4>5. Bars(i, Of({"smembers"}, u), Of(AddOps, u))
          BY <1>0, <1>1 DEF CleanUpOrder
        <4>. QED
          BY <2>1, <2>2, <4>2, <4>3, <4>4, <4>5 DEF Bars, After
      <3>. QED
        BY <2>2, <3>3, <3>4
    <2>. QED
      BY <2>3, <2>4
  <1>6. ASSUME NEW i \in Instances, Answers(i) PROVE r \in queue'[h][k].rooms
    <2>1. userRooms' = userRooms
      BY <1>6 DEF Answers, redisVars
    <2>2. CASE h # i
      <3>1. queue'[h] = queue[h] /\ executed'[h] = executed[h]
        BY <1>6, <2>2 DEF Answers
      <3>. QED
        BY <1>2, <2>1, <3>1
    <2>3. CASE h = i
      <3>1. k + 1 \in DOMAIN queue[i] /\ queue'[i][k] = queue[i][k + 1]
        BY <1>6, <2>3 DEF Answers, Cmd
      <3>2. k \in Nat /\ executed'[i] = executed[i] - 1
        BY <1>6, <2>3 DEF Answers
      <3>3. k + 1 <= executed[i]
        BY <1>3, <2>3, <3>2
      <3>. QED
        BY <1>2, <2>1, <2>3, <3>1, <3>3
    <2>. QED
      BY <2>2, <2>3
  <1>7. ASSUME NEW i \in Instances, Clears(i) PROVE r \in queue'[h][k].rooms
    <2>1. userRooms' = userRooms /\ queue'[h] = queue[h] /\ executed'[h] = executed[h]
      BY <1>7 DEF Clears, redisVars
    <2>. QED
      BY <1>2, <2>1
  <1>8. ASSUME Rests PROVE r \in queue'[h][k].rooms
    <2>1. userRooms' = userRooms /\ queue' = queue /\ (executed'[h] = executed[h] \/ executed'[h] = 0)
      BY <1>8 DEF Rests, redisVars
    <2>2. k \in Nat /\ k >= 1
      BY <1>3, <2>1
    <2>3. k <= executed[h]
      BY <1>3, <2>1, <2>2
    <2>. QED
      BY <1>2, <2>1, <2>3
  <1>. QED
    BY <1>4, <1>5, <1>6, <1>7, <1>8, Kinds

LEMMA DelFollowsKept ==
  ASSUME Types, OneSocketEach, OneInstance, CleanUpOrder, Paired, FoundAll, DelFollows, [Next]_vars
  PROVE  DelFollows'
  <1>. SUFFICES ASSUME NEW h \in Instances, NEW k \in DOMAIN queue'[h],
                       NEW u, u = queue'[h][k].user, queue'[h][k].op = "del", k > 1,
                       Fine(u)', NEW r \in Rooms, <<u, r>> \in userRooms'
                PROVE  r \in queue'[h][k - 1].rooms \/ After(h, k, Naming({"saddUser"}, r, u))'
    BY DEF DelFollows
  <1>. DEFINE A == Naming({"saddUser"}, r, u)
              Goal == r \in queue'[h][k - 1].rooms \/ After(h, k, A)'
  <1>0. u \in Users
    BY Kinds DEF Types, RedisTypeOK
  <1>1. Fine(u) /\ u \notin raced
    BY <1>0, FineBefore
  <1>2. \A l \in DOMAIN queue[h] :
          queue[h][l].op = "del" /\ l > 1 /\ queue[h][l].user = u /\ <<u, r>> \in userRooms
            => r \in queue[h][l - 1].rooms \/ After(h, l, A)
    BY <1>1 DEF DelFollows
  <1>3. /\ DOMAIN queue[h] = 1 .. Len(queue[h]) /\ Len(queue[h]) \in Nat
        /\ executed[h] \in Nat /\ executed[h] <= Len(queue[h])
        /\ \A l \in DOMAIN queue[h] : l > 1 => l - 1 \in DOMAIN queue[h]
    BY QueueFacts
  <1>4. Stable(A)
    BY StableClasses
  <1>5. A = {cmd \in Commands : cmd.op = "saddUser" /\ cmd.user = u /\ r \in cmd.rooms}
    BY DEF Naming
  <1>. HIDE DEF A
  <1>6. ASSUME NEW i \in Instances, NEW adds \in BOOLEAN, NEW cmds, SocketsTold(i, cmds, adds), Grown(i, cmds)
        PROVE  Goal
    <2>1. cmds \in Seq(Commands) /\ executed' = executed /\ userRooms' = userRooms
      BY <1>6, ToldGrown
    <2>2. \A m \in DOMAIN cmds : cmds[m].op # "del"
      BY <1>6 DEF SocketsTold, Turn, Arrivals, Departures
    <2>3. k \in DOMAIN queue[h] /\ queue'[h][k] = queue[h][k]
      BY <1>6, <2>2 DEF Grown
    <2>4. queue'[h][k - 1] = queue[h][k - 1]
      <3>1. k - 1 \in DOMAIN queue[h]
        BY <1>3, <2>3
      <3>. QED
        BY <1>6, <3>1 DEF Grown
    <2>. QED
      BY <1>2, <1>6, <2>1, <2>3, <2>4, GrownAfter
  <1>7. ASSUME NEW i \in Instances, NEW n, NEW cmd, Executes(i, n, cmd) PROVE Goal
    <2>1. k \in DOMAIN queue[h] /\ queue[h][k].op = "del" /\ queue[h][k].user = u /\ queue[h][k] \in Commands
      BY <1>7, QueueFacts DEF Executes
    <2>2. queue'[h][k - 1] = queue[h][k - 1]
      <3>1. k - 1 \in DOMAIN queue[h] /\ queue[h][k - 1].op # "smembers"
        BY <1>3, <2>1 DEF Paired
      <3>. QED
        BY <1>7, <3>1 DEF Executes
    <2>3. /\ cmd \in A \/ <<u, r>> \in userRooms
          /\ n \in DOMAIN queue[i] /\ cmd = queue[i][n]
      BY <1>0, <1>7 DEF Executes, A
    <2>4. CASE <<u, r>> \in userRooms
      <3>1. r \in queue[h][k - 1].rooms \/ After(h, k, A)
        BY <1>2, <2>1, <2>4
      <3>. QED
        BY <1>4, <1>7, <2>2, <3>1, ExecutesAfter
    <2>5. CASE cmd \in A
      <3>1. About(i, u) /\ About(h, u)
        BY <1>5, <2>1, <2>3, <2>5 DEF About
      <3>2. h = i
        BY <1>0, <1>1, <3>1 DEF OneInstance
      <3>3. n # k
        BY <1>5, <2>1, <2>3, <2>5, <3>2
      <3>4. ~(k > n)
        <4>1. queue[i][n] \in Of(AddOps, u) /\ queue[i][k] \in Of({"del"}, u)
          BY <1>5, <2>1, <2>3, <2>5, <3>2 DEF Of, AddOps
        <4>2. Bars(i, Of(AddOps, u), Of({"del"}, u))
          BY <1>0, <1>1 DEF CleanUpOrder
        <4>. QED
          BY <2>1, <2>3, <3>2, <4>1, <4>2 DEF Bars, After
      <3>5. n > k
        BY <1>3, <2>1, <2>3, <3>2, <3>3, <3>4
      <3>6. After(h, k, A)
        BY <2>3, <2>5, <3>2, <3>5 DEF After
      <3>. QED
        BY <1>4, <1>7, <3>6, ExecutesAfter
    <2>. QED
      BY <2>3, <2>4, <2>5
  <1>8. ASSUME NEW i \in Instances, Answers(i) PROVE Goal
    <2>1. userRooms' = userRooms
      BY <1>8 DEF Answers, redisVars
    <2>2. CASE h # i
      <3>1. queue'[h] = queue[h]
        BY <1>8, <2>2 DEF Answers
      <3>2. After(h, k, A) => After(h, k, A)'
        BY <1>8, <2>2, AnswersAfter
      <3>. QED
        BY <1>2, <2>1, <3>1, <3>2
    <2>3. CASE h = i /\ k + 1 \in DOMAIN queue[i] /\ queue'[i][k] = queue[i][k + 1]
      <3>1. k \in Nat /\ k + 1 > 1 /\ (k + 1) - 1 = k /\ k \in DOMAIN queue[i]
        BY <1>3, <1>8, <2>3 DEF Answers
      <3>2. queue'[i][k - 1] = queue[i][k]
        BY <1>8, <3>1 DEF Answers
      <3>3. r \in queue[i][k].rooms \/ After(i, k + 1, A)
        BY <1>2, <2>1, <2>3, <3>1
      <3>4. After(i, k + 1, A) => After(i, k, A)'
        BY <1>8, <3>1, AnswersAfter
      <3>. QED
        BY <2>3, <3>2, <3>3, <3>4
    <2>4. CASE /\ h = i /\ SendsMore(i) /\ k = Len(queue[i]) + 1
               /\ queue'[i][k] = Cmd("del", queue[i][1].user, {})
      <3>1. k - 1 = Len(queue[i])
        BY <1>3, <2>4
      <3>2. queue'[i][k - 1].rooms = queue[i][1].rooms
        BY <1>8, <2>4, <3>1 DEF Answers, Cmd
      <3>3. /\ queue[i][1].op = "smembers" /\ queue[i][1].user = u
            /\ 1 \in DOMAIN queue[i] /\ 1 <= executed[i]
        BY <1>3, <1>8, <2>4 DEF SendsMore, Answers, Cmd
      <3>4. r \in queue[i][1].rooms
        BY <1>1, <2>1, <3>3 DEF FoundAll
      <3>. QED
        BY <2>4, <3>2, <3>4
    <2>5. CASE /\ h = i /\ queue'[i][k] = Cmd("sremRoom", queue[i][1].user, queue[i][1].rooms)
      BY <2>5 DEF Cmd
    <2>. QED
      BY <1>8, <2>2, <2>3, <2>4, <2>5 DEF Answers
  <1>9. ASSUME NEW i \in Instances, Clears(i) PROVE Goal
    <2>1. userRooms' = userRooms /\ queue'[h] = queue[h] /\ h # i
      BY <1>9 DEF Clears, redisVars
    <2>. QED
      BY <1>2, <1>9, <2>1, ClearsAfter
  <1>10. ASSUME Rests PROVE Goal
    <2>1. userRooms' = userRooms /\ queue' = queue
      BY <1>10 DEF Rests, redisVars
    <2>. QED
      BY <1>2, <1>10, <2>1, RestsAfter
  <1>. HIDE DEF Goal
  <1>11. Goal
    BY <1>6, <1>7, <1>8, <1>9, <1>10, Kinds
  <1>. QED
    BY <1>11 DEF Goal, A

LEMMA UserLastKept ==
  ASSUME Types, OneSocketEach, OneInstance, Paired, DelFollows, UserLast, [Next]_vars
  PROVE  UserLast'
  <1>. SUFFICES ASSUME NEW h \in Instances, NEW k \in DOMAIN queue'[h],
                       NEW u, u = queue'[h][k].user, queue'[h][k].op \in {"sremUser", "del"},
                       k <= executed'[h] + 1 \/ k = 1, Fine(u)',
                       NEW r \in Rooms, queue'[h][k].op = "sremUser" => r \in queue'[h][k].rooms,
                       <<u, r>> \in userRooms', <<r, u>> \in members'
                PROVE  After(h, k, Naming({"saddUser"}, r, u))'
    BY DEF UserLast
  <1>. DEFINE A == Naming({"saddUser"}, r, u)
              Goal == After(h, k, A)'
  <1>0. u \in Users
    BY Kinds DEF Types, RedisTypeOK
  <1>1. Fine(u) /\ u \notin raced
    BY <1>0, FineBefore
  <1>2. ASSUME NEW l \in DOMAIN queue[h], queue[h][l].op \in {"sremUser", "del"}, queue[h][l].user = u,
               l <= executed[h] + 1 \/ l = 1, queue[h][l].op = "sremUser" => r \in queue[h][l].rooms,
               <<u, r>> \in userRooms, <<r, u>> \in members
        PROVE  After(h, l, A)
    BY <1>1, <1>2 DEF UserLast
  <1>3. /\ DOMAIN queue[h] = 1 .. Len(queue[h]) /\ Len(queue[h]) \in Nat
        /\ executed[h] \in Nat /\ executed[h] <= Len(queue[h])
        /\ \A l \in DOMAIN queue[h] : l > 1 => l - 1 \in DOMAIN queue[h]
    BY QueueFacts
  <1>4. Stable(A)
    BY StableClasses
  <1>5. A = {cmd \in Commands : cmd.op = "saddUser" /\ cmd.user = u /\ r \in cmd.rooms}
    BY DEF Naming
  <1>. HIDE DEF A
  <1>6. ASSUME NEW i \in Instances, NEW adds \in BOOLEAN, NEW cmds, SocketsTold(i, cmds, adds), Grown(i, cmds)
        PROVE  Goal
    <2>1. cmds \in Seq(Commands) /\ executed' = executed /\ userRooms' = userRooms /\ members' = members
      BY <1>6, ToldGrown
    <2>2. k \in DOMAIN queue[h] /\ queue'[h][k] = queue[h][k]
      <3>. SUFFICES ASSUME k \notin DOMAIN queue[h] PROVE FALSE
        BY <1>6 DEF Grown
      <3>1. PICK m \in DOMAIN cmds : k = Len(queue[h]) + m /\ queue'[h][k] = cmds[m]
        BY <1>6 DEF Grown
      <3>2. m - 1 \in DOMAIN cmds
        BY <1>6, <3>1 DEF SocketsTold, Turn, Pairs
      <3>3. m \in Nat /\ m - 1 >= 1
        BY <2>1, <3>2
      <3>. QED
        BY <1>3, <2>1, <3>1, <3>3
    <2>3. After(h, k, A)
      BY <1>2, <2>1, <2>2
    <2>. QED
      BY <1>6, <2>1, <2>3, GrownAfter
  <1>7. ASSUME NEW i \in Instances, NEW n, NEW cmd, Executes(i, n, cmd) PROVE Goal
    <2>1. /\ k \in DOMAIN queue[h] /\ queue[h][k].op \in {"sremUser", "del"} /\ queue[h][k].user = u
          /\ queue'[h][k] = queue[h][k]
      BY <1>7 DEF Executes
    <2>2. /\ cmd \in A \/ <<u, r>> \in userRooms
          /\ cmd \in Naming({"saddRoom"}, r, u) \/ (<<r, u>> \in members /\ cmd \notin Naming({"sremRoom"}, r, u))
          /\ n \in DOMAIN queue[i] /\ cmd = queue[i][n] /\ n = executed[i] + 1 /\ executed'[i] = n
          /\ h # i => executed'[h] = executed[h]
      BY <1>0, <1>7 DEF Executes, A
    <2>. SUFFICES ASSUME ~After(h, k, A) PROVE FALSE
      BY <1>4, <1>7, ExecutesAfter
    <2>3. ASSUME k <= executed[h] + 1 \/ k = 1, h # i \/ k <= n PROVE FALSE
      <3>1. ~(<<u, r>> \in userRooms /\ <<r, u>> \in members)
        BY <1>2, <2>1, <2>3
      <3>2. cmd \in A \/ cmd \in Naming({"saddRoom"}, r, u)
        BY <2>2, <3>1
      <3>3. About(i, u) /\ About(h, u)
        BY <1>5, <2>1, <2>2, <3>2 DEF About, Naming
      <3>4. h = i
        BY <1>0, <1>1, <3>3 DEF OneInstance
      <3>5. n > k
        <4>1. n # k
          BY <1>5, <2>1, <2>2, <3>2, <3>4 DEF Naming
        <4>. QED
          BY <1>3, <2>1, <2>2, <2>3, <3>4, <4>1
      <3>6. CASE cmd \in A
        BY <2>2, <3>4, <3>5, <3>6 DEF After
      <3>7. CASE cmd \in Naming({"saddRoom"}, r, u)
        <4>1. n + 1 \in DOMAIN queue[i] /\ queue[i][n + 1] \in A
          <5>1. n + 1 \in DOMAIN queue[i] /\ queue[i][n + 1].op = "saddUser"
                /\ queue[i][n + 1].user = u /\ r \in queue[i][n + 1].rooms
            BY <2>2, <3>7 DEF Paired, Naming
          <5>. QED
            BY <1>5, <5>1, QueueFacts
        <4>2. n + 1 > k
          BY <1>3, <2>1, <2>2, <3>4, <3>5
        <4>. QED
          BY <3>4, <4>1, <4>2 DEF After
      <3>. QED
        BY <3>2, <3>6, <3>7
    <2>4. CASE h # i
      BY <2>2, <2>3, <2>4
    <2>5. CASE h = i /\ (k <= n \/ k = 1)
      <3>1. k <= n
        BY <1>3, <2>2, <2>5
      <3>. QED
        BY <2>2, <2>3, <2>5, <3>1
    <2>6. CASE h = i /\ k = n + 1
      <3>1. k > 1 /\ k - 1 = n
        BY <1>3, <2>2, <2>6
      <3>2. /\ cmd.op = "sremRoom" /\ cmd.user = u
            /\ queue[h][k].op = "sremUser" => cmd.rooms = queue[h][k].rooms
        <4>1. /\ queue[h][k - 1].op = "sremRoom" /\ queue[h][k - 1].user = queue[h][k].user
              /\ queue[h][k].op = "sremUser" => queue[h][k - 1].rooms = queue[h][k].rooms
          BY <2>1, <3>1 DEF Paired
        <4>2. cmd = queue[h][k - 1]
          BY <2>2, <2>6, <3>1
        <4>. QED
          BY <2>1, <4>1, <4>2
      <3>3. <<u, r>> \in userRooms /\ r \notin cmd.rooms
        <4>1. cmd \in Commands
          BY <1>7 DEF Executes
        <4>2. cmd \notin A /\ cmd \notin Naming({"saddRoom"}, r, u)
          BY <1>5, <3>2 DEF Naming
        <4>. QED
          BY <2>2, <3>2, <4>1, <4>2 DEF Naming
      <3>4. queue[h][k].op = "del"
        BY <2>1, <3>2, <3>3
      <3>5. r \in queue[h][k - 1].rooms \/ After(h, k, A)
        BY <1>1, <2>1, <3>1, <3>3, <3>4 DEF DelFollows, A
      <3>. QED
        BY <2>2, <2>6, <3>1, <3>3, <3>5
    <2>7. h = i => k <= n \/ k = 1 \/ k = n + 1
      BY <1>3, <2>1, <2>2
    <2>. QED
      BY <2>4, <2>5, <2>6, <2>7
  <1>8. ASSUME NEW i \in Instances, Answers(i) PROVE Goal
    <2>1. userRooms' = userRooms /\ members' = members
      BY <1>8 DEF Answers, redisVars
    <2>2. CASE h # i
      <3>1. queue'[h] = queue[h] /\ executed'[h] = executed[h]
        BY <1>8, <2>2 DEF Answers
      <3>2. After(h, k, A)
        BY <1>2, <2>1, <3>1
      <3>. QED
        BY <1>8, <2>2, <3>2, AnswersAfter
    <2>3. CASE h = i /\ k + 1 \in DOMAIN queue[i] /\ queue'[i][k] = queue[i][k + 1]
      <3>1. k \in Nat /\ executed[i] >= 1 /\ executed'[i] = executed[i] - 1
        BY <1>8, <2>3 DEF Answers
      <3>2. k + 1 <= executed[i] + 1
        BY <1>3, <2>3, <3>1
      <3>3. After(i, k + 1, A)
        BY <1>2, <2>1, <2>3, <3>2
      <3>. QED
        BY <1>8, <2>3, <3>1, <3>3, AnswersAfter
    <2>4. CASE h = i /\ k = Len(queue[i]) + 1
      <3>1. executed[i] >= 1 /\ executed'[i] = executed[i] - 1
        BY <1>8 DEF Answers
      <3>. QED
        BY <1>3, <2>4, <3>1
    <2>5. CASE /\ h = i /\ queue'[i][k] = Cmd("sremRoom", queue[i][1].user, queue[i][1].rooms)
      BY <2>5 DEF Cmd
    <2>. QED
      BY <1>8, <2>2, <2>3, <2>4, <2>5 DEF Answers
  <1>9. ASSUME NEW i \in Instances, Clears(i) PROVE Goal
    <2>1. /\ userRooms' = userRooms /\ members' = members /\ queue'[h] = queue[h]
          /\ executed'[h] = executed[h] /\ h # i
      BY <1>9 DEF Clears, redisVars
    <2>2. After(h, k, A)
      BY <1>2, <2>1
    <2>. QED
      BY <1>9, <2>1, <2>2, ClearsAfter
  <1>10. ASSUME Rests PROVE Goal
    <2>1. /\ userRooms' = userRooms /\ members' = members /\ queue' = queue
          /\ executed'[h] = executed[h] \/ executed'[h] = 0
      BY <1>10 DEF Rests, redisVars
    <2>2. k <= executed[h] + 1 \/ k = 1
      BY <1>3, <2>1
    <2>3. After(h, k, A)
      BY <1>2, <2>1, <2>2
    <2>. QED
      BY <1>10, <2>3, RestsAfter
  <1>. HIDE DEF Goal
  <1>11. Goal
    BY <1>6, <1>7, <1>8, <1>9, <1>10, Kinds
  <1>. QED
    BY <1>11 DEF Goal, A

-----------------------------------------------------------------------------
(* Users whose sockets follow each other. *)

\* A user with one socket had no other, and raced no clean-up.
LEMMA SingleBefore ==
  ASSUME Types, OneSocketEach, [Next]_vars, NEW u \in Users, Single(u)', OpenOf(u)' # {}
  PROVE  Single(u) /\ u \notin raced' /\ u \notin shared'
  <1>0. u \notin raced' /\ u \notin shared'
    BY DEF Single
  <1>1. ASSUME NEW i \in Instances, NEW adds \in BOOLEAN, NEW cmds, SocketsTold(i, cmds, adds), Grown(i, cmds)
        PROVE  u \notin raced /\ u \notin shared
    BY <1>0, <1>1 DEF SocketsTold, Turn, ToldLast
  <1>2. ASSUME NEW i \in Instances, NEW k, NEW cmd, Executes(i, k, cmd)
        PROVE  u \notin raced /\ u \notin shared
    BY <1>0, <1>2 DEF Executes
  <1>3. ASSUME NEW i \in Instances, Answers(i) PROVE u \notin raced /\ u \notin shared
    BY <1>0, <1>3 DEF Answers
  <1>4. ASSUME NEW i \in Instances, Clears(i) PROVE u \notin raced /\ u \notin shared
    BY <1>0, <1>4 DEF Clears
  <1>5. ASSUME Rests PROVE u \notin raced /\ u \notin shared
    BY <1>0, <1>5 DEF Rests
  <1>. QED
    BY <1>0, <1>1, <1>2, <1>3, <1>4, <1>5, Kinds DEF Single

LEMMA NoneReadsKept ==
  ASSUME Types, OneSocketEach, NoneReads, [Next]_vars
  PROVE  NoneReads'
  <1>. SUFFICES ASSUME NEW u \in Users, Single(u)', OpenOf(u)' # {}, NEW h \in Instances
                PROVE  ~After(h, 0, Of({"smembers"}, u))'
    BY DEF NoneReads
  <1>. DEFINE R == Of({"smembers"}, u)
  <1>1. Single(u) /\ u \notin raced' /\ u \notin shared'
    BY SingleBefore
  <1>2. OpenOf(u) # {} => ~After(h, 0, R)
    BY <1>1 DEF NoneReads
  <1>3. Stable(R)
    BY StableClasses
  <1>4. \A cmd \in R : cmd.op \notin {"sremRoom", "del"} /\ cmd.user = u
    BY DEF Of
  <1>. HIDE DEF R
  <1>5. ASSUME NEW i \in Instances, NEW adds \in BOOLEAN, NEW cmds, SocketsTold(i, cmds, adds), Grown(i, cmds)
        PROVE  ~After(h, 0, R)'
    <2>1. cmds \in Seq(Commands) /\ executed' = executed /\ ToldLast(cmds, adds)
      BY <1>5, ToldGrown
    <2>2. /\ ~Holds(cmds, Of({"zrem", "smembers"}, u))
          /\ OpenOf(u) # {} \/ (adds /\ Holds(cmds, Of({"zadd"}, u)))
      BY <1>1, <2>1 DEF ToldLast
    <2>3. ~Holds(cmds, R)
      BY <2>2 DEF Holds, Of, R
    <2>4. ~After(h, 0, R)
      <3>1. CASE OpenOf(u) # {}
        BY <1>2, <3>1
      <3>2. CASE adds /\ Holds(cmds, Of({"zadd"}, u))
        <4>1. PICK m \in DOMAIN cmds : cmds[m].user = u
          BY <3>2 DEF Holds, Of
        <4>2. (\A j \in Instances : About(j, u) => j = i) /\ ~After(i, 0, R)
          BY <1>1, <1>5, <3>2, <4>1 DEF SocketsTold, Turn, R
        <4>. QED
          BY <1>4, <4>2 DEF After, About
      <3>. QED
        BY <2>2, <3>1, <3>2
    <2>. QED
      BY <1>5, <2>1, <2>3, <2>4, GrownAfter
  <1>6. ASSUME NEW i \in Instances, NEW k, NEW cmd, Executes(i, k, cmd) PROVE ~After(h, 0, R)'
    <2>1. OpenOf(u) # {}
      BY <1>6 DEF Executes, SameSockets
    <2>. QED
      BY <1>2, <1>3, <1>6, <2>1, ExecutesAfter
  <1>7. ASSUME NEW i \in Instances, Answers(i) PROVE ~After(h, 0, R)'
    <2>1. OpenOf(u) # {}
      BY <1>7 DEF Answers, SameSockets
    <2>2. CASE h = i
      BY <1>2, <1>4, <1>7, <2>1, <2>2, AnswersAfter
    <2>3. CASE h # i
      BY <1>2, <1>7, <2>1, <2>3, AnswersAfter
    <2>. QED
      BY <2>2, <2>3
  <1>8. ASSUME NEW i \in Instances, Clears(i) PROVE ~After(h, 0, R)'
    <2>1. OpenOf(u) # {}
      BY <1>8 DEF Clears
    <2>. QED
      BY <1>2, <1>8, <2>1, ClearsAfter
  <1>9. ASSUME Rests PROVE ~After(h, 0, R)'
    <2>1. OpenOf(u) # {}
      BY <1>9 DEF Rests, SameSockets
    <2>. QED
      BY <1>2, <1>9, <2>1, RestsAfter
  <1>10. ~After(h, 0, R)'
    BY <1>5, <1>6, <1>7, <1>8, <1>9, Kinds
  <1>. QED
    BY <1>10 DEF R

\* The losses of u stay followed by an addition.
LEMMA LossFollowed ==
  ASSUME Types, OneSocketEach, NoneReads, [Next]_vars,
         NEW u \in Users, NEW h \in Instances, NEW A, NEW L,
         Single(u)', OpenOf(u)' # {}, Stable(A), Stable(L),
         \A cmd \in A \cup L : cmd.user = u, OpenOf(u) # {} => Follows(h, L, A)
  PROVE  /\ \A i \in Instances : \A k, cmd : Executes(i, k, cmd) => Follows(h, L, A)'
         /\ \A i \in Instances : Answers(i) \/ Clears(i) => Follows(h, L, A)'
         /\ Rests => Follows(h, L, A)'
  <1>1. Single(u)
    BY SingleBefore
  <1>2. ASSUME NEW i \in Instances, NEW k, NEW cmd, Executes(i, k, cmd) PROVE Follows(h, L, A)'
    <2>1. OpenOf(u) # {}
      BY <1>2 DEF Executes, SameSockets
    <2>. QED
      BY <1>2, <2>1, ExecutesAfter
  <1>3. ASSUME NEW i \in Instances, Answers(i) PROVE Follows(h, L, A)'
    <2>1. OpenOf(u) # {}
      BY <1>3 DEF Answers, SameSockets
    <2>2. ~SendsMore(i) \/ u # queue[i][1].user
      <3>. SUFFICES ASSUME SendsMore(i), u = queue[i][1].user PROVE FALSE
        OBVIOUS
      <3>1. 1 \in DOMAIN queue[i] /\ queue[i][1] \in Of({"smembers"}, u)
        BY <1>3, QueueFacts DEF Answers, SendsMore, Of
      <3>2. 1 > 0
        OBVIOUS
      <3>. QED
        BY <1>1, <2>1, <3>1, <3>2 DEF NoneReads, After
    <2>. QED
      BY <1>3, <2>1, <2>2, AnswersAfter
  <1>4. ASSUME NEW i \in Instances, Clears(i) PROVE Follows(h, L, A)'
    <2>1. OpenOf(u) # {}
      BY <1>4 DEF Clears
    <2>. QED
      BY <1>4, <2>1, ClearsAfter
  <1>5. ASSUME Rests PROVE Follows(h, L, A)'
    <2>1. OpenOf(u) # {}
      BY <1>5 DEF Rests, SameSockets
    <2>. QED
      BY <1>5, <2>1, RestsAfter
  <1>. QED
    BY <1>2, <1>3, <1>4, <1>5

LEMMA OnlineKeptKept ==
  ASSUME Types, OneSocketEach, NoneReads, OnlineKept, [Next]_vars
  PROVE  OnlineKept'
  <1>. SUFFICES ASSUME NEW u \in Users, Single(u)', OpenOf(u)' # {}, ~HurtOnline(u)'
                PROVE  /\ u \in online' \/ \E j \in Instances : Ahead(j, Of({"zadd"}, u))'
                       /\ \A h \in Instances : Follows(h, Of({"zrem"}, u), Of({"zadd"}, u))'
    BY DEF OnlineKept
  <1>0. \E h \in Instances : TRUE
    BY RedisAssumption DEF OpenOf, OpenConns
  <1>. SUFFICES ASSUME NEW h \in Instances
                PROVE  /\ u \in online' \/ \E j \in Instances : Ahead(j, Of({"zadd"}, u))'
                       /\ Follows(h, Of({"zrem"}, u), Of({"zadd"}, u))'
    BY <1>0
  <1>. DEFINE A == Of({"zadd"}, u)
              L == Of({"zrem"}, u)
              Kept == u \in online' \/ \E j \in Instances : Ahead(j, A)'
  <1>1. Single(u) /\ u \notin raced' /\ u \notin shared'
    BY SingleBefore
  <1>2. ~HurtOnline(u) /\ OpenOf(u) # {} =>
          /\ u \in online \/ \E j \in Instances : Ahead(j, A)
          /\ \A j \in Instances : Follows(j, L, A)
    BY <1>1 DEF OnlineKept
  <1>3. Stable(A) /\ Stable(L)
    BY StableClasses
  <1>4. \A cmd \in A \cup L : Table(cmd) = "presence" /\ cmd.user = u
    BY ClassTables
  <1>5. <<"presence", u>> \notin hurt'
    BY DEF HurtOnline
  <1>. HIDE DEF A, L
  <1>6. ASSUME NEW i \in Instances, NEW adds \in BOOLEAN, NEW cmds, SocketsTold(i, cmds, adds), Grown(i, cmds)
        PROVE  Kept /\ Follows(h, L, A)'
    <2>1. cmds \in Seq(Commands) /\ executed' = executed /\ ToldLast(cmds, adds) /\ online' = online
      BY <1>6, ToldGrown
    <2>2. /\ ~Holds(cmds, Of({"zrem", "smembers"}, u))
          /\ OpenOf(u) # {} \/ (adds /\ Holds(cmds, A))
      BY <1>1, <2>1 DEF ToldLast, A
    <2>3. ~Holds(cmds, L)
      BY <2>2 DEF Holds, Of, L
    <2>4. ~HurtOnline(u)
      BY <1>5, <1>6 DEF Grown, HurtOnline
    <2>5. CASE OpenOf(u) # {}
      BY <1>2, <1>6, <2>1, <2>3, <2>4, <2>5, GrownAfter
    <2>6. CASE Holds(cmds, A)
      <3>1. Ahead(i, A)' /\ Follows(i, L, A)'
        BY <1>4, <1>5, <1>6, <2>1, <2>3, <2>6, GrownNew
      <3>2. ASSUME h # i PROVE Follows(h, L, A)'
        <4>1. PICK m \in DOMAIN cmds : cmds[m].user = u
          BY <1>4, <2>6 DEF Holds
        <4>2. ~About(h, u)
          BY <1>1, <1>6, <3>2, <4>1 DEF SocketsTold, Turn
        <4>3. Follows(h, L, A)
          BY <1>4, <4>2 DEF Follows, About
        <4>. QED
          BY <1>6, <2>1, <3>2, <4>3, GrownAfter
      <3>. QED
        BY <3>1, <3>2
    <2>. QED
      BY <2>2, <2>5, <2>6
  <1>7. ASSUME NEW i \in Instances, NEW k, NEW cmd, Executes(i, k, cmd) PROVE Kept /\ Follows(h, L, A)'
    <2>1. ~HurtOnline(u) /\ OpenOf(u) # {}
      BY <1>7 DEF Executes, SameSockets, HurtOnline
    <2>2. Follows(h, L, A)'
      BY <1>2, <1>3, <1>4, <1>7, <2>1, LossFollowed
    <2>3. u \in online' <=> cmd \in A \/ (u \in online /\ cmd \notin L)
      BY <1>7 DEF Executes, A, L
    <2>4. CASE cmd \in L
      <3>1. Ahead(i, A)'
        BY <1>2, <1>3, <1>7, <2>1, <2>4, ExecutesAfter
      <3>. QED
        BY <2>2, <3>1
    <2>5. CASE cmd \notin L
      <3>1. ASSUME NEW j \in Instances, Ahead(j, A) PROVE Kept
        BY <1>3, <1>7, <2>3, <3>1, ExecutesAfter
      <3>. QED
        BY <1>2, <2>1, <2>2, <2>3, <2>5, <3>1
    <2>. QED
      BY <2>4, <2>5
  <1>8. ASSUME NEW i \in Instances, Answers(i) PROVE Kept /\ Follows(h, L, A)'
    <2>1. ~HurtOnline(u) /\ OpenOf(u) # {} /\ online' = online
      BY <1>8 DEF Answers, SameSockets, HurtOnline, redisVars
    <2>2. Follows(h, L, A)'
      BY <1>2, <1>3, <1>4, <1>8, <2>1, LossFollowed
    <2>. QED
      BY <1>2, <1>8, <2>1, <2>2, AnswersAfter
  <1>9. ASSUME NEW i \in Instances, Clears(i) PROVE Kept /\ Follows(h, L, A)'
    <2>1. ~HurtOnline(u) /\ OpenOf(u) # {} /\ online' = online
      BY <1>5, <1>9 DEF Clears, HurtOnline, redisVars
    <2>2. Follows(h, L, A)'
      BY <1>2, <1>3, <1>4, <1>9, <2>1, LossFollowed
    <2>3. ~Ahead(i, A)
      BY <1>4, <1>5, <1>9, ClearsAfter
    <2>. QED
      BY <1>2, <1>9, <2>1, <2>2, <2>3, ClearsAfter
  <1>10. ASSUME Rests PROVE Kept /\ Follows(h, L, A)'
    <2>1. ~HurtOnline(u) /\ OpenOf(u) # {} /\ online' = online
      BY <1>10 DEF Rests, SameSockets, HurtOnline, redisVars
    <2>2. Follows(h, L, A)'
      BY <1>2, <1>3, <1>4, <1>10, <2>1, LossFollowed
    <2>. QED
      BY <1>2, <1>10, <2>1, <2>2, RestsAfter
  <1>. HIDE DEF Kept
  <1>11. Kept /\ Follows(h, L, A)'
    BY <1>6, <1>7, <1>8, <1>9, <1>10, Kinds
  <1>. QED
    BY <1>11 DEF Kept, A, L

LEMMA MemberKeptKept ==
  ASSUME Types, OneSocketEach, NoneReads, MemberKept, [Next]_vars
  PROVE  MemberKept'
  <1>. SUFFICES ASSUME NEW r \in Rooms, NEW u \in Users, Single(u)', Fine(u)', InRoom(r, u)'
                PROVE  /\ <<r, u>> \in members' \/ \E j \in Instances : Ahead(j, Naming({"saddRoom"}, r, u))'
                       /\ \A h \in Instances : Follows(h, Naming({"sremRoom"}, r, u), Naming({"saddRoom"}, r, u))'
    BY DEF MemberKept
  <1>0. OpenOf(u)' # {} /\ \E h \in Instances : TRUE
    BY RedisAssumption DEF InRoom, OpenOf, OpenConns
  <1>. SUFFICES ASSUME NEW h \in Instances
                PROVE  /\ <<r, u>> \in members' \/ \E j \in Instances : Ahead(j, Naming({"saddRoom"}, r, u))'
                       /\ Follows(h, Naming({"sremRoom"}, r, u), Naming({"saddRoom"}, r, u))'
    BY <1>0
  <1>. DEFINE A == Naming({"saddRoom"}, r, u)
              L == Naming({"sremRoom"}, r, u)
              Kept == <<r, u>> \in members' \/ \E j \in Instances : Ahead(j, A)'
  <1>1. Single(u) /\ u \notin raced' /\ u \notin shared'
    BY <1>0, SingleBefore
  <1>2. Fine(u) /\ <<"rooms", u>> \notin hurt'
    BY FineBefore
  <1>3. InRoom(r, u) =>
          /\ <<r, u>> \in members \/ \E j \in Instances : Ahead(j, A)
          /\ \A j \in Instances : Follows(j, L, A)
    BY <1>1, <1>2 DEF MemberKept
  <1>4. Stable(A) /\ Stable(L)
    BY StableClasses
  <1>5. \A cmd \in A \cup L : Table(cmd) = "rooms" /\ cmd.user = u
    <2>1. {"saddRoom"} \cap PresenceOps = {} /\ {"sremRoom"} \cap PresenceOps = {}
      BY DEF PresenceOps
    <2>. QED
      BY <2>1, ClassTables
  <1>. HIDE DEF A, L
  <1>6. ASSUME NEW i \in Instances, NEW adds \in BOOLEAN, NEW cmds, SocketsTold(i, cmds, adds), Grown(i, cmds)
        PROVE  Kept /\ Follows(h, L, A)'
    <2>1. cmds \in Seq(Commands) /\ executed' = executed /\ ToldLast(cmds, adds) /\ members' = members
      BY <1>6, ToldGrown
    <2>2. \A m \in DOMAIN cmds : cmds[m].op \in (IF adds THEN Arrivals ELSE Departures)
      BY <1>6 DEF SocketsTold, Turn
    <2>3. CASE InRoom(r, u) /\ ~Holds(cmds, Naming({"sremRoom", "sremUser"}, r, u))
      <3>1. ~Holds(cmds, L)
        BY <2>2, <2>3 DEF Holds, Of, Naming, L, Arrivals, Departures
      <3>. QED
        BY <1>3, <1>6, <2>1, <2>3, <3>1, GrownAfter
    <2>4. CASE adds /\ Holds(cmds, A)
      <3>1. ~Holds(cmds, L)
        BY <2>2, <2>4 DEF Holds, Of, Naming, L, Arrivals
      <3>2. Ahead(i, A)' /\ Follows(i, L, A)'
        BY <1>2, <1>5, <1>6, <2>1, <2>4, <3>1, GrownNew
      <3>3. ASSUME h # i PROVE Follows(h, L, A)'
        <4>1. PICK m \in DOMAIN cmds : cmds[m].user = u
          BY <1>5, <2>4 DEF Holds
        <4>2. ~About(h, u)
          BY <1>1, <1>6, <3>3, <4>1 DEF SocketsTold, Turn
        <4>3. Follows(h, L, A)
          BY <1>5, <4>2 DEF Follows, About
        <4>. QED
          BY <1>6, <2>1, <3>3, <4>3, GrownAfter
      <3>. QED
        BY <3>2, <3>3
    <2>. QED
      BY <1>0, <1>1, <2>1, <2>3, <2>4 DEF ToldLast, A
  <1>7. ASSUME NEW i \in Instances, NEW k, NEW cmd, Executes(i, k, cmd) PROVE Kept /\ Follows(h, L, A)'
    <2>1. InRoom(r, u) /\ OpenOf(u) # {}
      BY <1>0, <1>7 DEF Executes, SameSockets
    <2>2. Follows(h, L, A)'
      BY <1>0, <1>3, <1>4, <1>5, <1>7, <2>1, LossFollowed
    <2>3. <<r, u>> \in members' <=> cmd \in A \/ (<<r, u>> \in members /\ cmd \notin L)
      BY <1>7 DEF Executes, A, L
    <2>4. CASE cmd \in L
      <3>1. Ahead(i, A)'
        BY <1>3, <1>4, <1>7, <2>1, <2>4, ExecutesAfter
      <3>. QED
        BY <2>2, <3>1
    <2>5. CASE cmd \notin L
      <3>1. ASSUME NEW j \in Instances, Ahead(j, A) PROVE Kept
        BY <1>4, <1>7, <2>3, <3>1, ExecutesAfter
      <3>. QED
        BY <1>3, <2>1, <2>2, <2>3, <2>5, <3>1
    <2>. QED
      BY <2>4, <2>5
  <1>8. ASSUME NEW i \in Instances, Answers(i) PROVE Kept /\ Follows(h, L, A)'
    <2>1. InRoom(r, u) /\ OpenOf(u) # {} /\ members' = members
      BY <1>0, <1>8 DEF Answers, SameSockets, redisVars
    <2>2. Follows(h, L, A)'
      BY <1>0, <1>3, <1>4, <1>5, <1>8, <2>1, LossFollowed
    <2>. QED
      BY <1>3, <1>8, <2>1, <2>2, AnswersAfter
  <1>9. ASSUME NEW i \in Instances, Clears(i) PROVE Kept /\ Follows(h, L, A)'
    <2>1. InRoom(r, u) /\ members' = members
      BY <1>2, <1>9 DEF Clears, redisVars
    <2>2. Follows(h, L, A)'
      BY <1>0, <1>3, <1>4, <1>5, <1>9, <2>1, LossFollowed
    <2>3. ~Ahead(i, A)
      BY <1>2, <1>5, <1>9, ClearsAfter
    <2>. QED
      BY <1>3, <1>9, <2>1, <2>2, <2>3, ClearsAfter
  <1>10. ASSUME Rests PROVE Kept /\ Follows(h, L, A)'
    <2>1. InRoom(r, u) /\ OpenOf(u) # {} /\ members' = members
      BY <1>0, <1>10 DEF Rests, SameSockets, redisVars
    <2>2. Follows(h, L, A)'
      BY <1>0, <1>3, <1>4, <1>5, <1>10, <2>1, LossFollowed
    <2>. QED
      BY <1>3, <1>10, <2>1, <2>2, RestsAfter
  <1>. HIDE DEF Kept
  <1>11. Kept /\ Follows(h, L, A)'
    BY <1>6, <1>7, <1>8, <1>9, <1>10, Kinds
  <1>. QED
    BY <1>11 DEF Kept, A, L

LEMMA UserRoomKeptKept ==
  ASSUME Types, OneSocketEach, NoneReads, UserRoomKept, [Next]_vars
  PROVE  UserRoomKept'
  <1>. SUFFICES ASSUME NEW r \in Rooms, NEW u \in Users, Single(u)', Fine(u)', InRoom(r, u)'
                PROVE  /\ <<u, r>> \in userRooms' \/ \E j \in Instances : Ahead(j, Naming({"saddUser"}, r, u))'
                       /\ \A h \in Instances : Follows(h, Of({"del"}, u) \cup Naming({"sremUser"}, r, u), Naming({"saddUser"}, r, u))'
    BY DEF UserRoomKept
  <1>0. OpenOf(u)' # {} /\ \E h \in Instances : TRUE
    BY RedisAssumption DEF InRoom, OpenOf, OpenConns
  <1>. SUFFICES ASSUME NEW h \in Instances
                PROVE  /\ <<u, r>> \in userRooms' \/ \E j \in Instances : Ahead(j, Naming({"saddUser"}, r, u))'
                       /\ Follows(h, Of({"del"}, u) \cup Naming({"sremUser"}, r, u), Naming({"saddUser"}, r, u))'
    BY <1>0
  <1>. DEFINE A == Naming({"saddUser"}, r, u)
              L == Of({"del"}, u) \cup Naming({"sremUser"}, r, u)
              Kept == <<u, r>> \in userRooms' \/ \E j \in Instances : Ahead(j, A)'
  <1>1. Single(u) /\ u \notin raced' /\ u \notin shared'
    BY <1>0, SingleBefore
  <1>2. Fine(u) /\ <<"rooms", u>> \notin hurt'
    BY FineBefore
  <1>3. InRoom(r, u) =>
          /\ <<u, r>> \in userRooms \/ \E j \in Instances : Ahead(j, A)
          /\ \A j \in Instances : Follows(j, L, A)
    BY <1>1, <1>2 DEF UserRoomKept
  <1>4. Stable(A) /\ Stable(L)
    BY StableClasses
  <1>5. \A cmd \in A \cup L : Table(cmd) = "rooms" /\ cmd.user = u
    <2>1. {"saddUser"} \cap PresenceOps = {} /\ {"sremUser"} \cap PresenceOps = {} /\ {"del"} \cap PresenceOps = {}
      BY DEF PresenceOps
    <2>. QED
      BY <2>1, ClassTables
  <1>. HIDE DEF A, L
  <1>6. ASSUME NEW i \in Instances, NEW adds \in BOOLEAN, NEW cmds, SocketsTold(i, cmds, adds), Grown(i, cmds)
        PROVE  Kept /\ Follows(h, L, A)'
    <2>1. cmds \in Seq(Commands) /\ executed' = executed /\ ToldLast(cmds, adds) /\ userRooms' = userRooms
      BY <1>6, ToldGrown
    <2>2. \A m \in DOMAIN cmds : cmds[m].op \in (IF adds THEN Arrivals ELSE Departures)
      BY <1>6 DEF SocketsTold, Turn
    <2>3. CASE InRoom(r, u) /\ ~Holds(cmds, Naming({"sremRoom", "sremUser"}, r, u))
      <3>1. ~Holds(cmds, L)
        BY <2>2, <2>3 DEF Holds, Of, Naming, L, Arrivals, Departures
      <3>. QED
        BY <1>3, <1>6, <2>1, <2>3, <3>1, GrownAfter
    <2>4. CASE adds /\ Holds(cmds, A)
      <3>1. ~Holds(cmds, L)
        BY <2>2, <2>4 DEF Holds, Of, Naming, L, Arrivals
      <3>2. Ahead(i, A)' /\ Follows(i, L, A)'
        BY <1>2, <1>5, <1>6, <2>1, <2>4, <3>1, GrownNew
      <3>3. ASSUME h # i PROVE Follows(h, L, A)'
        <4>1. PICK m \in DOMAIN cmds : cmds[m].user = u
          BY <1>5, <2>4 DEF Holds
        <4>2. ~About(h, u)
          BY <1>1, <1>6, <3>3, <4>1 DEF SocketsTold, Turn
        <4>3. Follows(h, L, A)
          BY <1>5, <4>2 DEF Follows, About
        <4>. QED
          BY <1>6, <2>1, <3>3, <4>3, GrownAfter
      <3>. QED
        BY <3>2, <3>3
    <2>. QED
      BY <1>0, <1>1, <2>1, <2>3, <2>4 DEF ToldLast, A
  <1>7. ASSUME NEW i \in Instances, NEW k, NEW cmd, Executes(i, k, cmd) PROVE Kept /\ Follows(h, L, A)'
    <2>1. InRoom(r, u) /\ OpenOf(u) # {}
      BY <1>0, <1>7 DEF Executes, SameSockets
    <2>2. Follows(h, L, A)'
      BY <1>0, <1>3, <1>4, <1>5, <1>7, <2>1, LossFollowed
    <2>3. <<u, r>> \in userRooms' <=> cmd \in A \/ (<<u, r>> \in userRooms /\ cmd \notin L)
      BY <1>7 DEF Executes, A, L
    <2>4. CASE cmd \in L
      <3>1. Ahead(i, A)'
        BY <1>3, <1>4, <1>7, <2>1, <2>4, ExecutesAfter
      <3>. QED
        BY <2>2, <3>1
    <2>5. CASE cmd \notin L
      <3>1. ASSUME NEW j \in Instances, Ahead(j, A) PROVE Kept
        BY <1>4, <1>7, <2>3, <3>1, ExecutesAfter
      <3>. QED
        BY <1>3, <2>1, <2>2, <2>3, <2>5, <3>1
    <2>. QED
      BY <2>4, <2>5
  <1>8. ASSUME NEW i \in Instances, Answers(i) PROVE Kept /\ Follows(h, L, A)'
    <2>1. InRoom(r, u) /\ OpenOf(u) # {} /\ userRooms' = userRooms
      BY <1>0, <1>8 DEF Answers, SameSockets, redisVars
    <2>2. Follows(h, L, A)'
      BY <1>0, <1>3, <1>4, <1>5, <1>8, <2>1, LossFollowed
    <2>. QED
      BY <1>3, <1>8, <2>1, <2>2, AnswersAfter
  <1>9. ASSUME NEW i \in Instances, Clears(i) PROVE Kept /\ Follows(h, L, A)'
    <2>1. InRoom(r, u) /\ userRooms' = userRooms
      BY <1>2, <1>9 DEF Clears, redisVars
    <2>2. Follows(h, L, A)'
      BY <1>0, <1>3, <1>4, <1>5, <1>9, <2>1, LossFollowed
    <2>3. ~Ahead(i, A)
      BY <1>2, <1>5, <1>9, ClearsAfter
    <2>. QED
      BY <1>3, <1>9, <2>1, <2>2, <2>3, ClearsAfter
  <1>10. ASSUME Rests PROVE Kept /\ Follows(h, L, A)'
    <2>1. InRoom(r, u) /\ OpenOf(u) # {} /\ userRooms' = userRooms
      BY <1>0, <1>10 DEF Rests, SameSockets, redisVars
    <2>2. Follows(h, L, A)'
      BY <1>0, <1>3, <1>4, <1>5, <1>10, <2>1, LossFollowed
    <2>. QED
      BY <1>3, <1>10, <2>1, <2>2, RestsAfter
  <1>. HIDE DEF Kept
  <1>11. Kept /\ Follows(h, L, A)'
    BY <1>6, <1>7, <1>8, <1>9, <1>10, Kinds
  <1>. QED
    BY <1>11 DEF Kept, A, L

LEMMA UserRoomCoveredKept ==
  ASSUME Types, OneSocketEach, AddCovered, FoundAll, UserRoomCovered, [Next]_vars
  PROVE  UserRoomCovered'
  <1>. SUFFICES ASSUME NEW r \in Rooms, NEW u \in Users, <<u, r>> \in userRooms', Fine(u)', ~InRoom(r, u)'
                PROVE  \E j \in Instances : Ahead(j, UserLosses(r, u))' \/ After(j, 0, Of({"smembers"}, u))'
    BY DEF UserRoomCovered
  <1>. DEFINE L == UserLosses(r, u)
              N == Of({"smembers"}, u)
              Goal == \E j \in Instances : Ahead(j, L)' \/ After(j, 0, N)'
  <1>1. Fine(u) /\ <<"rooms", u>> \notin hurt'
    BY FineBefore
  <1>2. <<u, r>> \in userRooms /\ ~InRoom(r, u) => \E j \in Instances : Ahead(j, L) \/ After(j, 0, N)
    BY <1>1 DEF UserRoomCovered
  <1>3. /\ \A cmd \in L : Table(cmd) = "rooms" /\ cmd.user = u
        /\ \A cmd \in N : Table(cmd) = "rooms" /\ cmd.user = u
    <2>1. {"smembers"} \cap PresenceOps = {}
      BY DEF PresenceOps
    <2>. QED
      BY <2>1, ClassTables
  <1>4. Stable(L) /\ Stable(N)
    BY StableClasses
  <1>5. /\ L = Of({"smembers", "del"}, u) \cup Naming({"sremUser"}, r, u)
        /\ N = {cmd \in Commands : cmd.op = "smembers" /\ cmd.user = u}
    BY DEF UserLosses, Of
  <1>. HIDE DEF L, N
  <1>6. ASSUME NEW i \in Instances, NEW adds \in BOOLEAN, NEW cmds, SocketsTold(i, cmds, adds), Grown(i, cmds)
        PROVE  Goal
    <2>1. cmds \in Seq(Commands) /\ executed' = executed /\ Told(i, cmds) /\ userRooms' = userRooms
      BY <1>6, ToldGrown
    <2>2. CASE ~InRoom(r, u)
      <3>1. PICK j \in Instances : Ahead(j, L) \/ After(j, 0, N)
        BY <1>2, <2>1, <2>2
      <3>. QED
        BY <1>6, <2>1, <3>1, GrownAfter
    <2>3. CASE InRoom(r, u)
      <3>1. Holds(cmds, L)
        BY <2>1, <2>3 DEF Told, L
      <3>2. Ahead(i, L)'
        BY <1>1, <1>3, <1>6, <2>1, <3>1, GrownNew
      <3>. QED
        BY <3>2
    <2>. QED
      BY <2>2, <2>3
  <1>7. ASSUME NEW i \in Instances, NEW k, NEW cmd, Executes(i, k, cmd) PROVE Goal
    <2>1. ~InRoom(r, u)
      BY <1>7 DEF Executes, SameSockets
    <2>2. /\ \/ cmd \in Naming({"saddUser"}, r, u)
             \/ <<u, r>> \in userRooms /\ cmd \notin Of({"del"}, u) \cup Naming({"sremUser"}, r, u)
          /\ k \in DOMAIN queue[i] /\ cmd = queue[i][k]
      BY <1>7 DEF Executes
    <2>3. CASE cmd \in Naming({"saddUser"}, r, u)
      <3>1. Follows(i, Naming({"saddUser"}, r, u), L)
        BY <1>1, <2>1 DEF AddCovered, L
      <3>2. Ahead(i, L)'
        BY <1>4, <1>7, <2>3, <3>1, ExecutesAfter
      <3>. QED
        BY <3>2
    <2>4. CASE <<u, r>> \in userRooms /\ cmd \in N
      <3>1. After(i, 0, N)
        BY <2>2, <2>4, QueueFacts DEF After
      <3>. QED
        BY <1>4, <1>7, <3>1, ExecutesAfter
    <2>5. CASE <<u, r>> \in userRooms /\ cmd \notin N /\ cmd \notin Of({"del"}, u) \cup Naming({"sremUser"}, r, u)
      <3>1. PICK j \in Instances : Ahead(j, L) \/ After(j, 0, N)
        BY <1>2, <2>1, <2>5
      <3>2. cmd \notin L
        BY <1>5, <2>5 DEF Of
      <3>. QED
        BY <1>4, <1>7, <3>1, <3>2, ExecutesAfter
    <2>. QED
      BY <2>2, <2>3, <2>4, <2>5
  <1>8. ASSUME NEW i \in Instances, Answers(i) PROVE Goal
    <2>1. ~InRoom(r, u) /\ userRooms' = userRooms
      BY <1>8 DEF Answers, SameSockets, redisVars
    <2>2. PICK j \in Instances : Ahead(j, L) \/ After(j, 0, N)
      BY <1>2, <2>1
    <2>3. CASE Ahead(j, L) \/ j # i
      BY <1>8, <2>2, <2>3, AnswersAfter
    <2>4. CASE j = i /\ After(i, 0, N)
      <3>1. CASE queue[i][1] \notin N
        BY <1>8, <2>4, <3>1, AnswersAfter
      <3>2. CASE queue[i][1] \in N
        <4>1. queue[i][1].op = "smembers" /\ queue[i][1].user = u /\ 1 \in DOMAIN queue[i] /\ executed[i] >= 1
              /\ 1 <= executed[i]
          BY <1>5, <1>8, <3>2, QueueFacts DEF Answers
        <4>2. r \in queue[i][1].rooms
          BY <1>1, <2>1, <4>1 DEF FoundAll
        <4>3. SendsMore(i)
          BY <1>1, <1>8, <4>1, <4>2 DEF Answers
        <4>4. u \in Users /\ Cmd("del", u, {}) \in L
          BY <1>5, CommandFacts DEF Of, Cmd
        <4>5. Len(queue[i]) + 1 \in DOMAIN queue'[i] /\ queue'[i][Len(queue[i]) + 1] \in L
          BY <1>8, <4>1, <4>3, <4>4 DEF Answers
        <4>6. Len(queue[i]) + 1 > executed'[i]
          <5>1. executed'[i] = executed[i] - 1
            BY <1>8 DEF Answers
          <5>. QED
            BY <5>1, QueueFacts
        <4>. QED
          BY <4>5, <4>6 DEF Ahead
      <3>. QED
        BY <3>1, <3>2
    <2>. QED
      BY <2>2, <2>3, <2>4
  <1>9. ASSUME NEW i \in Instances, Clears(i) PROVE Goal
    <2>1. ~InRoom(r, u) /\ userRooms' = userRooms
      BY <1>1, <1>9 DEF Clears, redisVars
    <2>2. PICK j \in Instances : Ahead(j, L) \/ After(j, 0, N)
      BY <1>2, <2>1
    <2>3. j # i
      BY <1>1, <1>3, <1>9, <2>2, ClearsAfter
    <2>. QED
      BY <1>9, <2>2, <2>3, ClearsAfter
  <1>10. ASSUME Rests PROVE Goal
    <2>1. ~InRoom(r, u) /\ userRooms' = userRooms
      BY <1>10 DEF Rests, SameSockets, redisVars
    <2>2. PICK j \in Instances : Ahead(j, L) \/ After(j, 0, N)
      BY <1>2, <2>1
    <2>. QED
      BY <1>10, <2>2, RestsAfter
  <1>. HIDE DEF Goal
  <1>11. Goal
    BY <1>6, <1>7, <1>8, <1>9, <1>10, Kinds
  <1>. QED
    BY <1>11 DEF Goal, L, N

-----------------------------------------------------------------------------
(* The theorems. *)

PresenceInv == ZaddCovered /\ OnlineCovered

RoomsInv ==
  /\ OneInstance /\ CleanUpOrder /\ Paired
  /\ AddCovered /\ MemberCovered /\ MemberMirrored
  /\ FoundAll /\ DelFollows /\ UserLast /\ UserRoomCovered

SingleInv == NoneReads /\ OnlineKept /\ MemberKept /\ UserRoomKept

RedisInv == Types /\ OneSocketEach /\ PresenceInv /\ RoomsInv /\ SingleInv

LEMMA InvInit ==
  ASSUME Init
  PROVE  RedisInv
  <1>1. /\ \A i \in Instances : queue[i] = <<>> /\ executed[i] = 0
        /\ online = {} /\ members = {} /\ userRooms = {} /\ OpenConns = {}
    BY DEF Init, OpenConns
  <1>2. \A i \in Instances : DOMAIN queue[i] = {}
    BY <1>1
  <1>3. \A u : OpenOf(u) = {}
    BY <1>1 DEF OpenOf
  <1>4. \A r, u : ~InRoom(r, u)
    BY <1>3 DEF InRoom
  <1>5. Types
    <2>1. <<>> \in Seq(Commands) /\ Len(<<>>) = 0
      BY EmptySeq
    <2>2. queue \in [Instances -> Seq(Commands)]
      BY <2>1 DEF Init
    <2>3. \A i \in Instances : executed[i] \in 0 .. Len(queue[i])
      BY <1>1, <2>1
    <2>4. executed \in [Instances -> Nat]
      BY DEF Init
    <2>5. /\ socket \in [Conns -> {"new", "open", "closed"}] /\ roomsOf \in [Conns -> SUBSET Rooms]
          /\ link \in [Instances -> {"open", "closing", "quit"}]
          /\ online \subseteq Users /\ members \subseteq Rooms \X Users /\ userRooms \subseteq Users \X Rooms
          /\ raced \subseteq Users /\ shared \subseteq Users
          /\ hurt \subseteq {"presence", "rooms"} \X Users
      BY DEF Init
    <2>6. IsFiniteSet(OpenConns)
      BY <1>1, FS_EmptySet
    <2>. QED
      BY <2>2, <2>3, <2>4, <2>5, <2>6 DEF Types, RedisTypeOK
  <1>6. OneSocketEach
    BY <1>3 DEF OneSocketEach
  <1>7. PresenceInv
    BY <1>1, <1>2 DEF PresenceInv, ZaddCovered, OnlineCovered, Follows
  <1>8. OneInstance /\ CleanUpOrder /\ Paired
    BY <1>2 DEF OneInstance, CleanUpOrder, Paired, About, Bars
  <1>9. AddCovered /\ MemberCovered /\ MemberMirrored /\ UserRoomCovered
    BY <1>1, <1>2 DEF AddCovered, MemberCovered, MemberMirrored, UserRoomCovered, Follows
  <1>10. FoundAll /\ DelFollows /\ UserLast
    BY <1>2 DEF FoundAll, DelFollows, UserLast
  <1>11. SingleInv
    BY <1>3, <1>4 DEF SingleInv, NoneReads, OnlineKept, MemberKept, UserRoomKept
  <1>. QED
    BY <1>5, <1>6, <1>7, <1>8, <1>9, <1>10, <1>11 DEF RedisInv, RoomsInv

LEMMA InvKept ==
  ASSUME RedisInv, [Next]_vars
  PROVE  RedisInv'
  <1>. USE DEF RedisInv
  <1>1. Types' /\ OneSocketEach'
    BY Kinds
  <1>2. PresenceInv'
    BY ZaddCoveredKept, OnlineCoveredKept DEF PresenceInv
  <1>3. OneInstance' /\ CleanUpOrder' /\ Paired'
    BY OneInstanceKept, CleanUpOrderKept, PairedKept DEF RoomsInv
  <1>4. AddCovered' /\ MemberCovered' /\ MemberMirrored'
    BY AddCoveredKept, MemberCoveredKept, MemberMirroredKept DEF RoomsInv
  <1>5. FoundAll' /\ DelFollows' /\ UserLast' /\ UserRoomCovered'
    BY FoundAllKept, DelFollowsKept, UserLastKept, UserRoomCoveredKept DEF RoomsInv
  <1>6. SingleInv'
    BY NoneReadsKept, OnlineKeptKept, MemberKeptKept, UserRoomKeptKept DEF SingleInv
  <1>. QED
    BY <1>1, <1>2, <1>3, <1>4, <1>5, <1>6 DEF RoomsInv

\* The commands the handlers fired off (src/src/transport/WebSocketServer.ts)
\* come in an order that keeps Redis right: the inductive invariant.
THEOREM RedisInvariant == Spec => []RedisInv
  <1>1. Init => RedisInv
    BY InvInit
  <1>2. RedisInv /\ [Next]_vars => RedisInv'
    BY InvKept
  <1>. QED
    BY <1>1, <1>2, PTL DEF Spec

\* Sockets, links, queues and the sets in Redis keep their types, and no
\* instance has more answers to come than commands: the queue in front of the
\* ioredis connection (src/src/redis/RedisClient.ts).
THEOREM RedisTypes == Spec => []RedisTypeOK
  <1>1. RedisInv => RedisTypeOK
    BY DEF RedisInv, Types
  <1>. QED
    BY <1>1, RedisInvariant, PTL

\* However the sockets of a user are spread over instances, however links are
\* lost and instances shut down, Redis calls nobody online who has no socket
\* and no zrem on the way, unless a command of the user was given up or a
\* process ended under the user (src/src/redis/RedisPresence.ts).
THEOREM RedisOnlineAccounted == Spec => []OnlineAccounted
  <1>1. ASSUME RedisInv PROVE OnlineAccounted
    <2>. SUFFICES ASSUME NEW u \in online, OpenOf(u) = {}, ~HurtOnline(u)
                  PROVE  \E i \in Instances : \E cmd \in Waiting(i, u) : cmd.op = "zrem"
      BY DEF OnlineAccounted, HurtOnline
    <2>1. PICK i \in Instances : Ahead(i, Of({"zrem"}, u))
      BY <1>1 DEF RedisInv, PresenceInv, OnlineCovered
    <2>2. PICK k \in DOMAIN queue[i] : queue[i][k] \in Of({"zrem"}, u)
      BY <2>1 DEF Ahead
    <2>. QED
      BY <2>2 DEF Of, Waiting, ToSet
  <1>. QED
    BY <1>1, RedisInvariant, PTL

\* A room counts no user that is not in it and not about to be removed, unless
\* two instances changed the user at once, a change came between the two
\* pipelines of a clean-up, or a command was given up
\* (src/src/redis/RedisRoomSync.ts, removeUserFromAllRooms).
THEOREM RedisMemberAccounted == Spec => []MemberAccounted
  <1>1. ASSUME RedisInv PROVE MemberAccounted
    <2>1. Types /\ MemberCovered
      BY <1>1 DEF RedisInv, RoomsInv
    <2>. SUFFICES ASSUME NEW p \in members, NEW r, r = p[1], NEW u, u = p[2],
                         ~(\E c \in OpenOf(u) : r \in roomsOf[c]), u \notin raced, <<"rooms", u>> \notin hurt
                  PROVE  \E i \in Instances : Removing(i, r, u)
      BY DEF MemberAccounted
    <2>2. r \in Rooms /\ u \in Users /\ <<r, u>> \in members
      <3>1. members \subseteq Rooms \X Users
        BY <2>1 DEF Types, RedisTypeOK
      <3>2. PICK a \in Rooms, b \in Users : p = <<a, b>>
        BY <3>1
      <3>3. r = a /\ u = b
        BY <3>2
      <3>. QED
        BY <3>2, <3>3
    <2>3. PICK i \in Instances : Ahead(i, RoomLosses(r, u)) \/ After(i, 0, Naming({"smembers"}, r, u))
      BY <2>1, <2>2 DEF MemberCovered, Fine, InRoom
    <2>4. Removing(i, r, u)
      BY <2>3 DEF Removing, Ahead, After, RoomLosses, Of, Naming
    <2>. QED
      BY <2>4
  <1>. QED
    BY <1>1, RedisInvariant, PTL

\* A user whose sockets follow each other, none of them opened or changed while
\* a clean-up of the one before reads, is known to Redis exactly as the socket
\* is, once the commands about the user have been answered: the two sets of
\* RedisRoomSync agree with each other, and the online set with both.
THEOREM RedisQuietExact == Spec => []QuietExact
  <1>1. ASSUME RedisInv PROVE QuietExact
    <2>1. Types /\ PresenceInv /\ MemberCovered /\ UserRoomCovered /\ SingleInv
      BY <1>1 DEF RedisInv, RoomsInv
    <2>. SUFFICES ASSUME NEW u \in Users, Quiet(u), u \notin raced \cup shared,
                         NEW rs, rs = UNION {roomsOf[c] : c \in OpenOf(u)}
                  PROVE  /\ <<"presence", u>> \notin hurt => (u \in online <=> OpenOf(u) # {})
                         /\ <<"rooms", u>> \notin hurt =>
                              /\ {r \in Rooms : <<r, u>> \in members} = rs
                              /\ {r \in Rooms : <<u, r>> \in userRooms} = rs
      BY DEF QuietExact
    <2>2. \A i \in Instances : ~About(i, u)
      BY <2>1, WaitingFacts DEF Quiet
    <2>3. ASSUME NEW i \in Instances, NEW S, \A cmd \in S : cmd.user = u
          PROVE  ~Ahead(i, S) /\ ~After(i, 0, S)
      BY <2>2, <2>3 DEF About, Ahead, After
    <2>4. Single(u)
      BY DEF Single
    <2>5. ASSUME <<"presence", u>> \notin hurt PROVE u \in online <=> OpenOf(u) # {}
      <3>1. \A cmd \in Of({"zadd"}, u) \cup Of({"zrem"}, u) : cmd.user = u
        BY DEF Of
      <3>2. \A i \in Instances : ~Ahead(i, Of({"zadd"}, u)) /\ ~Ahead(i, Of({"zrem"}, u))
        BY <2>3, <3>1
      <3>. QED
        BY <2>1, <2>4, <2>5, <3>2 DEF PresenceInv, OnlineCovered, SingleInv, OnlineKept, HurtOnline
    <2>6. rs \subseteq Rooms /\ \A r \in Rooms : r \in rs <=> InRoom(r, u)
      <3>1. \A c \in OpenOf(u) : roomsOf[c] \subseteq Rooms
        BY <2>1, ConnFacts DEF OpenOf, OpenConns
      <3>. QED
        BY <3>1 DEF InRoom
    <2>7. ASSUME <<"rooms", u>> \notin hurt, NEW r \in Rooms
          PROVE  (<<r, u>> \in members <=> InRoom(r, u)) /\ (<<u, r>> \in userRooms <=> InRoom(r, u))
      <3>1. Fine(u)
        BY <2>7 DEF Fine
      <3>2. /\ \A cmd \in RoomLosses(r, u) \cup UserLosses(r, u) : cmd.user = u
            /\ \A ops : \A cmd \in Naming(ops, r, u) \cup Of(ops, u) : cmd.user = u
        BY DEF RoomLosses, UserLosses, Naming, Of
      <3>3. \A i \in Instances : ~Ahead(i, RoomLosses(r, u)) /\ ~After(i, 0, Naming({"smembers"}, r, u))
        BY <2>3, <3>2
      <3>4. \A i \in Instances : ~Ahead(i, UserLosses(r, u)) /\ ~After(i, 0, Of({"smembers"}, u))
        BY <2>3, <3>2
      <3>5. \A i \in Instances : ~Ahead(i, Naming({"saddRoom"}, r, u)) /\ ~Ahead(i, Naming({"saddUser"}, r, u))
        BY <2>3, <3>2
      <3>6. <<r, u>> \in members <=> InRoom(r, u)
        BY <2>1, <2>4, <3>1, <3>3, <3>5 DEF MemberCovered, SingleInv, MemberKept
      <3>7. <<u, r>> \in userRooms <=> InRoom(r, u)
        BY <2>1, <2>4, <3>1, <3>4, <3>5 DEF UserRoomCovered, SingleInv, UserRoomKept
      <3>. QED
        BY <3>6, <3>7
    <2>8. ASSUME <<"rooms", u>> \notin hurt
          PROVE  {r \in Rooms : <<r, u>> \in members} = rs /\ {r \in Rooms : <<u, r>> \in userRooms} = rs
      BY <2>6, <2>7, <2>8
    <2>. QED
      BY <2>5, <2>8
  <1>. QED
    BY <1>1, RedisInvariant, PTL
=============================================================================
