---------------------------- MODULE MessageRelay ----------------------------
(***************************************************************************)
(* How a message reaches the sockets of every server instance:             *)
(* src/src/core/MessageRouter.ts hands it to the sockets of its own        *)
(* instance at once and publishes it to Redis; Redis passes it to every    *)
(* instance that subscribed to its channel, the publishing one included;   *)
(* src/src/redis/RedisPubSub.ts hands it to the sockets there.             *)
(*                                                                         *)
(* Each instance has two links to Redis, one to publish and one to listen. *)
(* On a link both directions are FIFO.  A link can be lost: what Redis had *)
(* not acknowledged is sent again when it is back, what Redis had sent is  *)
(* gone.  After three attempts to reconnect the commands that wait fail.   *)
(*                                                                         *)
(* A name ("user:ann", "room:a:b", a channel) is the sequence of its parts *)
(* between colons.  A message is its number in `sent`; the payload and the *)
(* RouteResult of the HTTP caller are left out.                            *)
(***************************************************************************)
EXTENDS Naturals, FiniteSets, Sequences

CONSTANTS
  Instances,      \* server processes
  Conns,          \* WebSockets, each opened once
  Home,           \* Home[c]: the instance c connects to
  UserOf,         \* UserOf[c]: name of the user of c
  JwtRooms,       \* JwtRooms[c]: the rooms in the token of c, a sequence
  Rooms,          \* names clients subscribe and publish to
  Targets,        \* names the HTTP API is asked to send to
  HttpInstances,  \* instances whose HTTP API is used
  Active,         \* connections whose client sends messages itself
  MaxMessages,    \* bound: messages published
  MaxWaiting,     \* bound: a client subscribes while fewer SUBSCRIBEs wait
  FragileLinks,   \* links that can be lost, each at most once
  MaxLost         \* bound: links lost

Name == Seq(STRING)

ASSUME RelayAssumption ==
  /\ Home \in [Conns -> Instances]
  /\ UserOf \in [Conns -> Name] /\ JwtRooms \in [Conns -> Seq(Name)]
  /\ Rooms \subseteq Name /\ Targets \subseteq Name
  /\ HttpInstances \subseteq Instances /\ Active \subseteq Conns

VARIABLES
  socket,        \* state of each WebSocket
  topics,        \* names of the uWS topics each socket is subscribed to
  cache,         \* subscribedChannels of each instance's RedisPubSub
  subscribing,   \* channels whose SUBSCRIBE waits for Redis, oldest first
  sent,          \* the messages: publishing instance and Redis channel
  outbox,        \* PUBLISH commands of each instance, oldest first
  processed,     \* how many of those Redis has executed
  inbox,         \* messages under way from Redis to each instance
  received,      \* what each socket got, in order
  down           \* links that are down

\* History variables: `lost` bounds the failures, the others no guard reads.
VARIABLES
  lost,          \* links that were ever lost
  owed,          \* <<c, m>>: c must still get m, nothing having come between
  failed         \* channels whose SUBSCRIBE failed and was not asked for since

localVars == <<socket, topics>>
subVars == <<cache, subscribing, failed>>
pubVars == <<sent, outbox, processed>>
vars == <<localVars, subVars, pubVars, inbox, received, down, lost, owed>>

ElementsOf(s) == {s[k] : k \in DOMAIN s}

Links == {"publisher", "subscriber"} \X Instances
Ids == 1 .. MaxMessages

-----------------------------------------------------------------------------
(* Names. *)

BroadcastTopic == <<"broadcast">>
UserTopic(u) == <<"user">> \o u
BroadcastChannel == <<"channel", "broadcast">>
UserChannel(u) == <<"channel", "user">> \o u
RoomChannel(r) == <<"channel", "room">> \o r

\* A target sendToTarget takes for a user, one it takes for a room, and the
\* room it means: a leading "room:" is cut off, other names stay whole.
IsUserTarget(t) == Len(t) > 1 /\ t[1] = "user"
IsRoomTarget(t) == Len(t) > 1 /\ t[1] # "user"
TargetRoom(t) == IF t[1] = "room" THEN Tail(t) ELSE t

-----------------------------------------------------------------------------
(* The sockets of one instance. *)

OpenAt(i) == {c \in Conns : Home[c] = i /\ socket[c] = "open"}

\* Who app.publish(topic) reaches (uWS).
Subscribers(i, topic) == {c \in OpenAt(i) : topic \in topics[c]}

\* connectionManager.getByUserId
SocketsOf(i, u) == {c \in OpenAt(i) : UserOf[c] = u}

\* Faulty: whoever is connected gets the room's messages.
ForwardedToAll(i, ch) ==
  CASE ch[2] = "broadcast" -> Subscribers(i, BroadcastTopic)
    [] ch[2] = "room" -> Subscribers(i, BroadcastTopic)
    [] ch[2] = "user" -> SocketsOf(i, <<ch[3]>>)

\* Faulty: the room's prefix stays.
ForwardedWithPrefix(i, ch) ==
  CASE ch[2] = "broadcast" -> Subscribers(i, BroadcastTopic)
    [] ch[2] = "room" -> Subscribers(i, Tail(ch))
    [] ch[2] = "user" -> SocketsOf(i, <<ch[3]>>)

\* RedisPubSub.handleMessage: the sockets a message from Redis is sent to.
\* The user id is what split(':') leaves at index 2 of the channel.
Forwarded(i, ch) ==
  CASE ch[2] = "broadcast" -> Subscribers(i, BroadcastTopic)
    [] ch[2] = "room" -> Subscribers(i, SubSeq(ch, 3, Len(ch)))
    [] ch[2] = "user" -> SocketsOf(i, <<ch[3]>>)

Handed(cs, m) ==
  [c \in Conns |-> IF c \in cs THEN Append(received[c], m) ELSE received[c]]

-----------------------------------------------------------------------------
(* Redis subscriptions. *)

\* The instances Redis passes a message on channel ch to.
Listening(ch) == {i \in Instances : ch \in cache[i] /\ <<"subscriber", i>> \notin down}

\* The numbers of S in ascending order
Ascending(S) ==
  {f \in [1 .. Cardinality(S) -> S] :
     ElementsOf(f) = S /\ \A j, k \in DOMAIN f : j < k => f[j] < f[k]}

\* subscribeChannel(ch) for every channel of chs: only those Redis has
\* confirmed are skipped.  One whose SUBSCRIBE still waits is sent again, so
\* that a known channel may be waiting once more.
SubscribeChannels(i, chs) ==
  /\ \E f \in Ascending({k \in DOMAIN chs : chs[k] \notin cache[i]}) :
       subscribing' = [subscribing EXCEPT ![i] = @ \o [k \in DOMAIN f |-> chs[f[k]]]]
  /\ failed' = [failed EXCEPT ![i] = @ \ ElementsOf(chs)]
  /\ UNCHANGED cache

Init ==
  /\ socket = [c \in Conns |-> "new"]
  /\ topics = [c \in Conns |-> {}]
  /\ cache = [i \in Instances |-> {}]
  /\ subscribing = [i \in Instances |-> <<BroadcastChannel>>]
  /\ sent = <<>>
  /\ outbox = [i \in Instances |-> <<>>]
  /\ processed = [i \in Instances |-> 0]
  /\ inbox = [i \in Instances |-> <<>>]
  /\ received = [c \in Conns |-> <<>>]
  /\ down = {}
  /\ lost = {}
  /\ owed = {}
  /\ failed = [i \in Instances |-> {}]

-----------------------------------------------------------------------------
(* Sockets. *)

\* The sockets cs are owed nothing of the channels chs any more.
NoLongerOwed(cs, chs) ==
  owed' = {p \in owed : p[1] \notin cs \/ sent[p[2]].channel \notin chs}

Channels == {sent[m].channel : m \in DOMAIN sent}

Open(c) ==
  /\ socket[c] = "new"
  /\ socket' = [socket EXCEPT ![c] = "open"]
  /\ topics' = [topics EXCEPT
       ![c] = {UserTopic(UserOf[c]), BroadcastTopic} \cup ElementsOf(JwtRooms[c])]
  /\ SubscribeChannels(Home[c],
       <<UserChannel(UserOf[c])>>
         \o [k \in DOMAIN JwtRooms[c] |-> RoomChannel(JwtRooms[c][k])])
  /\ UNCHANGED <<pubVars, inbox, received, down, lost, owed>>

\* The Redis subscriptions stay: nothing calls unsubscribeForRoom.
Close(c) ==
  /\ socket[c] = "open"
  /\ socket' = [socket EXCEPT ![c] = "closed"]
  /\ topics' = [topics EXCEPT ![c] = {}]
  /\ NoLongerOwed({c}, Channels)
  /\ UNCHANGED <<subVars, pubVars, inbox, received, down, lost>>

SubscribeRoom(c, r) ==
  /\ socket[c] = "open"
  /\ Len(subscribing[Home[c]]) < MaxWaiting
  /\ topics' = [topics EXCEPT ![c] = @ \cup {r}]
  /\ SubscribeChannels(Home[c], <<RoomChannel(r)>>)
  /\ UNCHANGED <<socket, pubVars, inbox, received, down, lost, owed>>

UnsubscribeRoom(c, r) ==
  /\ socket[c] = "open"
  /\ topics' = [topics EXCEPT ![c] = @ \ {r}]
  /\ NoLongerOwed({c}, {RoomChannel(r)})
  /\ UNCHANGED <<socket, subVars, pubVars, inbox, received, down, lost>>

-----------------------------------------------------------------------------
(* Publishing. *)

\* A message on channel ch is meant for socket c.
MeantFor(c, ch) ==
  \/ ch = BroadcastChannel
  \/ ch = UserChannel(UserOf[c])
  \/ \E r \in topics[c] : ch = RoomChannel(r)

\* The sockets of other instances that will get a message on channel ch from
\* instance i as long as they stay and no link that matters is lost.
Due(i, ch) ==
  {c \in Conns : /\ socket[c] = "open"
                 /\ Home[c] \in Listening(ch) \ {i}
                 /\ MeantFor(c, ch)}

\* Faulty: published once for the user and once for the room.
EmitTwice(i, cs, ch) ==
  LET m == Len(sent) + 1
  IN  /\ m <= MaxMessages
      /\ sent' = Append(sent, [from |-> i, channel |-> ch])
      /\ received' = Handed(cs, m)
      /\ outbox' = [outbox EXCEPT ![i] = @ \o <<m, m>>]
      /\ owed' = owed \cup (Due(i, ch) \X {m})
      /\ UNCHANGED <<localVars, subVars, processed, inbox, down, lost>>

\* Instance i hands a message to the sockets cs and publishes it on ch.
Emit(i, cs, ch) ==
  LET m == Len(sent) + 1
  IN  /\ m <= MaxMessages
      /\ sent' = Append(sent, [from |-> i, channel |-> ch])
      /\ received' = Handed(cs, m)
      /\ outbox' = [outbox EXCEPT ![i] = Append(@, m)]
      /\ owed' = owed \cup (Due(i, ch) \X {m})
      /\ UNCHANGED <<localVars, subVars, processed, inbox, down, lost>>

SendToUser(i, t) ==
  /\ IsUserTarget(t)
  /\ Emit(i, SocketsOf(i, Tail(t)), UserChannel(Tail(t)))

\* sendToRoom, and sendToTarget for a room
SendToRoom(i, r) == Emit(i, Subscribers(i, r), RoomChannel(r))

\* An unknown target is refused and changes nothing.
SendToTarget(i, t) ==
  \/ SendToUser(i, t)
  \/ IsRoomTarget(t) /\ SendToRoom(i, TargetRoom(t))

Broadcast(i) == Emit(i, Subscribers(i, BroadcastTopic), BroadcastChannel)

\* A client's publish: ws.publish leaves the sender out (uWS).
ClientPublish(c, r) ==
  /\ socket[c] = "open"
  /\ Emit(Home[c], Subscribers(Home[c], r) \ {c}, RoomChannel(r))

-----------------------------------------------------------------------------
(* Redis. *)

\* Faulty: the channel is not entered into subscribedChannels.
SubscribeForgotten(i) ==
  /\ subscribing[i] # <<>>
  /\ <<"subscriber", i>> \notin down
  /\ subscribing' = [subscribing EXCEPT ![i] = Tail(@)]
  /\ UNCHANGED <<localVars, cache, failed, pubVars, inbox, received, down, lost, owed>>

\* Redis executes the oldest SUBSCRIBE; its answer reaches the instance before
\* any message of the channel does.
SubscribeAnswered(i) ==
  /\ subscribing[i] # <<>>
  /\ <<"subscriber", i>> \notin down
  /\ subscribing' = [subscribing EXCEPT ![i] = Tail(@)]
  /\ cache' = [cache EXCEPT ![i] = @ \cup {Head(subscribing[i])}]
  /\ UNCHANGED <<localVars, failed, pubVars, inbox, received, down, lost, owed>>

\* Redis executes the next PUBLISH of instance i.
RedisPublishes(i) ==
  LET m == outbox[i][processed[i] + 1]
  IN  /\ processed[i] < Len(outbox[i])
      /\ <<"publisher", i>> \notin down
      /\ processed' = [processed EXCEPT ![i] = @ + 1]
      /\ inbox' = [j \in Instances |->
                     IF j \in Listening(sent[m].channel)
                       THEN Append(inbox[j], m) ELSE inbox[j]]
      /\ UNCHANGED <<localVars, subVars, sent, outbox, received, down, lost, owed>>

\* Faulty: the newest message first.
ForwardNewest(i) ==
  LET m == inbox[i][Len(inbox[i])]
      cs == Forwarded(i, sent[m].channel)
  IN  /\ inbox[i] # <<>>
      /\ inbox' = [inbox EXCEPT ![i] = SubSeq(@, 1, Len(@) - 1)]
      /\ received' = Handed(cs, m)
      /\ owed' = owed \ (cs \X {m})
      /\ UNCHANGED <<localVars, subVars, pubVars, down, lost>>

\* Faulty: a forwarded message goes out once more, so that a message can wait
\* in the outbox of an instance that did not publish it.
ForwardRepublishes(i) ==
  LET m == Head(inbox[i])
      cs == Forwarded(i, sent[m].channel)
  IN  /\ inbox[i] # <<>>
      /\ inbox' = [inbox EXCEPT ![i] = Tail(@)]
      /\ received' = Handed(cs, m)
      /\ owed' = owed \ (cs \X {m})
      /\ outbox' = [outbox EXCEPT ![i] = Append(@, m)]
      /\ UNCHANGED <<localVars, subVars, sent, processed, down, lost>>

\* The 'message' event: handleMessage forwards to the local sockets.
HandleMessage(i) ==
  LET m == Head(inbox[i])
      cs == Forwarded(i, sent[m].channel)
  IN  /\ inbox[i] # <<>>
      /\ inbox' = [inbox EXCEPT ![i] = Tail(@)]
      /\ received' = Handed(cs, m)
      /\ owed' = owed \ (cs \X {m})
      /\ UNCHANGED <<localVars, subVars, pubVars, down, lost>>

-----------------------------------------------------------------------------
(* Links. *)

LinkLost(l) ==
  /\ l \in FragileLinks \ lost
  /\ Cardinality(lost) < MaxLost
  /\ down' = down \cup {l}
  /\ lost' = lost \cup {l}
  /\ UNCHANGED <<localVars, subVars, sent, outbox, received>>

\* Of the commands that Redis executed the last ones may be unacknowledged;
\* the instance will send those again.
PublisherLost(i) ==
  /\ LinkLost(<<"publisher", i>>)
  /\ \E acknowledged \in 0 .. processed[i] :
       processed' = [processed EXCEPT ![i] = acknowledged]
  /\ UNCHANGED <<inbox, owed>>

SubscriberLost(i) ==
  /\ LinkLost(<<"subscriber", i>>)
  /\ inbox' = [inbox EXCEPT ![i] = <<>>]
  /\ NoLongerOwed({c \in Conns : Home[c] = i}, Channels)
  /\ UNCHANGED processed

\* ioredis subscribes again to every channel before it sends anything else.
LinkBack(l) ==
  /\ l \in down
  /\ down' = down \ {l}
  /\ UNCHANGED <<localVars, subVars, pubVars, inbox, received, lost, owed>>

\* The retries are used up: publish() rejects and is logged.
PublishesFail(i) ==
  /\ <<"publisher", i>> \in down
  /\ processed[i] < Len(outbox[i])
  /\ outbox' = [outbox EXCEPT ![i] = SubSeq(@, 1, processed[i])]
  /\ owed' = {p \in owed : p[2] \notin {outbox[i][k] : k \in processed[i] + 1 .. Len(outbox[i])}}
  /\ UNCHANGED <<localVars, subVars, sent, processed, inbox, received, down, lost>>

\* The retries are used up: subscribe() rejects and is logged.
SubscribesFail(i) ==
  /\ <<"subscriber", i>> \in down
  /\ subscribing[i] # <<>>
  /\ subscribing' = [subscribing EXCEPT ![i] = <<>>]
  /\ failed' = [failed EXCEPT ![i] = @ \cup ElementsOf(subscribing[i])]
  /\ UNCHANGED <<localVars, cache, pubVars, inbox, received, down, lost, owed>>

-----------------------------------------------------------------------------

Next ==
  \/ \E c \in Conns : Open(c) \/ Close(c)
  \/ \E c \in Active, r \in Rooms :
       SubscribeRoom(c, r) \/ UnsubscribeRoom(c, r) \/ ClientPublish(c, r)
  \/ \E i \in HttpInstances, t \in Targets : SendToTarget(i, t)
  \/ \E i \in HttpInstances, r \in Rooms : SendToRoom(i, r)
  \/ \E i \in HttpInstances : Broadcast(i)
  \/ \E i \in Instances :
       \/ SubscribeAnswered(i) \/ RedisPublishes(i) \/ HandleMessage(i)
       \/ PublisherLost(i) \/ SubscriberLost(i)
       \/ PublishesFail(i) \/ SubscribesFail(i)
  \/ \E l \in Links : LinkBack(l)

Spec == Init /\ [][Next]_vars

\* Redis works through what it was sent and the event loop through what
\* arrived; ioredis keeps reconnecting, and a request fails if that takes too
\* long.
Fairness ==
  \A i \in Instances :
    /\ WF_vars(RedisPublishes(i))
    /\ WF_vars(HandleMessage(i))
    /\ WF_vars(LinkBack(<<"publisher", i>>) \/ PublishesFail(i))

FairSpec == Spec /\ Fairness

-----------------------------------------------------------------------------
(* Properties. *)

Occurrences(m, s) == {k \in DOMAIN s : s[k] = m}

RelayTypeOK ==
  /\ socket \in [Conns -> {"new", "open", "closed"}]
  /\ \A i \in Instances :
       /\ outbox[i] \in Seq(DOMAIN sent)
       /\ processed[i] \in 0 .. Len(outbox[i])
       /\ inbox[i] \in Seq(DOMAIN sent)
       /\ \A k \in DOMAIN outbox[i] : sent[outbox[i][k]].from = i
  /\ \A c \in Conns : received[c] \in Seq(DOMAIN sent)
  /\ down \subseteq lost /\ lost \subseteq Links
  /\ owed \subseteq Conns \X DOMAIN sent

\* A socket gets a message once from Redis, once more at the instance that
\* published it, and once more only if that instance lost its publisher link
\* and sent the message again.
CopiesBounded ==
  \A c \in Conns, m \in DOMAIN sent :
    Cardinality(Occurrences(m, received[c])) <=
      1 + (IF Home[c] = sent[m].from THEN 1 ELSE 0)
        + (IF <<"publisher", sent[m].from>> \in lost THEN 1 ELSE 0)

\* Between two instances messages keep their order, whatever their channels,
\* as long as the publisher link holds: sockets see what another instance
\* published in the order it was published.
RemoteOrder ==
  \A c \in Conns : \A j, k \in DOMAIN received[c] :
    LET m == received[c][j]
        n == received[c][k]
    IN  /\ j < k
        /\ sent[m].from = sent[n].from
        /\ sent[m].from # Home[c]
        /\ <<"publisher", sent[m].from>> \notin lost
        => m < n

\* The Redis channels that carry what socket c is meant to get.
ChannelsOf(c) ==
  {BroadcastChannel, UserChannel(UserOf[c])}
    \cup {RoomChannel(r) : r \in topics[c] \ {BroadcastTopic, UserTopic(UserOf[c])}}

\* An instance listens, or is about to, to every channel one of its open
\* sockets needs: neither a subscription skipped because the channel is known
\* nor a close nor a lost link leaves it deaf.  Only a channel whose SUBSCRIBE
\* failed is not listened to, and only until it is asked for again.
Covered ==
  \A c \in Conns : socket[c] = "open" =>
    ChannelsOf(c) \subseteq
      cache[Home[c]] \cup ElementsOf(subscribing[Home[c]]) \cup failed[Home[c]]

\* A message that a socket of another instance is still to get is on its way:
\* Redis will execute it or has sent it to the socket's instance, and that
\* instance will forward it to this socket.
OnItsWay ==
  \A p \in owed :
    LET c == p[1]
        m == p[2]
        i == sent[m].from
    IN  /\ c \in Forwarded(Home[c], sent[m].channel)
        /\ \/ Occurrences(m, inbox[Home[c]]) # {}
           \/ /\ \E k \in DOMAIN outbox[i] : k > processed[i] /\ outbox[i][k] = m
              /\ Home[c] \in Listening(sent[m].channel)

\* Every message still to be got is got in the end, unless the socket leaves
\* or a link is lost.
OwedArrives ==
  \A c \in Conns, m \in Ids : <<c, m>> \in owed ~> <<c, m>> \notin owed

\* Nobody gets a message of a room whose topic the socket has not, or a
\* message to another user.
AddresseesOnly ==
  [][\A c \in Conns : received'[c] # received[c] =>
       LET m == received'[c][Len(received'[c])]
       IN  socket[c] = "open" /\ MeantFor(c, sent'[m].channel)]_vars

\* What the walk-through of scripts/cluster-tests.cjs says of a room message in
\* a cluster: no duplicates.
NoDuplicates ==
  \A c \in Conns, m \in DOMAIN sent : Cardinality(Occurrences(m, received[c])) <= 1
=============================================================================
