# LiveRelay: specification and proofs

TLA+ modules about LiveRelay: what the server's registries, message handlers,
shutdown, Redis relay, Redis state, rate limit, HTTP API and heartbeat and the
client SDK promise, model-checked with TLC on small instances. Every invariant and
every action property the runs check, but for those of `ConnectionLoop`, is also
proved with TLAPS, for every instance; liveness is model-checked only.

## 1. The system

One or more Node.js processes ("instances") serve WebSocket clients and an HTTP
API. They share nothing but a Redis server. Within a process everything runs on
one event loop: a handler runs to its end or to its next `await`, and what the
handlers leave to promises, timers and Redis comes in a later turn.

| Component (source) | State | Operations | What makes it correct |
|---|---|---|---|
| RoomManager (`src/src/core/RoomManager.ts`) | `rooms`: room → members; `userRooms`: user → rooms | subscribe, unsubscribe, removeUserFromAllRooms, getters | the maps are inverse, no empty set stays, the limit holds |
| ConnectionManager (`core/ConnectionManager.ts`) | `connections`: id → socket; `userConnections`: user → sockets | add, remove, closeAll, sends | it holds exactly the open sockets: any other one throws when used |
| WebSocket handlers (`transport/WebSocketServer.ts`) | topics and user data of each socket | upgrade, open, message, close | registries, rooms, topics and user data agree, over turns |
| Graceful shutdown (`utils/gracefulShutdown.ts`) | one latch, the place in the sequence | signal, timer, closeAll, QUIT, exit | it ends, and cleanly |
| MessageRouter (`core/MessageRouter.ts`) | none | sendToTarget, sendToRoom, broadcast | local sockets at once, the others by Redis |
| RedisPubSub (`redis/RedisPubSub.ts`) | `subscribedChannels` | subscribe, publish, forward, shutdown | right addressees, order, nothing lost without a fault |
| RedisClient (`redis/RedisClient.ts`) | link to Redis (ioredis) | reconnect, resend, give up | requests settle |
| RateLimiter (`core/RateLimiter.ts`) | sorted set in Redis | checkLimit, reset | at most the limit per window, fails open |
| RedisPresence (`redis/RedisPresence.ts`) | sorted set of online users in Redis | setOnline, setOffline, queries, unused clean-ups | online iff some socket is open |
| RedisRoomSync (`redis/RedisRoomSync.ts`) | two sets per room and user in Redis | addMember, removeMember, removeUserFromAllRooms | agrees with the instances' rooms |
| Heartbeat (`core/Heartbeat.ts`) | `lastPong` of each socket | timer round | dead sockets end, live ones do not |
| HTTP API (`transport/HttpServer.ts`) | per request: aborted, body, rate check | send, broadcast, room send, lists | one answer per request |
| Client SDK (`src/client/src/LiveRelayClient.ts`) | socket, attempts, timer, handlers | connect, disconnect, events | reconnects while wanted, one socket |
| JwtVerifier, protocol, metrics, logging, configuration, dashboard, scripts | none that matters to the others | | not modelled (§7) |

**Interactions.** An upgrade verifies the token, tests the capacity and then
runs `open`, which adds the socket to ConnectionManager, subscribes it to its
topics and its user to RoomManager, and fires off Redis calls without waiting. A
message other than `ping` first asks Redis for its rate limit and is handled in
the turn of the answer. `close` undoes `open`, by user id. HTTP handlers call
MessageRouter, which publishes to local topics and to Redis; RedisPubSub hands
what Redis passes on to the same topics and registries. Shutdown closes the
sockets through ConnectionManager and then the Redis clients.

**What is hard.** The socket held across the rate check; a user with several
sockets where the clean-up is by user; the token's rooms that go around the
limit; the loop in `closeAll` that shrinks what it iterates over; upgrades after
the listen socket closed; messages that return to the instance they came from;
links that fail between a publish and its acknowledgement; subscriptions that
exist only after their answer; commands of several instances about one user that
interleave in Redis; a clean-up that reads in one pipeline and deletes in the next;
requests that go away while the handler waits; an SDK whose listeners act on
whatever socket is the current one. PROJECT.json lists each at its line.

## 2. Modules

| Module | What it is |
|---|---|
| `SetMap`, `SetMapTheorems` | `Map<K, Set<V>>` without empty sets, and its lemmas |
| `RoomMembership` | abstract: one membership relation with a limit |
| `RoomManager`, `RoomManagerProofs` | the two maps, one action per method; theorems |
| `ConnectionManager` | the registry's operations, used by the server |
| `WebSocketServer`, `MCWebSocketServer`, `WebSocketServerProofs` | one process: handlers over both registries, shutdown; theorems |
| `MessageRelay`, `MCMessageRelay` | several instances, Redis and its links |
| `MessageRelayProofs` | its types, the subscriptions and the order of messages |
| `RelayDeliveryProofs` | addressees, delivery and copies; EXTENDS `MessageRelayProofs` |
| `RedisState`, `MCRedisState`, `RedisStateProofs` | what the instances keep about their users in Redis; theorems |
| `RateLimiter` | the sliding window: operators over a clock and the sorted sets |
| `HttpServer`, `MCHttpServer`, `HttpServerProofs` | the life of HTTP requests at several instances; EXTENDS `RateLimiter`; theorems |
| `Heartbeat` | the server's rounds over `lastPong`, each one step |
| `ConnectionLoop` | the loops of the rounds and of `closeAll`, step by step; implements `Heartbeat` |
| `LiveRelayClient` | the SDK's connection: listeners, timer, promise |
| `Session`, `SessionProofs` | client and heartbeat at the two ends of WebSockets; EXTENDS both; theorems |

`WebSocketServer` EXTENDS `RoomManager` and `ConnectionManager` and uses their
operators as parts of its actions, as the handlers call their methods.
`RoomManager` and, through it, `WebSocketServer` instantiate `RoomMembership`
with `member <- Pairs`, the pairs of user and room in `rooms`.

Definitions whose comment begins with "Faulty" are bugs one could write in
the definition after them. No specification uses them; putting one in its
place makes a run fail, which shows that the property has teeth (PROJECT.json
"mutants" names which).

### RoomManager
A map is a function on its current keys, so `DOMAIN rooms` is the set of rooms
that exist. `subscribe` returning false changes nothing and is no action.
`RemoveFromAllRooms` takes a set of users because `closeAll` runs the close
handlers of all sockets in one turn. `Granted` is what a sequence of `subscribe`
calls in one turn admits; the recursion over the calls is replaced by "every
room before the one that finds the limit reached".

### WebSocketServer
An element of `Conns` is one WebSocket from its TCP connection to its close
(`socket`: new, tcp, open, closed). A handler is one action. `pending` holds the
commands the main Redis client has sent and not had answered; ioredis answers in
order, so it is a queue. `Answered(m)` leaves the decision of the rate limiter
open: `RateLimited` is always possible. A ping changes only `lastPong`, which
belongs to the heartbeat. `phase` follows `gracefulShutdown.ts`: draining is
the sleep of two seconds, closing the wait for `redisPubSub.shutdown()`,
quitting the `quit()` of the clients. `QUIT` goes through `pending` because the
rate limiter's client is the first to quit; the other two have their own links,
so `Exit` may come any time after. The link stays up in this module (a failed check allows the
message, which `Answer` includes).

uWebSockets.js is modelled from its use: `end()` runs the close handler before
it returns; a closed socket loses its topics and any call on it throws. The
code registers no handler for unhandled rejections, and Node.js then ends the
process (`CrashOnClosedSocket`). `data.rooms` is the user data of an open
socket; after the close nobody reads it, so it is reset.

`overlapped` and `inFlightAtCut` are history variables that no guard reads.

### MessageRelay
Names are sequences of their parts between colons, because the code cuts,
prefixes and splits at colons. A message is its number in `sent`, with its
publisher and channel. An instance has two links. On the publisher link `outbox`
holds its PUBLISH commands and `processed` says how many Redis has executed. How
many of those were acknowledged matters only when the link is lost, so
`PublisherLost` chooses it then; what was not acknowledged is sent again, which
is ioredis' default. Retries used up, `publish()` rejects (`PublishesFail`).
On the subscriber link `subscribing` holds the SUBSCRIBE commands in order. Redis
executing one and the entry in `subscribedChannels` are one step: nothing that
Redis sends on the channel arrives before the answer does. Only that cache is tested
before a SUBSCRIBE is sent, so a channel may wait in the queue several times, and be
known and waiting at once (`SubscribeChannels`). When the link comes
back ioredis subscribes to its channels again, so `Listening` needs no state of
its own.

`lost` remembers the failures and bounds them; `failed` and `owed` are history
variables. `failed` has the channels whose SUBSCRIBE used up its retries and was not
asked for since: the one exception in `Covered`. `owed` has the pairs of socket and
message such that the message was published while the socket's instance was
listening, and since then neither the socket left, nor its subscriber link was
lost, nor the publish was given up.

Left out: the `delivered` count, the refusal of a subscription over the room
limit (it changes nothing here) and the rate check before a client's message,
which WebSocketServer has.

### RedisState
The handlers void the promises of RedisPresence and RedisRoomSync, so all that
matters is which commands an instance sends in which turn. They go over the main
link in order (`queue`), are executed one by one (`Execute`: a pipeline is no
transaction, other instances come between) and are answered in order (`Answer`).
The answer to the SMEMBERS of `removeUserFromAllRooms` sends the second pipeline
(`FollowUp`), or is refused after QUIT. `Pipelines` puts several two-command pipelines
of one turn behind each other: the rooms of a token, the close handlers of `closeAll`. An executed command stays in the queue until
its answer, so a lost link sends it again (`LinkLost`) or it fails (`GiveUp`). A
crash loses the queue; `CloseAll`, `QuitRedis` and `Exit` are the shutdown, in which
an upgrade may still come after `closeAll`.

In general Redis is *not* exact: a socket that closes takes the user offline and out of
all rooms although another socket is open, and a move between instances or a quick
reconnect can leave a member behind. The properties say when it is, in three history variables. `shared`: the user has had two sockets at once.
`raced`: a turn changed the user while another instance had commands about the user
in its queue, or added a room between the two pipelines of a clean-up. `hurt`: a
command about the user was never executed, or its process ended. TLC finds a
counterexample if any one of these provisos is dropped.

`RemoveFound` has the SREMs of the second pipeline as one command on all the rooms found.
In the code each is a command of its own, between which other instances may
come; each touches another room, so what a room sees is an order of commands
the model has too. A pipeline whose link is lost when it is half answered is aborted by
ioredis and not sent again; here that is a `GiveUp` of its rest, with the user in `hurt`,
and the model allows a resend as well.

### RateLimiter and HttpServer
A check takes its time when it is called (`calledAt`) and changes the set when Redis
executes it (`Record`), so checks of two instances may be executed out of the order of
their times (`overtaken`; both limits are stated without it). `CheckFails` covers
a failing pipeline, executed or not, and a failing ZCARD: the request passes.
The ZADD of a pipeline sent again has the same member, so it counts once: a sorted set
is a set of entries, a member with its score. Two requests of one millisecond whose
random suffixes are the same would share a member; that is left out.

A request is `checking` while the rate limiter is asked, `reading` when it then waits
for its body, `pinging` in a health check. `Abort` has the three ways in which a client
that goes away ends the process (§4); `Crash` takes all requests of the
instance along. `AnswerAtOnce` is every route that answers in the turn of the
request (lists, metrics, OPTIONS, 404, a missing room id, a wrong key); its 200 stands
for all but the 401. What a request routes is in MessageRelay; here only that
it does (`routed`). A good body whose target is neither a user, nor a room, nor has a
colon (`Unroutable`) is answered 200 with `success: false` and routes nothing.

### Heartbeat, LiveRelayClient and Session
Only the time since `lastPong` and the time to the next round matter, so `Heartbeat`
has these two instead of a clock. Its `Round` ends all stale sockets and its `EndAll` all
sockets in one step, which `ConnectionLoop` justifies: there a loop goes over the entries of the
JavaScript Map one by one, `end()` runs the close handler, the handler deletes the
entry under the iterator, and `LoopsAtomic` says that between two events nothing of this
is seen. `LiveRelayClient` numbers WebSockets in the order of
their creation. The four listeners of `connect()` come and go together; `cleanup` and
`disconnect` act on `this.ws`, as in the code. A close event runs the handlers that
were there when it began (`CloseEvent`, `HandshakeFails`); each counts an attempt and sets a timer
(`Restarts`). `Session` adds what is between the ends: open, welcome, ping and close
events in order, refusals, resets, and connections that go silent. A message carries
the time since the ping that caused it; a link that works takes no longer than
`Timeout` for ping and answer together, which is the assumption behind the constant.
`overlapped` (history) is set when the application calls `connect()` while a socket or
a timer of an earlier call is alive; the SDK then loses track of the older socket,
whose handlers go on, so `OneSocket`, `KeptAlive` and `NoComeback` exclude it.
The client has no timer of its own, so it never notices a connection that went
silent; `Reconnects` starts from a close that was noticed.

## 3. Runs

| Run | Instance | What it shows |
|---|---|---|
| `websocket_server` | 3 sockets, 2 users, 2 rooms, room limit 1, capacity 2, 2 pending | `Mirror`, `RoomLimit`: the two maps of RoomManager; the registries, rooms, topics and user data agree; shutdown ends; exit(0) only without messages in flight; implements `RoomMembership` |
| `message_relay` | 2 instances, 2 sockets, 2 messages, 1 link lost | order between instances, number of copies, addressees, subscriptions cover topics, messages due are on their way |
| `relay_delivers` | the same, 1 message, 2 links lost | messages due arrive |
| `redis_state` | ann: 2 sockets at i1, 1 at i2; 1 room, 1 change; 1 lost link, give-up, crash or shutdown at i1 | `OnlineAccounted`, `MemberAccounted`: whoever Redis names is there or about to go; `QuietExact`: exact at rest, under the provisos; `DepartedForgotten` |
| `http_api` | 3 posts from one address at 2 instances, a health check, a request without key; window 2, limit 1, 1 failed check, 1 abort | `WindowLimit`, `RefusedRightly`: the window over all instances; `RoutedRightly`; `CrashOnlyAfterAbort`; `RequestsEnd` |
| `session` | 3 sockets, 2 calls of `connect()`, 2 attempts, interval 2, timeout 1, 1 broken connection | `KeptAlive`, `DeadEnded`: the heartbeat; `OneSocket`, `NoComeback`, `Reconnects`: the SDK |
| `connection_loop` | 4 sockets, interval 2, timeout 1 | `EachOnce`: no entry is passed over or seen twice; `LoopsAtomic`: the loops implement `Heartbeat` |
| `server_crash` | as websocket_server | **violated**: `NeverCrashes` |
| `duplicates` | as message_relay | **violated**: `NoDuplicates` |
| `http_crash` | as http_api | **violated**: `HttpNeverCrashes` |
| `three_pings` | 1 socket, interval 3, timeout 1 (30 and 10 seconds) | **violated**: `ThreePingsMissed` |
| `connect_hangs` | 1 socket | **violated**: `WelcomeResolves` |

**Bounds.** `websocket_server`: user u1 has two sockets, so one can close while
the other is subscribed; u2's socket is the third, so an upgrade can find no
capacity and a room can have members of both users; the token of c2 names two
rooms where one is allowed, which lets topics exceed the registry; two pending
messages let a close, an unsubscription and a shutdown come between a message
and its answer, and another message behind it. `message_relay`: two messages are
the least for order; publishes of both instances, through HTTP (`HttpInstances`)
and a client (`Active`); a message for a room, a user and everybody. The links
that may be lost are the two a message from the first to the second instance
depends on. `MaxWaiting` = 2 lets a client subscribe while one SUBSCRIBE waits, so that a channel
can wait twice. With one more client that sends or one more link the state space
grows beyond a few minutes without new kinds of step. `relay_delivers` loses
both links, with one message.
`redis_state`: two sockets at one instance overlap or follow each other, the one at
the other instance makes the user move; the token of the first socket names a
room, which its one change leaves or asks for again, so a clean-up has something to find
or not; with a room at the third socket as well the instance takes more than five minutes; the fault is at the instance
that has two sockets. `http_api`: two posts are over the limit, the third is at the other
instance, time 3 lets the first leave the window; one post has a bad body, one an unknown target.
`connection_loop`: with four sockets a loop can end two and spare two, in any order.
`session`: three sockets are a first connection, a reconnection and a second
`connect()`; with interval 2 and timeout 1 a silent socket is seen alive by one round
and ended by a later one.
These runs and the relay's switch deadlock checking off: sockets, requests and
messages are bounded, so the instance stops when all is done. The
server's `Gone` steps mark the ends of the process.

**Fairness.** Server: Redis answers, or ioredis gives up after
`maxRetriesPerRequest` (3) and the check fails open, so `RedisAnswers` is weakly
fair; the timer of two seconds fires (`CloseAll`); a promise that settled resumes
its function (`QuitRedis`, `Exit`). Relay: Redis executes what it got, the event
loop handles what arrived; ioredis reconnects for ever (`retryStrategy` always
returns a delay) or requests fail. Redis state: each instance's commands are
executed and answered, as above. HTTP: Redis answers or the check fails; a body that
does not arrive is aborted by uWebSockets.js' own timeout, so it completes or aborts.
Session: a handshake ends, events that arrived are handled, the reconnect timer
fires; the server's side needs no fairness. Nothing obliges a client to do anything,
and no link has to stay up.

## 4. What the violated runs say

* `server_crash`. WebSocketServer.ts:178 voids the promise of the rate check.
  When the socket closes before Redis answers, the callback uses a closed socket,
  uWebSockets.js throws, nothing catches, the process ends. Open, send, close,
  answer: four steps. In a shutdown any message in flight at `closeAll` does the
  same, so `CleanExit` holds: a process that does reach exit(0) had none.
* `duplicates`. The publishing instance listens to the channel it publishes to.
  `CopiesBounded` gives the exact bound: two at the publishing instance, one
  elsewhere, one more after a resend.
* `three_pings`. LiveRelay-Architecture.md promises three missed pings, WEBSOCKET-PROTOCOL.md an
  answer within ten seconds and one missed cycle. The code does neither: a socket is
  ended by the first round that finds it silent for longer than interval and timeout
  together, which is after one or two pings. `DeadEnded` (two intervals and the
  timeout) and `KeptAlive` are what holds.
* `http_crash`. A POST reads its body while it asks for the rate limit. A client that goes
  away (a) before both rejects a promise nobody awaits yet; (b) after the check and
  before the body makes the catch block answer an aborted request; (c) after the
  body and before the check makes the handler answer an aborted request. All throw out
  of a voided async function and end the process, with every WebSocket on it.
  `CrashOnlyAfterAbort` shows the health check, which tests `aborted`, and failed
  checks do not.
* `connect_hangs`. `onOpen` calls `cleanup`, which removes the message listener; the
  listener `setupMessageHandler` adds in its place does not resolve the promise. The
  server sends the welcome after the upgrade, so every `connect()` hangs
  (a handshake that fails does reject).

Behaviour the properties leave out by a proviso, and that the code does have:

* With two sockets of a user open, closing one takes the user out of all rooms in
  RoomManager (WebSocketServer.ts:198) and offline in Redis (RedisPresence.ts:20), so the
  counts of GET /api/rooms are too low until the user subscribes again; delivery goes by
  topics and is not affected. `SoleConnectionExact` and `QuietExact` exclude such users
  (`overlapped`, `shared`).
* An addMember that Redis executes between the two pipelines of another instance's clean-up
  leaves a member in `room:*:members` that no later clean-up finds (`raced`).
* What a lost command, a crash or the end of a shutdown leaves in Redis stays there, since
  `cleanStale` has no caller (`hurt`).
* A SUBSCRIBE that used up its retries is not tried again until a handler asks for the channel
  (`failed`), although the client was told "subscribed".
* A `connect()` that overlaps an older socket or timer makes the SDK lose track of that
  (`overlapped` of Session).
* When Redis executes checks of the rate limit out of the order of their times, one may
  not see an entry of its window that another has removed, or count one later than
  itself (`overtaken`).

## 5. Proofs

The theorems hold for all values of the constants that satisfy the assumptions named
below, which are what the code gives: every socket has a user and an instance,
a token is a finite sequence of rooms, limits and times are numbers, positive where
configuration demands it. Users, sockets, instances and rooms may be any sets; the bounds TLC needs
(`MaxMessages`, `MaxFaults`, ...) are any numbers, and every finite behaviour is within
some of them. Each invariance proof has one inductive
invariant, of which the property is a part or a consequence.

`SetMapTheorems` has the lemmas about `Put`, `Drop`, `Compact` and `Without`
(keys, values, preserved type) that the other proofs cite.

### RoomManager
RoomManager by itself, with any sequence of calls, is proved about and not run: the server's run
checks its properties in their context. `RoomManagerTypeCorrect`, `RoomManagerMirror`,
`RoomManagerLimit`, and
`RoomManagerRefinement` (RoomSpec implements `RoomMembership`), for a positive limit. `RoomTypeOK /\
Mirror` is inductive; the limit needs `Mirror` to carry over to the relation.

### WebSocketServer
Under `ServerAssumption` (users and token rooms of each socket),
`MaxRoomsAssumption` and `MaxConnectionsAssumption`:

* `ServerTypeCorrect`, `ServerRegistryExact`, `ServerMembersReachable`,
  `ServerRoomLimit`, `ServerTopicsMatchData`. `ServerInv` joins the type invariant,
  `RegistryExact`, the inductive invariant of RoomManager (`Mirror` and the limit),
  `TopicsMatchData`, `MembersReachable` and that `connections` is finite.
  `MembersReachable` alone is not inductive: a close must be known to take *all* of
  the user's memberships, which takes `Mirror`; `closeAll` cleans up for the users it
  finds in the registry, which takes `RegistryExact`.
* `ServerSoleConnectionExact`, from `SoleInv`: a user outside `overlapped` has at most one
  open socket (`SoleOpen`) and the property itself. It rests on two lemmas:
  `MembersReachable` and `Mirror` leave a user without sockets no rooms
  (`NoSocketNoRooms`), so a new socket starts from nothing; and a token within the
  limit is then granted whole (`GrantedWholeToken`, by counting).
* `ServerCleanExit`, from `DrainInv`: senders of waiting messages had an open socket
  once, no QUIT waits before the phase of quitting, and after a cut with messages in
  flight the oldest command is a message of a closed socket with, when quitting, the
  QUIT behind it. Then `Exit`, which needs the QUIT
  gone, is impossible: the message comes first and crashes the process.
* `ServerRefinement`: each action is a step of `RoomMembership` or a stutter,
  by the step lemmas of the RoomManager proofs; `CloseAll`, `Exit` and the crash
  are `LeaveAll`.

### MessageRelay
`RelayAssumption`: each socket has an instance, and users, rooms and targets are names,
sequences of strings. `RelayInv` has

* `Types` (`RelayTypes`);
* `Listens`: the broadcast channel is known from the start, and `Covered`. The
  answer moves a channel from `subscribing` to the cache and a failure takes it to
  `failed`, so a channel some socket needs is always in one of the three (`RelayCovered`);
* `Outboxes`: an instance's commands are its own messages, with rising numbers;
* `Ordered`, for `RelayRemoteOrder`: as long as the publisher link of i holds, what has come
  further is older. The messages of i in `received` of a socket of another instance, those in its
  `inbox` and those Redis has not executed rise, each group is older than the next.

`RelayAddresseesOnly` and `RelayOnItsWay` need a proviso, `PlainTargets`: nothing is sent to a
user whose id has a colon (RedisPubSub.ts:127 takes such an id for another one). With it
every message has one of three shapes of channel, for which what `split` and `slice`
recover is what was put in (`ShapeKinds`). `Coming`, for `OnItsWay`, says of every pair in `owed`
that the socket is still one the channel forwards to, and that the message is in the
inbox or unexecuted while Redis lists the instance. That every socket has the broadcast topic
(`HearsBroadcast`) is part of it, and is why the theorem has its second proviso, no room
named `broadcast`: a client that unsubscribes from that "room" leaves the topic.
Both provisos hold in the run.

`RelayCopiesBounded` has no proviso. `FewCopies` counts for every socket and message the copies received,
in the inbox and still to be executed together. A step of Redis turns
the last into the second, a step of the instance the second into the first, and only
publishing and a resend add one; `Cardinality` of positions in `Append` and `Tail` is by
lemmas on bijections of positions.

### RedisState
`RedisAssumption`: each socket has an instance and a user, each token a sequence of
rooms. No bound on sockets is assumed; that finitely many are open at any
time, so that the handlers of `closeAll` run one after the other, is part of
the invariant. `RedisInv` is about the order of commands in a queue: `Follows(i, S, T)` says that each command of S
has one of T behind it, `Bars(i, S, T)` that none has, `Ahead(i, S)` that one of S
is still to be executed.

* `RedisOnlineAccounted`: each `zadd` of a user without a socket at the instance has a
  `zrem` behind it (`ZaddCovered`), so that its execution, however often after lost
  links, leaves a `zrem` ahead (`OnlineCovered`).
* `RedisMemberAccounted` needs the whole life of a clean-up. For a user never in
  `raced`: one instance has all the commands (`OneInstance`); none that adds comes
  behind a clean-up that reads, no deletion comes behind one that adds
  (`CleanUpOrder`); the two commands of a pipeline are neighbours (`Paired`). So
  an addition is followed by its removal unless the user is in the room
  (`AddCovered`), a member is covered by a removal or a reading clean-up
  (`MemberCovered`), what the clean-up reads contains every room that counts the user
  (`MemberMirrored`, `FoundAll`), and the user's own set loses a room only when the room
  has lost the user (`DelFollows`, `UserLast`). `MemberMirrored`
  stands on the last two, which hold through links that are lost, when a queue is
  executed a second time.
* `RedisQuietExact` adds the other direction for users with one socket at a time:
  `NoneReads` while the socket is open, and `OnlineKept`, `MemberKept`, `UserRoomKept`:
  what the socket stands for is in Redis or ahead, and each removal still queued has
  the addition behind it. At rest all "ahead" is empty, which leaves equality.
* `RedisTypes` is by the kinds of step below.

There are twelve actions but five kinds of step for a queue: a turn that
appends (`SocketsTold`), an execution, an answer, a loss of the whole queue (`Clears`) and
a step that leaves the commands alone (`Rests`). `Kinds` shows that each step is one
of them; each part of the invariant is proved once per kind.

### RateLimiter and HttpServer
`HttpAssumption` (the kinds of request are disjoint, each has an instance and an address)
and `LimiterAssumption`.

* `HttpRoutedRightly` and `HttpCrashOnlyAfterAbort`: `HttpInv` adds to them that a request
  that waits has not gone out or been answered, that a request which reads its body
  is past its check, and that in a process that lives each post in the queue is there
  once and being checked; without this a second answer of Redis could route a request
  again. Each action is a step of one request that `Spares` the others, except that
  a crash takes along those of its instance.
* `HttpTypes`: `TypeInv` adds that a post that was not checked yet has no verdict, and one that waits
  for its check has its time.
* `HttpWindowLimit` and `HttpRefusedRightly`: `LimitInv` says that a set has only entries
  of checked posts of its address, with the times of their calls (`EntriesInv`), that
  a check that was executed has its entry, or one a whole window later has removed it
  (`RecordedInv`), and that the sets are finite. When a check is executed and no entry
  is later than it (the address is not in `overtaken`), nothing its window should count
  has been removed, so ZCARD counts at least the allowed checks and at most the
  checks of the window: two injections between posts and entries.

### Heartbeat, LiveRelayClient and Session
`HeartbeatAssumption`, `ClientAssumption` (bounds are numbers) and `SocketsAssumption`
(both ends have the same sockets).

* `SessionDeadEnded`, from `HeartbeatInv`: silence plus the time to the next round is at
  most `LongestSilence`.
* `SessionTypes`, from `TypeInv`, the type invariant split by component.
* `SocketInv` describes the events under way to one socket: a close is the last, an error
  comes only just before one, a socket with events or a link that works is not closed,
  and one that connects over such a link has its open event first.
* `SessionOneSocket` and `SessionNoComeback`, from `TidyInv`: nothing is left over for sockets not yet
  created, reconnection is on only while wanted, and, while nothing overlapped,
  `OneInv`: only `this.ws` is alive, a timer runs only when no socket is left, `connected` is true
  of an open socket, and a live socket has the listeners of a handshake or one handler of each kind
  (`Listens`). The listeners are the heart of it: a close event acts through those that
  are there when it begins, and `cleanup` exchanges them in the turn of an earlier event.
* `SessionKeptAlive`, from `AwaitedInv`: for a live socket over a link that works, either the next round
  comes before the silence exceeds the interval, or a ping or its answer is under way that
  is as old as the excess (`Awaited`); so it arrives before a round can end the socket.

### What is not proved
Liveness (`ShutdownEnds`, `OwedArrives`, `DepartedForgotten`, `RequestsEnd`,
`Reconnects`): fairness and ENABLED are out of the prover's reach. They are
model-checked only, with the bounds of §3, and so is `ConnectionLoop`. The properties
of §4 are false.

## 6. Plan

Every part of the code that keeps state has its module, and every safety property of
the runs but those of `ConnectionLoop` its theorem. What is left:

1. For each violated property, the strongest statement that does hold, as a theorem: under which
   condition on a history no copy is duplicated, no process crashes, member counts are exact.
2. That a loop over a Map of any size is one step (`LoopsAtomic`).
3. Theorems with fewer provisos: `RelayOnItsWay` for rooms of any name, stated of the sockets that
   kept the broadcast topic.

## 7. Not modelled

JwtVerifier (one pure check per token; user and rooms are constants), the protocol's
parsing and formatting, metrics, logging and health counters (no decision
depends on them), start-up and configuration (straight-line code; limits are
constants), the dashboard and the scripts and tests. Within modelled components:
methods without a caller (`cleanStale`, `refreshPresence`, `removeInstance`,
`cleanEmptyRoom`, `unsubscribeChannel`, `unsubscribeForRoom`, `RateLimiter.reset`, the
queries of RedisPresence and RedisRoomSync, `middleware/rateLimit.ts`), the
`delivered` count, the SDK's maps of event handlers and its delays (they decide when,
not whether, the timer fires).
Backpressure, payload limits and compression of uWebSockets.js are outside the code.
