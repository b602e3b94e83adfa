--------------------------- MODULE RelayDeliveryProofs ---------------------------
(***************************************************************************)
(* Theorems about MessageRelay, continued: who gets a message, how often,  *)
(* and that a message a socket is still to get is on its way to it.        *)
(***************************************************************************)
EXTENDS MessageRelayProofs

-----------------------------------------------------------------------------
(* Nobody but the addressees. *)

ChannelShapes == \A m \in DOMAIN sent : Shape(sent[m].channel)

LEMMA ShapesStart == ASSUME Init PROVE ChannelShapes
  BY DEF Init, ChannelShapes

LEMMA ShapesKept ==
  ASSUME PlainTargets, Types, ChannelShapes, [Next]_vars PROVE ChannelShapes'
  <1>1. ASSUME NEW i \in Instances, Sending(i) PROVE ChannelShapes'
    <2>1. PICK cs \in SUBSET Conns, ch \in Channel : EmitStep(i, cs, ch)
      BY <1>1 DEF Sending
    <2>2. Shape(ch) /\ Emit(i, cs, ch)
      BY <2>1 DEF EmitStep
    <2>3. /\ DOMAIN sent' = DOMAIN sent \cup {Len(sent) + 1}
          /\ \A m \in DOMAIN sent : sent'[m] = sent[m]
          /\ sent'[Len(sent) + 1] = [from |-> i, channel |-> ch]
      BY <2>2, EmitEffect
    <2>. QED
      BY <2>2, <2>3 DEF ChannelShapes
  <1>2. CASE sent' = sent
    BY <1>2 DEF ChannelShapes
  <1>3. ASSUME NEW c \in Conns, NEW r, Open(c) \/ Close(c) \/ SubscribeRoom(c, r) \/ UnsubscribeRoom(c, r)
        PROVE  sent' = sent
    BY <1>3 DEF Open, Close, SubscribeRoom, UnsubscribeRoom, pubVars
  <1>4. ASSUME NEW i \in Instances,
               \/ SubscribeAnswered(i) \/ RedisPublishes(i) \/ HandleMessage(i)
               \/ PublisherLost(i) \/ SubscriberLost(i)
               \/ PublishesFail(i) \/ SubscribesFail(i)
        PROVE  sent' = sent
    BY <1>4 DEF SubscribeAnswered, RedisPublishes, HandleMessage, PublisherLost, SubscriberLost,
                LinkLost, PublishesFail, SubscribesFail, pubVars
  <1>5. ASSUME NEW l \in Links, LinkBack(l) PROVE sent' = sent
    BY <1>5 DEF LinkBack, pubVars
  <1>6. CASE UNCHANGED vars
    BY <1>2, <1>6 DEF vars, pubVars
  <1>. QED
    BY <1>1, <1>2, <1>3, <1>4, <1>5, <1>6, Steps

\* The kinds of channels are told apart by their second part.
LEMMA ShapeKinds ==
  ASSUME NEW ch \in Channel, Shape(ch)
  PROVE  /\ ch[2] = "broadcast" => ch = BroadcastChannel
         /\ ch[2] = "user" => \E w \in Words : ch = UserChannel(<<w>>) /\ ch[3] = w
         /\ ch[2] = "room" => \E r \in Seq(Words) : ch = RoomChannel(r) /\ SubSeq(ch, 3, Len(ch)) = r
  <1>1. ASSUME NEW w \in Words
        PROVE  UserChannel(<<w>>)[2] = "user" /\ UserChannel(<<w>>)[3] = w
    <2>1. <<w>> \in Seq(Words) /\ <<w>> # <<>> /\ <<w>>[1] = w
      OBVIOUS
    <2>. QED
      BY <2>1, ChannelFacts
  <1>2. BroadcastChannel[2] = "broadcast"
    BY ChannelFacts
  <1>3. ASSUME NEW r \in Seq(Words)
        PROVE  RoomChannel(r)[2] = "room" /\ SubSeq(RoomChannel(r), 3, Len(RoomChannel(r))) = r
    BY ChannelFacts
  <1>4. CASE ch = BroadcastChannel
    BY <1>2, <1>4
  <1>5. ASSUME NEW w \in Words, ch = UserChannel(<<w>>)
        PROVE  ch[2] = "user" /\ ch[3] = w
    BY <1>1, <1>5
  <1>6. ASSUME NEW r \in Seq(Words), ch = RoomChannel(r)
        PROVE  ch[2] = "room" /\ SubSeq(ch, 3, Len(ch)) = r
    BY <1>3, <1>6
  <1>. QED
    BY <1>4, <1>5, <1>6 DEF Shape

LEMMA ForwardedMeant ==
  ASSUME NEW i \in Instances, NEW ch \in Channel, Shape(ch), NEW c \in Forwarded(i, ch)
  PROVE  c \in OpenAt(i) /\ MeantFor(c, ch)
  <1>1. c \in OpenAt(i)
    BY ForwardedOpen
  <1>2. CASE ch[2] = "broadcast"
    BY <1>1, <1>2, ShapeKinds DEF MeantFor
  <1>3. CASE ch[2] = "user"
    <2>1. PICK w \in Words : ch = UserChannel(<<w>>) /\ ch[3] = w
      BY <1>3, ShapeKinds
    <2>2. c \in SocketsOf(i, <<ch[3]>>)
      BY <1>3 DEF Forwarded
    <2>. QED
      BY <1>1, <2>1, <2>2 DEF SocketsOf, MeantFor
  <1>4. CASE ch[2] = "room"
    <2>1. PICK r \in Seq(Words) : ch = RoomChannel(r) /\ SubSeq(ch, 3, Len(ch)) = r
      BY <1>4, ShapeKinds
    <2>2. c \in Subscribers(i, SubSeq(ch, 3, Len(ch)))
      BY <1>4 DEF Forwarded
    <2>. QED
      BY <1>1, <2>1, <2>2 DEF Subscribers, MeantFor
  <1>. QED
    BY <1>2, <1>3, <1>4 DEF Channel

Addressed(c) ==
  received'[c] # received[c] =>
    LET m == received'[c][Len(received'[c])]
    IN  socket[c] = "open" /\ MeantFor(c, sent'[m].channel)

LEMMA HandedAddressed ==
  ASSUME Types, NEW cs \in SUBSET Conns, NEW m, received' = Handed(cs, m),
         \A c \in cs : socket[c] = "open" /\ MeantFor(c, sent'[m].channel)
  PROVE  \A c \in Conns : Addressed(c)
  <1>. SUFFICES ASSUME NEW c \in Conns, received'[c] # received[c]
                PROVE  /\ received'[c][Len(received'[c])] = m
                       /\ c \in cs
    BY DEF Addressed
  <1>1. c \in cs /\ received'[c] = Append(received[c], m)
    BY DEF Handed
  <1>2. received[c] \in Seq(DOMAIN sent)
    BY DEF Types
  <1>3. received[c] \in Seq(DOMAIN sent \cup {m}) /\ m \in DOMAIN sent \cup {m}
    BY <1>2, SeqMonotonic
  <1>. QED
    BY <1>1, <1>3, AppendProperties

LEMMA AddressedSteps ==
  ASSUME Types, ChannelShapes, [Next]_vars PROVE \A c \in Conns : Addressed(c)
  <1>1. ASSUME NEW i \in Instances, Sending(i) PROVE \A c \in Conns : Addressed(c)
    <2>1. PICK cs \in SUBSET Conns, ch \in Channel : EmitStep(i, cs, ch)
      BY <1>1 DEF Sending
    <2>2. Emit(i, cs, ch) /\ cs \subseteq OpenAt(i) /\ \A c \in cs : MeantFor(c, ch)
      BY <2>1 DEF EmitStep
    <2>3. /\ received' = Handed(cs, Len(sent) + 1)
          /\ sent'[Len(sent) + 1] = [from |-> i, channel |-> ch]
      BY <2>2, EmitEffect
    <2>. QED
      BY <2>2, <2>3, HandedAddressed DEF OpenAt
  <1>2. ASSUME NEW i \in Instances, HandleMessage(i) PROVE \A c \in Conns : Addressed(c)
    <2>. DEFINE m == Head(inbox[i])
                cs == Forwarded(i, sent[m].channel)
    <2>1. m \in DOMAIN sent
      BY <1>2, HandleMessageEffect
    <2>2. received' = Handed(cs, m) /\ sent' = sent
      BY <1>2 DEF HandleMessage, pubVars
    <2>3. sent[m].channel \in Channel /\ Shape(sent[m].channel)
      BY <2>1, SentTyped DEF ChannelShapes
    <2>4. \A c \in cs : c \in OpenAt(i) /\ MeantFor(c, sent[m].channel)
      BY <2>3, ForwardedMeant
    <2>. HIDE DEF m, cs
    <2>. QED
      BY <2>2, <2>4, HandedAddressed DEF OpenAt
  <1>3. ASSUME received' = received PROVE \A c \in Conns : Addressed(c)
    BY <1>3 DEF Addressed
  <1>4. ASSUME NEW c \in Conns, NEW r, Open(c) \/ Close(c) \/ SubscribeRoom(c, r) \/ UnsubscribeRoom(c, r)
        PROVE  received' = received
    BY <1>4 DEF Open, Close, SubscribeRoom, UnsubscribeRoom
  <1>5. ASSUME NEW i \in Instances,
               \/ SubscribeAnswered(i) \/ RedisPublishes(i)
               \/ PublisherLost(i) \/ SubscriberLost(i)
               \/ PublishesFail(i) \/ SubscribesFail(i)
        PROVE  received' = received
    BY <1>5 DEF SubscribeAnswered, RedisPublishes, PublisherLost, SubscriberLost, LinkLost,
                PublishesFail, SubscribesFail
  <1>6. ASSUME NEW l \in Links, LinkBack(l) PROVE received' = received
    BY <1>6 DEF LinkBack
  <1>7. CASE UNCHANGED vars
    BY <1>3, <1>7 DEF vars
  <1>. QED
    BY <1>1, <1>2, <1>3, <1>4, <1>5, <1>6, <1>7, Steps

\* Whatever a socket is handed is meant for it: a broadcast, a message to its
\* user or to a room whose topic it has; for this no message may be sent to a
\* user id with a colon, since RedisPubSub.handleMessage keeps only the part
\* before it (src/src/redis/RedisPubSub.ts:127).
THEOREM RelayAddresseesOnly == PlainTargets => (Spec => AddresseesOnly)
  <1>. SUFFICES ASSUME PlainTargets PROVE Spec => AddresseesOnly
    OBVIOUS
  <1>1. Init => ChannelShapes
    BY ShapesStart
  <1>2. RelayInv /\ ChannelShapes /\ [Next]_vars => ChannelShapes'
    BY ShapesKept DEF RelayInv
  <1>3. RelayInv /\ ChannelShapes /\ [Next]_vars => [\A c \in Conns : Addressed(c)]_vars
    BY AddressedSteps DEF RelayInv
  <1>4. [\A c \in Conns : Addressed(c)]_vars =>
          [\A c \in Conns : received'[c] # received[c] =>
             LET m == received'[c][Len(received'[c])]
             IN  socket[c] = "open" /\ MeantFor(c, sent'[m].channel)]_vars
    BY DEF Addressed
  <1>. QED
    BY <1>1, <1>2, <1>3, <1>4, RelayInvariant, PTL DEF Spec, AddresseesOnly

-----------------------------------------------------------------------------
(* What is owed is on its way. *)

\* Every open socket has the broadcast topic, unless it gives it up.
HearsBroadcast == \A c \in Conns : socket[c] = "open" => BroadcastTopic \in topics[c]

LEMMA HearsKept ==
  ASSUME BroadcastTopic \notin Rooms, Types, HearsBroadcast, [Next]_vars PROVE HearsBroadcast'
  <1>1. ASSUME NEW c \in Conns, Open(c) \/ Close(c) PROVE HearsBroadcast'
    BY <1>1 DEF Open, Close, Types, HearsBroadcast
  <1>2. ASSUME NEW c \in Conns, NEW r \in Rooms, SubscribeRoom(c, r) \/ UnsubscribeRoom(c, r)
        PROVE  HearsBroadcast'
    BY <1>2 DEF SubscribeRoom, UnsubscribeRoom, Types, HearsBroadcast
  <1>3. ASSUME UNCHANGED localVars PROVE HearsBroadcast'
    BY <1>3 DEF localVars, HearsBroadcast
  <1>4. ASSUME NEW i \in Instances, Sending(i) PROVE UNCHANGED localVars
    BY <1>4 DEF Sending, EmitStep, Emit
  <1>5. ASSUME NEW i \in Instances,
               \/ SubscribeAnswered(i) \/ RedisPublishes(i) \/ HandleMessage(i)
               \/ PublisherLost(i) \/ SubscriberLost(i)
               \/ PublishesFail(i) \/ SubscribesFail(i)
        PROVE  UNCHANGED localVars
    BY <1>5 DEF SubscribeAnswered, RedisPublishes, HandleMessage, PublisherLost, SubscriberLost,
                LinkLost, PublishesFail, SubscribesFail
  <1>6. ASSUME NEW l \in Links, LinkBack(l) PROVE UNCHANGED localVars
    BY <1>6 DEF LinkBack
  <1>7. CASE UNCHANGED vars
    BY <1>3, <1>7 DEF vars
  <1>. QED
    BY <1>1, <1>2, <1>3, <1>4, <1>5, <1>6, <1>7, Steps

\* The instance of c will forward a message on channel ch to c.
Gets(c, ch) == c \in Forwarded(Home[c], ch)

LEMMA GetsWhen ==
  ASSUME NEW c \in Conns, NEW ch \in Channel
  PROVE  Gets(c, ch) <=>
           /\ socket[c] = "open"
           /\ ch[2] = "broadcast" => BroadcastTopic \in topics[c]
           /\ ch[2] = "room" => SubSeq(ch, 3, Len(ch)) \in topics[c]
           /\ ch[2] = "user" => UserOf[c] = <<ch[3]>>
  BY DEF Gets, Forwarded, Subscribers, SocketsOf, OpenAt, Channel

LEMMA OnePart ==
  ASSUME NEW u \in Seq(Words), NEW w \in Words, UserChannel(u) = UserChannel(<<w>>)
  PROVE  u = <<w>>
  <1>. DEFINE v == <<w>>
  <1>1. v \in Seq(Words) /\ Len(v) = 1 /\ v[1] = w
    OBVIOUS
  <1>. HIDE DEF v
  <1>2. Len(UserChannel(v)) = 2 + Len(v) /\ Len(UserChannel(u)) = 2 + Len(u)
    BY <1>1, ChannelFacts
  <1>3. Len(u) \in Nat
    OBVIOUS
  <1>4. UserChannel(u) = UserChannel(v)
    BY DEF v
  <1>5. Len(u) = 1
    <2>1. 2 + Len(u) = 2 + Len(v)
      BY <1>2, <1>4
    <2>2. 2 + Len(u) = 2 + 1
      BY <1>1, <2>1
    <2>. QED
      BY <1>3, <2>2
  <1>6. v # <<>> /\ u # <<>>
    BY <1>1, <1>5, EmptySeq
  <1>7. UserChannel(v)[3] = v[1] /\ UserChannel(u)[3] = u[1]
    BY <1>1, <1>6, ChannelFacts
  <1>8. u = <<u[1]>>
    BY <1>5, SingleElement
  <1>. QED
    BY <1>1, <1>4, <1>7, <1>8 DEF v

\* Who is meant by a message gets it.
LEMMA MeantGets ==
  ASSUME Types, HearsBroadcast, NEW ch \in Channel, Shape(ch), NEW c \in Conns,
         socket[c] = "open", MeantFor(c, ch)
  PROVE  Gets(c, ch)
  <1>1. UserOf[c] \in Seq(Words) /\ topics[c] \in SUBSET Seq(Words)
    BY NamesAreWords DEF Types
  <1>2. CASE ch = BroadcastChannel
    BY <1>2, GetsWhen, ChannelFacts DEF HearsBroadcast
  <1>3. CASE ch = UserChannel(UserOf[c])
    <2>1. ch[2] = "user"
      BY <1>1, <1>3, ChannelFacts
    <2>2. PICK w \in Words : ch = UserChannel(<<w>>) /\ ch[3] = w
      BY <2>1, ShapeKinds
    <2>3. UserOf[c] = <<w>>
      BY <1>1, <1>3, <2>2, OnePart
    <2>. QED
      BY <2>1, <2>2, <2>3, GetsWhen
  <1>4. ASSUME NEW r \in topics[c], ch = RoomChannel(r) PROVE Gets(c, ch)
    BY <1>1, <1>4, GetsWhen, ChannelFacts
  <1>. QED
    BY <1>2, <1>3, <1>4 DEF MeantFor

\* The message m will be forwarded to c, and its instance has it or Redis
\* will pass it on.
Reaches(c, m) == Gets(c, sent[m].channel)
Before(c, m) ==
  \/ m \in ElementsOf(inbox[Home[c]])
  \/ m \in Pending(sent[m].from) /\ Home[c] \in Listening(sent[m].channel)

Coming ==
  \A c \in Conns, m \in DOMAIN sent : <<c, m>> \in owed => Reaches(c, m) /\ Before(c, m)

LEMMA ComingGives == ASSUME Types, Coming PROVE OnItsWay
  <1>. SUFFICES ASSUME NEW p \in owed
                PROVE  LET c == p[1]
                           m == p[2]
                           i == sent[m].from
                       IN  /\ c \in Forwarded(Home[c], sent[m].channel)
                           /\ \/ Occurrences(m, inbox[Home[c]]) # {}
                              \/ /\ \E k \in DOMAIN outbox[i] : k > processed[i] /\ outbox[i][k] = m
                                 /\ Home[c] \in Listening(sent[m].channel)
    BY DEF OnItsWay
  <1>. DEFINE c == p[1]
              m == p[2]
  <1>0. c \in Conns /\ m \in DOMAIN sent /\ <<c, m>> \in owed
    <2>1. p \in Conns \X DOMAIN sent
      BY DEF Types
    <2>2. p = <<p[1], p[2]>>
      BY <2>1
    <2>. QED
      BY <2>1, <2>2
  <1>. HIDE DEF c, m
  <1>1. Reaches(c, m) /\ Before(c, m)
    BY <1>0 DEF Coming
  <1>2. m \in ElementsOf(inbox[Home[c]]) => Occurrences(m, inbox[Home[c]]) # {}
    BY DEF ElementsOf, Occurrences
  <1>3. m \in Pending(sent[m].from) =>
          \E k \in DOMAIN outbox[sent[m].from] :
            k > processed[sent[m].from] /\ outbox[sent[m].from][k] = m
    BY DEF Pending
  <1>. QED
    BY <1>1, <1>2, <1>3 DEF Reaches, Gets, Before, c, m

LEMMA ReachesWhen ==
  ASSUME Types, NEW c \in Conns, NEW m \in DOMAIN sent
  PROVE  Reaches(c, m) <=>
           /\ socket[c] = "open"
           /\ sent[m].channel[2] = "broadcast" => BroadcastTopic \in topics[c]
           /\ sent[m].channel[2] = "room" =>
                SubSeq(sent[m].channel, 3, Len(sent[m].channel)) \in topics[c]
           /\ sent[m].channel[2] = "user" => UserOf[c] = <<sent[m].channel[3]>>
  BY SentTyped, GetsWhen DEF Reaches

\* A pair that stays owed keeps what it needs.
LEMMA ComingFrame ==
  ASSUME Coming, UNCHANGED sent, owed' \subseteq owed,
         \A c \in Conns, m \in DOMAIN sent :
           <<c, m>> \in owed' /\ Reaches(c, m) => Reaches(c, m)',
         \A c \in Conns, m \in DOMAIN sent :
           <<c, m>> \in owed' /\ Reaches(c, m) /\ Before(c, m) => Before(c, m)'
  PROVE  Coming'
  BY DEF Coming

LEMMA SocketStepComing ==
  ASSUME Types, Types', Coming, UNCHANGED <<sent, outbox, processed, inbox, cache, down>>,
         owed' \subseteq owed,
         \A c \in Conns, m \in DOMAIN sent : <<c, m>> \in owed' /\ Reaches(c, m) =>
           /\ socket'[c] = "open"
           /\ sent[m].channel[2] = "broadcast" => BroadcastTopic \in topics'[c]
           /\ sent[m].channel[2] = "room" =>
                SubSeq(sent[m].channel, 3, Len(sent[m].channel)) \in topics'[c]
  PROVE  Coming'
  <1>1. ASSUME NEW c \in Conns, NEW m \in DOMAIN sent, <<c, m>> \in owed', Reaches(c, m)
        PROVE  Reaches(c, m)'
    <2>1. Reaches(c, m)' <=>
           /\ socket'[c] = "open"
           /\ sent'[m].channel[2] = "broadcast" => BroadcastTopic \in topics'[c]
           /\ sent'[m].channel[2] = "room" =>
                SubSeq(sent'[m].channel, 3, Len(sent'[m].channel)) \in topics'[c]
           /\ sent'[m].channel[2] = "user" => UserOf[c] = <<sent'[m].channel[3]>>
      <3>1. sent'[m].channel \in Channel
        BY SentTyped
      <3>. QED
        BY <3>1 DEF Reaches, Gets, Forwarded, Subscribers, SocketsOf, OpenAt, Channel
    <2>. QED
      BY <1>1, <2>1, ReachesWhen
  <1>2. ASSUME NEW c \in Conns, NEW m \in DOMAIN sent, Before(c, m) PROVE Before(c, m)'
    BY <1>2 DEF Before, Pending, Listening
  <1>. QED
    BY <1>1, <1>2, ComingFrame

LEMMA OpenComing == ASSUME Types, Types', Coming, NEW c \in Conns, Open(c) PROVE Coming'
  <1>1. socket[c] # "open" /\ owed' = owed /\ UNCHANGED <<sent, outbox, processed, inbox, cache, down>>
    BY DEF Open, SubscribeChannels, pubVars
  <1>2. \A d \in Conns \ {c} : socket'[d] = socket[d] /\ topics'[d] = topics[d]
    BY DEF Open, Types
  <1>. QED
    BY <1>1, <1>2, ReachesWhen, SocketStepComing

LEMMA CloseComing == ASSUME Types, Types', Coming, NEW c \in Conns, Close(c) PROVE Coming'
  <1>1. owed' \subseteq owed /\ UNCHANGED <<sent, outbox, processed, inbox, cache, down>>
    BY DEF Close, NoLongerOwed, pubVars, subVars
  <1>2. \A d \in Conns \ {c} : socket'[d] = socket[d] /\ topics'[d] = topics[d]
    BY DEF Close, Types
  <1>3. \A m \in DOMAIN sent : <<c, m>> \notin owed'
    BY DEF Close, NoLongerOwed, Channels
  <1>. QED
    BY <1>1, <1>2, <1>3, ReachesWhen, SocketStepComing

LEMMA SubscribeRoomComing ==
  ASSUME Types, Types', Coming, NEW c \in Conns, NEW r \in Rooms, SubscribeRoom(c, r) PROVE Coming'
  <1>1. owed' = owed /\ UNCHANGED <<socket, sent, outbox, processed, inbox, cache, down>>
    BY DEF SubscribeRoom, SubscribeChannels, pubVars
  <1>2. \A d \in Conns : topics[d] \subseteq topics'[d]
    BY DEF SubscribeRoom, Types
  <1>. QED
    BY <1>1, <1>2, ReachesWhen, SocketStepComing

LEMMA UnsubscribeRoomComing ==
  ASSUME BroadcastTopic \notin Rooms, Types, Types', ChannelShapes, Coming,
         NEW c \in Conns, NEW r \in Rooms, UnsubscribeRoom(c, r)
  PROVE  Coming'
  <1>1. owed' \subseteq owed /\ UNCHANGED <<socket, sent, outbox, processed, inbox, cache, down>>
    BY DEF UnsubscribeRoom, NoLongerOwed, pubVars, subVars
  <1>2. \A d \in Conns \ {c} : topics'[d] = topics[d]
    BY DEF UnsubscribeRoom, Types
  <1>3. topics'[c] = topics[c] \ {r} /\ r # BroadcastTopic
    BY DEF UnsubscribeRoom, Types
  <1>4. ASSUME NEW m \in DOMAIN sent, <<c, m>> \in owed', sent[m].channel[2] = "room"
        PROVE  SubSeq(sent[m].channel, 3, Len(sent[m].channel)) # r
    <2>1. sent[m].channel # RoomChannel(r)
      BY <1>4 DEF UnsubscribeRoom, NoLongerOwed
    <2>2. sent[m].channel \in Channel /\ Shape(sent[m].channel)
      BY SentTyped DEF ChannelShapes
    <2>. QED
      BY <1>4, <2>1, <2>2, ShapeKinds
  <1>. QED
    BY <1>1, <1>2, <1>3, <1>4, ReachesWhen, SocketStepComing

\* The other steps leave the sockets alone.
LEMMA RedisStepComing ==
  ASSUME Types, Coming, UNCHANGED <<localVars, sent>>, owed' \subseteq owed,
         \A c \in Conns, m \in DOMAIN sent :
           <<c, m>> \in owed' /\ Reaches(c, m) /\ Before(c, m) => Before(c, m)'
  PROVE  Coming'
  <1>1. \A c \in Conns, m \in DOMAIN sent : Reaches(c, m) => Reaches(c, m)'
    BY DEF Reaches, Gets, Forwarded, Subscribers, SocketsOf, OpenAt, localVars
  <1>. QED
    BY <1>1, ComingFrame

\* Nothing that is under way is taken away, and nobody stops listening.
LEMMA KeptComing ==
  ASSUME Types, Coming, UNCHANGED <<localVars, sent>>, owed' \subseteq owed,
         \A j \in Instances : ElementsOf(inbox[j]) \subseteq ElementsOf(inbox'[j]),
         \A j \in Instances : Pending(j) \subseteq Pending(j)',
         \A j \in Instances : /\ cache[j] \subseteq cache'[j]
                              /\ <<"subscriber", j>> \in down' => <<"subscriber", j>> \in down
  PROVE  Coming'
  <1>1. ASSUME NEW c \in Conns, NEW m \in DOMAIN sent, Before(c, m) PROVE Before(c, m)'
    <2>1. Home[c] \in Instances /\ sent[m].from \in Instances /\ sent' = sent
      BY SentTyped, RelayAssumption
    <2>2. Home[c] \in Listening(sent[m].channel) => Home[c] \in Listening(sent[m].channel)'
      BY <2>1 DEF Listening
    <2>3. \A j \in Instances : sent[m].from = j /\ m \in Pending(j) => m \in Pending(j)'
      OBVIOUS
    <2>4. m \in Pending(sent[m].from) => m \in Pending(sent[m].from)'
      BY <2>1, <2>3 DEF Pending
    <2>5. m \in ElementsOf(inbox[Home[c]]) => m \in ElementsOf(inbox'[Home[c]])
      BY <2>1
    <2>. QED
      BY <1>1, <2>2, <2>4, <2>5 DEF Before, ElementsOf
  <1>. QED
    BY <1>1, RedisStepComing

LEMMA SubscribeAnsweredComing ==
  ASSUME Types, Coming, NEW i \in Instances, SubscribeAnswered(i) PROVE Coming'
  <1>1. /\ UNCHANGED <<localVars, sent, outbox, processed, inbox, down, owed>>
        /\ \A j \in Instances : cache[j] \subseteq cache'[j]
    BY DEF SubscribeAnswered, Types, pubVars
  <1>. QED
    BY <1>1, KeptComing DEF Pending

LEMMA SubscribesFailComing ==
  ASSUME Types, Coming, NEW i \in Instances, SubscribesFail(i) PROVE Coming'
  <1>1. UNCHANGED <<localVars, sent, outbox, processed, inbox, cache, down, owed>>
    BY DEF SubscribesFail, pubVars
  <1>. QED
    BY <1>1, KeptComing DEF Pending

LEMMA PublisherLostComing ==
  ASSUME Types, Coming, NEW i \in Instances, PublisherLost(i) PROVE Coming'
  <1>1. /\ UNCHANGED <<localVars, sent, outbox, inbox, cache, owed>>
        /\ down' = down \cup {<<"publisher", i>>}
    BY DEF PublisherLost, LinkLost, subVars
  <1>2. PICK n \in 0 .. processed[i] : processed' = [processed EXCEPT ![i] = n]
    BY DEF PublisherLost
  <1>3. n \in Nat /\ processed[i] \in Nat /\ n <= processed[i] /\ processed'[i] = n
        /\ \A j \in Instances \ {i} : processed'[j] = processed[j]
    BY <1>2 DEF Types
  <1>4. ASSUME NEW j \in Instances PROVE Pending(j) \subseteq Pending(j)'
    <2>1. \A k \in DOMAIN outbox[j] : k \in Nat
      <3>1. outbox[j] \in Seq(DOMAIN sent)
        BY DEF Types
      <3>. QED
        BY <3>1
    <2>2. \A k \in DOMAIN outbox[j] : k > processed[j] => k > processed'[j]
      BY <1>3, <2>1
    <2>. QED
      BY <1>1, <2>2 DEF Pending
  <1>5. \A j \in Instances : <<"subscriber", j>> \in down' => <<"subscriber", j>> \in down
    BY <1>1
  <1>. QED
    BY <1>1, <1>4, <1>5, KeptComing

LEMMA LinkBackComing ==
  ASSUME Types, Coming, NEW l \in Links, LinkBack(l) PROVE Coming'
  <1>1. UNCHANGED <<localVars, sent, outbox, processed, inbox, cache, owed>> /\ down' \subseteq down
    BY DEF LinkBack, pubVars, subVars
  <1>. QED
    BY <1>1, KeptComing DEF Pending

LEMMA RedisPublishesComing ==
  ASSUME Types, Outboxes, Coming, NEW i \in Instances, RedisPublishes(i) PROVE Coming'
  <1>. DEFINE n == outbox[i][processed[i] + 1]
  <1>1. UNCHANGED <<localVars, sent, cache, down, owed>>
    BY DEF RedisPublishes, subVars
  <1>2. Pending(i)' = Pending(i) \ {n} /\ \A j \in Instances \ {i} : Pending(j)' = Pending(j)
    BY RedisPublishesPending
  <1>3. n \in DOMAIN sent
    BY RedisPublishesEffect
  <1>4. inbox' = [j \in Instances |->
                    IF j \in Listening(sent[n].channel) THEN Append(inbox[j], n) ELSE inbox[j]]
    BY DEF RedisPublishes
  <1>. HIDE DEF n
  <1>5. ASSUME NEW j \in Instances
        PROVE  /\ ElementsOf(inbox[j]) \subseteq ElementsOf(inbox'[j])
               /\ j \in Listening(sent[n].channel) => n \in ElementsOf(inbox'[j])
    <2>1. inbox[j] \in Seq(DOMAIN sent)
      BY DEF Types
    <2>2. /\ DOMAIN inbox[j] = 1 .. Len(inbox[j]) /\ Len(inbox[j]) \in Nat
          /\ DOMAIN Append(inbox[j], n) = 1 .. (Len(inbox[j]) + 1)
          /\ Append(inbox[j], n)[Len(inbox[j]) + 1] = n
          /\ \A k \in 1 .. Len(inbox[j]) : Append(inbox[j], n)[k] = inbox[j][k]
      BY <1>3, <2>1, AppendProperties
    <2>. QED
      BY <1>4, <2>2 DEF ElementsOf
  <1>6. ASSUME NEW c \in Conns, NEW m \in DOMAIN sent, Before(c, m) PROVE Before(c, m)'
    <2>1. Home[c] \in Instances /\ sent[m].from \in Instances
      BY SentTyped, RelayAssumption
    <2>2. CASE m \in ElementsOf(inbox[Home[c]])
      BY <1>5, <2>1, <2>2 DEF Before, ElementsOf
    <2>3. CASE m \in Pending(sent[m].from) /\ Home[c] \in Listening(sent[m].channel)
      <3>1. CASE m = n
        <4>1. n \in ElementsOf(inbox'[Home[c]])
          BY <1>5, <2>1, <2>3, <3>1
        <4>. QED
          BY <3>1, <4>1 DEF Before, ElementsOf
      <3>2. CASE m # n
        <4>1. m \in Pending(sent[m].from)'
          BY <1>1, <1>2, <2>1, <2>3, <3>2 DEF Pending
        <4>2. Home[c] \in Listening(sent[m].channel)'
          BY <1>1, <2>3 DEF Listening
        <4>. QED
          BY <4>1, <4>2 DEF Before, Pending, Listening
      <3>. QED
        BY <3>1, <3>2
    <2>. QED
      BY <1>6, <2>2, <2>3 DEF Before
  <1>. QED
    BY <1>1, <1>6, RedisStepComing

LEMMA HandleMessageComing ==
  ASSUME Types, Coming, NEW i \in Instances, HandleMessage(i) PROVE Coming'
  <1>. DEFINE n == Head(inbox[i])
              cs == Forwarded(i, sent[n].channel)
  <1>1. /\ inbox[i] \in Seq(DOMAIN sent) /\ inbox[i] # <<>>
        /\ inbox'[i] = Tail(inbox[i]) /\ \A j \in Instances \ {i} : inbox'[j] = inbox[j]
    BY HandleMessageEffect
  <1>2. owed' = owed \ (cs \X {n}) /\ UNCHANGED <<localVars, sent, outbox, processed, cache, down>>
    BY DEF HandleMessage, pubVars, subVars
  <1>3. ElementsOf(inbox[i]) = {n} \cup ElementsOf(Tail(inbox[i]))
    BY <1>1, ElementsOfTail
  <1>4. ASSUME NEW c \in Conns, NEW m \in DOMAIN sent, <<c, m>> \in owed', Reaches(c, m), Before(c, m)
        PROVE  Before(c, m)'
    <2>1. CASE Home[c] = i /\ m \in ElementsOf(inbox[i])
      <3>1. m = n => c \in cs
        BY <1>4, <2>1 DEF Reaches, Gets
      <3>2. m # n
        BY <1>2, <1>4, <3>1
      <3>3. m \in ElementsOf(Tail(inbox[i]))
        BY <1>3, <2>1, <3>2
      <3>4. inbox'[Home[c]] = Tail(inbox[i])
        BY <1>1, <2>1
      <3>5. m \in ElementsOf(inbox'[Home[c]])
        BY <3>3, <3>4
      <3>. QED
        BY <3>5 DEF Before, ElementsOf
    <2>2. CASE Home[c] # i /\ m \in ElementsOf(inbox[Home[c]])
      <3>1. inbox'[Home[c]] = inbox[Home[c]]
        BY <1>1, <2>2, RelayAssumption
      <3>. QED
        BY <2>2, <3>1 DEF Before, ElementsOf
    <2>3. CASE m \in Pending(sent[m].from) /\ Home[c] \in Listening(sent[m].channel)
      BY <1>2, <2>3 DEF Before, Pending, Listening
    <2>. QED
      BY <1>4, <2>1, <2>2, <2>3 DEF Before
  <1>5. owed' \subseteq owed
    BY <1>2
  <1>. QED
    BY <1>2, <1>4, <1>5, RedisStepComing

LEMMA SubscriberLostComing ==
  ASSUME Types, Coming, NEW i \in Instances, SubscriberLost(i) PROVE Coming'
  <1>1. /\ UNCHANGED <<localVars, sent, outbox, processed, cache>>
        /\ down' = down \cup {<<"subscriber", i>>} /\ owed' \subseteq owed
    BY DEF SubscriberLost, LinkLost, NoLongerOwed, subVars
  <1>2. \A j \in Instances \ {i} : inbox'[j] = inbox[j]
    BY DEF SubscriberLost, Types
  <1>3. \A c \in Conns, m \in DOMAIN sent : <<c, m>> \in owed' => Home[c] # i
    BY DEF SubscriberLost, NoLongerOwed, Channels
  <1>4. ASSUME NEW c \in Conns, NEW m \in DOMAIN sent, <<c, m>> \in owed', Before(c, m)
        PROVE  Before(c, m)'
    <2>1. Home[c] \in Instances \ {i}
      BY <1>3, <1>4, RelayAssumption
    <2>2. inbox'[Home[c]] = inbox[Home[c]]
      BY <1>2, <2>1
    <2>3. Home[c] \in Listening(sent[m].channel) => Home[c] \in Listening(sent[m].channel)'
      BY <1>1, <2>1 DEF Listening
    <2>. QED
      BY <1>1, <1>4, <2>2, <2>3 DEF Before, ElementsOf, Pending, Listening
  <1>. QED
    BY <1>1, <1>4, RedisStepComing

LEMMA PublishesFailComing ==
  ASSUME Types, Outboxes, Coming, NEW i \in Instances, PublishesFail(i) PROVE Coming'
  <1>1. UNCHANGED <<localVars, sent, inbox, cache, down>>
    BY DEF PublishesFail, subVars
  <1>2. owed' = {p \in owed : p[2] \notin Pending(i)} /\ \A j \in Instances \ {i} : Pending(j)' = Pending(j)
    BY PublishesFailEffect, PublishesFailPending
  <1>3. ASSUME NEW c \in Conns, NEW m \in DOMAIN sent, <<c, m>> \in owed', Before(c, m)
        PROVE  Before(c, m)'
    <2>1. m \notin Pending(i) /\ sent[m].from \in Instances
      BY <1>2, <1>3, SentTyped
    <2>2. m \in Pending(sent[m].from) => m \in Pending(sent[m].from)'
      BY <1>1, <1>2, <2>1 DEF Pending
    <2>. QED
      BY <1>1, <1>3, <2>2 DEF Before, ElementsOf, Pending, Listening
  <1>. QED
    BY <1>1, <1>2, <1>3, RedisStepComing

LEMMA EmitComing ==
  ASSUME Types, Types', Outboxes, HearsBroadcast, Coming,
         NEW i \in Instances, NEW cs \in SUBSET Conns, NEW ch \in Channel, Shape(ch), Emit(i, cs, ch),
         NEW n, n = Len(sent) + 1
  PROVE  Coming'
  <1>1. /\ DOMAIN sent' = DOMAIN sent \cup {n} /\ n \notin DOMAIN sent
        /\ \A m \in DOMAIN sent : sent'[m] = sent[m]
        /\ sent'[n] = [from |-> i, channel |-> ch]
        /\ owed' = owed \cup (Due(i, ch) \X {n})
    BY EmitEffect
  <1>2. UNCHANGED <<socket, topics, cache, inbox, down>>
    BY EmitEffect DEF localVars, subVars
  <1>3. \A j \in Instances : Pending(j) \subseteq Pending(j)'
    BY EmitOutboxes
  <1>4. n \in Pending(i)'
    BY EmitOutboxes
  <1>5. owed \subseteq Conns \X DOMAIN sent
    BY DEF Types
  <1>6. ASSUME NEW c \in Conns, NEW m \in DOMAIN sent, <<c, m>> \in owed'
        PROVE  Reaches(c, m)' /\ Before(c, m)'
    <2>1. Reaches(c, m) /\ Before(c, m) /\ sent[m].from \in Instances
      BY <1>1, <1>5, <1>6, SentTyped DEF Coming
    <2>2. Reaches(c, m)'
      BY <1>1, <1>2, <2>1 DEF Reaches, Gets, Forwarded, Subscribers, SocketsOf, OpenAt
    <2>3. Pending(sent[m].from) \subseteq Pending(sent[m].from)'
      <3>1. \A j : j = sent[m].from => Pending(j) \subseteq Pending(j)'
        BY <1>3, <2>1
      <3>2. sent'[m].from = sent[m].from
        BY <1>1
      <3>. QED
        BY <3>1, <3>2 DEF Pending
    <2>. QED
      BY <1>1, <1>2, <2>1, <2>2, <2>3 DEF Before, ElementsOf, Pending, Listening
  <1>7. ASSUME NEW c \in Conns, <<c, n>> \in owed'
        PROVE  Reaches(c, n)' /\ Before(c, n)'
    <2>1. c \in Due(i, ch)
      BY <1>1, <1>5, <1>7
    <2>2. Gets(c, ch) /\ Home[c] \in Listening(ch)
      BY <2>1, MeantGets DEF Due
    <2>3. Reaches(c, n)'
      <3>1. Gets(c, ch)'
        BY <1>2, <2>2 DEF Gets, Forwarded, Subscribers, SocketsOf, OpenAt
      <3>2. sent'[n].channel = ch
        BY <1>1
      <3>. QED
        BY <3>1, <3>2 DEF Reaches, Gets, Forwarded, Subscribers, SocketsOf, OpenAt
    <2>4. n \in Pending(sent[n].from)' /\ Home[c] \in Listening(sent[n].channel)'
      BY <1>1, <1>2, <1>4, <2>2 DEF Pending, Listening
    <2>. QED
      BY <2>3, <2>4 DEF Before, Pending, Listening
  <1>. QED
    BY <1>1, <1>6, <1>7 DEF Coming

DeliveryInv == RelayInv /\ ChannelShapes /\ HearsBroadcast /\ Coming

LEMMA ComingKept ==
  ASSUME PlainTargets, BroadcastTopic \notin Rooms, DeliveryInv, [Next]_vars PROVE Coming'
  <1>0. Types' /\ Types /\ Outboxes /\ Coming /\ HearsBroadcast /\ ChannelShapes
    BY TypesKept DEF DeliveryInv, RelayInv
  <1>1. ASSUME NEW i \in Instances, Sending(i) PROVE Coming'
    BY <1>0, <1>1, EmitComing DEF Sending, EmitStep
  <1>2. ASSUME NEW c \in Conns, Open(c) \/ Close(c) PROVE Coming'
    BY <1>0, <1>2, OpenComing, CloseComing
  <1>3. ASSUME NEW c \in Conns, NEW r \in Rooms, SubscribeRoom(c, r) \/ UnsubscribeRoom(c, r)
        PROVE  Coming'
    BY <1>0, <1>3, SubscribeRoomComing, UnsubscribeRoomComing
  <1>4. ASSUME NEW i \in Instances,
               \/ SubscribeAnswered(i) \/ RedisPublishes(i) \/ HandleMessage(i)
               \/ PublisherLost(i) \/ SubscriberLost(i)
               \/ PublishesFail(i) \/ SubscribesFail(i)
        PROVE  Coming'
    BY <1>0, <1>4, SubscribeAnsweredComing, RedisPublishesComing, HandleMessageComing,
       PublisherLostComing, SubscriberLostComing, PublishesFailComing, SubscribesFailComing
  <1>5. ASSUME NEW l \in Links, LinkBack(l) PROVE Coming'
    BY <1>0, <1>5, LinkBackComing
  <1>6. ASSUME UNCHANGED vars PROVE Coming'
    <2>1. UNCHANGED <<localVars, sent, outbox, processed, inbox, cache, down, owed>>
      BY <1>6 DEF vars, pubVars, subVars
    <2>. QED
      BY <1>0, <2>1, KeptComing DEF Pending
  <1>. QED
    BY <1>1, <1>2, <1>3, <1>4, <1>5, <1>6, Steps

\* A message that a socket of another instance is still to get is on its way
\* to it (src/src/core/MessageRouter.ts publishes, src/src/redis/RedisPubSub.ts
\* forwards).  A client that gives up the room named "broadcast" no longer has
\* the broadcast topic, so that is no room here.
THEOREM RelayOnItsWay ==
  PlainTargets /\ BroadcastTopic \notin Rooms => (Spec => []OnItsWay)
  <1>. SUFFICES ASSUME PlainTargets, BroadcastTopic \notin Rooms PROVE Spec => []OnItsWay
    OBVIOUS
  <1>1. Init => RelayInv /\ ChannelShapes /\ HearsBroadcast /\ Coming
    BY RelayInvStart, ShapesStart DEF Init, HearsBroadcast, Coming
  <1>2. DeliveryInv /\ [Next]_vars => (ChannelShapes /\ HearsBroadcast /\ Coming)'
    BY ShapesKept, HearsKept, ComingKept DEF DeliveryInv, RelayInv
  <1>3. DeliveryInv => OnItsWay
    BY ComingGives DEF DeliveryInv, RelayInv
  <1>. QED
    BY <1>1, <1>2, <1>3, RelayInvariant, PTL DEF Spec, DeliveryInv

-----------------------------------------------------------------------------
(* How often a socket gets a message. *)

Count(m, s) == Cardinality(Occurrences(m, s))

LEMMA CountType ==
  ASSUME NEW S, NEW s \in Seq(S), NEW m
  PROVE  IsFiniteSet(Occurrences(m, s)) /\ Count(m, s) \in Nat
  <1>1. DOMAIN s = 1 .. Len(s) /\ Len(s) \in Nat
    OBVIOUS
  <1>2. IsFiniteSet(1 .. Len(s)) /\ Occurrences(m, s) \subseteq 1 .. Len(s)
    BY <1>1, FS_Interval DEF Occurrences
  <1>. QED
    BY <1>2, FS_Subset, FS_CardinalityType DEF Count

LEMMA CountEmpty ==
  ASSUME NEW m, NEW s, Occurrences(m, s) = {}
  PROVE  Count(m, s) = 0
  BY FS_EmptySet DEF Count

LEMMA CountAppend ==
  ASSUME NEW S, NEW s \in Seq(S), NEW n \in S, NEW m
  PROVE  Count(m, Append(s, n)) = Count(m, s) + (IF m = n THEN 1 ELSE 0)
  <1>1. DOMAIN s = 1 .. Len(s) /\ Len(s) \in Nat
    OBVIOUS
  <1>2. /\ DOMAIN Append(s, n) = 1 .. (Len(s) + 1) /\ Append(s, n)[Len(s) + 1] = n
        /\ \A k \in 1 .. Len(s) : Append(s, n)[k] = s[k]
    BY <1>1, AppendProperties
  <1>3. Occurrences(m, Append(s, n)) = Occurrences(m, s) \cup (IF m = n THEN {Len(s) + 1} ELSE {})
    BY <1>1, <1>2 DEF Occurrences
  <1>4. IsFiniteSet(Occurrences(m, s)) /\ Count(m, s) \in Nat
    BY CountType
  <1>5. Len(s) + 1 \notin Occurrences(m, s)
    BY <1>1 DEF Occurrences
  <1>6. CASE m = n
    <2>1. Occurrences(m, Append(s, n)) = Occurrences(m, s) \cup {Len(s) + 1}
      BY <1>3, <1>6
    <2>. QED
      BY <1>4, <1>5, <1>6, <2>1, FS_AddElement DEF Count
  <1>7. CASE m # n
    <2>1. Occurrences(m, Append(s, n)) = Occurrences(m, s)
      BY <1>3, <1>7
    <2>. QED
      BY <1>4, <1>7, <2>1 DEF Count
  <1>. QED
    BY <1>6, <1>7

LEMMA CountTail ==
  ASSUME NEW S, NEW s \in Seq(S), s # <<>>, NEW m
  PROVE  Count(m, s) = Count(m, Tail(s)) + (IF m = Head(s) THEN 1 ELSE 0)
  <1>. DEFINE B == Occurrences(m, Tail(s))
              C == {k \in Occurrences(m, s) : k # 1}
  <1>1. Len(s) \in Nat \ {0} /\ DOMAIN s = 1 .. Len(s) /\ Head(s) = s[1]
    BY EmptySeq
  <1>2. Tail(s) \in Seq(S) /\ DOMAIN Tail(s) = 1 .. (Len(s) - 1)
        /\ \A k \in DOMAIN Tail(s) : Tail(s)[k] = s[k + 1]
    BY <1>1, HeadTailProperties
  <1>3. Count(m, Tail(s)) \in Nat /\ IsFiniteSet(B) /\ IsFiniteSet(Occurrences(m, s))
    BY <1>2, CountType
  <1>4. Cardinality(B) = Cardinality(C)
    <2>. DEFINE shift == [k \in B |-> k + 1]
    <2>1. ASSUME NEW k \in B PROVE k + 1 \in C /\ k \in Nat
      BY <1>1, <1>2 DEF Occurrences
    <2>2. ASSUME NEW k \in C PROVE k - 1 \in B /\ k = (k - 1) + 1
      BY <1>1, <1>2 DEF Occurrences
    <2>3. shift \in [B -> C] /\ \A k \in B : shift[k] = k + 1
      BY <2>1
    <2>4. shift \in Injection(B, C)
      BY <2>1, <2>3 DEF Injection, IsInjective
    <2>5. shift \in Surjection(B, C)
      <3>1. \A k \in C : \E l \in B : shift[l] = k
        BY <2>2, <2>3
      <3>. QED
        BY <2>3, <3>1 DEF Surjection
    <2>6. shift \in Bijection(B, C)
      BY <2>4, <2>5 DEF Bijection
    <2>. HIDE DEF B, C, shift
    <2>. QED
      BY <1>3, <2>6, FS_Bijection DEF ExistsBijection
  <1>5. CASE m = Head(s)
    <2>1. Occurrences(m, s) = C \cup {1} /\ 1 \notin C
      BY <1>1, <1>5 DEF Occurrences
    <2>2. IsFiniteSet(C)
      BY <1>3, FS_Subset
    <2>. HIDE DEF C
    <2>3. Cardinality(C \cup {1}) = Cardinality(C) + 1
      BY <2>1, <2>2, FS_AddElement
    <2>. QED
      BY <1>4, <1>5, <2>1, <2>3 DEF Count
  <1>6. CASE m # Head(s)
    <2>1. Occurrences(m, s) = C
      BY <1>1, <1>6 DEF Occurrences
    <2>2. Count(m, s) = Count(m, Tail(s))
      BY <1>4, <2>1 DEF Count
    <2>. QED
      BY <1>3, <1>6, <2>2
  <1>. QED
    BY <1>5, <1>6

\* Copies of m that c got, that its instance has, and the one Redis may still
\* pass on
Unsent(m) == IF m \in Pending(sent[m].from) THEN 1 ELSE 0
Copies(c, m) == Count(m, received[c]) + Count(m, inbox[Home[c]]) + Unsent(m)

Allowed(c, m) ==
  1 + (IF Home[c] = sent[m].from THEN 1 ELSE 0)
    + (IF <<"publisher", sent[m].from>> \in lost THEN 1 ELSE 0)

FewCopies == \A c \in Conns, m \in DOMAIN sent : Copies(c, m) <= Allowed(c, m)

LEMMA CopiesType ==
  ASSUME Types, NEW c \in Conns, NEW m
  PROVE  /\ Count(m, received[c]) \in Nat /\ Count(m, inbox[Home[c]]) \in Nat
         /\ Unsent(m) \in {0, 1} /\ Copies(c, m) \in Nat
         /\ Allowed(c, m) \in Nat /\ Allowed(c, m) >= 1
  <1>1. received[c] \in Seq(DOMAIN sent) /\ inbox[Home[c]] \in Seq(DOMAIN sent)
    BY RelayAssumption DEF Types
  <1>2. Count(m, received[c]) \in Nat /\ Count(m, inbox[Home[c]]) \in Nat
    BY <1>1, CountType
  <1>. QED
    BY <1>2 DEF Unsent, Copies, Allowed

LEMMA CopiesTypeNext ==
  ASSUME Types', NEW c \in Conns, NEW m
  PROVE  /\ Count(m, received[c])' \in Nat /\ Count(m, inbox[Home[c]])' \in Nat
         /\ Unsent(m)' \in {0, 1} /\ Copies(c, m)' \in Nat
  <1>1. received'[c] \in Seq(DOMAIN sent') /\ inbox'[Home[c]] \in Seq(DOMAIN sent')
    BY RelayAssumption DEF Types
  <1>2. Count(m, received'[c]) \in Nat /\ Count(m, inbox'[Home[c]]) \in Nat
    BY <1>1, CountType
  <1>3. Count(m, received[c])' \in Nat /\ Count(m, inbox[Home[c]])' \in Nat
    BY <1>2 DEF Count, Occurrences
  <1>4. Unsent(m)' \in {0, 1}
    BY DEF Unsent
  <1>. QED
    BY <1>3, <1>4 DEF Copies

\* Steps after which no socket has more copies
LEMMA CopiesFrame ==
  ASSUME Types, Types', FewCopies, UNCHANGED sent, lost \subseteq lost',
         \A c \in Conns, m \in DOMAIN sent : Copies(c, m)' <= Copies(c, m)
  PROVE  FewCopies'
  <1>. SUFFICES ASSUME NEW c \in Conns, NEW m \in DOMAIN sent PROVE Copies(c, m)' <= Allowed(c, m)'
    BY DEF FewCopies
  <1>1. Copies(c, m) <= Allowed(c, m) /\ Copies(c, m)' <= Copies(c, m)
    BY DEF FewCopies
  <1>2. Allowed(c, m) <= Allowed(c, m)' /\ Allowed(c, m)' \in Nat
    BY DEF Allowed
  <1>3. Copies(c, m) \in Nat /\ Copies(c, m)' \in Nat /\ Allowed(c, m) \in Nat
    BY CopiesType, CopiesTypeNext
  <1>. QED
    BY <1>1, <1>2, <1>3

LEMMA QuietCopies ==
  ASSUME Types, Types', FewCopies, UNCHANGED <<sent, received>>, lost \subseteq lost',
         \A j \in Instances : inbox'[j] = inbox[j] \/ inbox'[j] = <<>>,
         \A j \in Instances : Pending(j)' \subseteq Pending(j)
  PROVE  FewCopies'
  <1>1. ASSUME NEW c \in Conns, NEW m \in DOMAIN sent PROVE Copies(c, m)' <= Copies(c, m)
    <2>1. Home[c] \in Instances /\ sent[m].from \in Instances
      BY SentTyped, RelayAssumption
    <2>2. Count(m, received[c])' = Count(m, received[c])
      BY DEF Count, Occurrences
    <2>3. Count(m, inbox[Home[c]])' <= Count(m, inbox[Home[c]])
      <3>1. Count(m, inbox[Home[c]]) \in Nat
        BY CopiesType
      <3>2. CASE inbox'[Home[c]] = inbox[Home[c]]
        BY <3>1, <3>2 DEF Count, Occurrences
      <3>3. CASE inbox'[Home[c]] = <<>>
        <4>1. Occurrences(m, <<>>) = {}
          BY DEF Occurrences
        <4>2. Count(m, inbox'[Home[c]]) = 0
          BY <3>3, <4>1, CountEmpty
        <4>. QED
          BY <3>1, <4>2 DEF Count, Occurrences
      <3>. QED
        BY <2>1, <3>2, <3>3
    <2>4. Unsent(m)' <= Unsent(m)
      <3>1. \A j \in Instances : j = sent[m].from => (m \in Pending(j)' => m \in Pending(j))
        OBVIOUS
      <3>2. m \in Pending(sent[m].from)' => m \in Pending(sent[m].from)
        BY <2>1, <3>1 DEF Pending
      <3>. QED
        BY <3>2 DEF Unsent
    <2>5. /\ Count(m, received[c]) \in Nat /\ Count(m, inbox[Home[c]]) \in Nat /\ Unsent(m) \in Nat
          /\ Count(m, inbox[Home[c]])' \in Nat /\ Unsent(m)' \in Nat
      BY CopiesType, CopiesTypeNext
    <2>. QED
      BY <2>2, <2>3, <2>4, <2>5 DEF Copies
  <1>. QED
    BY <1>1, CopiesFrame

LEMMA RedisPublishesCopies ==
  ASSUME Types, Types', Outboxes, FewCopies, NEW i \in Instances, RedisPublishes(i),
         NEW n, n = outbox[i][processed[i] + 1]
  PROVE  FewCopies'
  <1>1. UNCHANGED <<sent, received, lost>>
    BY DEF RedisPublishes
  <1>2. /\ Pending(i)' = Pending(i) \ {n} /\ n \in Pending(i)
        /\ \A j \in Instances \ {i} : Pending(j)' = Pending(j)
    BY RedisPublishesPending
  <1>3. n \in DOMAIN sent /\ sent[n].from = i
    BY <1>2, PendingSent
  <1>4. inbox' = [j \in Instances |->
                    IF j \in Listening(sent[n].channel) THEN Append(inbox[j], n) ELSE inbox[j]]
    BY DEF RedisPublishes
  <1>5. ASSUME NEW c \in Conns, NEW m \in DOMAIN sent PROVE Copies(c, m)' <= Copies(c, m)
    <2>1. Home[c] \in Instances /\ sent[m].from \in Instances /\ inbox[Home[c]] \in Seq(DOMAIN sent)
      BY SentTyped, RelayAssumption DEF Types
    <2>2. Count(m, received[c])' = Count(m, received[c])
      BY <1>1 DEF Count, Occurrences
    <2>3. Count(m, Append(inbox[Home[c]], n)) = Count(m, inbox[Home[c]]) + (IF m = n THEN 1 ELSE 0)
      BY <1>3, <2>1, CountAppend
    <2>4. inbox'[Home[c]] = inbox[Home[c]] \/ inbox'[Home[c]] = Append(inbox[Home[c]], n)
      BY <1>4, <2>1
    <2>5. /\ Count(m, received[c]) \in Nat /\ Count(m, inbox[Home[c]]) \in Nat /\ Unsent(m) \in Nat
          /\ Unsent(m)' \in Nat
      BY CopiesType, CopiesTypeNext
    <2>6. Count(m, inbox'[Home[c]]) <= Count(m, inbox[Home[c]]) + (IF m = n THEN 1 ELSE 0)
      <3>1. CASE inbox'[Home[c]] = inbox[Home[c]]
        BY <2>5, <3>1
      <3>2. CASE inbox'[Home[c]] = Append(inbox[Home[c]], n)
        BY <2>3, <2>5, <3>2
      <3>. QED
        BY <2>4, <3>1, <3>2
    <2>7. Count(m, inbox[Home[c]])' <= Count(m, inbox[Home[c]]) + (IF m = n THEN 1 ELSE 0)
      BY <2>6 DEF Count, Occurrences
    <2>8. Unsent(m)' + (IF m = n THEN 1 ELSE 0) <= Unsent(m)
      <3>1. CASE m = n
        <4>1. m \in Pending(sent[m].from) /\ m \notin Pending(sent[m].from)'
          BY <1>1, <1>2, <1>3, <3>1 DEF Pending
        <4>. QED
          BY <3>1, <4>1 DEF Unsent
      <3>2. CASE m # n
        <4>1. m \in Pending(sent[m].from)' => m \in Pending(sent[m].from)
          <5>1. \A j \in Instances : j = sent[m].from => (m \in Pending(j)' => m \in Pending(j))
            BY <1>2, <3>2
          <5>. QED
            BY <1>1, <2>1, <5>1 DEF Pending
        <4>. QED
          BY <3>2, <4>1 DEF Unsent
      <3>. QED
        BY <3>1, <3>2
    <2>9. Count(m, inbox[Home[c]])' \in Nat
      BY CopiesTypeNext
    <2>. QED
      BY <2>2, <2>5, <2>7, <2>8, <2>9 DEF Copies
  <1>. QED
    BY <1>1, <1>5, CopiesFrame

LEMMA HandleMessageCopies ==
  ASSUME Types, Types', FewCopies, NEW i \in Instances, HandleMessage(i),
         NEW n, n = Head(inbox[i])
  PROVE  FewCopies'
  <1>. DEFINE cs == Forwarded(i, sent[n].channel)
  <1>1. /\ inbox[i] \in Seq(DOMAIN sent) /\ inbox[i] # <<>> /\ n \in DOMAIN sent
        /\ inbox'[i] = Tail(inbox[i]) /\ \A j \in Instances \ {i} : inbox'[j] = inbox[j]
        /\ cs \subseteq OpenAt(i)
    BY HandleMessageEffect
  <1>2. received' = Handed(cs, n) /\ UNCHANGED <<sent, outbox, processed, lost>>
    BY DEF HandleMessage, pubVars
  <1>. HIDE DEF cs
  <1>3. \A c \in Conns : received'[c] = IF c \in cs THEN Append(received[c], n) ELSE received[c]
    BY <1>2 DEF Handed
  <1>4. ASSUME NEW c \in Conns, NEW m \in DOMAIN sent PROVE Copies(c, m)' <= Copies(c, m)
    <2>1. Home[c] \in Instances /\ received[c] \in Seq(DOMAIN sent)
      BY RelayAssumption DEF Types
    <2>2. Unsent(m)' = Unsent(m)
      BY <1>2 DEF Unsent, Pending
    <2>3. /\ Count(m, received[c]) \in Nat /\ Count(m, inbox[Home[c]]) \in Nat /\ Unsent(m) \in Nat
          /\ Count(m, received[c])' \in Nat /\ Count(m, inbox[Home[c]])' \in Nat
      BY CopiesType, CopiesTypeNext
    <2>4. /\ Count(m, received[c])' = Count(m, received'[c])
          /\ Count(m, inbox[Home[c]])' = Count(m, inbox'[Home[c]])
      BY DEF Count, Occurrences
    <2>5. Count(m, Append(received[c], n)) = Count(m, received[c]) + (IF m = n THEN 1 ELSE 0)
      BY <1>1, <2>1, CountAppend
    <2>6. Count(m, inbox[i]) = Count(m, Tail(inbox[i])) + (IF m = n THEN 1 ELSE 0)
      BY <1>1, CountTail
    <2>7. CASE Home[c] = i
      <3>1. Count(m, inbox[Home[c]])' + (IF m = n THEN 1 ELSE 0) = Count(m, inbox[Home[c]])
        BY <1>1, <2>4, <2>6, <2>7
      <3>2. Count(m, received[c])' <= Count(m, received[c]) + (IF m = n THEN 1 ELSE 0)
        BY <1>3, <2>3, <2>4, <2>5
      <3>. QED
        BY <2>2, <2>3, <3>1, <3>2 DEF Copies
    <2>8. CASE Home[c] # i
      <3>1. c \notin cs
        BY <1>1, <2>8 DEF OpenAt
      <3>2. received'[c] = received[c] /\ inbox'[Home[c]] = inbox[Home[c]]
        BY <1>1, <1>3, <2>1, <2>8, <3>1
      <3>. QED
        BY <2>2, <2>3, <2>4, <3>2 DEF Copies
    <2>. QED
      BY <2>7, <2>8
  <1>. QED
    BY <1>2, <1>4, CopiesFrame

\* Losing the publisher link of i may bring back one copy of each of its messages.
LEMMA PublisherLostCopies ==
  ASSUME Types, Types', FewCopies, NEW i \in Instances, PublisherLost(i) PROVE FewCopies'
  <1>1. /\ UNCHANGED <<sent, received, outbox, inbox>>
        /\ <<"publisher", i>> \notin lost /\ lost' = lost \cup {<<"publisher", i>>}
    BY DEF PublisherLost, LinkLost
  <1>2. \A j \in Instances \ {i} : processed'[j] = processed[j]
    BY DEF PublisherLost, Types
  <1>. SUFFICES ASSUME NEW c \in Conns, NEW m \in DOMAIN sent PROVE Copies(c, m)' <= Allowed(c, m)'
    BY <1>1 DEF FewCopies
  <1>3. /\ Count(m, received[c])' = Count(m, received[c])
        /\ Count(m, inbox[Home[c]])' = Count(m, inbox[Home[c]])
    BY <1>1 DEF Count, Occurrences
  <1>4. Copies(c, m) <= Allowed(c, m) /\ sent[m].from \in Instances
    BY SentTyped DEF FewCopies
  <1>5. /\ Count(m, received[c]) \in Nat /\ Count(m, inbox[Home[c]]) \in Nat /\ Unsent(m) \in {0, 1}
        /\ Allowed(c, m) \in Nat /\ Unsent(m)' \in {0, 1}
    BY CopiesType, CopiesTypeNext
  <1>6. CASE sent[m].from = i
    <2>1. Allowed(c, m)' = Allowed(c, m) + 1
      BY <1>1, <1>6 DEF Allowed
    <2>. QED
      BY <1>3, <1>4, <1>5, <2>1 DEF Copies
  <1>7. CASE sent[m].from # i
    <2>1. Allowed(c, m)' = Allowed(c, m)
      BY <1>1, <1>7 DEF Allowed
    <2>2. Unsent(m)' = Unsent(m)
      BY <1>1, <1>2, <1>4, <1>7 DEF Unsent, Pending
    <2>. QED
      BY <1>3, <1>4, <1>5, <2>1, <2>2 DEF Copies
  <1>. QED
    BY <1>6, <1>7

LEMMA EmitCopies ==
  ASSUME Types, Types', Outboxes, FewCopies,
         NEW i \in Instances, NEW cs \in SUBSET OpenAt(i), NEW ch \in Channel, Emit(i, cs, ch),
         NEW n, n = Len(sent) + 1
  PROVE  FewCopies'
  <1>0. cs \in SUBSET Conns
    BY DEF OpenAt
  <1>1. /\ DOMAIN sent' = DOMAIN sent \cup {n} /\ n \notin DOMAIN sent
        /\ \A m \in DOMAIN sent : sent'[m] = sent[m]
        /\ sent'[n] = [from |-> i, channel |-> ch]
        /\ received' = Handed(cs, n) /\ UNCHANGED <<inbox, lost>>
    BY <1>0, EmitEffect
  <1>2. Pending(i)' = Pending(i) \cup {n} /\ \A j \in Instances \ {i} : Pending(j)' = Pending(j)
    BY <1>0, EmitOutboxes
  <1>3. ASSUME NEW c \in Conns, NEW m \in DOMAIN sent'
        PROVE  /\ Count(m, received[c])' = Count(m, received[c]) + (IF c \in cs /\ m = n THEN 1 ELSE 0)
               /\ Count(m, inbox[Home[c]])' = Count(m, inbox[Home[c]])
               /\ m = n => Count(m, received[c]) = 0 /\ Count(m, inbox[Home[c]]) = 0
               /\ Count(m, received[c]) \in Nat /\ Count(m, inbox[Home[c]]) \in Nat
    <2>1. received[c] \in Seq(DOMAIN sent) /\ inbox[Home[c]] \in Seq(DOMAIN sent)
      BY RelayAssumption DEF Types
    <2>2. received[c] \in Seq(DOMAIN sent \cup {n})
      BY <2>1, SeqMonotonic
    <2>3. Count(m, Append(received[c], n)) = Count(m, received[c]) + (IF m = n THEN 1 ELSE 0)
      BY <2>2, CountAppend
    <2>4. Count(m, received[c]) \in Nat /\ Count(m, inbox[Home[c]]) \in Nat
      BY CopiesType
    <2>5. Count(m, received'[c]) = Count(m, received[c]) + (IF c \in cs /\ m = n THEN 1 ELSE 0)
      <3>1. CASE c \in cs
        <4>1. received'[c] = Append(received[c], n)
          BY <1>1, <3>1 DEF Handed
        <4>. QED
          BY <2>3, <3>1, <4>1
      <3>2. CASE c \notin cs
        <4>1. received'[c] = received[c]
          BY <1>1, <3>2 DEF Handed
        <4>. QED
          BY <2>4, <3>2, <4>1
      <3>. QED
        BY <3>1, <3>2
    <2>6. m = n => Occurrences(m, received[c]) = {} /\ Occurrences(m, inbox[Home[c]]) = {}
      <3>1. \A k \in DOMAIN received[c] : received[c][k] \in DOMAIN sent
        BY <2>1
      <3>2. \A k \in DOMAIN inbox[Home[c]] : inbox[Home[c]][k] \in DOMAIN sent
        BY <2>1
      <3>. QED
        BY <1>1, <3>1, <3>2 DEF Occurrences
    <2>7. m = n => Count(m, received[c]) = 0 /\ Count(m, inbox[Home[c]]) = 0
      BY <2>6, CountEmpty
    <2>8. /\ Count(m, received[c])' = Count(m, received'[c])
          /\ Count(m, inbox[Home[c]])' = Count(m, inbox[Home[c]])
      BY <1>1 DEF Count, Occurrences
    <2>. QED
      BY <2>4, <2>5, <2>7, <2>8
  <1>4. ASSUME NEW c \in Conns, NEW m \in DOMAIN sent PROVE Copies(c, m)' <= Allowed(c, m)'
    <2>1. Copies(c, m) <= Allowed(c, m) /\ sent[m].from \in Instances /\ sent'[m] = sent[m] /\ m # n
      BY <1>1, SentTyped DEF FewCopies
    <2>2. Allowed(c, m)' = Allowed(c, m)
      BY <1>1, <2>1 DEF Allowed
    <2>3. Unsent(m)' = Unsent(m)
      <3>1. \A j \in Instances : j = sent[m].from => (m \in Pending(j)' <=> m \in Pending(j))
        BY <1>2, <2>1
      <3>2. m \in Pending(sent[m].from)' <=> m \in Pending(sent[m].from)
        BY <2>1, <3>1 DEF Pending
      <3>. QED
        BY <3>2 DEF Unsent
    <2>4. Count(m, received[c])' = Count(m, received[c]) /\ Count(m, inbox[Home[c]])' = Count(m, inbox[Home[c]])
      BY <1>1, <1>3, <2>1
    <2>5. Copies(c, m)' = Copies(c, m)
      BY <2>3, <2>4 DEF Copies
    <2>. QED
      BY <2>1, <2>2, <2>5
  <1>5. ASSUME NEW c \in Conns PROVE Copies(c, n)' <= Allowed(c, n)'
    <2>1. /\ Count(n, received[c])' = IF c \in cs THEN 1 ELSE 0
          /\ Count(n, inbox[Home[c]])' = 0
      BY <1>1, <1>3
    <2>2. Unsent(n)' \in {0, 1}
      BY CopiesTypeNext
    <2>3. c \in cs => Home[c] = sent'[n].from
      BY <1>1 DEF OpenAt
    <2>4. Allowed(c, n)' >= 1 + (IF c \in cs THEN 1 ELSE 0)
      BY <2>3 DEF Allowed
    <2>5. Copies(c, n)' = (IF c \in cs THEN 1 ELSE 0) + 0 + Unsent(n)'
      BY <2>1 DEF Copies
    <2>6. Allowed(c, n)' \in Nat
      BY DEF Allowed
    <2>. QED
      BY <2>2, <2>4, <2>5, <2>6
  <1>. QED
    BY <1>1, <1>4, <1>5 DEF FewCopies

LEMMA CopiesKept ==
  ASSUME RelayInv, FewCopies, [Next]_vars PROVE FewCopies'
  <1>0. Types' /\ Types /\ Outboxes
    BY TypesKept DEF RelayInv
  <1>1. ASSUME NEW i \in Instances, Sending(i) PROVE FewCopies'
    BY <1>0, <1>1, EmitCopies DEF Sending, EmitStep
  <1>2. ASSUME NEW c \in Conns, NEW r, Open(c) \/ Close(c) \/ SubscribeRoom(c, r) \/ UnsubscribeRoom(c, r)
        PROVE  FewCopies'
    BY <1>0, <1>2, QuietCopies DEF Open, Close, SubscribeRoom, UnsubscribeRoom, pubVars, Pending
  <1>3. ASSUME NEW i \in Instances, SubscribeAnswered(i) \/ SubscribesFail(i) PROVE FewCopies'
    BY <1>0, <1>3, QuietCopies DEF SubscribeAnswered, SubscribesFail, pubVars, Pending
  <1>4. ASSUME NEW i \in Instances, RedisPublishes(i) \/ HandleMessage(i) \/ PublisherLost(i)
        PROVE  FewCopies'
    BY <1>0, <1>4, RedisPublishesCopies, HandleMessageCopies, PublisherLostCopies
  <1>5. ASSUME NEW i \in Instances, SubscriberLost(i) PROVE FewCopies'
    <2>1. UNCHANGED <<sent, received, outbox, processed>> /\ lost \subseteq lost'
          /\ inbox' = [inbox EXCEPT ![i] = <<>>]
      BY <1>5 DEF SubscriberLost, LinkLost
    <2>2. \A h \in Instances : inbox'[h] = inbox[h] \/ inbox'[h] = <<>>
      BY <1>0, <2>1 DEF Types
    <2>. QED
      BY <1>0, <2>1, <2>2, QuietCopies DEF Pending
  <1>6. ASSUME NEW i \in Instances, PublishesFail(i) PROVE FewCopies'
    <2>1. UNCHANGED <<sent, received, inbox, lost>>
      BY <1>6 DEF PublishesFail
    <2>2. \A j \in Instances : Pending(j)' \subseteq Pending(j)
      BY <1>0, <1>6, PublishesFailPending
    <2>. QED
      BY <1>0, <2>1, <2>2, QuietCopies
  <1>7. ASSUME NEW l \in Links, LinkBack(l) PROVE FewCopies'
    BY <1>0, <1>7, QuietCopies DEF LinkBack, pubVars, Pending
  <1>8. CASE UNCHANGED vars
    BY <1>0, <1>8, QuietCopies DEF vars, pubVars, Pending
  <1>. QED
    BY <1>1, <1>2, <1>3, <1>4, <1>5, <1>6, <1>7, <1>8, Steps

\* A socket gets a message at most once from Redis, once more on the instance
\* that published it, and once more only if that instance lost its publisher
\* link: what is behind the copies that the run Duplicates shows.
THEOREM RelayCopiesBounded == Spec => []CopiesBounded
  <1>1. Init => FewCopies
    BY DEF Init, FewCopies
  <1>2. RelayInv /\ FewCopies /\ [Next]_vars => FewCopies'
    BY CopiesKept
  <1>3. RelayInv /\ FewCopies => CopiesBounded
    <2>. SUFFICES ASSUME Types, FewCopies, NEW c \in Conns, NEW m \in DOMAIN sent
                  PROVE  Count(m, received[c]) <= Allowed(c, m)
      BY DEF RelayInv, CopiesBounded, Count, Allowed
    <2>1. Copies(c, m) <= Allowed(c, m)
      BY DEF FewCopies
    <2>2. /\ Count(m, received[c]) \in Nat /\ Count(m, inbox[Home[c]]) \in Nat /\ Unsent(m) \in Nat
          /\ Allowed(c, m) \in Nat
      BY CopiesType
    <2>. QED
      BY <2>1, <2>2 DEF Copies
  <1>. QED
    BY <1>1, <1>2, <1>3, RelayInvariant, PTL DEF Spec
=============================================================================
