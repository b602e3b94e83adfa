-------------------------- MODULE MessageRelayProofs --------------------------
(***************************************************************************)
(* Theorems about MessageRelay, for any number of instances, sockets,      *)
(* messages and lost links: what every socket gets, in which order and how *)
(* often, and that an instance listens to every channel it needs.          *)
(***************************************************************************)
EXTENDS MessageRelay, SequenceTheorems, FiniteSetTheorems, TLAPS

-----------------------------------------------------------------------------
(* Types. *)

\* The provers do not know that a literal is in STRING.
Words == STRING \cup {"channel", "broadcast", "user", "room"}
Channel == {ch \in Seq(Words) : Len(ch) > 1 /\ ch[2] \in {"broadcast", "user", "room"}}

Types ==
  /\ socket \in [Conns -> {"new", "open", "closed"}]
  /\ topics \in [Conns -> SUBSET Seq(Words)]
  /\ cache \in [Instances -> SUBSET Channel]
  /\ subscribing \in [Instances -> Seq(Channel)]
  /\ failed \in [Instances -> SUBSET Channel]
  /\ sent \in Seq([from : Instances, channel : Channel])
  /\ outbox \in [Instances -> Seq(DOMAIN sent)]
  /\ processed \in [Instances -> Nat]
  /\ \A i \in Instances : processed[i] <= Len(outbox[i])
  /\ inbox \in [Instances -> Seq(DOMAIN sent)]
  /\ received \in [Conns -> Seq(DOMAIN sent)]
  /\ down \subseteq lost /\ lost \subseteq Links
  /\ owed \subseteq Conns \X DOMAIN sent

\* Channels an instance listens to, is about to or failed to
Known(i) == cache[i] \cup ElementsOf(subscribing[i]) \cup failed[i]

Listens ==
  /\ \A i \in Instances : BroadcastChannel \in Known(i)
  /\ Covered

\* What an instance published, in the order of its numbers
Outboxes ==
  \A i \in Instances :
    /\ \A k \in DOMAIN outbox[i] : sent[outbox[i][k]].from = i
    /\ \A j, k \in DOMAIN outbox[i] : j < k => outbox[i][j] < outbox[i][k]

\* PUBLISH commands of i that Redis has not executed
Pending(i) == {outbox[i][k] : k \in {n \in DOMAIN outbox[i] : n > processed[i]}}

\* The messages of i in s; that they rise; one set of messages older than another
Of(i, s) == {s[k] : k \in {n \in DOMAIN s : sent[s[n]].from = i}}
Rising(i, s) ==
  \A j, k \in DOMAIN s :
    j < k /\ sent[s[j]].from = i /\ sent[s[k]].from = i => s[j] < s[k]
Older(A, B) == \A a \in A, b \in B : a < b

\* While the publisher link of i holds, a message of i that is further on its
\* way to another instance than another one is older.
InOrderFrom(i) ==
  <<"publisher", i>> \notin lost =>
    /\ \A h \in Instances :
         Rising(i, inbox[h]) /\ Older(Of(i, inbox[h]), Pending(i))
    /\ \A c \in Conns : Home[c] # i =>
         /\ Rising(i, received[c])
         /\ Older(Of(i, received[c]), Of(i, inbox[Home[c]]) \cup Pending(i))

Ordered == \A i \in Instances : InOrderFrom(i)

\* No message is sent to a user whose id has a colon.
PlainTargets == \A t \in Targets : IsUserTarget(t) => Len(t) = 2

\* A channel that messages are then published on
Shape(ch) ==
  \/ ch = BroadcastChannel
  \/ \E w \in Words : ch = UserChannel(<<w>>)
  \/ \E r \in Seq(Words) : ch = RoomChannel(r)

-----------------------------------------------------------------------------
(* Names and sequences. *)

LEMMA NamesAreWords ==
  /\ Name \subseteq Seq(Words)
  /\ \A c \in Conns : UserOf[c] \in Seq(Words) /\ JwtRooms[c] \in Seq(Seq(Words))
  /\ Rooms \subseteq Seq(Words) /\ Targets \subseteq Seq(Words)
  <1>1. ASSUME NEW s \in Name PROVE s \in Seq(Words)
    BY SeqMonotonic DEF Name, Words
  <1>2. ASSUME NEW c \in Conns PROVE JwtRooms[c] \in Seq(Seq(Words))
    <2>1. JwtRooms[c] \in Seq(Name)
      BY RelayAssumption
    <2>. QED
      BY <1>1, <2>1, SeqMonotonic
  <1>. QED
    BY <1>1, <1>2, RelayAssumption

LEMMA ChannelFacts ==
  /\ BroadcastChannel \in Channel /\ BroadcastTopic \in Seq(Words)
  /\ BroadcastChannel[2] = "broadcast"
  /\ \A u \in Seq(Words) :
       /\ UserTopic(u) \in Seq(Words)
       /\ UserChannel(u) \in Channel /\ UserChannel(u)[2] = "user"
       /\ Len(UserChannel(u)) = 2 + Len(u)
       /\ u # <<>> => UserChannel(u)[3] = u[1]
  /\ \A r \in Seq(Words) :
       /\ RoomChannel(r) \in Channel /\ RoomChannel(r)[2] = "room"
       /\ SubSeq(RoomChannel(r), 3, Len(RoomChannel(r))) = r
  <1>. DEFINE UserPrefix == <<"channel", "user">>
              RoomPrefix == <<"channel", "room">>
  <1>1. UserPrefix \in Seq(Words) /\ RoomPrefix \in Seq(Words) /\ <<"user">> \in Seq(Words)
        /\ BroadcastChannel \in Channel /\ BroadcastTopic \in Seq(Words)
    BY DEF Words, Channel, BroadcastChannel, BroadcastTopic
  <1>2. BroadcastChannel[2] = "broadcast"
    BY DEF BroadcastChannel
  <1>3. ASSUME NEW u \in Seq(Words)
        PROVE  /\ UserTopic(u) \in Seq(Words)
               /\ UserChannel(u) \in Channel /\ UserChannel(u)[2] = "user"
               /\ Len(UserChannel(u)) = 2 + Len(u)
               /\ u # <<>> => UserChannel(u)[3] = u[1]
    <2>1. UserTopic(u) \in Seq(Words) /\ UserChannel(u) \in Seq(Words)
      BY <1>1 DEF UserTopic, UserChannel
    <2>2. UserChannel(u)[2] = "user" /\ Len(UserChannel(u)) = 2 + Len(u) /\ Len(u) \in Nat
      BY <1>1, ConcatProperties DEF UserChannel
    <2>3. ASSUME u # <<>> PROVE UserChannel(u)[3] = u[1]
      <3>1. Len(u) \in Nat /\ Len(u) # 0
        BY <2>3, EmptySeq
      <3>. QED
        BY <1>1, <3>1, ConcatProperties DEF UserChannel
    <2>. QED
      BY <2>1, <2>2, <2>3 DEF Channel
  <1>4. ASSUME NEW r \in Seq(Words)
        PROVE  /\ RoomChannel(r) \in Channel /\ RoomChannel(r)[2] = "room"
               /\ SubSeq(RoomChannel(r), 3, Len(RoomChannel(r))) = r
    <2>. DEFINE ch == RoomChannel(r)
                tail == SubSeq(ch, 3, Len(ch))
    <2>1. ch \in Seq(Words) /\ ch[2] = "room" /\ Len(ch) = 2 + Len(r)
      BY <1>1, ConcatProperties DEF RoomChannel
    <2>2. \A k \in 1 .. Len(r) : ch[2 + k] = r[k]
      BY <1>1, ConcatProperties DEF RoomChannel
    <2>3. Len(r) \in Nat
      OBVIOUS
    <2>4. \A k \in 3 .. Len(ch) : ch[k] \in Words
      BY <2>1
    <2>5. tail \in Seq(Words) /\ Len(tail) = Len(r)
      BY <2>1, <2>3, <2>4, SubSeqProperties
    <2>6. \A k \in 1 .. Len(r) : tail[k] = r[k]
      BY <2>1, <2>2, <2>3, <2>4, SubSeqProperties
    <2>7. tail = r
      BY <2>5, <2>6, SeqEqual
    <2>. QED
      BY <2>1, <2>3, <2>7 DEF Channel
  <1>. QED
    BY <1>1, <1>2, <1>3, <1>4

\* What Append, Tail and \o do to the elements and the occurrences
LEMMA ElementsOfConcat ==
  ASSUME NEW S, NEW s \in Seq(S), NEW t \in Seq(S)
  PROVE  ElementsOf(s \o t) = ElementsOf(s) \cup ElementsOf(t)
  <1>1. DOMAIN s = 1 .. Len(s) /\ DOMAIN t = 1 .. Len(t) /\ Len(s) \in Nat /\ Len(t) \in Nat
        /\ DOMAIN (s \o t) = 1 .. (Len(s) + Len(t))
    BY ConcatProperties
  <1>2. \A k \in 1 .. Len(s) : (s \o t)[k] = s[k]
    BY <1>1, ConcatProperties
  <1>3. \A k \in 1 .. Len(t) : (s \o t)[Len(s) + k] = t[k] /\ Len(s) + k \in DOMAIN (s \o t)
    BY <1>1, ConcatProperties
  <1>4. ASSUME NEW k \in DOMAIN (s \o t), k > Len(s) PROVE (s \o t)[k] = t[k - Len(s)] /\ k - Len(s) \in DOMAIN t
    BY <1>1, <1>4, ConcatProperties
  <1>5. ASSUME NEW x \in ElementsOf(s \o t) PROVE x \in ElementsOf(s) \cup ElementsOf(t)
    <2>1. PICK k \in DOMAIN (s \o t) : x = (s \o t)[k]
      BY DEF ElementsOf
    <2>. QED
      BY <1>1, <1>2, <1>4, <2>1 DEF ElementsOf
  <1>6. ASSUME NEW x \in ElementsOf(s) \cup ElementsOf(t) PROVE x \in ElementsOf(s \o t)
    <2>1. CASE x \in ElementsOf(s)
      <3>1. PICK k \in DOMAIN s : x = s[k]
        BY <2>1 DEF ElementsOf
      <3>2. k \in DOMAIN (s \o t)
        BY <1>1
      <3>. QED
        BY <1>1, <1>2, <3>1, <3>2 DEF ElementsOf
    <2>2. CASE x \in ElementsOf(t)
      <3>1. PICK k \in DOMAIN t : x = t[k]
        BY <2>2 DEF ElementsOf
      <3>. QED
        BY <1>1, <1>3, <3>1 DEF ElementsOf
    <2>. QED
      BY <2>1, <2>2
  <1>. QED
    BY <1>5, <1>6

LEMMA ElementsOfTail ==
  ASSUME NEW S, NEW s \in Seq(S), s # <<>>
  PROVE  ElementsOf(s) = {Head(s)} \cup ElementsOf(Tail(s))
  <1>1. Len(s) \in Nat \ {0} /\ DOMAIN s = 1 .. Len(s) /\ Head(s) = s[1]
    BY EmptySeq
  <1>2. Len(Tail(s)) = Len(s) - 1 /\ DOMAIN Tail(s) = 1 .. (Len(s) - 1)
        /\ \A k \in 1 .. (Len(s) - 1) : Tail(s)[k] = s[k + 1]
    BY <1>1, HeadTailProperties
  <1>3. ASSUME NEW k \in DOMAIN s, k # 1 PROVE k - 1 \in DOMAIN Tail(s) /\ Tail(s)[k - 1] = s[k]
    BY <1>1, <1>2, <1>3
  <1>4. ASSUME NEW k \in DOMAIN Tail(s) PROVE k + 1 \in DOMAIN s /\ Tail(s)[k] = s[k + 1]
    BY <1>1, <1>2, <1>4
  <1>5. ElementsOf(s) \subseteq {Head(s)} \cup ElementsOf(Tail(s))
    <2>1. ASSUME NEW x \in ElementsOf(s) PROVE x = Head(s) \/ x \in ElementsOf(Tail(s))
      <3>1. PICK k \in DOMAIN s : x = s[k]
        BY DEF ElementsOf
      <3>2. CASE k = 1
        BY <1>1, <3>1, <3>2
      <3>3. CASE k # 1
        <4>1. k - 1 \in DOMAIN Tail(s) /\ x = Tail(s)[k - 1]
          BY <1>3, <3>1, <3>3
        <4>. QED
          BY <4>1 DEF ElementsOf
      <3>. QED
        BY <3>2, <3>3
    <2>. QED
      BY <2>1
  <1>6. ElementsOf(Tail(s)) \subseteq ElementsOf(s)
    <2>1. ASSUME NEW x \in ElementsOf(Tail(s)) PROVE x \in ElementsOf(s)
      <3>1. PICK k \in DOMAIN Tail(s) : x = Tail(s)[k]
        BY DEF ElementsOf
      <3>2. k + 1 \in DOMAIN s /\ x = s[k + 1]
        BY <1>4, <3>1
      <3>. QED
        BY <3>2 DEF ElementsOf
    <2>. QED
      BY <2>1
  <1>7. Head(s) \in ElementsOf(s)
    <2>1. 1 \in DOMAIN s
      BY <1>1
    <2>. QED
      BY <1>1, <2>1 DEF ElementsOf
  <1>. QED
    BY <1>5, <1>6, <1>7

LEMMA SingleElement ==
  ASSUME NEW S, NEW s \in Seq(S), Len(s) = 1
  PROVE  s[1] \in S /\ s = <<s[1]>>
  <1>1. s[1] \in S
    BY ElementOfSeq
  <1>2. <<s[1]>> \in Seq(S) /\ Len(<<s[1]>>) = 1 /\ <<s[1]>>[1] = s[1]
    BY <1>1
  <1>. QED
    BY <1>1, <1>2, SeqEqual

\* The channels of chs at the positions P, each in its turn
LEMMA PickedChannels ==
  ASSUME NEW S, NEW s \in Seq(S), NEW P \in SUBSET DOMAIN s, NEW f \in Ascending(P)
  PROVE  /\ [k \in DOMAIN f |-> s[f[k]]] \in Seq(S)
         /\ ElementsOf([k \in DOMAIN f |-> s[f[k]]]) = {s[k] : k \in P}
  <1>. DEFINE q == [k \in DOMAIN f |-> s[f[k]]]
  <1>1. DOMAIN s = 1 .. Len(s) /\ Len(s) \in Nat
    OBVIOUS
  <1>2. IsFiniteSet(P)
    <2>1. IsFiniteSet(1 .. Len(s))
      BY <1>1, FS_Interval
    <2>. QED
      BY <1>1, <2>1, FS_Subset
  <1>3. Cardinality(P) \in Nat
    BY <1>2, FS_CardinalityType
  <1>4. f \in [1 .. Cardinality(P) -> P] /\ {f[k] : k \in DOMAIN f} = P
    BY DEF Ascending, ElementsOf
  <1>5. q \in [1 .. Cardinality(P) -> S]
    BY <1>1, <1>4
  <1>6. q \in Seq(S)
    BY <1>3, <1>5
  <1>7. DOMAIN q = DOMAIN f /\ \A k \in DOMAIN f : q[k] = s[f[k]]
    OBVIOUS
  <1>. HIDE DEF q
  <1>8. ASSUME NEW x \in ElementsOf(q) PROVE x \in {s[k] : k \in P}
    <2>1. PICK k \in DOMAIN f : x = s[f[k]]
      BY <1>7 DEF ElementsOf
    <2>2. f[k] \in P
      BY <1>4
    <2>. QED
      BY <2>1, <2>2
  <1>9. ASSUME NEW n \in P PROVE s[n] \in ElementsOf(q)
    <2>1. PICK k \in DOMAIN f : f[k] = n
      BY <1>4
    <2>. QED
      BY <1>7, <2>1 DEF ElementsOf
  <1>10. ElementsOf(q) = {s[k] : k \in P}
    BY <1>8, <1>9
  <1>. QED
    BY <1>6, <1>10 DEF q

\* What subscribing to a sequence of channels does
LEMMA SubscribeEffect ==
  ASSUME Types, NEW i \in Instances, NEW chs \in Seq(Channel), SubscribeChannels(i, chs)
  PROVE  /\ subscribing' \in [Instances -> Seq(Channel)]
         /\ failed' \in [Instances -> SUBSET Channel]
         /\ cache' = cache
         /\ \A j \in Instances \ {i} : subscribing'[j] = subscribing[j] /\ failed'[j] = failed[j]
         /\ ElementsOf(subscribing'[i]) =
              ElementsOf(subscribing[i]) \cup (ElementsOf(chs) \ cache[i])
         /\ failed'[i] = failed[i] \ ElementsOf(chs)
  <1>. DEFINE P == {k \in DOMAIN chs : chs[k] \notin cache[i]}
  <1>1. PICK f \in Ascending(P) :
          subscribing' = [subscribing EXCEPT ![i] = @ \o [k \in DOMAIN f |-> chs[f[k]]]]
    BY DEF SubscribeChannels
  <1>. DEFINE q == [k \in DOMAIN f |-> chs[f[k]]]
  <1>2. q \in Seq(Channel) /\ ElementsOf(q) = {chs[k] : k \in P}
    BY PickedChannels
  <1>3. {chs[k] : k \in P} = ElementsOf(chs) \ cache[i]
    BY DEF ElementsOf
  <1>4. subscribing' = [subscribing EXCEPT ![i] = @ \o q]
    BY <1>1
  <1>. HIDE DEF P, q
  <1>5. subscribing[i] \in Seq(Channel)
    BY DEF Types
  <1>6. subscribing[i] \o q \in Seq(Channel)
    BY <1>2, <1>5, ConcatProperties
  <1>7. ElementsOf(subscribing[i] \o q) = ElementsOf(subscribing[i]) \cup (ElementsOf(chs) \ cache[i])
    BY <1>2, <1>3, <1>5, ElementsOfConcat
  <1>8. subscribing' \in [Instances -> Seq(Channel)] /\ subscribing'[i] = subscribing[i] \o q
        /\ \A j \in Instances \ {i} : subscribing'[j] = subscribing[j]
    BY <1>4, <1>6 DEF Types
  <1>9. /\ failed' \in [Instances -> SUBSET Channel] /\ failed'[i] = failed[i] \ ElementsOf(chs)
        /\ \A j \in Instances \ {i} : failed'[j] = failed[j]
        /\ cache' = cache
    BY DEF SubscribeChannels, Types
  <1>. QED
    BY <1>7, <1>8, <1>9

\* The channels Open subscribes to
OpenChannels(c) ==
  <<UserChannel(UserOf[c])>> \o [k \in DOMAIN JwtRooms[c] |-> RoomChannel(JwtRooms[c][k])]

LEMMA OpenChannelsFacts ==
  ASSUME NEW c \in Conns
  PROVE  /\ OpenChannels(c) \in Seq(Channel)
         /\ ElementsOf(OpenChannels(c)) =
              {UserChannel(UserOf[c])} \cup {RoomChannel(r) : r \in ElementsOf(JwtRooms[c])}
         /\ ElementsOf(JwtRooms[c]) \subseteq Seq(Words)
  <1>. DEFINE first == <<UserChannel(UserOf[c])>>
              rest == [k \in DOMAIN JwtRooms[c] |-> RoomChannel(JwtRooms[c][k])]
  <1>1. UserOf[c] \in Seq(Words) /\ JwtRooms[c] \in Seq(Seq(Words))
    BY NamesAreWords
  <1>2. Len(JwtRooms[c]) \in Nat /\ DOMAIN JwtRooms[c] = 1 .. Len(JwtRooms[c])
        /\ \A k \in DOMAIN JwtRooms[c] : JwtRooms[c][k] \in Seq(Words)
    BY <1>1
  <1>3. UserChannel(UserOf[c]) \in Channel /\ \A r \in Seq(Words) : RoomChannel(r) \in Channel
    BY <1>1, ChannelFacts
  <1>4. first \in Seq(Channel)
    BY <1>3
  <1>5. rest \in [1 .. Len(JwtRooms[c]) -> Channel]
    BY <1>2, <1>3
  <1>6. rest \in Seq(Channel)
    BY <1>2, <1>5
  <1>7. ElementsOf(rest) = {RoomChannel(r) : r \in ElementsOf(JwtRooms[c])}
    <2>1. DOMAIN rest = DOMAIN JwtRooms[c] /\ \A k \in DOMAIN rest : rest[k] = RoomChannel(JwtRooms[c][k])
      OBVIOUS
    <2>. HIDE DEF rest
    <2>2. ElementsOf(rest) \subseteq {RoomChannel(r) : r \in ElementsOf(JwtRooms[c])}
      BY <2>1 DEF ElementsOf
    <2>3. {RoomChannel(r) : r \in ElementsOf(JwtRooms[c])} \subseteq ElementsOf(rest)
      BY <2>1 DEF ElementsOf
    <2>. QED
      BY <2>2, <2>3
  <1>8. ElementsOf(first) = {UserChannel(UserOf[c])}
    BY DEF ElementsOf
  <1>9. OpenChannels(c) \in Seq(Channel)
        /\ ElementsOf(OpenChannels(c)) = ElementsOf(first) \cup ElementsOf(rest)
    <2>1. OpenChannels(c) = first \o rest
      BY DEF OpenChannels
    <2>. HIDE DEF first, rest
    <2>2. first \o rest \in Seq(Channel)
      BY <1>4, <1>6, ConcatProperties
    <2>3. ElementsOf(first \o rest) = ElementsOf(first) \cup ElementsOf(rest)
      BY <1>4, <1>6, ElementsOfConcat
    <2>. QED
      BY <2>1, <2>2, <2>3
  <1>10. ElementsOf(JwtRooms[c]) \subseteq Seq(Words)
    BY <1>2 DEF ElementsOf
  <1>. QED
    BY <1>7, <1>8, <1>9, <1>10

-----------------------------------------------------------------------------
(* The steps. *)

\* A message handed to sockets of instance i that it is meant for
EmitStep(i, cs, ch) ==
  /\ Emit(i, cs, ch)
  /\ cs \subseteq OpenAt(i) /\ ch \in Channel
  /\ \A c \in cs : MeantFor(c, ch)
  /\ PlainTargets => Shape(ch)

Sending(i) == \E cs \in SUBSET Conns, ch \in Channel : EmitStep(i, cs, ch)

LEMMA SendToUserStep ==
  ASSUME NEW i \in Instances, NEW t \in Targets, SendToUser(i, t) PROVE Sending(i)
  <1>. DEFINE u == Tail(t)
  <1>1. t \in Seq(Words) /\ t # <<>> /\ Len(t) > 1
    BY NamesAreWords DEF SendToUser, IsUserTarget
  <1>2. u \in Seq(Words) /\ Len(u) = Len(t) - 1
    BY <1>1, HeadTailProperties
  <1>3. UserChannel(u) \in Channel
    BY <1>2, ChannelFacts
  <1>4. ASSUME PlainTargets PROVE Shape(UserChannel(u))
    <2>1. Len(t) = 2
      BY <1>4 DEF PlainTargets, SendToUser
    <2>2. u \in Seq(Words) /\ Len(u) = 1
      BY <1>2, <2>1
    <2>3. u[1] \in Words /\ u = <<u[1]>>
      <3>. HIDE DEF u
      <3>. QED
        BY <2>2, SingleElement
    <2>. QED
      BY <2>3 DEF Shape
  <1>5. EmitStep(i, SocketsOf(i, u), UserChannel(u))
    BY <1>3, <1>4 DEF SendToUser, EmitStep, SocketsOf, MeantFor
  <1>. QED
    BY <1>3, <1>5 DEF Sending, SocketsOf, OpenAt

LEMMA RoomEmission ==
  ASSUME NEW i \in Instances, NEW r \in Seq(Words), NEW cs \in SUBSET Subscribers(i, r),
         Emit(i, cs, RoomChannel(r))
  PROVE  Sending(i)
  <1>1. RoomChannel(r) \in Channel
    BY ChannelFacts
  <1>2. EmitStep(i, cs, RoomChannel(r))
    BY <1>1 DEF EmitStep, Subscribers, MeantFor, Shape
  <1>. QED
    BY <1>1, <1>2 DEF Sending, Subscribers, OpenAt

LEMMA SendToTargetStep ==
  ASSUME NEW i \in Instances, NEW t \in Targets, SendToTarget(i, t) PROVE Sending(i)
  <1>1. CASE SendToUser(i, t)
    BY <1>1, SendToUserStep
  <1>2. CASE IsRoomTarget(t) /\ SendToRoom(i, TargetRoom(t))
    <2>1. t \in Seq(Words) /\ t # <<>>
      BY <1>2, NamesAreWords DEF IsRoomTarget
    <2>2. TargetRoom(t) \in Seq(Words)
      BY <2>1, HeadTailProperties DEF TargetRoom
    <2>. QED
      BY <1>2, <2>2, RoomEmission DEF SendToRoom
  <1>. QED
    BY <1>1, <1>2 DEF SendToTarget

LEMMA BroadcastStep ==
  ASSUME NEW i \in Instances, Broadcast(i) PROVE Sending(i)
  <1>1. EmitStep(i, Subscribers(i, BroadcastTopic), BroadcastChannel)
    BY ChannelFacts DEF Broadcast, EmitStep, Subscribers, MeantFor, Shape
  <1>. QED
    BY <1>1, ChannelFacts DEF Sending, Subscribers, OpenAt

LEMMA ClientPublishStep ==
  ASSUME NEW c \in Conns, NEW r \in Rooms, ClientPublish(c, r) PROVE Sending(Home[c])
  <1>1. Home[c] \in Instances /\ r \in Seq(Words)
    BY RelayAssumption, NamesAreWords
  <1>2. Emit(Home[c], Subscribers(Home[c], r) \ {c}, RoomChannel(r))
    BY DEF ClientPublish
  <1>. QED
    BY <1>1, <1>2, RoomEmission

\* Every way to publish is a Sending step.
LEMMA Steps ==
  ASSUME [Next]_vars
  PROVE  \/ \E c \in Conns : Open(c) \/ Close(c)
         \/ \E c \in Conns, r \in Rooms : SubscribeRoom(c, r) \/ UnsubscribeRoom(c, r)
         \/ \E i \in Instances : Sending(i)
         \/ \E i \in Instances :
              \/ SubscribeAnswered(i) \/ RedisPublishes(i) \/ HandleMessage(i)
              \/ PublisherLost(i) \/ SubscriberLost(i)
              \/ PublishesFail(i) \/ SubscribesFail(i)
         \/ \E l \in Links : LinkBack(l)
         \/ UNCHANGED vars
  <1>1. ASSUME NEW c \in Active, NEW r \in Rooms,
               SubscribeRoom(c, r) \/ UnsubscribeRoom(c, r) \/ ClientPublish(c, r)
        PROVE  \/ \E d \in Conns, q \in Rooms : SubscribeRoom(d, q) \/ UnsubscribeRoom(d, q)
               \/ \E i \in Instances : Sending(i)
    <2>1. c \in Conns /\ Home[c] \in Instances
      BY RelayAssumption
    <2>. QED
      BY <1>1, <2>1, ClientPublishStep
  <1>2. ASSUME NEW i \in HttpInstances, NEW t \in Targets, SendToTarget(i, t)
        PROVE  \E j \in Instances : Sending(j)
    BY <1>2, SendToTargetStep, RelayAssumption
  <1>3. ASSUME NEW i \in HttpInstances, NEW r \in Rooms, SendToRoom(i, r)
        PROVE  \E j \in Instances : Sending(j)
    BY <1>3, RoomEmission, NamesAreWords, RelayAssumption DEF SendToRoom
  <1>4. ASSUME NEW i \in HttpInstances, Broadcast(i)
        PROVE  \E j \in Instances : Sending(j)
    BY <1>4, BroadcastStep, RelayAssumption
  <1>. QED
    BY <1>1, <1>2, <1>3, <1>4 DEF Next

\* What emitting changes, for the types
LEMMA EmitEffect ==
  ASSUME Types, NEW i \in Instances, NEW cs \in SUBSET Conns, NEW ch \in Channel, Emit(i, cs, ch)
  PROVE  /\ Len(sent) + 1 \notin DOMAIN sent /\ DOMAIN sent' = DOMAIN sent \cup {Len(sent) + 1}
         /\ DOMAIN sent = 1 .. Len(sent) /\ Len(sent) \in Nat
         /\ \A m \in DOMAIN sent : sent'[m] = sent[m] /\ m < Len(sent) + 1
         /\ sent'[Len(sent) + 1] = [from |-> i, channel |-> ch]
         /\ sent' \in Seq([from : Instances, channel : Channel])
         /\ outbox' = [outbox EXCEPT ![i] = Append(@, Len(sent) + 1)]
         /\ received' = Handed(cs, Len(sent) + 1)
         /\ owed' = owed \cup (Due(i, ch) \X {Len(sent) + 1})
         /\ UNCHANGED <<localVars, subVars, processed, inbox, down, lost>>
  <1>. DEFINE rec == [from |-> i, channel |-> ch]
  <1>1. sent' = Append(sent, rec) /\ rec \in [from : Instances, channel : Channel]
    BY DEF Emit
  <1>2. sent \in Seq([from : Instances, channel : Channel])
    BY DEF Types
  <1>3. Len(sent) \in Nat /\ DOMAIN sent = 1 .. Len(sent)
    BY <1>2
  <1>4. /\ sent' \in Seq([from : Instances, channel : Channel])
        /\ Len(sent') = Len(sent) + 1
        /\ \A m \in 1 .. Len(sent) : sent'[m] = sent[m]
        /\ sent'[Len(sent) + 1] = rec
    BY <1>1, <1>2, AppendProperties
  <1>5. DOMAIN sent' = 1 .. Len(sent) + 1
    BY <1>4
  <1>. QED
    BY <1>3, <1>4, <1>5 DEF Emit

LEMMA HandedType ==
  ASSUME NEW S, received \in [Conns -> Seq(S)], NEW cs \in SUBSET Conns, NEW m \in S
  PROVE  Handed(cs, m) \in [Conns -> Seq(S)]
  BY AppendProperties DEF Handed

-----------------------------------------------------------------------------
(* The types are kept. *)

LEMMA SentTyped ==
  ASSUME Types
  PROVE  \A m \in DOMAIN sent :
           sent[m].from \in Instances /\ sent[m].channel \in Channel /\ m \in Nat
  <1>1. sent \in Seq([from : Instances, channel : Channel])
    BY DEF Types
  <1>2. DOMAIN sent = 1 .. Len(sent) /\ Len(sent) \in Nat
    BY <1>1
  <1>3. ASSUME NEW m \in DOMAIN sent PROVE sent[m] \in [from : Instances, channel : Channel]
    BY <1>1, <1>2, <1>3, ElementOfSeq
  <1>. QED
    BY <1>2, <1>3

LEMMA TypesStart == ASSUME Init PROVE Types
  <1>1. <<BroadcastChannel>> \in Seq(Channel)
    BY ChannelFacts
  <1>. QED
    BY <1>1 DEF Init, Types

\* Steps that publish nothing: the numbers of the messages stay.
LEMMA SubscribingTypes ==
  ASSUME Types, NEW i \in Instances, NEW chs \in Seq(Channel), SubscribeChannels(i, chs),
         socket' \in [Conns -> {"new", "open", "closed"}],
         topics' \in [Conns -> SUBSET Seq(Words)],
         UNCHANGED <<pubVars, inbox, received, down, lost, owed>>
  PROVE  Types'
  BY SubscribeEffect DEF Types, pubVars

LEMMA OpenTypes ==
  ASSUME Types, NEW c \in Conns, Open(c) PROVE Types'
  <1>1. Home[c] \in Instances /\ OpenChannels(c) \in Seq(Channel)
    BY RelayAssumption, OpenChannelsFacts
  <1>2. SubscribeChannels(Home[c], OpenChannels(c))
    BY DEF Open, OpenChannels
  <1>3. {UserTopic(UserOf[c]), BroadcastTopic} \cup ElementsOf(JwtRooms[c]) \in SUBSET Seq(Words)
    BY ChannelFacts, OpenChannelsFacts, NamesAreWords
  <1>4. topics' \in [Conns -> SUBSET Seq(Words)] /\ socket' \in [Conns -> {"new", "open", "closed"}]
    BY <1>3 DEF Open, Types
  <1>. QED
    BY <1>1, <1>2, <1>4, SubscribingTypes DEF Open

LEMMA SubscribeRoomTypes ==
  ASSUME Types, NEW c \in Conns, NEW r \in Rooms, SubscribeRoom(c, r) PROVE Types'
  <1>1. Home[c] \in Instances /\ r \in Seq(Words) /\ RoomChannel(r) \in Channel
    BY RelayAssumption, NamesAreWords, ChannelFacts
  <1>2. topics' \in [Conns -> SUBSET Seq(Words)] /\ socket' = socket
    BY <1>1 DEF SubscribeRoom, Types
  <1>3. <<RoomChannel(r)>> \in Seq(Channel)
    BY <1>1
  <1>. QED
    BY <1>1, <1>2, <1>3, SubscribingTypes DEF SubscribeRoom, Types

LEMMA LeaveTypes ==
  ASSUME Types, NEW c \in Conns, NEW r, Close(c) \/ UnsubscribeRoom(c, r) PROVE Types'
  <1>1. topics' \in [Conns -> SUBSET Seq(Words)] /\ socket' \in [Conns -> {"new", "open", "closed"}]
    BY DEF Close, UnsubscribeRoom, Types
  <1>2. owed' \subseteq owed
    BY DEF Close, UnsubscribeRoom, NoLongerOwed
  <1>3. UNCHANGED <<subVars, pubVars, inbox, received, down, lost>>
    BY DEF Close, UnsubscribeRoom
  <1>. QED
    BY <1>1, <1>2, <1>3 DEF Types, subVars, pubVars

LEMMA EmitTypes ==
  ASSUME Types, NEW i \in Instances, NEW cs \in SUBSET Conns, NEW ch \in Channel, Emit(i, cs, ch)
  PROVE  Types'
  <1>. DEFINE m == Len(sent) + 1
  <1>1. DOMAIN sent \subseteq DOMAIN sent' /\ m \in DOMAIN sent'
        /\ sent' \in Seq([from : Instances, channel : Channel])
    BY EmitEffect
  <1>2. \A s \in Seq(DOMAIN sent) : s \in Seq(DOMAIN sent')
    BY <1>1, SeqMonotonic
  <1>3. inbox' \in [Instances -> Seq(DOMAIN sent')] /\ outbox \in [Instances -> Seq(DOMAIN sent')]
        /\ received \in [Conns -> Seq(DOMAIN sent')]
    BY <1>2, EmitEffect DEF Types
  <1>4. Append(outbox[i], m) \in Seq(DOMAIN sent') /\ Len(Append(outbox[i], m)) = Len(outbox[i]) + 1
        /\ Len(outbox[i]) \in Nat
    BY <1>1, <1>3, AppendProperties
  <1>5. outbox' \in [Instances -> Seq(DOMAIN sent')] /\ processed' = processed
        /\ \A j \in Instances : processed'[j] <= Len(outbox'[j])
    <2>1. outbox' = [outbox EXCEPT ![i] = Append(outbox[i], m)] /\ processed' = processed
      BY EmitEffect
    <2>2. outbox'[i] = Append(outbox[i], m) /\ \A j \in Instances \ {i} : outbox'[j] = outbox[j]
      BY <1>3, <2>1
    <2>. QED
      BY <1>3, <1>4, <2>1, <2>2 DEF Types
  <1>6. received' \in [Conns -> Seq(DOMAIN sent')]
    <2>1. received' = Handed(cs, m)
      BY EmitEffect
    <2>. HIDE DEF m
    <2>. QED
      BY <1>1, <1>3, <2>1, HandedType
  <1>7. owed' \subseteq Conns \X DOMAIN sent'
    <2>1. owed' = owed \cup (Due(i, ch) \X {m}) /\ Due(i, ch) \subseteq Conns
      BY EmitEffect DEF Due
    <2>2. owed \subseteq Conns \X DOMAIN sent
      BY DEF Types
    <2>. HIDE DEF m
    <2>. QED
      BY <1>1, <2>1, <2>2
  <1>8. UNCHANGED <<socket, topics, cache, subscribing, failed, down, lost>>
    BY DEF Emit, localVars, subVars
  <1>. QED
    BY <1>1, <1>3, <1>5, <1>6, <1>7, <1>8 DEF Types

LEMMA SubscribeAnsweredTypes ==
  ASSUME Types, NEW i \in Instances, SubscribeAnswered(i) PROVE Types'
  <1>1. subscribing[i] \in Seq(Channel) /\ subscribing[i] # <<>>
    BY DEF SubscribeAnswered, Types
  <1>2. Head(subscribing[i]) \in Channel /\ Tail(subscribing[i]) \in Seq(Channel)
    BY <1>1, HeadTailProperties
  <1>3. subscribing' \in [Instances -> Seq(Channel)] /\ cache' \in [Instances -> SUBSET Channel]
    BY <1>2 DEF SubscribeAnswered, Types
  <1>. QED
    BY <1>3 DEF SubscribeAnswered, Types, localVars, pubVars


\* The message Redis publishes next is the first of those that are pending.
LEMMA RedisPublishesEffect ==
  ASSUME Types, NEW i \in Instances, RedisPublishes(i)
  PROVE  /\ processed[i] + 1 \in DOMAIN outbox[i]
         /\ outbox[i][processed[i] + 1] \in DOMAIN sent
         /\ outbox[i] \in Seq(DOMAIN sent) /\ processed[i] \in Nat
         /\ processed' \in [Instances -> Nat] /\ processed'[i] = processed[i] + 1
         /\ \A j \in Instances \ {i} : processed'[j] = processed[j]
  <1>1. outbox[i] \in Seq(DOMAIN sent) /\ processed[i] \in Nat
    BY DEF Types
  <1>2. processed[i] < Len(outbox[i]) /\ Len(outbox[i]) \in Nat
    BY <1>1 DEF RedisPublishes
  <1>3. processed[i] + 1 \in DOMAIN outbox[i]
    BY <1>1, <1>2
  <1>4. outbox[i][processed[i] + 1] \in DOMAIN sent
    BY <1>1, <1>3
  <1>5. processed' = [processed EXCEPT ![i] = processed[i] + 1]
    BY DEF RedisPublishes
  <1>6. processed \in [Instances -> Nat]
    BY DEF Types
  <1>. QED
    BY <1>1, <1>3, <1>4, <1>5, <1>6

LEMMA RedisPublishesTypes ==
  ASSUME Types, NEW i \in Instances, RedisPublishes(i) PROVE Types'
  <1>. DEFINE m == outbox[i][processed[i] + 1]
  <1>1. m \in DOMAIN sent
    BY RedisPublishesEffect
  <1>2. inbox' \in [Instances -> Seq(DOMAIN sent)]
    <2>1. inbox' = [j \in Instances |->
            IF j \in Listening(sent[m].channel) THEN Append(inbox[j], m) ELSE inbox[j]]
      BY DEF RedisPublishes
    <2>2. \A j \in Instances : inbox[j] \in Seq(DOMAIN sent)
      BY DEF Types
    <2>3. \A j \in Instances : Append(inbox[j], m) \in Seq(DOMAIN sent)
      <3>. HIDE DEF m
      <3>. QED
        BY <1>1, <2>2, AppendProperties
    <2>. HIDE DEF m
    <2>. QED
      BY <2>1, <2>2, <2>3
  <1>3. ASSUME NEW j \in Instances PROVE processed'[j] <= Len(outbox[j])
    <2>1. CASE j = i
      <3>1. processed[i] + 1 \in DOMAIN outbox[i] /\ outbox[i] \in Seq(DOMAIN sent)
            /\ processed'[i] = processed[i] + 1
        BY RedisPublishesEffect
      <3>. QED
        BY <2>1, <3>1
    <2>2. CASE j # i
      BY <2>2, RedisPublishesEffect DEF Types
    <2>. QED
      BY <2>1, <2>2
  <1>4. processed' \in [Instances -> Nat]
    BY RedisPublishesEffect
  <1>5. UNCHANGED <<socket, topics, cache, subscribing, failed, sent, outbox, received, down, lost, owed>>
    BY DEF RedisPublishes, localVars, subVars
  <1>. QED
    BY <1>2, <1>3, <1>4, <1>5 DEF Types

LEMMA ForwardedOpen ==
  ASSUME NEW i, NEW ch \in Channel PROVE Forwarded(i, ch) \subseteq OpenAt(i)
  BY DEF Channel, Forwarded, Subscribers, SocketsOf

LEMMA HandleMessageEffect ==
  ASSUME Types, NEW i \in Instances, HandleMessage(i)
  PROVE  /\ inbox[i] \in Seq(DOMAIN sent) /\ inbox[i] # <<>>
         /\ Head(inbox[i]) \in DOMAIN sent
         /\ inbox' \in [Instances -> Seq(DOMAIN sent)] /\ inbox'[i] = Tail(inbox[i])
         /\ \A j \in Instances \ {i} : inbox'[j] = inbox[j]
         /\ Forwarded(i, sent[Head(inbox[i])].channel) \subseteq OpenAt(i)
  <1>1. inbox[i] \in Seq(DOMAIN sent) /\ inbox[i] # <<>>
    BY DEF Types, HandleMessage
  <1>2. Head(inbox[i]) \in DOMAIN sent /\ Tail(inbox[i]) \in Seq(DOMAIN sent)
    BY <1>1, HeadTailProperties
  <1>3. inbox' = [inbox EXCEPT ![i] = Tail(inbox[i])]
    BY DEF HandleMessage
  <1>4. inbox \in [Instances -> Seq(DOMAIN sent)]
    BY DEF Types
  <1>5. sent[Head(inbox[i])].channel \in Channel
    BY <1>2, SentTyped
  <1>6. Forwarded(i, sent[Head(inbox[i])].channel) \subseteq OpenAt(i)
    BY <1>5, ForwardedOpen
  <1>. QED
    BY <1>1, <1>2, <1>3, <1>4, <1>6

LEMMA HandleMessageTypes ==
  ASSUME Types, NEW i \in Instances, HandleMessage(i) PROVE Types'
  <1>. DEFINE m == Head(inbox[i])
              cs == Forwarded(i, sent[m].channel)
  <1>1. m \in DOMAIN sent /\ cs \subseteq Conns /\ inbox' \in [Instances -> Seq(DOMAIN sent)]
    BY HandleMessageEffect DEF OpenAt
  <1>2. /\ received' = Handed(cs, m) /\ owed' \subseteq owed
        /\ UNCHANGED <<socket, topics, cache, subscribing, failed, sent, outbox, processed, down, lost>>
    BY DEF HandleMessage, localVars, subVars, pubVars
  <1>3. received' \in [Conns -> Seq(DOMAIN sent)]
    <2>. HIDE DEF m, cs
    <2>. QED
      BY <1>1, <1>2, HandedType DEF Types
  <1>. QED
    BY <1>1, <1>2, <1>3 DEF Types

LEMMA PublisherLostTypes ==
  ASSUME Types, NEW i \in Instances, PublisherLost(i) PROVE Types'
  <1>1. PICK n \in 0 .. processed[i] : processed' = [processed EXCEPT ![i] = n]
    BY DEF PublisherLost
  <1>2. n \in Nat /\ n <= processed[i] /\ processed[i] <= Len(outbox[i]) /\ processed[i] \in Nat
        /\ Len(outbox[i]) \in Nat
    BY DEF Types
  <1>3. processed' \in [Instances -> Nat] /\ \A j \in Instances : processed'[j] <= Len(outbox[j])
    BY <1>1, <1>2 DEF Types
  <1>4. /\ down' = down \cup {<<"publisher", i>>} /\ lost' = lost \cup {<<"publisher", i>>}
        /\ UNCHANGED <<socket, topics, cache, subscribing, failed, sent, outbox, received, inbox, owed>>
    BY DEF PublisherLost, LinkLost, localVars, subVars
  <1>5. lost' \subseteq Links /\ down' \subseteq lost'
    BY <1>4 DEF Types, Links
  <1>. QED
    BY <1>3, <1>4, <1>5 DEF Types

LEMMA SubscriberLostTypes ==
  ASSUME Types, NEW i \in Instances, SubscriberLost(i) PROVE Types'
  <1>1. inbox' \in [Instances -> Seq(DOMAIN sent)]
    BY DEF SubscriberLost, Types
  <1>2. /\ down' = down \cup {<<"subscriber", i>>} /\ lost' = lost \cup {<<"subscriber", i>>}
        /\ owed' \subseteq owed
        /\ UNCHANGED <<socket, topics, cache, subscribing, failed, sent, outbox, received, processed>>
    BY DEF SubscriberLost, LinkLost, NoLongerOwed, localVars, subVars
  <1>3. lost' \subseteq Links /\ down' \subseteq lost'
    BY <1>2 DEF Types, Links
  <1>. QED
    BY <1>1, <1>2, <1>3 DEF Types

\* The commands that fail are those that were pending.
LEMMA PublishesFailEffect ==
  ASSUME Types, NEW i \in Instances, PublishesFail(i)
  PROVE  /\ outbox' \in [Instances -> Seq(DOMAIN sent)]
         /\ \A j \in Instances \ {i} : outbox'[j] = outbox[j]
         /\ Len(outbox'[i]) = processed[i] /\ DOMAIN outbox'[i] = 1 .. processed[i]
         /\ 1 .. processed[i] \subseteq DOMAIN outbox[i]
         /\ \A k \in 1 .. processed[i] : outbox'[i][k] = outbox[i][k]
         /\ owed' = {p \in owed : p[2] \notin Pending(i)}
         /\ Pending(i)' = {}
  <1>. DEFINE kept == SubSeq(outbox[i], 1, processed[i])
  <1>1. outbox[i] \in Seq(DOMAIN sent) /\ processed[i] \in Nat /\ processed[i] <= Len(outbox[i])
        /\ Len(outbox[i]) \in Nat /\ DOMAIN outbox[i] = 1 .. Len(outbox[i])
    BY DEF Types
  <1>2. \A k \in 1 .. processed[i] : outbox[i][k] \in DOMAIN sent
    BY <1>1
  <1>3. kept \in Seq(DOMAIN sent) /\ Len(kept) = processed[i]
        /\ \A k \in 1 .. processed[i] : kept[k] = outbox[i][k]
    BY <1>1, <1>2, SubSeqProperties
  <1>4. outbox' = [outbox EXCEPT ![i] = kept] /\ processed' = processed
    BY DEF PublishesFail
  <1>. HIDE DEF kept
  <1>5. outbox' \in [Instances -> Seq(DOMAIN sent)] /\ outbox'[i] = kept
        /\ \A j \in Instances \ {i} : outbox'[j] = outbox[j]
    BY <1>3, <1>4 DEF Types
  <1>6. DOMAIN kept = 1 .. processed[i]
    BY <1>3
  <1>7. Pending(i)' = {}
    BY <1>1, <1>4, <1>5, <1>6 DEF Pending
  <1>8. {outbox[i][k] : k \in processed[i] + 1 .. Len(outbox[i])} = Pending(i)
    BY <1>1 DEF Pending
  <1>9. owed' = {p \in owed : p[2] \notin Pending(i)}
    BY <1>8 DEF PublishesFail
  <1>. QED
    BY <1>1, <1>3, <1>5, <1>6, <1>7, <1>9

LEMMA PublishesFailTypes ==
  ASSUME Types, NEW i \in Instances, PublishesFail(i) PROVE Types'
  <1>1. /\ UNCHANGED <<socket, topics, cache, subscribing, failed, sent, processed, received, inbox, down, lost>>
        /\ owed' \subseteq owed
    BY DEF PublishesFail, localVars, subVars
  <1>2. ASSUME NEW j \in Instances PROVE processed'[j] <= Len(outbox'[j])
    <2>1. CASE j = i
      <3>1. Len(outbox'[i]) = processed[i] /\ processed[i] \in Nat
        BY PublishesFailEffect DEF Types
      <3>. QED
        BY <1>1, <2>1, <3>1
    <2>2. CASE j # i
      BY <1>1, <2>2, PublishesFailEffect DEF Types
    <2>. QED
      BY <2>1, <2>2
  <1>. QED
    BY <1>1, <1>2, PublishesFailEffect DEF Types

LEMMA SubscribesFailTypes ==
  ASSUME Types, NEW i \in Instances, SubscribesFail(i) PROVE Types'
  <1>1. ElementsOf(subscribing[i]) \subseteq Channel
    BY DEF Types, ElementsOf
  <1>2. subscribing' \in [Instances -> Seq(Channel)] /\ failed' \in [Instances -> SUBSET Channel]
    BY <1>1 DEF SubscribesFail, Types
  <1>. QED
    BY <1>2 DEF SubscribesFail, Types, localVars, pubVars

LEMMA LinkBackTypes ==
  ASSUME Types, NEW l \in Links, LinkBack(l) PROVE Types'
  BY DEF LinkBack, Types, localVars, subVars, pubVars

LEMMA StutterTypes ==
  ASSUME Types, UNCHANGED vars PROVE Types'
  BY DEF vars, Types, localVars, subVars, pubVars

LEMMA TypesKept ==
  ASSUME Types, [Next]_vars PROVE Types'
  <1>1. ASSUME NEW i \in Instances, Sending(i) PROVE Types'
    BY <1>1, EmitTypes DEF Sending, EmitStep
  <1>. QED
    BY <1>1, Steps, OpenTypes, SubscribeRoomTypes, LeaveTypes, SubscribeAnsweredTypes,
       RedisPublishesTypes, HandleMessageTypes, PublisherLostTypes, SubscriberLostTypes,
       PublishesFailTypes, SubscribesFailTypes, LinkBackTypes, StutterTypes

-----------------------------------------------------------------------------
(* An instance listens to what its sockets need. *)

LEMMA ListensGrows ==
  ASSUME Listens, \A i \in Instances : Known(i) \subseteq Known(i)',
         \A c \in Conns : socket'[c] = "open" =>
           \/ socket[c] = "open" /\ topics'[c] \subseteq topics[c]
           \/ ChannelsOf(c)' \subseteq Known(Home[c])'
  PROVE  Listens'
  <1>1. ASSUME NEW c \in Conns, socket'[c] = "open"
        PROVE  ChannelsOf(c)' \subseteq Known(Home[c])'
    <2>1. Home[c] \in Instances
      BY RelayAssumption
    <2>2. CASE socket[c] = "open" /\ topics'[c] \subseteq topics[c]
      <3>1. ChannelsOf(c)' \subseteq ChannelsOf(c)
        BY <2>2 DEF ChannelsOf
      <3>2. ChannelsOf(c) \subseteq Known(Home[c])
        BY <2>2 DEF Listens, Covered, Known
      <3>. QED
        BY <2>1, <3>1, <3>2
    <2>. QED
      BY <1>1, <2>2
  <1>2. Covered'
    BY <1>1 DEF Covered, Known
  <1>3. \A i \in Instances : BroadcastChannel \in Known(i)'
    BY DEF Listens
  <1>. QED
    BY <1>2, <1>3 DEF Listens

LEMMA SubscribingKnown ==
  ASSUME Types, Listens, NEW i \in Instances, NEW chs \in Seq(Channel), SubscribeChannels(i, chs)
  PROVE  /\ \A j \in Instances : Known(j) \subseteq Known(j)'
         /\ ElementsOf(chs) \subseteq Known(i)'
  <1>1. ASSUME NEW j \in Instances PROVE Known(j) \subseteq Known(j)'
    <2>1. CASE j = i
      BY <2>1, SubscribeEffect DEF Known
    <2>2. CASE j # i
      BY <2>2, SubscribeEffect DEF Known
    <2>. QED
      BY <2>1, <2>2
  <1>2. ElementsOf(chs) \subseteq Known(i)'
    BY SubscribeEffect DEF Known
  <1>. QED
    BY <1>1, <1>2

LEMMA OpenListens ==
  ASSUME Types, Listens, NEW c \in Conns, Open(c) PROVE Listens'
  <1>1. Home[c] \in Instances /\ OpenChannels(c) \in Seq(Channel)
    BY RelayAssumption, OpenChannelsFacts
  <1>2. SubscribeChannels(Home[c], OpenChannels(c))
    BY DEF Open, OpenChannels
  <1>3. /\ \A j \in Instances : Known(j) \subseteq Known(j)'
        /\ ElementsOf(OpenChannels(c)) \subseteq Known(Home[c])'
    BY <1>1, <1>2, SubscribingKnown
  <1>4. BroadcastChannel \in Known(Home[c])'
    BY <1>1, <1>3 DEF Listens
  <1>5. topics'[c] = {UserTopic(UserOf[c]), BroadcastTopic} \cup ElementsOf(JwtRooms[c])
    BY DEF Open, Types
  <1>6. ChannelsOf(c)' \subseteq Known(Home[c])'
    <2>1. {RoomChannel(r) : r \in topics'[c] \ {BroadcastTopic, UserTopic(UserOf[c])}}
            \subseteq {RoomChannel(r) : r \in ElementsOf(JwtRooms[c])}
      BY <1>5
    <2>. QED
      BY <1>3, <1>4, <2>1, OpenChannelsFacts DEF ChannelsOf
  <1>7. \A d \in Conns \ {c} : socket'[d] = socket[d] /\ topics'[d] = topics[d]
    BY DEF Open, Types
  <1>. QED
    BY <1>3, <1>6, <1>7, ListensGrows

LEMMA SubscribeRoomListens ==
  ASSUME Types, Listens, NEW c \in Conns, NEW r \in Rooms, SubscribeRoom(c, r) PROVE Listens'
  <1>1. Home[c] \in Instances /\ RoomChannel(r) \in Channel
    BY RelayAssumption, NamesAreWords, ChannelFacts
  <1>2. <<RoomChannel(r)>> \in Seq(Channel) /\ ElementsOf(<<RoomChannel(r)>>) = {RoomChannel(r)}
    BY <1>1 DEF ElementsOf
  <1>3. SubscribeChannels(Home[c], <<RoomChannel(r)>>)
    BY DEF SubscribeRoom
  <1>4. /\ \A j \in Instances : Known(j) \subseteq Known(j)'
        /\ RoomChannel(r) \in Known(Home[c])'
    BY <1>1, <1>2, <1>3, SubscribingKnown
  <1>5. /\ socket[c] = "open" /\ socket' = socket /\ topics'[c] = topics[c] \cup {r}
        /\ \A d \in Conns \ {c} : topics'[d] = topics[d]
    BY DEF SubscribeRoom, Types
  <1>6. ChannelsOf(c)' \subseteq Known(Home[c])'
    <2>1. ChannelsOf(c)' \subseteq ChannelsOf(c) \cup {RoomChannel(r)}
      BY <1>5 DEF ChannelsOf
    <2>2. ChannelsOf(c) \subseteq Known(Home[c])
      BY <1>5 DEF Listens, Covered, Known
    <2>. QED
      BY <1>1, <1>4, <2>1, <2>2
  <1>. QED
    BY <1>4, <1>5, <1>6, ListensGrows

\* The other steps leave the sockets their topics or take some away.
LEMMA QuietListens ==
  ASSUME Types, Listens, \A i \in Instances : Known(i) \subseteq Known(i)',
         UNCHANGED localVars
  PROVE  Listens'
  BY ListensGrows DEF localVars

LEMMA SubscribeAnsweredListens ==
  ASSUME Types, Listens, NEW i \in Instances, SubscribeAnswered(i) PROVE Listens'
  <1>. DEFINE ch == Head(subscribing[i])
  <1>1. subscribing[i] \in Seq(Channel) /\ subscribing[i] # <<>>
    BY DEF SubscribeAnswered, Types
  <1>2. ElementsOf(subscribing[i]) = {ch} \cup ElementsOf(Tail(subscribing[i]))
    BY <1>1, ElementsOfTail
  <1>3. /\ subscribing'[i] = Tail(subscribing[i]) /\ cache'[i] = cache[i] \cup {ch}
        /\ \A j \in Instances \ {i} : subscribing'[j] = subscribing[j] /\ cache'[j] = cache[j]
        /\ failed' = failed /\ UNCHANGED localVars
    BY DEF SubscribeAnswered, Types
  <1>4. \A j \in Instances : Known(j) \subseteq Known(j)'
    BY <1>2, <1>3 DEF Known
  <1>. QED
    BY <1>3, <1>4, QuietListens

LEMMA SubscribesFailListens ==
  ASSUME Types, Listens, NEW i \in Instances, SubscribesFail(i) PROVE Listens'
  <1>1. /\ subscribing'[i] = <<>> /\ failed'[i] = failed[i] \cup ElementsOf(subscribing[i])
        /\ \A j \in Instances \ {i} : subscribing'[j] = subscribing[j] /\ failed'[j] = failed[j]
        /\ cache' = cache /\ UNCHANGED localVars
    BY DEF SubscribesFail, Types
  <1>2. \A j \in Instances : Known(j) \subseteq Known(j)'
    BY <1>1 DEF Known
  <1>. QED
    BY <1>1, <1>2, QuietListens

LEMMA OtherListens ==
  ASSUME Types, Listens, UNCHANGED subVars,
         \A c \in Conns : socket'[c] = "open" => socket[c] = "open" /\ topics'[c] \subseteq topics[c]
  PROVE  Listens'
  <1>1. \A i \in Instances : Known(i) \subseteq Known(i)'
    BY DEF subVars, Known
  <1>. QED
    BY <1>1, ListensGrows

LEMMA ListensStart == ASSUME Init PROVE Listens
  <1>1. \A i \in Instances : subscribing[i] = <<BroadcastChannel>>
    BY DEF Init
  <1>2. ElementsOf(<<BroadcastChannel>>) = {BroadcastChannel}
    BY DEF ElementsOf
  <1>. QED
    BY <1>1, <1>2 DEF Init, Listens, Known, Covered

LEMMA ListensKept ==
  ASSUME Types, Listens, [Next]_vars PROVE Listens'
  <1>1. ASSUME NEW i \in Instances, Sending(i) PROVE Listens'
    BY <1>1, OtherListens DEF Sending, EmitStep, Emit, localVars
  <1>2. ASSUME NEW c \in Conns, Close(c) PROVE Listens'
    BY <1>2, OtherListens DEF Close, Types
  <1>3. ASSUME NEW c \in Conns, NEW r \in Rooms, UnsubscribeRoom(c, r) PROVE Listens'
    BY <1>3, OtherListens DEF UnsubscribeRoom, Types
  <1>4. ASSUME NEW i \in Instances,
               \/ RedisPublishes(i) \/ HandleMessage(i) \/ PublisherLost(i)
               \/ SubscriberLost(i) \/ PublishesFail(i)
        PROVE  Listens'
    BY <1>4, OtherListens
       DEF RedisPublishes, HandleMessage, PublisherLost, SubscriberLost, LinkLost, PublishesFail, localVars
  <1>5. ASSUME NEW l \in Links, LinkBack(l) PROVE Listens'
    BY <1>5, OtherListens DEF LinkBack, localVars
  <1>6. CASE UNCHANGED vars
    BY <1>6, OtherListens DEF vars, localVars
  <1>. QED
    BY <1>1, <1>2, <1>3, <1>4, <1>5, <1>6, Steps, OpenListens, SubscribeRoomListens,
       SubscribeAnsweredListens, SubscribesFailListens

-----------------------------------------------------------------------------
(* What an instance published stays in order on its way to the others. *)

LEMMA OlderParts ==
  ASSUME NEW A, NEW B, NEW C, NEW D, Older(A, B), C \subseteq A, D \subseteq B
  PROVE  Older(C, D)
  BY DEF Older

\* Appending a message and taking the first one away
LEMMA RisingAppend ==
  ASSUME NEW i, NEW S, NEW s \in Seq(S), NEW m \in S
  PROVE  /\ Of(i, Append(s, m)) = Of(i, s) \cup (IF sent[m].from = i THEN {m} ELSE {})
         /\ Rising(i, s) /\ (sent[m].from = i => Older(Of(i, s), {m})) => Rising(i, Append(s, m))
  <1>1. DOMAIN s = 1 .. Len(s) /\ Len(s) \in Nat
    OBVIOUS
  <1>2. /\ DOMAIN Append(s, m) = 1 .. (Len(s) + 1) /\ Append(s, m)[Len(s) + 1] = m
        /\ \A k \in 1 .. Len(s) : Append(s, m)[k] = s[k]
    BY <1>1, AppendProperties
  <1>3. Of(i, Append(s, m)) = Of(i, s) \cup (IF sent[m].from = i THEN {m} ELSE {})
    BY <1>1, <1>2 DEF Of
  <1>4. ASSUME Rising(i, s), sent[m].from = i => Older(Of(i, s), {m})
        PROVE  Rising(i, Append(s, m))
    BY <1>1, <1>2, <1>4 DEF Rising, Of, Older
  <1>. QED
    BY <1>3, <1>4

LEMMA RisingTail ==
  ASSUME NEW i, NEW S, NEW s \in Seq(S), s # <<>>
  PROVE  /\ Of(i, s) = Of(i, Tail(s)) \cup (IF sent[Head(s)].from = i THEN {Head(s)} ELSE {})
         /\ Rising(i, s) => /\ Rising(i, Tail(s))
                            /\ sent[Head(s)].from = i => Older({Head(s)}, Of(i, Tail(s)))
  <1>1. Len(s) \in Nat \ {0} /\ DOMAIN s = 1 .. Len(s) /\ Head(s) = s[1]
    BY EmptySeq
  <1>2. DOMAIN Tail(s) = 1 .. (Len(s) - 1) /\ \A k \in DOMAIN Tail(s) : Tail(s)[k] = s[k + 1]
    BY <1>1, HeadTailProperties
  <1>3. \A k \in DOMAIN s : k # 1 => k - 1 \in DOMAIN Tail(s) /\ Tail(s)[k - 1] = s[k]
    BY <1>1, <1>2
  <1>4. \A k \in DOMAIN Tail(s) : k + 1 \in DOMAIN s
    BY <1>1, <1>2
  <1>5. Of(i, s) = Of(i, Tail(s)) \cup (IF sent[Head(s)].from = i THEN {Head(s)} ELSE {})
    <2>1. ASSUME NEW x \in Of(i, s)
          PROVE  x \in Of(i, Tail(s)) \cup (IF sent[Head(s)].from = i THEN {Head(s)} ELSE {})
      <3>1. PICK k \in DOMAIN s : x = s[k] /\ sent[s[k]].from = i
        BY DEF Of
      <3>2. CASE k = 1
        BY <1>1, <3>1, <3>2
      <3>3. CASE k # 1
        <4>1. k - 1 \in DOMAIN Tail(s) /\ Tail(s)[k - 1] = s[k]
          BY <1>3, <3>3
        <4>. QED
          BY <3>1, <4>1 DEF Of
      <3>. QED
        BY <3>2, <3>3
    <2>2. ASSUME NEW x \in Of(i, Tail(s)) PROVE x \in Of(i, s)
      BY <1>2, <1>4 DEF Of
    <2>3. sent[Head(s)].from = i => Head(s) \in Of(i, s)
      BY <1>1 DEF Of
    <2>. QED
      BY <2>1, <2>2, <2>3
  <1>6. ASSUME Rising(i, s) PROVE Rising(i, Tail(s))
    BY <1>1, <1>2, <1>4, <1>6 DEF Rising
  <1>7. ASSUME Rising(i, s), sent[Head(s)].from = i PROVE Older({Head(s)}, Of(i, Tail(s)))
    BY <1>1, <1>2, <1>4, <1>7 DEF Rising, Of, Older
  <1>. QED
    BY <1>5, <1>6, <1>7

LEMMA EmitOutboxes ==
  ASSUME Types, Outboxes, NEW i \in Instances, NEW cs \in SUBSET Conns, NEW ch \in Channel, Emit(i, cs, ch)
  PROVE  /\ Outboxes' /\ Pending(i)' = Pending(i) \cup {Len(sent) + 1}
         /\ \A j \in Instances \ {i} : Pending(j)' = Pending(j)
  <1>. DEFINE m == Len(sent) + 1
  <1>1. /\ \A n \in DOMAIN sent : sent'[n] = sent[n] /\ n < m
        /\ sent'[m].from = i /\ m \notin DOMAIN sent
        /\ outbox' = [outbox EXCEPT ![i] = Append(outbox[i], m)] /\ processed' = processed
    <2>1. sent'[m] = [from |-> i, channel |-> ch]
      BY EmitEffect
    <2>2. \A n \in DOMAIN sent : sent'[n] = sent[n] /\ n < m
      BY EmitEffect
    <2>3. m \notin DOMAIN sent /\ outbox' = [outbox EXCEPT ![i] = Append(outbox[i], m)] /\ processed' = processed
      BY EmitEffect
    <2>. QED
      BY <2>1, <2>2, <2>3
  <1>. HIDE DEF m
  <1>2. outbox \in [Instances -> Seq(DOMAIN sent)] /\ outbox[i] \in Seq(DOMAIN sent)
        /\ outbox[i] \in Seq(DOMAIN sent \cup {m})
    BY SeqMonotonic DEF Types
  <1>3. Len(outbox[i]) \in Nat /\ DOMAIN outbox[i] = 1 .. Len(outbox[i]) /\ processed[i] \in Nat
        /\ processed[i] <= Len(outbox[i])
    BY <1>2 DEF Types
  <1>4. /\ outbox'[i] = Append(outbox[i], m)
        /\ DOMAIN outbox'[i] = 1 .. (Len(outbox[i]) + 1) /\ outbox'[i][Len(outbox[i]) + 1] = m
        /\ \A k \in 1 .. Len(outbox[i]) : outbox'[i][k] = outbox[i][k]
    BY <1>1, <1>2, <1>3, AppendProperties
  <1>5. \A j \in Instances \ {i} : outbox'[j] = outbox[j]
    BY <1>1, <1>2
  <1>6. \A j \in Instances : \A k \in DOMAIN outbox[j] : outbox[j][k] \in DOMAIN sent
    BY DEF Types
  <1>7. Pending(i)' = Pending(i) \cup {m}
    BY <1>1, <1>3, <1>4 DEF Pending
  <1>8. \A j \in Instances \ {i} : Pending(j)' = Pending(j)
    BY <1>1, <1>5 DEF Pending
  <1>9. ASSUME NEW j \in Instances
        PROVE  /\ \A k \in DOMAIN outbox'[j] : sent'[outbox'[j][k]].from = j
               /\ \A k, l \in DOMAIN outbox'[j] : k < l => outbox'[j][k] < outbox'[j][l]
    <2>1. CASE j = i
      BY <1>1, <1>3, <1>4, <1>6, <2>1 DEF Outboxes
    <2>2. CASE j # i
      BY <1>1, <1>5, <1>6, <2>2 DEF Outboxes
    <2>. QED
      BY <2>1, <2>2
  <1>. QED
    BY <1>7, <1>8, <1>9 DEF Outboxes, m

LEMMA PendingSent ==
  ASSUME Types, Outboxes, NEW i \in Instances
  PROVE  \A m \in Pending(i) : m \in DOMAIN sent /\ sent[m].from = i /\ m \in Nat
  <1>1. outbox[i] \in Seq(DOMAIN sent)
    BY DEF Types
  <1>2. \A k \in DOMAIN outbox[i] : outbox[i][k] \in DOMAIN sent
    BY <1>1
  <1>. QED
    BY <1>2, SentTyped DEF Pending, Outboxes

LEMMA RedisPublishesPending ==
  ASSUME Types, Outboxes, NEW i \in Instances, RedisPublishes(i),
         NEW m, m = outbox[i][processed[i] + 1]
  PROVE  /\ m \in Pending(i) /\ Pending(i)' = Pending(i) \ {m} /\ Older({m}, Pending(i)')
         /\ \A j \in Instances \ {i} : Pending(j)' = Pending(j)
         /\ Outboxes'
  <1>1. processed[i] \in Nat /\ processed'[i] = processed[i] + 1 /\ outbox' = outbox
        /\ outbox[i] \in Seq(DOMAIN sent) /\ processed[i] + 1 \in DOMAIN outbox[i] /\ sent' = sent
    BY RedisPublishesEffect DEF RedisPublishes
  <1>2. DOMAIN outbox[i] = 1 .. Len(outbox[i]) /\ Len(outbox[i]) \in Nat
    BY <1>1
  <1>3. \A j, k \in DOMAIN outbox[i] : j < k => outbox[i][j] < outbox[i][k]
    BY DEF Outboxes
  <1>4. \A k \in DOMAIN outbox[i] : outbox[i][k] \in Nat
    BY <1>1, SentTyped
  <1>5. m \in Pending(i)
    BY <1>1, <1>2 DEF Pending
  <1>6. Pending(i)' = {outbox[i][k] : k \in {n \in DOMAIN outbox[i] : n > processed[i] + 1}}
    BY <1>1 DEF Pending
  <1>7. Older({m}, Pending(i)')
    BY <1>1, <1>2, <1>3, <1>6 DEF Older
  <1>8. m \notin Pending(i)'
    BY <1>1, <1>4, <1>7 DEF Older
  <1>9. Pending(i) = Pending(i)' \cup {m}
    <2>1. \A n \in DOMAIN outbox[i] : n > processed[i] <=> n > processed[i] + 1 \/ n = processed[i] + 1
      BY <1>1, <1>2
    <2>. QED
      BY <1>1, <1>6, <2>1 DEF Pending
  <1>10. \A j \in Instances \ {i} : Pending(j)' = Pending(j)
    BY <1>1, RedisPublishesEffect DEF Pending
  <1>. QED
    BY <1>1, <1>5, <1>7, <1>8, <1>9, <1>10 DEF Outboxes

LEMMA PublishesFailPending ==
  ASSUME Types, Outboxes, NEW i \in Instances, PublishesFail(i)
  PROVE  /\ Pending(i)' = {} /\ Outboxes'
         /\ \A j \in Instances \ {i} : Pending(j)' = Pending(j)
  <1>1. sent' = sent /\ processed' = processed
    BY DEF PublishesFail
  <1>2. \A j \in Instances \ {i} : outbox'[j] = outbox[j]
    BY PublishesFailEffect
  <1>3. /\ DOMAIN outbox'[i] \subseteq DOMAIN outbox[i]
        /\ \A k \in DOMAIN outbox'[i] : outbox'[i][k] = outbox[i][k]
        /\ Pending(i)' = {}
    BY PublishesFailEffect
  <1>4. ASSUME NEW j \in Instances
        PROVE  /\ \A k \in DOMAIN outbox'[j] : sent'[outbox'[j][k]].from = j
               /\ \A k, l \in DOMAIN outbox'[j] : k < l => outbox'[j][k] < outbox'[j][l]
    BY <1>1, <1>2, <1>3 DEF Outboxes
  <1>. QED
    BY <1>1, <1>2, <1>3, <1>4 DEF Outboxes, Pending

LEMMA OutboxesSame ==
  ASSUME Outboxes, UNCHANGED <<sent, outbox>>
  PROVE  Outboxes'
  BY DEF Outboxes

LEMMA OutboxesKept ==
  ASSUME Types, Outboxes, [Next]_vars PROVE Outboxes'
  <1>1. ASSUME NEW i \in Instances, Sending(i) PROVE Outboxes'
    BY <1>1, EmitOutboxes DEF Sending, EmitStep
  <1>2. ASSUME NEW c \in Conns, NEW r, Open(c) \/ Close(c) \/ SubscribeRoom(c, r) \/ UnsubscribeRoom(c, r)
        PROVE  Outboxes'
    BY <1>2, OutboxesSame DEF Open, Close, SubscribeRoom, UnsubscribeRoom, pubVars
  <1>3. ASSUME NEW i \in Instances,
               \/ SubscribeAnswered(i) \/ HandleMessage(i) \/ PublisherLost(i)
               \/ SubscriberLost(i) \/ SubscribesFail(i)
        PROVE  Outboxes'
    BY <1>3, OutboxesSame
       DEF SubscribeAnswered, HandleMessage, PublisherLost, SubscriberLost, LinkLost, SubscribesFail, pubVars
  <1>4. ASSUME NEW i \in Instances, RedisPublishes(i) \/ PublishesFail(i) PROVE Outboxes'
    BY <1>4, RedisPublishesPending, PublishesFailPending
  <1>5. ASSUME NEW l \in Links, LinkBack(l) PROVE Outboxes'
    BY <1>5, OutboxesSame DEF LinkBack, pubVars
  <1>6. CASE UNCHANGED vars
    BY <1>6, OutboxesSame DEF vars, pubVars
  <1>. QED
    BY <1>1, <1>2, <1>3, <1>4, <1>5, <1>6, Steps

\* Steps that take messages away at most.
LEMMA OrderedSame ==
  ASSUME Ordered, UNCHANGED <<sent, received>>, lost \subseteq lost',
         \A i \in Instances : <<"publisher", i>> \notin lost' => Pending(i)' \subseteq Pending(i),
         \A h \in Instances : inbox'[h] = inbox[h] \/ inbox'[h] = <<>>
  PROVE  Ordered'
  <1>1. ASSUME NEW i \in Instances, <<"publisher", i>> \notin lost' PROVE InOrderFrom(i)'
    <2>1. /\ \A h \in Instances :
               Rising(i, inbox[h]) /\ Older(Of(i, inbox[h]), Pending(i))
          /\ \A c \in Conns : Home[c] # i =>
               /\ Rising(i, received[c])
               /\ Older(Of(i, received[c]), Of(i, inbox[Home[c]]) \cup Pending(i))
      BY <1>1 DEF Ordered, InOrderFrom
    <2>2. \A h \in Instances : /\ Of(i, inbox[h])' \subseteq Of(i, inbox[h])
                               /\ Rising(i, inbox[h]) => Rising(i, inbox[h])'
      BY DEF Of, Rising
    <2>3. Pending(i)' \subseteq Pending(i)
      BY <1>1
    <2>4. \A c \in Conns : Of(i, received[c])' = Of(i, received[c]) /\ (Rising(i, received[c]) => Rising(i, received[c])')
      BY DEF Of, Rising
    <2>5. ASSUME NEW h \in Instances PROVE Rising(i, inbox[h])' /\ Older(Of(i, inbox[h])', Pending(i)')
      BY <2>1, <2>2, <2>3 DEF Older
    <2>6. ASSUME NEW c \in Conns, Home[c] # i
          PROVE  /\ Rising(i, received[c])'
                 /\ Older(Of(i, received[c])', Of(i, inbox[Home[c]])' \cup Pending(i)')
      <3>1. Home[c] \in Instances
        BY RelayAssumption
      <3>. QED
        BY <2>1, <2>2, <2>3, <2>4, <2>6, <3>1 DEF Older
    <2>. QED
      BY <2>5, <2>6 DEF InOrderFrom, Older
  <1>. QED
    BY <1>1 DEF Ordered, InOrderFrom

LEMMA RedisPublishesOrdered ==
  ASSUME Types, Outboxes, Ordered, NEW i \in Instances, RedisPublishes(i) PROVE Ordered'
  <1>. DEFINE m == outbox[i][processed[i] + 1]
  <1>1. /\ m \in Pending(i) /\ Pending(i)' = Pending(i) \ {m} /\ Older({m}, Pending(i)')
        /\ \A j \in Instances \ {i} : Pending(j)' = Pending(j)
    BY RedisPublishesPending
  <1>2. m \in DOMAIN sent /\ sent[m].from = i
    BY <1>1, PendingSent
  <1>3. /\ \A h \in Instances : inbox'[h] = inbox[h] \/ inbox'[h] = Append(inbox[h], m)
        /\ UNCHANGED <<sent, received, lost>>
    BY DEF RedisPublishes
  <1>. HIDE DEF m
  <1>4. ASSUME NEW j \in Instances, <<"publisher", j>> \notin lost PROVE InOrderFrom(j)'
    <2>1. /\ \A h \in Instances :
               Rising(j, inbox[h]) /\ Older(Of(j, inbox[h]), Pending(j))
          /\ \A c \in Conns : Home[c] # j =>
               /\ Rising(j, received[c])
               /\ Older(Of(j, received[c]), Of(j, inbox[Home[c]]) \cup Pending(j))
      BY <1>4 DEF Ordered, InOrderFrom
    <2>2. Pending(j)' \subseteq Pending(j) /\ (i = j => m \in Pending(j) /\ Older({m}, Pending(j)'))
      BY <1>1
    <2>3. ASSUME NEW h \in Instances
          PROVE  /\ Of(j, inbox'[h]) \subseteq Of(j, inbox[h]) \cup (IF i = j THEN {m} ELSE {})
                 /\ Rising(j, inbox'[h])
      <3>1. inbox[h] \in Seq(DOMAIN sent)
        BY DEF Types
      <3>2. /\ Of(j, Append(inbox[h], m)) = Of(j, inbox[h]) \cup (IF sent[m].from = j THEN {m} ELSE {})
            /\ Rising(j, inbox[h]) /\ (sent[m].from = j => Older(Of(j, inbox[h]), {m}))
                 => Rising(j, Append(inbox[h], m))
        BY <1>2, <3>1, RisingAppend
      <3>3. i = j => Older(Of(j, inbox[h]), {m})
        BY <2>1, <2>2 DEF Older
      <3>. QED
        BY <1>2, <1>3, <2>1, <3>2, <3>3
    <2>4. ASSUME NEW h \in Instances PROVE Rising(j, inbox'[h]) /\ Older(Of(j, inbox'[h]), Pending(j)')
      BY <2>1, <2>2, <2>3 DEF Older
    <2>5. ASSUME NEW c \in Conns, Home[c] # j
          PROVE  Older(Of(j, received[c]), Of(j, inbox'[Home[c]]) \cup Pending(j)')
      <3>1. Home[c] \in Instances
        BY RelayAssumption
      <3>. QED
        BY <2>1, <2>2, <2>3, <2>5, <3>1 DEF Older
    <2>6. \A s : Of(j, s) = {s[k] : k \in {n \in DOMAIN s : sent'[s[n]].from = j}}
      BY <1>3 DEF Of
    <2>7. \A s : Rising(j, s) <=>
            \A k, l \in DOMAIN s :
              k < l /\ sent'[s[k]].from = j /\ sent'[s[l]].from = j => s[k] < s[l]
      BY <1>3 DEF Rising
    <2>8. \A h \in Instances : Rising(j, inbox[h])' /\ Older(Of(j, inbox[h]), Pending(j))'
      BY <2>4, <2>6, <2>7 DEF Rising, Of, Older
    <2>9. \A c \in Conns : Home[c] # j =>
            Rising(j, received[c])' /\ Older(Of(j, received[c]), Of(j, inbox[Home[c]]) \cup Pending(j))'
      <3>. SUFFICES ASSUME NEW c \in Conns, Home[c] # j
                    PROVE  /\ Rising(j, received[c])'
                           /\ Older(Of(j, received[c]), Of(j, inbox[Home[c]]) \cup Pending(j))'
        OBVIOUS
      <3>1. received'[c] = received[c] /\ sent' = sent
        BY <1>3
      <3>2. Rising(j, received[c])' <=> Rising(j, received[c])
        BY <3>1 DEF Rising
      <3>3. Of(j, received[c])' = Of(j, received[c]) /\ Of(j, inbox[Home[c]])' = Of(j, inbox'[Home[c]])
        BY <3>1 DEF Of
      <3>4. Older(Of(j, received[c]), Of(j, inbox[Home[c]]) \cup Pending(j))'
              <=> Older(Of(j, received[c]), Of(j, inbox'[Home[c]]) \cup Pending(j)')
        BY <3>3 DEF Older
      <3>. QED
        BY <2>1, <2>5, <3>2, <3>4
    <2>. QED
      BY <2>8, <2>9 DEF InOrderFrom
  <1>. QED
    BY <1>3, <1>4 DEF Ordered, InOrderFrom

LEMMA HandleMessageOrdered ==
  ASSUME Types, Outboxes, Ordered, NEW i \in Instances, HandleMessage(i) PROVE Ordered'
  <1>. DEFINE m == Head(inbox[i])
              cs == Forwarded(i, sent[m].channel)
  <1>1. /\ inbox[i] \in Seq(DOMAIN sent) /\ inbox[i] # <<>> /\ m \in DOMAIN sent
        /\ inbox'[i] = Tail(inbox[i]) /\ \A j \in Instances \ {i} : inbox'[j] = inbox[j]
        /\ cs \subseteq OpenAt(i)
    BY HandleMessageEffect
  <1>2. received' = Handed(cs, m) /\ UNCHANGED <<sent, outbox, processed, lost>>
    BY DEF HandleMessage, pubVars
  <1>. HIDE DEF m, cs
  <1>3. \A c \in Conns : received'[c] = IF c \in cs THEN Append(received[c], m) ELSE received[c]
    BY <1>2 DEF Handed
  <1>4. ASSUME NEW j \in Instances, <<"publisher", j>> \notin lost PROVE InOrderFrom(j)'
    <2>1. /\ \A h \in Instances :
               Rising(j, inbox[h]) /\ Older(Of(j, inbox[h]), Pending(j))
          /\ \A c \in Conns : Home[c] # j =>
               /\ Rising(j, received[c])
               /\ Older(Of(j, received[c]), Of(j, inbox[Home[c]]) \cup Pending(j))
      BY <1>4 DEF Ordered, InOrderFrom
    <2>0. /\ Rising(j, inbox[i]) /\ Rising(j, Tail(inbox[i])) /\ Older(Of(j, inbox[i]), Pending(j))
          /\ sent[m].from = j => Older({m}, Of(j, Tail(inbox[i])))
      <3>1. Rising(j, inbox[i]) /\ Older(Of(j, inbox[i]), Pending(j))
        BY <2>1
      <3>2. Rising(j, inbox[i]) => /\ Rising(j, Tail(inbox[i]))
                                   /\ sent[Head(inbox[i])].from = j =>
                                        Older({Head(inbox[i])}, Of(j, Tail(inbox[i])))
        BY <1>1, RisingTail
      <3>3. m = Head(inbox[i])
        BY DEF m
      <3>. QED
        BY <3>1, <3>2, <3>3
    <2>2. /\ Of(j, Tail(inbox[i])) \subseteq Of(j, inbox[i])
          /\ sent[m].from = j => {m} \subseteq Of(j, inbox[i])
      <3>1. Of(j, inbox[i]) = Of(j, Tail(inbox[i])) \cup (IF sent[m].from = j THEN {m} ELSE {})
        <4>1. Of(j, inbox[i]) = Of(j, Tail(inbox[i]))
                \cup (IF sent[Head(inbox[i])].from = j THEN {Head(inbox[i])} ELSE {})
          <5>1. inbox[i] \in Seq(DOMAIN sent) /\ inbox[i] # <<>>
            BY <1>1
          <5>. QED
            BY ONLY <5>1, RisingTail
        <4>. QED
          BY <4>1 DEF m
      <3>. QED
        BY <3>1
    <2>3. Pending(j)' = Pending(j)
      BY <1>2 DEF Pending
    <2>4. ASSUME NEW h \in Instances
          PROVE  /\ Of(j, inbox'[h]) \subseteq Of(j, inbox[h])
                 /\ Rising(j, inbox'[h]) /\ Older(Of(j, inbox'[h]), Pending(j)')
      <3>1. Of(j, inbox'[h]) \subseteq Of(j, inbox[h]) /\ Rising(j, inbox'[h])
        <4>1. CASE h = i
          <5>1. inbox'[h] = Tail(inbox[i])
            BY <1>1, <4>1
          <5>. QED
            BY <2>0, <2>2, <4>1, <5>1
        <4>2. CASE h # i
          <5>1. inbox'[h] = inbox[h]
            BY <1>1, <4>2
          <5>. QED
            BY <2>1, <5>1
        <4>. QED
          BY <4>1, <4>2
      <3>2. Older(Of(j, inbox[h]), Pending(j))
        BY <2>1
      <3>. QED
        BY <2>3, <3>1, <3>2, OlderParts
    <2>5. ASSUME NEW c \in Conns, Home[c] # j
          PROVE  /\ Rising(j, received'[c])
                 /\ Older(Of(j, received'[c]), Of(j, inbox'[Home[c]]) \cup Pending(j)')
      <3>1. Home[c] \in Instances /\ received[c] \in Seq(DOMAIN sent)
        BY RelayAssumption DEF Types
      <3>2. CASE c \notin cs
        <4>1. Rising(j, received[c]) /\ Older(Of(j, received[c]), Of(j, inbox[Home[c]]) \cup Pending(j))
          BY <2>1, <2>5
        <4>2. Of(j, inbox'[Home[c]]) \cup Pending(j)' \subseteq Of(j, inbox[Home[c]]) \cup Pending(j)
          BY <2>3, <2>4, <3>1
        <4>3. Older(Of(j, received[c]), Of(j, inbox'[Home[c]]) \cup Pending(j)')
          BY <4>1, <4>2, OlderParts
        <4>. QED
          BY <1>3, <3>2, <4>1, <4>3
      <3>3. CASE c \in cs
        <4>1. Home[c] = i
          BY <1>1, <3>3 DEF OpenAt
        <4>2. /\ Of(j, Append(received[c], m)) = Of(j, received[c]) \cup (IF sent[m].from = j THEN {m} ELSE {})
              /\ Rising(j, received[c]) /\ (sent[m].from = j => Older(Of(j, received[c]), {m}))
                   => Rising(j, Append(received[c], m))
          BY <1>1, <3>1, RisingAppend
        <4>3. sent[m].from = j => Older(Of(j, received[c]), {m}) /\ Older({m}, Pending(j))
          <5>1. Older(Of(j, received[c]), Of(j, inbox[i]) \cup Pending(j))
            BY <2>1, <2>5, <4>1
          <5>2. sent[m].from = j => Older(Of(j, received[c]), {m})
            BY <2>2, <5>1 DEF Older
          <5>3. sent[m].from = j => Older({m}, Pending(j))
            BY <2>0, <2>2 DEF Older
          <5>. QED
            BY <5>2, <5>3
        <4>4. Rising(j, Append(received[c], m))
          BY <2>1, <2>5, <4>2, <4>3
        <4>5. Older(Of(j, Append(received[c], m)), Of(j, Tail(inbox[i])) \cup Pending(j))
          <5>1. Older(Of(j, received[c]), Of(j, inbox[i]) \cup Pending(j))
            BY <2>1, <2>5, <4>1
          <5>2. Older(Of(j, received[c]), Of(j, Tail(inbox[i])) \cup Pending(j))
            BY <2>2, <5>1, OlderParts
          <5>3. sent[m].from = j => Older({m}, Of(j, Tail(inbox[i])) \cup Pending(j))
            BY <2>0, <4>3 DEF Older
          <5>. QED
            BY <4>2, <5>2, <5>3 DEF Older
        <4>. QED
          BY <1>1, <1>3, <2>3, <3>3, <4>1, <4>4, <4>5
      <3>. QED
        BY <3>2, <3>3
    <2>6. \A h \in Instances : Rising(j, inbox[h])' /\ Older(Of(j, inbox[h]), Pending(j))'
      BY <1>2, <2>4 DEF Rising, Of, Older
    <2>7. \A c \in Conns : Home[c] # j =>
            Rising(j, received[c])' /\ Older(Of(j, received[c]), Of(j, inbox[Home[c]]) \cup Pending(j))'
      BY <1>2, <2>5 DEF Rising, Of, Older
    <2>. QED
      BY <2>6, <2>7 DEF InOrderFrom
  <1>. QED
    BY <1>2, <1>4 DEF Ordered, InOrderFrom

LEMMA EmitOrdered ==
  ASSUME Types, Outboxes, Ordered, NEW i \in Instances, NEW cs \in SUBSET OpenAt(i),
         NEW ch \in Channel, Emit(i, cs, ch)
  PROVE  Ordered'
  <1>. DEFINE m == Len(sent) + 1
  <1>0. cs \in SUBSET Conns
    BY DEF OpenAt
  <1>1. \A j \in Instances : Pending(j)' \subseteq Pending(j) \cup {m}
    BY <1>0, EmitOutboxes
  <1>2. sent'[m] = [from |-> i, channel |-> ch] /\ received' = Handed(cs, m) /\ UNCHANGED <<inbox, lost>>
    BY <1>0, EmitEffect
  <1>3. \A n \in DOMAIN sent : sent'[n] = sent[n] /\ n < m
    BY <1>0, EmitEffect
  <1>. HIDE DEF m
  <1>4. sent'[m].from = i
    BY <1>2
  <1>5. \A c \in Conns : received'[c] = IF c \in cs THEN Append(received[c], m) ELSE received[c]
    BY <1>2 DEF Handed
  <1>6. ASSUME NEW j \in Instances, <<"publisher", j>> \notin lost PROVE InOrderFrom(j)'
    <2>1. /\ \A h \in Instances :
               Rising(j, inbox[h]) /\ Older(Of(j, inbox[h]), Pending(j))
          /\ \A c \in Conns : Home[c] # j =>
               /\ Rising(j, received[c])
               /\ Older(Of(j, received[c]), Of(j, inbox[Home[c]]) \cup Pending(j))
      BY <1>6 DEF Ordered, InOrderFrom
    <2>2. ASSUME NEW h \in Instances
          PROVE  Of(j, inbox[h])' = Of(j, inbox[h]) /\ Rising(j, inbox[h])' /\ Of(j, inbox[h]) \subseteq DOMAIN sent
      <3>1. \A k \in DOMAIN inbox[h] : inbox[h][k] \in DOMAIN sent
        BY DEF Types
      <3>2. \A k \in DOMAIN inbox[h] : sent'[inbox[h][k]] = sent[inbox[h][k]]
        BY <1>3, <3>1
      <3>. QED
        <4>1. Of(j, inbox[h])' = Of(j, inbox[h]) /\ Of(j, inbox[h]) \subseteq DOMAIN sent
          BY <1>2, <3>1, <3>2 DEF Of
        <4>2. Rising(j, inbox[h])
          BY <2>1
        <4>3. Rising(j, inbox[h])'
          BY <1>2, <3>2, <4>2 DEF Rising
        <4>. QED
          BY <4>1, <4>3
    <2>3. ASSUME NEW c \in Conns, Home[c] # j
          PROVE  Of(j, received[c])' = Of(j, received[c]) /\ Rising(j, received[c])' /\ Of(j, received[c]) \subseteq DOMAIN sent
      <3>1. received[c] \in Seq(DOMAIN sent) /\ Len(received[c]) \in Nat
            /\ DOMAIN received[c] = 1 .. Len(received[c])
        BY DEF Types
      <3>2. \A k \in DOMAIN received[c] : received[c][k] \in DOMAIN sent
        BY <3>1
      <3>3. \A k \in DOMAIN received[c] : sent'[received[c][k]] = sent[received[c][k]]
        BY <1>3, <3>2
      <3>4. Rising(j, received[c])
        BY <2>1, <2>3
      <3>5. CASE c \notin cs
        BY <1>5, <3>2, <3>3, <3>4, <3>5 DEF Of, Rising
      <3>6. CASE c \in cs
        <4>1. i # j
          BY <2>3, <3>6 DEF OpenAt
        <4>2. received[c] \in Seq(DOMAIN sent \cup {m}) /\ m \in DOMAIN sent \cup {m}
              /\ received'[c] = Append(received[c], m)
          BY <1>5, <3>1, <3>6, SeqMonotonic
        <4>3. /\ DOMAIN received'[c] = 1 .. (Len(received[c]) + 1)
              /\ received'[c][Len(received[c]) + 1] = m
              /\ \A k \in 1 .. Len(received[c]) : received'[c][k] = received[c][k]
          BY <3>1, <4>2, AppendProperties
        <4>4. \A k \in DOMAIN received'[c] : sent'[received'[c][k]].from = j =>
                k \in DOMAIN received[c] /\ received'[c][k] = received[c][k] /\ sent[received[c][k]].from = j
          BY <1>4, <3>1, <3>3, <4>1, <4>3
        <4>5. \A k \in DOMAIN received[c] : k \in DOMAIN received'[c] /\ received'[c][k] = received[c][k]
          BY <3>1, <4>3
        <4>. QED
          BY <3>2, <3>3, <3>4, <4>4, <4>5 DEF Of, Rising
      <3>. QED
        BY <3>5, <3>6
    <2>4. \A A, B, C : Older(A, B) /\ A \subseteq DOMAIN sent /\ C \subseteq B \cup {m} => Older(A, C)
      BY <1>3 DEF Older
    <2>5. \A h \in Instances : Older(Of(j, inbox[h])', Pending(j)')
      BY <1>1, <2>1, <2>2, <2>4
    <2>6. ASSUME NEW c \in Conns, Home[c] # j
          PROVE  Older(Of(j, received[c])', Of(j, inbox[Home[c]])' \cup Pending(j)')
      <3>1. Home[c] \in Instances
        BY RelayAssumption
      <3>2. Of(j, inbox[Home[c]])' \cup Pending(j)' \subseteq Of(j, inbox[Home[c]]) \cup Pending(j) \cup {m}
        BY <1>1, <2>2, <3>1
      <3>3. Older(Of(j, received[c]), Of(j, inbox[Home[c]]) \cup Pending(j))
        BY <2>1, <2>6
      <3>4. Of(j, received[c])' = Of(j, received[c]) /\ Of(j, received[c]) \subseteq DOMAIN sent
        BY <2>3, <2>6
      <3>. QED
        BY <2>4, <3>2, <3>3, <3>4
    <2>. QED
      BY <2>2, <2>3, <2>5, <2>6 DEF InOrderFrom, Older
  <1>. QED
    BY <1>2, <1>6 DEF Ordered, InOrderFrom

LEMMA OrderedStart == ASSUME Init PROVE Ordered
  <1>1. \A i \in Instances : \A h \in Instances : Of(i, inbox[h]) = {} /\ Rising(i, inbox[h])
    BY DEF Init, Of, Rising
  <1>2. \A i \in Instances : \A c \in Conns : Of(i, received[c]) = {} /\ Rising(i, received[c])
    BY DEF Init, Of, Rising
  <1>. QED
    BY <1>1, <1>2 DEF Ordered, InOrderFrom, Older

LEMMA OrderedKept ==
  ASSUME Types, Outboxes, Ordered, [Next]_vars PROVE Ordered'
  <1>1. ASSUME NEW i \in Instances, Sending(i) PROVE Ordered'
    BY <1>1, EmitOrdered DEF Sending, EmitStep
  <1>2. ASSUME NEW c \in Conns, NEW r, Open(c) \/ Close(c) \/ SubscribeRoom(c, r) \/ UnsubscribeRoom(c, r)
        PROVE  Ordered'
    BY <1>2, OrderedSame DEF Open, Close, SubscribeRoom, UnsubscribeRoom, pubVars, Pending
  <1>3. ASSUME NEW i \in Instances, SubscribeAnswered(i) \/ SubscribesFail(i) PROVE Ordered'
    BY <1>3, OrderedSame DEF SubscribeAnswered, SubscribesFail, pubVars, Pending
  <1>4. ASSUME NEW i \in Instances, PublisherLost(i) PROVE Ordered'
    <2>1. \A j \in Instances : <<"publisher", j>> \notin lost' => processed'[j] = processed[j]
      BY <1>4 DEF PublisherLost, LinkLost, Types
    <2>2. UNCHANGED <<sent, received, outbox, inbox>> /\ lost \subseteq lost'
      BY <1>4 DEF PublisherLost, LinkLost
    <2>. QED
      BY <2>1, <2>2, OrderedSame DEF Pending
  <1>5. ASSUME NEW i \in Instances, SubscriberLost(i) PROVE Ordered'
    <2>1. UNCHANGED <<sent, received, outbox, processed>> /\ lost \subseteq lost'
          /\ inbox' = [inbox EXCEPT ![i] = <<>>]
      BY <1>5 DEF SubscriberLost, LinkLost
    <2>2. \A h \in Instances : inbox'[h] = inbox[h] \/ inbox'[h] = <<>>
      BY <2>1 DEF Types
    <2>. QED
      BY <2>1, <2>2, OrderedSame DEF Pending
  <1>6. ASSUME NEW i \in Instances, PublishesFail(i) PROVE Ordered'
    <2>1. UNCHANGED <<sent, received, inbox, lost>>
      BY <1>6 DEF PublishesFail
    <2>. QED
      BY <1>6, <2>1, OrderedSame, PublishesFailPending
  <1>7. ASSUME NEW l \in Links, LinkBack(l) PROVE Ordered'
    BY <1>7, OrderedSame DEF LinkBack, pubVars, Pending
  <1>8. CASE UNCHANGED vars
    BY <1>8, OrderedSame DEF vars, pubVars, Pending
  <1>. QED
    BY <1>1, <1>2, <1>3, <1>4, <1>5, <1>6, <1>7, <1>8, Steps, RedisPublishesOrdered, HandleMessageOrdered

\* InOrderFrom is what RemoteOrder says of the sockets.
LEMMA OrderedGives ==
  ASSUME Types, Ordered PROVE RemoteOrder
  <1>. SUFFICES ASSUME NEW c \in Conns, NEW j \in DOMAIN received[c], NEW k \in DOMAIN received[c],
                       j < k, sent[received[c][j]].from = sent[received[c][k]].from,
                       sent[received[c][j]].from # Home[c],
                       <<"publisher", sent[received[c][j]].from>> \notin lost
                PROVE  received[c][j] < received[c][k]
    BY DEF RemoteOrder
  <1>. DEFINE i == sent[received[c][j]].from
  <1>1. received[c][j] \in DOMAIN sent
    BY DEF Types
  <1>2. i \in Instances
    BY <1>1, SentTyped
  <1>3. Rising(i, received[c])
    BY <1>2 DEF Ordered, InOrderFrom
  <1>. QED
    BY <1>3 DEF Rising

-----------------------------------------------------------------------------
(* The invariant and what follows from it. *)

RelayInv == Types /\ Listens /\ Outboxes /\ Ordered

LEMMA RelayInvStart == ASSUME Init PROVE RelayInv
  <1>1. Outboxes
    BY DEF Init, Outboxes
  <1>. QED
    BY <1>1, TypesStart, ListensStart, OrderedStart DEF RelayInv

\* In every reachable state the inductive invariant holds: the types, an
\* instance listening to what its sockets need, and the messages of an
\* instance being in order on their way.
THEOREM RelayInvariant == Spec => []RelayInv
  <1>1. RelayInv /\ [Next]_vars => RelayInv'
    BY TypesKept, ListensKept, OutboxesKept, OrderedKept DEF RelayInv
  <1>. QED
    BY <1>1, RelayInvStart, PTL DEF Spec

\* The state keeps its types: whatever is queued at an instance, under way to
\* one or handed to a socket is a message that was published, and what an
\* instance has still to publish it was asked to publish itself: nothing that
\* came from Redis goes back there (src/src/core/MessageRouter.ts).
THEOREM RelayTypes == Spec => []RelayTypeOK
  <1>1. ASSUME Types, Outboxes PROVE RelayTypeOK
    <2>1. ASSUME NEW i \in Instances
          PROVE  /\ outbox[i] \in Seq(DOMAIN sent)
                 /\ processed[i] \in 0 .. Len(outbox[i])
                 /\ inbox[i] \in Seq(DOMAIN sent)
                 /\ \A k \in DOMAIN outbox[i] : sent[outbox[i][k]].from = i
      <3>1. outbox[i] \in Seq(DOMAIN sent) /\ inbox[i] \in Seq(DOMAIN sent)
            /\ processed[i] \in Nat /\ processed[i] <= Len(outbox[i])
        BY <1>1 DEF Types
      <3>2. processed[i] \in 0 .. Len(outbox[i])
        BY <3>1
      <3>. QED
        BY <1>1, <3>1, <3>2 DEF Outboxes
    <2>. QED
      BY <1>1, <2>1 DEF RelayTypeOK, Types
  <1>2. RelayInv => RelayTypeOK
    BY <1>1 DEF RelayInv
  <1>. QED
    BY <1>2, RelayInvariant, PTL

\* No open socket's instance is deaf to a channel the socket needs, unless the
\* SUBSCRIBE of that channel failed (src/src/redis/RedisPubSub.ts,
\* subscribeForUser and subscribeForRoom).
THEOREM RelayCovered == Spec => []Covered
  <1>1. RelayInv => Covered
    BY DEF RelayInv, Listens
  <1>. QED
    BY <1>1, RelayInvariant, PTL

\* A socket sees what another instance published in the order in which it was
\* published, as long as that instance never lost its publisher link.
THEOREM RelayRemoteOrder == Spec => []RemoteOrder
  <1>1. RelayInv => RemoteOrder
    BY OrderedGives DEF RelayInv
  <1>. QED
    BY <1>1, RelayInvariant, PTL
=============================================================================
