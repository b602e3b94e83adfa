----------------------- MODULE WebSocketServerProofs ------------------------
(***************************************************************************)
(* The WebSocket server keeps its registries exact, its memberships        *)
(* reachable and its room limit, for every set of connections, users and   *)
(* rooms, every token and every bound.                                     *)
(***************************************************************************)
EXTENDS WebSocketServer, RoomManagerProofs, TLAPS

-----------------------------------------------------------------------------
(* What open's calls of subscribe admit stays within the limit. *)

\* A non-empty set of naturals has a least element.
LEMMA LeastNatural ==
  ASSUME NEW T \in SUBSET Nat, T # {}
  PROVE  \E t \in T : \A s \in T : t <= s
<1>1. PICK t \in T : \A s \in T : ~(<<s, t>> \in OpToRel(<, Nat))
  BY NatLessThanWellFounded, WFMin
<1>2. ASSUME NEW s \in T
      PROVE  t <= s
  <2>1. s \in Nat /\ t \in Nat
    OBVIOUS
  <2>2. ~(s < t)
    <3>1. <<s, t>> \in OpToRel(<, Nat) <=> s < t
      BY <2>1 DEF OpToRel
    <3> QED
      BY <1>1, <3>1
  <2> QED
    BY <2>1, <2>2
<1> QED
  BY <1>2

LEMMA SequenceRangeFinite ==
  ASSUME NEW S, NEW seq \in Seq(S)
  PROVE  /\ {seq[k] : k \in 1 .. Len(seq)} \subseteq S
         /\ IsFiniteSet({seq[k] : k \in 1 .. Len(seq)})
<1> DEFINE R == {seq[k] : k \in 1 .. Len(seq)}
<1>1. seq \in [1 .. Len(seq) -> S] /\ Len(seq) \in Nat
  OBVIOUS
<1>2. seq \in Surjection(1 .. Len(seq), R)
  BY <1>1 DEF Surjection
<1>3. IsFiniteSet(1 .. Len(seq))
  BY <1>1, FS_Interval
<1>4. IsFiniteSet(R)
  <2> HIDE DEF R
  <2> QED
    BY <1>2, <1>3, FS_Surjection
<1> QED
  BY <1>1, <1>4

\* The granted rooms are a prefix of the sequence: with one room fewer the
\* limit was not yet reached.
LEMMA GrantedWithinLimit ==
  ASSUME NEW u, IsFiniteSet(RoomsOf(u)),
         Cardinality(RoomsOf(u)) <= MaxRoomsPerUser,
         NEW seq \in Seq(Rooms)
  PROVE  /\ Granted(u, seq) \subseteq Rooms
         /\ IsFiniteSet(RoomsOf(u) \cup Granted(u, seq))
         /\ Cardinality(RoomsOf(u) \cup Granted(u, seq)) <= MaxRoomsPerUser
         /\ \/ Granted(u, seq) = {seq[k] : k \in 1 .. Len(seq)}
            \/ ~(Cardinality(RoomsOf(u) \cup Granted(u, seq)) < MaxRoomsPerUser)
<1> DEFINE n    == Len(seq)
           H    == RoomsOf(u)
           P(i) == H \cup {seq[k] : k \in 1 .. i}
           T    == {i \in 0 .. n : i = n \/ ~(Cardinality(P(i)) < MaxRoomsPerUser)}
           M    == MaxRoomsPerUser
<1>1. /\ n \in Nat
      /\ DOMAIN seq = 1 .. n
      /\ \A k \in 1 .. n : seq[k] \in Rooms
      /\ M \in Nat
  BY MaxRoomsAssumption
<1>2. IsFiniteSet({seq[k] : k \in 1 .. n})
  BY SequenceRangeFinite
<1>3. H = RoomsOf(u) /\ IsFiniteSet(H) /\ Cardinality(H) <= M
  OBVIOUS
<1>4. Granted(u, seq) =
        {seq[i] : i \in {j \in 1 .. n : Cardinality(P(j - 1)) < M}}
  BY <1>1 DEF Granted
<1> HIDE DEF n, H, M
<1>5. /\ P(0) = H
      /\ \A i \in 0 .. n : P(i) \subseteq P(n)
      /\ \A i, k \in 0 .. n : i <= k => P(i) \subseteq P(k)
      /\ \A i \in 1 .. n : P(i) = P(i - 1) \cup {seq[i]}
  <2>1. P(0) = H
    BY <1>1
  <2>2. ASSUME NEW i \in 0 .. n, NEW k \in 0 .. n, i <= k
        PROVE  P(i) \subseteq P(k)
    <3>1. 1 .. i \subseteq 1 .. k
      BY <1>1, <2>2
    <3> QED
      BY <3>1
  <2>3. ASSUME NEW i \in 1 .. n
        PROVE  P(i) = P(i - 1) \cup {seq[i]}
    <3>1. 1 .. i = (1 .. i - 1) \cup {i}
      BY <1>1
    <3> QED
      BY <3>1
  <2> QED
    BY <1>1, <2>1, <2>2, <2>3
<1>6. ASSUME NEW i \in 0 .. n
      PROVE  IsFiniteSet(P(i)) /\ Cardinality(P(i)) \in Nat
  <2>1. IsFiniteSet(P(n))
    BY <1>2, <1>3, FS_Union
  <2>2. IsFiniteSet(P(i))
    BY <1>5, <2>1, FS_Subset
  <2> QED
    BY <2>2, FS_CardinalityType
<1>7. PICK t \in T : \A s \in T : t <= s
  <2>1. n \in T /\ T \subseteq Nat
    BY <1>1
  <2> HIDE DEF T
  <2> QED
    BY <2>1, LeastNatural
<1>8. /\ t \in 0 .. n
      /\ t = n \/ ~(Cardinality(P(t)) < M)
      /\ \A s \in 0 .. n : s < t => s # n /\ Cardinality(P(s)) < M
  <2>1. t \in 0 .. n /\ (t = n \/ ~(Cardinality(P(t)) < M))
    BY DEF M
  <2>2. ASSUME NEW s \in 0 .. n, s < t
        PROVE  s # n /\ Cardinality(P(s)) < M
    <3>1. s \notin T
      <4>1. s \in Int /\ t \in Int /\ ~(t <= s)
        BY <1>1, <2>1, <2>2
      <4> HIDE DEF T
      <4> QED
        BY <1>7, <4>1
    <3> QED
      BY <3>1 DEF M
  <2> QED
    BY <2>1, <2>2
<1> HIDE DEF T, P
<1>9. ASSUME NEW j \in 1 .. n
      PROVE  Cardinality(P(j - 1)) < M <=> j <= t
  <2>1. CASE j <= t
    <3>1. j - 1 \in 0 .. n /\ j - 1 < t
      BY <1>1, <1>8, <2>1
    <3> QED
      BY <1>8, <2>1, <3>1
  <2>2. CASE ~(j <= t)
    <3>1. t # n /\ j - 1 \in 0 .. n /\ t <= j - 1
      BY <1>1, <1>8, <2>2
    <3>2. Cardinality(P(t)) <= Cardinality(P(j - 1))
      BY <1>5, <1>6, <1>8, <3>1, FS_Subset
    <3> QED
      BY <1>1, <1>6, <1>8, <2>2, <3>1, <3>2
  <2> QED
    BY <2>1, <2>2
<1>10. Granted(u, seq) = {seq[k] : k \in 1 .. t}
  <2>1. {j \in 1 .. n : Cardinality(P(j - 1)) < M} = 1 .. t
    BY <1>1, <1>8, <1>9
  <2> QED
    BY <1>4, <2>1
<1>11. Cardinality(P(t)) <= M
  <2>1. CASE t = 0
    BY <1>3, <1>5, <2>1
  <2>2. CASE t # 0
    <3>1. t - 1 \in 0 .. n /\ t \in 1 .. n /\ t - 1 < t
      BY <1>1, <1>8, <2>2
    <3>2. Cardinality(P(t - 1)) < M /\ Cardinality(P(t - 1)) \in Nat
      BY <1>6, <1>8, <3>1
    <3>3. P(t) = P(t - 1) \cup {seq[t]}
      BY <1>5, <3>1
    <3>4. \/ Cardinality(P(t)) = Cardinality(P(t - 1))
          \/ Cardinality(P(t)) = Cardinality(P(t - 1)) + 1
      BY <1>6, <3>1, <3>3, FS_AddElement
    <3> QED
      BY <1>1, <3>2, <3>4
  <2> QED
    BY <2>1, <2>2
<1>12. P(t) = RoomsOf(u) \cup Granted(u, seq)
  BY <1>3, <1>10 DEF P
<1>13. Granted(u, seq) \subseteq Rooms
  <2>1. 1 .. t \subseteq 1 .. n
    BY <1>1, <1>8
  <2> QED
    BY <1>1, <1>10, <2>1
<1>14. \/ Granted(u, seq) = {seq[k] : k \in 1 .. Len(seq)}
       \/ ~(Cardinality(RoomsOf(u) \cup Granted(u, seq)) < MaxRoomsPerUser)
  BY <1>8, <1>10, <1>12 DEF n, M
<1> QED
  BY <1>6, <1>8, <1>11, <1>12, <1>13, <1>14 DEF M

-----------------------------------------------------------------------------
(* The inductive invariant.  MembersReachable needs Mirror (a close walks  *)
(* userRooms to clean up rooms) and RegistryExact (closeAll cleans up for  *)
(* the users it finds in the registry), so they are proved together.       *)

ServerInv ==
  /\ WsTypeOK
  /\ RoomInv
  /\ RegistryExact
  /\ IsFiniteSet(connections)
  /\ TopicsMatchData
  /\ MembersReachable

LEMMA MessageFields ==
  ASSUME NEW m \in Messages
  PROVE  /\ m.conn \in Conns
         /\ m.type # "publish" => m.room \in Rooms
BY DEF Messages

LEMMA JwtRangeType ==
  ASSUME NEW c \in Conns
  PROVE  JwtRooms[c] \in Seq(Rooms) /\ JwtRange(c) \subseteq Rooms
<1>1. JwtRooms[c] \in Seq(Rooms)
  BY ServerAssumption
<1>2. JwtRange(c) \subseteq Rooms
  BY <1>1 DEF JwtRange
<1> QED
  BY <1>1, <1>2

LEMMA GrantedInJwtRange ==
  ASSUME NEW u, NEW c
  PROVE  Granted(u, JwtRooms[c]) \subseteq JwtRange(c)
BY DEF Granted, JwtRange

LEMMA InitServerInv ==
  ASSUME Init
  PROVE  ServerInv
<1>1. RoomInv
  BY RoomInitInv DEF Init
<1>2. WsTypeOK
  <2>1. userConnections \in SetMaps(Users, Conns)
    BY EmptyMapType DEF Init, ConnInit
  <2>2. pending \in Seq(Messages \cup {Quit})
    BY DEF Init
  <2>3. /\ connections \subseteq Conns
        /\ socket \in [Conns -> {"new", "tcp", "open", "closed"}]
        /\ topics \in [Conns -> SUBSET Rooms]
        /\ dataRooms \in [Conns -> SUBSET Rooms]
        /\ overlapped \subseteq Users
        /\ inFlightAtCut \in BOOLEAN
    BY DEF Init, ConnInit
  <2>4. phase = "running" /\ RoomTypeOK
    BY <1>1 DEF Init, RoomInv
  <2> QED
    BY <2>1, <2>2, <2>3, <2>4 DEF WsTypeOK
<1>3. OpenConns = {}
  BY DEF Init, OpenConns
<1>4. RegistryExact /\ IsFiniteSet(connections)
  <2>1. connections = {} /\ \A u \in Users : ConnectionsOf(u) = {}
    BY AtEmpty DEF Init, ConnInit, ConnectionsOf
  <2> QED
    BY <1>3, <2>1, FS_EmptySet, MaxConnectionsAssumption DEF RegistryExact
<1>5. TopicsMatchData
  BY DEF Init, TopicsMatchData
<1>6. MembersReachable
  BY AtEmpty DEF Init, RoomInit, MembersReachable, MembersOf
<1> QED
  BY <1>1, <1>2, <1>4, <1>5, <1>6 DEF ServerInv

\* A step that leaves the registries, the open sockets and their topics alone.
LEMMA QuietInv ==
  ASSUME ServerInv, WsTypeOK', UNCHANGED <<roomVars, connVars, topics, dataRooms>>,
         OpenConns' = OpenConns
  PROVE  ServerInv'
<1>1. RoomInv'
  BY RoomStutterInv DEF ServerInv
<1>2. RegistryExact' /\ IsFiniteSet(connections)'
  BY DEF ServerInv, RegistryExact, ConnectionsOf, connVars
<1>3. TopicsMatchData'
  BY DEF ServerInv, TopicsMatchData
<1>4. MembersReachable'
  BY DEF ServerInv, MembersReachable, MembersOf, roomVars
<1> QED
  BY <1>1, <1>2, <1>3, <1>4 DEF ServerInv

LEMMA OpenInv ==
  ASSUME ServerInv, NEW c \in Conns, Open(c)
  PROVE  ServerInv'
<1> DEFINE u == UserOf[c]
           g == Granted(u, JwtRooms[c])
<1>1. /\ u \in Users
      /\ g \subseteq Rooms
      /\ IsFiniteSet(RoomsOf(u) \cup g)
      /\ Cardinality(RoomsOf(u) \cup g) <= MaxRoomsPerUser
      /\ g \subseteq JwtRange(c)
      /\ JwtRange(c) \subseteq Rooms
  BY ServerAssumption, JwtRangeType, GrantedInJwtRange, GrantedWithinLimit
     DEF ServerInv, RoomInv, RoomLimit
<1>2. Admit(u, g)
  BY DEF Open, SubscribeInTurn
<1> HIDE DEF g
<1>3. RoomInv'
  BY <1>1, <1>2, AdmitInv DEF ServerInv
<1>4. OpenConns' = OpenConns \cup {c} /\ c \notin OpenConns
  BY DEF Open, OpenConns, ServerInv, WsTypeOK
<1>5. WsTypeOK'
  <2>1. userConnections' \in SetMaps(Users, Conns)
    BY <1>1, PutType DEF Open, AddConnection, ServerInv, WsTypeOK
  <2>2. RoomTypeOK'
    BY <1>3 DEF RoomInv
  <2> QED
    BY <1>1, <2>1, <2>2 DEF Open, AddConnection, ServerInv, WsTypeOK
<1>6. RegistryExact' /\ IsFiniteSet(connections)'
  <2>1. connections' = OpenConns'
    BY <1>4 DEF Open, AddConnection, ServerInv, RegistryExact
  <2>2. ASSUME NEW x \in Users
        PROVE  ConnectionsOf(x)' = {d \in OpenConns' : UserOf[d] = x}
    <3>1. ConnectionsOf(x)' = IF x \in {u} THEN ConnectionsOf(x) \cup {c}
                                           ELSE ConnectionsOf(x)
      <4>1. ConnectionsOf(x)' = At(Put(userConnections, {u}, {c}), x)
        BY DEF Open, AddConnection, ConnectionsOf
      <4>2. At(Put(userConnections, {u}, {c}), x) =
              IF x \in {u} THEN At(userConnections, x) \cup {c}
                           ELSE At(userConnections, x)
        BY AtPut
      <4> QED
        BY <4>1, <4>2 DEF ConnectionsOf
    <3> QED
      BY <1>4, <3>1 DEF ServerInv, RegistryExact
  <2>3. /\ IsFiniteSet(connections')
        /\ Cardinality(connections') <= MaxConnections
    <3>1. IsFiniteSet(connections) /\ Cardinality(connections) \in Nat
      BY FS_CardinalityType DEF ServerInv
    <3>2. connections' = connections \cup {c}
      BY DEF Open, AddConnection
    <3>3. Cardinality(connections) < MaxConnections
      BY DEF Open, AddConnection, HasCapacity
    <3>4. IsFiniteSet(connections')
      BY <3>1, <3>2, FS_AddElement
    <3>5. \/ Cardinality(connections') = Cardinality(connections)
          \/ Cardinality(connections') = Cardinality(connections) + 1
      BY <3>1, <3>2, FS_AddElement
    <3> QED
      BY <3>1, <3>3, <3>4, <3>5, MaxConnectionsAssumption
  <2> QED
    BY <2>1, <2>2, <2>3 DEF RegistryExact
<1>7. TopicsMatchData'
  BY DEF Open, ServerInv, WsTypeOK, TopicsMatchData
<1>8. MembersReachable'
  <2> SUFFICES ASSUME NEW x \in Users, NEW r \in Rooms, x \in MembersOf(r)'
               PROVE  \E d \in OpenConns' : UserOf[d] = x /\ r \in topics'[d]
    BY DEF MembersReachable
  <2>1. CASE r \in g /\ x = u
    BY <1>1, <1>4, <2>1 DEF Open, ServerInv, WsTypeOK
  <2>2. CASE ~(r \in g /\ x = u)
    <3>1. x \in MembersOf(r)
      BY <1>1, <1>2, <2>2, AdmitEffect DEF ServerInv, RoomInv
    <3>2. PICK d \in OpenConns : UserOf[d] = x /\ r \in topics[d]
      BY <3>1 DEF ServerInv, MembersReachable
    <3>3. d # c /\ topics'[d] = topics[d]
      BY <1>4, <3>2 DEF Open, ServerInv, WsTypeOK, OpenConns
    <3> QED
      BY <1>4, <3>2, <3>3
  <2> QED
    BY <2>1, <2>2
<1> QED
  BY <1>3, <1>5, <1>6, <1>7, <1>8 DEF ServerInv

\* When the sockets of cs close, what is left of topics and user data.
LEMMA SocketsClosedEffect ==
  ASSUME WsTypeOK, TopicsMatchData, NEW cs, SocketsClosed(cs)
  PROVE  /\ socket' \in [Conns -> {"new", "tcp", "open", "closed"}]
         /\ topics' \in [Conns -> SUBSET Rooms]
         /\ dataRooms' \in [Conns -> SUBSET Rooms]
         /\ TopicsMatchData'
         /\ OpenConns' = OpenConns \ cs
         /\ \A c \in OpenConns' : topics'[c] = topics[c]
<1>1. /\ socket' \in [Conns -> {"new", "tcp", "open", "closed"}]
      /\ topics' \in [Conns -> SUBSET Rooms]
      /\ dataRooms' \in [Conns -> SUBSET Rooms]
  BY DEF SocketsClosed, WsTypeOK
<1>2. TopicsMatchData'
  BY DEF SocketsClosed, TopicsMatchData
<1>3. OpenConns' = OpenConns \ cs
  BY DEF SocketsClosed, OpenConns
<1>4. \A c \in OpenConns' : topics'[c] = topics[c]
  BY DEF SocketsClosed, OpenConns
<1> QED
  BY <1>1, <1>2, <1>3, <1>4

LEMMA CloseInv ==
  ASSUME ServerInv, NEW c \in Conns, Close(c)
  PROVE  ServerInv'
<1> DEFINE u == UserOf[c]
<1>1. u \in Users
  BY ServerAssumption
<1>2. SocketsClosed({c}) /\ RemoveFromAllRooms({u})
  BY DEF Close, RemoveUserFromAllRooms
<1>3. RoomInv'
  BY <1>2, RemoveInv DEF ServerInv
<1>4. /\ socket' \in [Conns -> {"new", "tcp", "open", "closed"}]
      /\ topics' \in [Conns -> SUBSET Rooms]
      /\ dataRooms' \in [Conns -> SUBSET Rooms]
      /\ TopicsMatchData'
      /\ OpenConns' = OpenConns \ {c}
      /\ \A d \in OpenConns' : topics'[d] = topics[d]
  BY <1>2, SocketsClosedEffect DEF ServerInv
<1>5. WsTypeOK'
  <2>1. userConnections' \in SetMaps(Users, Conns)
    BY DropType DEF Close, RemoveConnection, ServerInv, WsTypeOK
  <2> QED
    BY <1>3, <1>4, <2>1
       DEF Close, RemoveConnection, historyVars, ServerInv, WsTypeOK, RoomInv
<1>6. RegistryExact' /\ IsFiniteSet(connections)'
  <2>1. connections' = OpenConns'
    BY <1>4 DEF Close, RemoveConnection, ServerInv, RegistryExact
  <2>2. ASSUME NEW x \in Users
        PROVE  ConnectionsOf(x)' = {d \in OpenConns' : UserOf[d] = x}
    <3>1. ConnectionsOf(x)' = At(Drop(userConnections, {u}, {c}), x)
      BY DEF Close, RemoveConnection, ConnectionsOf
    <3>2. At(Drop(userConnections, {u}, {c}), x) =
            IF x \in {u} THEN At(userConnections, x) \ {c}
                         ELSE At(userConnections, x)
      BY AtDrop
    <3> QED
      BY <1>4, <3>1, <3>2 DEF ServerInv, RegistryExact, ConnectionsOf
  <2>3. /\ IsFiniteSet(connections')
        /\ Cardinality(connections') <= Cardinality(connections)
    BY FS_Subset DEF Close, RemoveConnection, ServerInv
  <2>4. Cardinality(connections') <= MaxConnections
    BY <2>3, FS_CardinalityType, MaxConnectionsAssumption
       DEF ServerInv, RegistryExact
  <2> QED
    BY <2>1, <2>2, <2>3, <2>4 DEF RegistryExact
<1>7. MembersReachable'
  <2> SUFFICES ASSUME NEW x \in Users, NEW r \in Rooms, x \in MembersOf(r)'
               PROVE  \E d \in OpenConns' : UserOf[d] = x /\ r \in topics'[d]
    BY DEF MembersReachable
  <2>1. MembersOf(r)' = MembersOf(r) \ {y \in {u} : r \in RoomsOf(y)}
    BY <1>2, RemoveEffect DEF ServerInv, RoomInv
  <2>2. x \in MembersOf(r) /\ x # u
    BY <2>1 DEF ServerInv, RoomInv, Mirror
  <2>3. PICK d \in OpenConns : UserOf[d] = x /\ r \in topics[d]
    BY <2>2 DEF ServerInv, MembersReachable
  <2> QED
    BY <1>4, <2>2, <2>3
<1> QED
  BY <1>3, <1>4, <1>5, <1>6, <1>7 DEF ServerInv

LEMMA CloseAllInv ==
  ASSUME ServerInv, CloseAll
  PROVE  ServerInv'
<1> DEFINE us == {UserOf[c] : c \in connections}
<1>1. RemoveFromAllRooms(us) /\ SocketsClosed(connections)
  BY DEF CloseAll
<1>2. RoomInv'
  BY <1>1, RemoveInv DEF ServerInv
<1>3. /\ socket' \in [Conns -> {"new", "tcp", "open", "closed"}]
      /\ topics' \in [Conns -> SUBSET Rooms]
      /\ dataRooms' \in [Conns -> SUBSET Rooms]
      /\ TopicsMatchData'
      /\ OpenConns' = {}
  BY <1>1, SocketsClosedEffect DEF ServerInv, RegistryExact
<1>4. /\ connections' = {}
      /\ userConnections' \in SetMaps(Users, Conns)
      /\ \A u \in Users : ConnectionsOf(u)' = {}
  BY EmptyMapType, AtEmpty DEF CloseAll, ClearConnections, ConnectionsOf
<1>5. WsTypeOK'
  BY <1>2, <1>3, <1>4 DEF CloseAll, ServerInv, WsTypeOK, RoomInv
<1>6. RegistryExact' /\ IsFiniteSet(connections)'
  <2>1. IsFiniteSet({}) /\ Cardinality({}) <= MaxConnections
    BY FS_EmptySet, MaxConnectionsAssumption
  <2> QED
    BY <1>3, <1>4, <2>1 DEF RegistryExact
<1>7. ASSUME NEW x \in Users, NEW r \in Rooms
      PROVE  x \notin MembersOf(r)'
  <2>1. MembersOf(r)' = MembersOf(r) \ {y \in us : r \in RoomsOf(y)}
    BY <1>1, RemoveEffect DEF ServerInv, RoomInv
  <2>2. CASE x \notin MembersOf(r)
    BY <2>1, <2>2
  <2>3. CASE x \in MembersOf(r)
    <3>1. x \in us
      BY <2>3 DEF ServerInv, MembersReachable, RegistryExact
    <3> QED
      BY <2>1, <2>3, <3>1 DEF ServerInv, RoomInv, Mirror
  <2> QED
    BY <2>2, <2>3
<1>8. MembersReachable'
  BY <1>7 DEF MembersReachable
<1> QED
  BY <1>2, <1>3, <1>5, <1>6, <1>8 DEF ServerInv

LEMMA ProcessEndsInv ==
  ASSUME ServerInv, NEW end \in {"exited", "crashed"}, ProcessEnds(end)
  PROVE  ServerInv'
<1> DEFINE cs == {c \in Conns : socket[c] # "new"}
<1>1. SocketsClosed(cs)
  BY DEF ProcessEnds
<1>2. RoomInv'
  <2>1. RoomInit'
    BY DEF ProcessEnds, RoomInit
  <2> QED
    BY <2>1, RoomInitInv, PTL
<1>3. /\ socket' \in [Conns -> {"new", "tcp", "open", "closed"}]
      /\ topics' \in [Conns -> SUBSET Rooms]
      /\ dataRooms' \in [Conns -> SUBSET Rooms]
      /\ TopicsMatchData'
      /\ OpenConns' = {}
  BY <1>1, SocketsClosedEffect DEF ServerInv, OpenConns
<1>4. /\ connections' = {}
      /\ userConnections' \in SetMaps(Users, Conns)
      /\ \A u \in Users : ConnectionsOf(u)' = {}
  BY EmptyMapType, AtEmpty DEF ProcessEnds, ClearConnections, ConnectionsOf
<1>5. WsTypeOK'
  <2>1. pending' \in Seq(Messages \cup {Quit})
    BY DEF ProcessEnds
  <2> QED
    BY <1>2, <1>3, <1>4, <2>1
       DEF ProcessEnds, historyVars, ServerInv, WsTypeOK, RoomInv
<1>6. RegistryExact' /\ IsFiniteSet(connections)'
  <2>1. IsFiniteSet({}) /\ Cardinality({}) <= MaxConnections
    BY FS_EmptySet, MaxConnectionsAssumption
  <2> QED
    BY <1>3, <1>4, <2>1 DEF RegistryExact
<1>7. MembersReachable'
  BY AtEmpty DEF ProcessEnds, MembersReachable, MembersOf
<1> QED
  BY <1>2, <1>3, <1>5, <1>6, <1>7 DEF ServerInv

-----------------------------------------------------------------------------
(* Messages. *)

\* Taking the answered command off the queue leaves a queue.
LEMMA PendingTail ==
  ASSUME WsTypeOK, NEW m, Answered(m)
  PROVE  Tail(pending) \in Seq(Messages \cup {Quit})
BY DEF Answered, WsTypeOK

\* The handlers that change no membership and no topic.
LEMMA HandledQuietlyInv ==
  ASSUME ServerInv, NEW m \in Messages, Handled(m),
         UNCHANGED <<roomVars, topics, dataRooms>>
  PROVE  ServerInv'
<1>1. Tail(pending) \in Seq(Messages \cup {Quit})
  BY PendingTail DEF ServerInv, Handled
<1>2. WsTypeOK'
  BY <1>1 DEF Handled, connVars, historyVars, roomVars, ServerInv, WsTypeOK, RoomTypeOK
<1> QED
  BY <1>2, QuietInv DEF Handled, OpenConns

LEMMA HandleSubscribeInv ==
  ASSUME ServerInv, NEW m \in Messages, HandleSubscribe(m)
  PROVE  ServerInv'
<1> DEFINE c == m.conn
           q == m.room
           u == UserOf[c]
<1>1. c \in Conns /\ q \in Rooms /\ u \in Users
  BY MessageFields, ServerAssumption DEF HandleSubscribe
<1>2. Handled(m) /\ Subscribe(u, q) /\ Admit(u, {q})
  BY DEF HandleSubscribe, Subscribe
<1>3. RoomInv'
  BY <1>1, <1>2, SubscribeInv DEF ServerInv
<1>4. OpenConns' = OpenConns /\ c \in OpenConns
  BY <1>1, <1>2 DEF Handled, OpenConns
<1>5. /\ topics' = [topics EXCEPT ![c] = @ \cup {q}]
      /\ dataRooms' = [dataRooms EXCEPT ![c] = @ \cup {q}]
  BY DEF HandleSubscribe
<1> HIDE DEF c, q, u
<1>6. /\ topics' \in [Conns -> SUBSET Rooms]
      /\ dataRooms' \in [Conns -> SUBSET Rooms]
      /\ TopicsMatchData'
      /\ q \in topics'[c]
      /\ \A d \in Conns : topics[d] \subseteq topics'[d]
  BY <1>1, <1>5 DEF ServerInv, WsTypeOK, TopicsMatchData
<1>7. WsTypeOK'
  <2>1. Tail(pending) \in Seq(Messages \cup {Quit})
    BY <1>2, PendingTail DEF ServerInv, Handled
  <2> QED
    BY <1>2, <1>3, <1>6, <2>1
       DEF Handled, connVars, historyVars, ServerInv, WsTypeOK, RoomInv
<1>8. RegistryExact' /\ IsFiniteSet(connections)'
  BY <1>2, <1>4 DEF Handled, connVars, ServerInv, RegistryExact, ConnectionsOf
<1>9. MembersReachable'
  <2> SUFFICES ASSUME NEW x \in Users, NEW r \in Rooms, x \in MembersOf(r)'
               PROVE  \E d \in OpenConns' : UserOf[d] = x /\ r \in topics'[d]
    BY DEF MembersReachable
  <2>1. MembersOf(r)' = IF r \in {q} THEN MembersOf(r) \cup {u} ELSE MembersOf(r)
    BY <1>1, <1>2, AdmitEffect DEF ServerInv, RoomInv
  <2>2. CASE r = q /\ x = u
    BY <1>4, <1>6, <2>2 DEF u
  <2>3. CASE ~(r = q /\ x = u)
    <3>1. x \in MembersOf(r)
      BY <2>1, <2>3
    <3>2. PICK d \in OpenConns : UserOf[d] = x /\ r \in topics[d]
      BY <3>1 DEF ServerInv, MembersReachable
    <3>3. d \in Conns
      BY DEF OpenConns
    <3> QED
      BY <1>4, <1>6, <3>2, <3>3
  <2> QED
    BY <2>2, <2>3
<1> QED
  BY <1>3, <1>6, <1>7, <1>8, <1>9 DEF ServerInv

\* The socket loses the topic and the user the membership: a member of the
\* room is reachable through a socket of somebody else.
LEMMA HandleUnsubscribeInv ==
  ASSUME ServerInv, NEW m \in Messages, HandleUnsubscribe(m)
  PROVE  ServerInv'
<1> DEFINE c == m.conn
           q == m.room
           u == UserOf[c]
<1>1. c \in Conns /\ q \in Rooms /\ u \in Users
  BY MessageFields, ServerAssumption DEF HandleUnsubscribe
<1>2. /\ Handled(m)
      /\ Unsubscribe(u, q) \/ (q \notin DOMAIN rooms /\ UNCHANGED roomVars)
      /\ topics' = [topics EXCEPT ![c] = @ \ {q}]
      /\ dataRooms' = [dataRooms EXCEPT ![c] = @ \ {q}]
  BY DEF HandleUnsubscribe
<1>3. OpenConns' = OpenConns
  BY <1>2 DEF Handled, OpenConns
<1> HIDE DEF c, q, u
<1>4. RoomInv'
  BY <1>1, <1>2, UnsubscribeInv, RoomStutterInv DEF ServerInv
<1>5. \A r : MembersOf(r)' = IF r = q THEN MembersOf(r) \ {u} ELSE MembersOf(r)
  <2>1. CASE Unsubscribe(u, q)
    BY <1>1, <2>1, UnsubscribeEffect DEF ServerInv, RoomInv
  <2>2. CASE q \notin DOMAIN rooms /\ UNCHANGED roomVars
    <3>1. MembersOf(q) = {}
      BY <2>2 DEF MembersOf, At
    <3>2. \A r : MembersOf(r)' = MembersOf(r)
      BY <2>2 DEF MembersOf, roomVars
    <3> QED
      BY <3>1, <3>2
  <2> QED
    BY <1>2, <2>1, <2>2
<1>6. /\ topics' \in [Conns -> SUBSET Rooms]
      /\ dataRooms' \in [Conns -> SUBSET Rooms]
      /\ TopicsMatchData'
      /\ \A d \in Conns, r \in Rooms :
           r \in topics[d] /\ ~(d = c /\ r = q) => r \in topics'[d]
  BY <1>1, <1>2 DEF ServerInv, WsTypeOK, TopicsMatchData
<1>7. WsTypeOK'
  <2>1. Tail(pending) \in Seq(Messages \cup {Quit})
    BY <1>2, PendingTail DEF ServerInv, Handled
  <2> QED
    BY <1>2, <1>4, <1>6, <2>1
       DEF Handled, connVars, historyVars, ServerInv, WsTypeOK, RoomInv
<1>8. RegistryExact' /\ IsFiniteSet(connections)'
  BY <1>2, <1>3 DEF Handled, connVars, ServerInv, RegistryExact, ConnectionsOf
<1>9. MembersReachable'
  <2> SUFFICES ASSUME NEW x \in Users, NEW r \in Rooms, x \in MembersOf(r)'
               PROVE  \E d \in OpenConns' : UserOf[d] = x /\ r \in topics'[d]
    BY DEF MembersReachable
  <2>1. x \in MembersOf(r) /\ ~(r = q /\ x = u)
    BY <1>5
  <2>2. PICK d \in OpenConns : UserOf[d] = x /\ r \in topics[d]
    BY <2>1 DEF ServerInv, MembersReachable
  <2>3. d \in Conns /\ ~(d = c /\ r = q)
    BY <2>1, <2>2 DEF OpenConns, u
  <2> QED
    BY <1>3, <1>6, <2>2, <2>3
<1> QED
  BY <1>4, <1>6, <1>7, <1>8, <1>9 DEF ServerInv

LEMMA AnswerInv ==
  ASSUME ServerInv, NEW m \in Messages, Answer(m)
  PROVE  ServerInv'
<1>1. CASE RateLimited(m) \/ RefuseSubscribe(m) \/ HandlePublish(m)
  BY <1>1, HandledQuietlyInv DEF RateLimited, RefuseSubscribe, HandlePublish
<1>2. CASE HandleSubscribe(m)
  BY <1>2, HandleSubscribeInv
<1>3. CASE HandleUnsubscribe(m)
  BY <1>3, HandleUnsubscribeInv
<1>4. CASE CrashOnClosedSocket(m)
  BY <1>4, ProcessEndsInv DEF CrashOnClosedSocket
<1> QED
  BY <1>1, <1>2, <1>3, <1>4 DEF Answer

-----------------------------------------------------------------------------
(* The steps that touch neither registry. *)

LEMMA HandshakeInv ==
  ASSUME ServerInv, NEW c \in Conns, Accept(c) \/ Reject(c)
  PROVE  ServerInv'
<1>1. /\ UNCHANGED <<roomVars, connVars, topics, dataRooms, pending, phase, historyVars>>
      /\ socket' \in [Conns -> {"new", "tcp", "open", "closed"}]
      /\ OpenConns' = OpenConns
  BY DEF Accept, Reject, OpenConns, ServerInv, WsTypeOK
<1>2. WsTypeOK'
  BY <1>1 DEF roomVars, connVars, historyVars, ServerInv, WsTypeOK, RoomTypeOK
<1> QED
  BY <1>1, <1>2, QuietInv

LEMMA QueueInv ==
  ASSUME ServerInv, UNCHANGED <<roomVars, connVars, serverVars, historyVars>>,
         pending' \in Seq(Messages \cup {Quit}),
         phase' \in {"running", "draining", "closing", "quitting", "exited", "crashed"}
  PROVE  ServerInv'
<1>1. WsTypeOK'
  BY DEF roomVars, connVars, serverVars, historyVars, ServerInv, WsTypeOK, RoomTypeOK
<1>2. OpenConns' = OpenConns
  BY DEF serverVars, OpenConns
<1> QED
  BY <1>1, <1>2, QuietInv DEF serverVars

LEMMA QueueStepInv ==
  ASSUME ServerInv,
         \/ \E m \in Messages : ReceiveMessage(m)
         \/ QuitAnswered
         \/ Shutdown
         \/ QuitRedis
         \/ Gone
  PROVE  ServerInv'
<1>1. pending \in Seq(Messages \cup {Quit}) /\ WsTypeOK
  BY DEF ServerInv, WsTypeOK
<1>2. ASSUME NEW m \in Messages, ReceiveMessage(m)
      PROVE  ServerInv'
  <2>1. pending' \in Seq(Messages \cup {Quit})
    BY <1>1, <1>2 DEF ReceiveMessage
  <2> QED
    BY <1>1, <1>2, <2>1, QueueInv DEF ReceiveMessage, WsTypeOK
<1>3. CASE QuitAnswered
  <2>1. Tail(pending) \in Seq(Messages \cup {Quit})
    BY <1>1, <1>3, PendingTail DEF QuitAnswered
  <2> QED
    BY <1>1, <1>3, <2>1, QueueInv DEF QuitAnswered, WsTypeOK
<1>4. CASE Shutdown
  BY <1>1, <1>4, QueueInv DEF Shutdown
<1>5. CASE QuitRedis
  <2>1. pending' \in Seq(Messages \cup {Quit})
    BY <1>1, <1>5 DEF QuitRedis
  <2> QED
    BY <1>5, <2>1, QueueInv DEF QuitRedis
<1>6. CASE Gone
  BY <1>1, <1>6, QueueInv DEF Gone, vars, WsTypeOK
<1> QED
  BY <1>2, <1>3, <1>4, <1>5, <1>6

LEMMA ServerInvariant == Spec => []ServerInv
<1>1. Init => ServerInv
  BY InitServerInv
<1>2. ServerInv /\ [Next]_vars => ServerInv'
  <2> SUFFICES ASSUME ServerInv, [Next]_vars
               PROVE  ServerInv'
    OBVIOUS
  <2>1. ASSUME NEW c \in Conns, Accept(c) \/ Reject(c) \/ Open(c) \/ Close(c)
        PROVE  ServerInv'
    BY <2>1, HandshakeInv, OpenInv, CloseInv
  <2>2. CASE \E m \in Messages : ReceiveMessage(m)
    BY <2>2, QueueStepInv
  <2>3. CASE RedisAnswers
    BY <2>3, QueueStepInv, AnswerInv DEF RedisAnswers
  <2>4. CASE Shutdown \/ QuitRedis \/ Gone
    BY <2>4, QueueStepInv
  <2>5. CASE CloseAll
    BY <2>5, CloseAllInv
  <2>6. CASE Exit
    BY <2>6, ProcessEndsInv DEF Exit
  <2>7. CASE UNCHANGED vars
    <3>1. pending \in Seq(Messages \cup {Quit}) /\ WsTypeOK
      BY DEF ServerInv, WsTypeOK
    <3> QED
      BY <2>7, <3>1, QueueInv DEF vars, WsTypeOK
  <2> QED
    BY <2>1, <2>2, <2>3, <2>4, <2>5, <2>6, <2>7 DEF Next
<1> QED
  BY <1>1, <1>2, PTL DEF Spec

\* Every variable of the server keeps its type.
THEOREM ServerTypeCorrect == Spec => []WsTypeOK
BY ServerInvariant, PTL DEF ServerInv

\* The registries hold exactly the open sockets, within the capacity.
THEOREM ServerRegistryExact == Spec => []RegistryExact
BY ServerInvariant, PTL DEF ServerInv

\* Whoever counts as a member of a room is reachable by a publish to it.
THEOREM ServerMembersReachable == Spec => []MembersReachable
BY ServerInvariant, PTL DEF ServerInv

\* No token and no sequence of requests takes a user past the room limit.
THEOREM ServerRoomLimit == Spec => []RoomLimit
BY ServerInvariant, PTL DEF ServerInv, RoomInv

\* The rooms in a socket's user data are its room topics.
THEOREM ServerTopicsMatchData == Spec => []TopicsMatchData
BY ServerInvariant, PTL DEF ServerInv

-----------------------------------------------------------------------------
(* Users that never had two sockets open at once: each has one at most, so *)
(* no other socket's close or message changes the memberships behind its   *)
(* topics.                                                                 *)

SoleOpen ==
  \A c, d \in OpenConns :
    UserOf[c] = UserOf[d] /\ UserOf[c] \notin overlapped => c = d

SoleInv == SoleOpen /\ SoleConnectionExact

\* A user without an open socket is in no room.
LEMMA NoSocketNoRooms ==
  ASSUME ServerInv, NEW u \in Users, \A d \in OpenConns : UserOf[d] # u
  PROVE  RoomsOf(u) = {}
<1>1. RoomsOf(u) \subseteq Rooms
  BY AtType DEF ServerInv, RoomInv, RoomTypeOK, RoomsOf
<1>2. \A r \in Rooms : u \notin MembersOf(r)
  BY DEF ServerInv, MembersReachable
<1> QED
  BY <1>1, <1>2 DEF ServerInv, RoomInv, Mirror

\* All rooms of a token within the limit are granted to a user without rooms:
\* subscribe refuses a room only when as many are there as the token names.
LEMMA GrantedWholeToken ==
  ASSUME NEW u, RoomsOf(u) = {}, NEW c \in Conns,
         Cardinality(JwtRange(c)) <= MaxRoomsPerUser
  PROVE  Granted(u, JwtRooms[c]) = JwtRange(c)
<1>1. PICK seq : seq = JwtRooms[c]
  OBVIOUS
<1>2. /\ seq \in Seq(Rooms)
      /\ JwtRange(c) = {seq[k] : k \in 1 .. Len(seq)}
      /\ IsFiniteSet(JwtRange(c))
      /\ Granted(u, seq) \subseteq JwtRange(c)
  <2>1. seq \in Seq(Rooms) /\ DOMAIN seq = 1 .. Len(seq)
    BY <1>1, JwtRangeType
  <2>2. JwtRange(c) = {seq[k] : k \in 1 .. Len(seq)}
    BY <1>1, <2>1 DEF JwtRange
  <2>3. IsFiniteSet({seq[k] : k \in 1 .. Len(seq)})
    BY <2>1, SequenceRangeFinite
  <2>4. Granted(u, seq) \subseteq JwtRange(c)
    BY <1>1, GrantedInJwtRange
  <2> QED
    BY <2>1, <2>2, <2>3, <2>4
<1>3. \/ Granted(u, seq) = {seq[k] : k \in 1 .. Len(seq)}
      \/ ~(Cardinality(RoomsOf(u) \cup Granted(u, seq)) < MaxRoomsPerUser)
  <2>1. IsFiniteSet(RoomsOf(u)) /\ Cardinality(RoomsOf(u)) <= MaxRoomsPerUser
    BY FS_EmptySet, MaxRoomsAssumption
  <2> QED
    BY <1>2, <2>1, GrantedWithinLimit
<1>4. CASE ~(Cardinality(Granted(u, seq)) < MaxRoomsPerUser)
  <2>1. /\ IsFiniteSet(Granted(u, seq))
        /\ Cardinality(Granted(u, seq)) <= Cardinality(JwtRange(c))
        /\ Cardinality(Granted(u, seq)) = Cardinality(JwtRange(c))
             => Granted(u, seq) = JwtRange(c)
    BY <1>2, FS_Subset
  <2>2. /\ Cardinality(Granted(u, seq)) \in Nat
        /\ Cardinality(JwtRange(c)) \in Nat
        /\ MaxRoomsPerUser \in Nat
    BY <1>2, <2>1, FS_CardinalityType, MaxRoomsAssumption
  <2>3. Cardinality(Granted(u, seq)) = Cardinality(JwtRange(c))
    BY <1>4, <2>1, <2>2
  <2> QED
    BY <1>1, <2>1, <2>3
<1>5. RoomsOf(u) \cup Granted(u, seq) = Granted(u, seq)
  OBVIOUS
<1> QED
  BY <1>1, <1>2, <1>3, <1>4, <1>5

LEMMA OpenSole ==
  ASSUME ServerInv, SoleInv, NEW c \in Conns, Open(c)
  PROVE  SoleInv'
<1>0. PICK u : u = UserOf[c]
  OBVIOUS
<1>1. u \in Users /\ OpenConns' = OpenConns \cup {c} /\ c \notin OpenConns
  BY <1>0, ServerAssumption DEF Open, OpenConns, ServerInv, WsTypeOK
<1>2. /\ overlapped' = overlapped \/ overlapped' = overlapped \cup {u}
      /\ u \notin overlapped' => u \notin overlapped /\ \A d \in OpenConns : UserOf[d] # u
  BY <1>0 DEF Open
<1>3. /\ topics'[c] = JwtRange(c)
      /\ \A d \in OpenConns : topics'[d] = topics[d] /\ d # c
  BY <1>1 DEF Open, ServerInv, WsTypeOK, OpenConns
<1>4. \A x : RoomsOf(x)' = IF x = u THEN RoomsOf(x) \cup Granted(u, JwtRooms[c]) ELSE RoomsOf(x)
  <2>1. Granted(u, JwtRooms[c]) \subseteq Rooms
    BY JwtRangeType, GrantedInJwtRange
  <2>2. Admit(u, Granted(u, JwtRooms[c]))
    BY <1>0 DEF Open, SubscribeInTurn
  <2> QED
    BY <1>1, <2>1, <2>2, AdmitEffect DEF ServerInv, RoomInv
<1>5. SoleOpen'
  BY <1>0, <1>1, <1>2 DEF SoleInv, SoleOpen
<1>6. ASSUME NEW d \in OpenConns', UserOf[d] \notin overlapped',
             Cardinality(JwtRange(d)) <= MaxRoomsPerUser
      PROVE  RoomsOf(UserOf[d])' = topics'[d]
  <2>1. CASE d = c
    <3>1. RoomsOf(u) = {}
      BY <1>0, <1>1, <1>2, <1>6, <2>1, NoSocketNoRooms
    <3>2. Granted(u, JwtRooms[c]) = JwtRange(c)
      BY <1>6, <2>1, <3>1, GrantedWholeToken
    <3> QED
      BY <1>0, <1>3, <1>4, <2>1, <3>1, <3>2
  <2>2. CASE d # c
    <3>1. d \in OpenConns /\ UserOf[d] \notin overlapped
      BY <1>1, <1>2, <1>6, <2>2
    <3>2. UserOf[d] # u
      BY <1>2, <1>6, <3>1
    <3>3. RoomsOf(UserOf[d]) = topics[d]
      BY <1>6, <3>1 DEF SoleInv, SoleConnectionExact
    <3> QED
      BY <1>3, <1>4, <3>1, <3>2, <3>3
  <2> QED
    BY <2>1, <2>2
<1>7. SoleConnectionExact'
  BY <1>6 DEF SoleConnectionExact, JwtRange
<1> QED
  BY <1>5, <1>7 DEF SoleInv

\* A step that opens no socket and keeps memberships and topics together.
LEMMA SoleKept ==
  ASSUME SoleInv, OpenConns' \subseteq OpenConns, overlapped' = overlapped,
         \A c \in OpenConns' :
           UserOf[c] \notin overlapped /\ RoomsOf(UserOf[c]) = topics[c]
             => RoomsOf(UserOf[c])' = topics'[c]
  PROVE  SoleInv'
BY DEF SoleInv, SoleOpen, SoleConnectionExact, JwtRange

LEMMA CloseSole ==
  ASSUME ServerInv, SoleInv, NEW c \in Conns, Close(c)
  PROVE  SoleInv'
<1>0. PICK u : u = UserOf[c]
  OBVIOUS
<1>1. /\ OpenConns' = OpenConns \ {c} /\ c \in OpenConns
      /\ \A d \in OpenConns' : topics'[d] = topics[d]
      /\ overlapped' = overlapped
  BY SocketsClosedEffect DEF Close, historyVars, OpenConns, ServerInv
<1>2. RemoveFromAllRooms({u})
  BY <1>0 DEF Close, RemoveUserFromAllRooms
<1>3. \A x : x # u => RoomsOf(x)' = RoomsOf(x)
  BY <1>2, RemoveEffect DEF ServerInv, RoomInv
<1>4. ASSUME NEW d \in OpenConns', UserOf[d] \notin overlapped, RoomsOf(UserOf[d]) = topics[d]
      PROVE  RoomsOf(UserOf[d])' = topics'[d]
  <2>1. UserOf[d] # u
    BY <1>0, <1>1, <1>4 DEF SoleInv, SoleOpen
  <2> QED
    BY <1>1, <1>3, <1>4, <2>1
<1> QED
  BY <1>1, <1>4, SoleKept

\* A message changes the topics of its socket and the memberships of its user.
LEMMA MessageSole ==
  ASSUME ServerInv, SoleInv, NEW m \in Messages, HandleSubscribe(m) \/ HandleUnsubscribe(m)
  PROVE  SoleInv'
<1>0. PICK c, q, u : c = m.conn /\ q = m.room /\ u = UserOf[c]
  OBVIOUS
<1>1. /\ c \in Conns /\ q \in Rooms /\ u \in Users
      /\ OpenConns' = OpenConns /\ c \in OpenConns /\ overlapped' = overlapped
  <2>1. m.type # "publish" /\ Handled(m)
    BY DEF HandleSubscribe, HandleUnsubscribe
  <2>2. c \in Conns /\ q \in Rooms
    BY <1>0, <2>1, MessageFields
  <2>3. u \in Users
    BY <1>0, <2>2, ServerAssumption
  <2> QED
    BY <1>0, <2>1, <2>2, <2>3 DEF Handled, OpenConns, historyVars
<1>2. /\ \A d \in OpenConns : d # c => topics'[d] = topics[d]
      /\ \A x : x # u => RoomsOf(x)' = RoomsOf(x)
      /\ RoomsOf(u) = topics[c] => RoomsOf(u)' = topics'[c]
  <2>0. RoomTypeOK /\ topics \in [Conns -> SUBSET Rooms] /\ OpenConns \subseteq Conns
    BY DEF ServerInv, RoomInv, WsTypeOK, OpenConns
  <2>1. CASE HandleSubscribe(m)
    <3>1. Admit(u, {q}) /\ topics' = [topics EXCEPT ![c] = @ \cup {q}]
      BY <1>0, <2>1 DEF HandleSubscribe, Subscribe
    <3>2. \A x : RoomsOf(x)' = IF x = u THEN RoomsOf(x) \cup {q} ELSE RoomsOf(x)
      BY <1>1, <2>0, <3>1, AdmitEffect
    <3> QED
      BY <1>1, <2>0, <3>1, <3>2
  <2>2. CASE HandleUnsubscribe(m)
    <3>1. /\ topics' = [topics EXCEPT ![c] = @ \ {q}]
          /\ Unsubscribe(u, q) \/ (q \notin DOMAIN rooms /\ UNCHANGED roomVars)
      BY <1>0, <2>2 DEF HandleUnsubscribe
    <3>2. \A x : RoomsOf(x)' = IF x = u THEN RoomsOf(x) \ {q} ELSE RoomsOf(x)
      <4>1. CASE Unsubscribe(u, q)
        BY <1>1, <2>0, <4>1, UnsubscribeEffect
      <4>2. CASE q \notin DOMAIN rooms /\ UNCHANGED roomVars
        <5>1. u \notin MembersOf(q)
          BY <4>2 DEF MembersOf, At
        <5>2. q \notin RoomsOf(u)
          BY <1>1, <5>1 DEF ServerInv, RoomInv, Mirror
        <5>3. \A x : RoomsOf(x)' = RoomsOf(x)
          BY <4>2 DEF RoomsOf, roomVars
        <5> QED
          BY <5>2, <5>3
      <4> QED
        BY <3>1, <4>1, <4>2
    <3> QED
      BY <1>1, <2>0, <3>1, <3>2
  <2> QED
    BY <2>1, <2>2
<1>3. ASSUME NEW d \in OpenConns', UserOf[d] \notin overlapped, RoomsOf(UserOf[d]) = topics[d]
      PROVE  RoomsOf(UserOf[d])' = topics'[d]
  <2>1. CASE d = c
    BY <1>0, <1>2, <1>3, <2>1
  <2>2. CASE d # c
    <3>1. UserOf[d] # u
      BY <1>0, <1>1, <1>3, <2>2 DEF SoleInv, SoleOpen
    <3> QED
      BY <1>1, <1>2, <1>3, <2>2, <3>1
  <2> QED
    BY <2>1, <2>2
<1> QED
  BY <1>1, <1>3, SoleKept

\* For a user with never more than one socket at a time and a token within the
\* room limit, RoomManager and the topics agree in both directions.
THEOREM ServerSoleConnectionExact == Spec => []SoleConnectionExact
<1>1. Init => SoleInv
  BY DEF Init, SoleInv, SoleOpen, SoleConnectionExact, OpenConns
<1>2. ServerInv /\ SoleInv /\ [Next]_vars => SoleInv'
  <2> SUFFICES ASSUME ServerInv, SoleInv, [Next]_vars
               PROVE  SoleInv'
    OBVIOUS
  <2>1. ASSUME UNCHANGED <<roomVars, topics, overlapped>>, OpenConns' = OpenConns
        PROVE  SoleInv'
    <3>1. \A x : RoomsOf(x)' = RoomsOf(x)
      BY <2>1 DEF RoomsOf, roomVars
    <3> QED
      BY <2>1, <3>1, SoleKept
  <2>2. ASSUME OpenConns' = {}, overlapped' = overlapped
        PROVE  SoleInv'
    BY <2>2, SoleKept
  <2>3. ASSUME NEW end \in {"exited", "crashed"}, ProcessEnds(end)
        PROVE  SoleInv'
    <3>1. OpenConns' = {} /\ overlapped' = overlapped
      BY <2>3 DEF ProcessEnds, SocketsClosed, OpenConns, historyVars
    <3> QED
      BY <2>2, <3>1
  <2>4. ASSUME NEW c \in Conns, Accept(c) \/ Reject(c) \/ Open(c) \/ Close(c)
        PROVE  SoleInv'
    <3>1. CASE Accept(c) \/ Reject(c)
      <4>1. OpenConns' = OpenConns /\ UNCHANGED <<roomVars, topics, overlapped>>
        BY <3>1 DEF Accept, Reject, OpenConns, historyVars, ServerInv, WsTypeOK
      <4> QED
        BY <2>1, <4>1
    <3> QED
      BY <2>4, <3>1, OpenSole, CloseSole
  <2>5. ASSUME NEW m \in Messages, Answer(m)
        PROVE  SoleInv'
    <3>1. CASE RateLimited(m) \/ RefuseSubscribe(m) \/ HandlePublish(m)
      <4>1. OpenConns' = OpenConns /\ UNCHANGED <<roomVars, topics, overlapped>>
        BY <3>1 DEF RateLimited, RefuseSubscribe, HandlePublish, Handled, OpenConns, historyVars
      <4> QED
        BY <2>1, <4>1
    <3>2. CASE HandleSubscribe(m) \/ HandleUnsubscribe(m)
      BY <3>2, MessageSole
    <3>3. CASE CrashOnClosedSocket(m)
      BY <2>3, <3>3 DEF CrashOnClosedSocket
    <3> QED
      BY <2>5, <3>1, <3>2, <3>3 DEF Answer
  <2>6. CASE \/ \E m \in Messages : ReceiveMessage(m)
             \/ QuitAnswered \/ Shutdown \/ QuitRedis \/ Gone \/ UNCHANGED vars
    <3>1. OpenConns' = OpenConns /\ UNCHANGED <<roomVars, topics, overlapped>>
      BY <2>6 DEF ReceiveMessage, QuitAnswered, Shutdown, QuitRedis, Gone, OpenConns,
                  vars, serverVars, historyVars
    <3> QED
      BY <2>1, <3>1
  <2>7. CASE CloseAll
    <3>1. OpenConns' = {} /\ overlapped' = overlapped
      BY <2>7 DEF CloseAll, SocketsClosed, OpenConns, ServerInv, RegistryExact
    <3> QED
      BY <2>2, <3>1
  <2>8. CASE Exit
    BY <2>3, <2>8 DEF Exit
  <2> QED
    BY <2>4, <2>5, <2>6, <2>7, <2>8 DEF Next, RedisAnswers
<1> QED
  BY <1>1, <1>2, ServerInvariant, PTL DEF Spec, SoleInv

-----------------------------------------------------------------------------
(* The server's handlers use RoomManager as RoomMembership allows. *)

\* open joins the rooms of the token that are within the limit.
LEMMA OpenJoins ==
  ASSUME ServerInv, NEW c \in Conns, Open(c)
  PROVE  Membership!Next
<1> DEFINE u == UserOf[c]
           g == Granted(u, JwtRooms[c])
<1>1. /\ u \in Users
      /\ g \subseteq Rooms
      /\ Cardinality(RoomsOf(u) \cup g) <= MaxRoomsPerUser
  BY ServerAssumption, JwtRangeType, GrantedWithinLimit
     DEF ServerInv, RoomInv, RoomLimit
<1>2. Admit(u, g)
  BY DEF Open, SubscribeInTurn
<1> QED
  BY <1>1, <1>2, JoinRefines DEF ServerInv

LEMMA HandleSubscribeJoins ==
  ASSUME ServerInv, NEW m \in Messages, HandleSubscribe(m)
  PROVE  Membership!Next
<1> DEFINE u == UserOf[m.conn]
           q == m.room
<1>1. u \in Users /\ q \in Rooms
  BY MessageFields, ServerAssumption DEF HandleSubscribe
<1>2. Subscribe(u, q) /\ Admit(u, {q})
  BY DEF HandleSubscribe, Subscribe
<1> HIDE DEF u, q
<1>3. RoomInv' /\ RoomsOf(u)' = RoomsOf(u) \cup {q}
  BY <1>1, <1>2, SubscribeInv, AdmitEffect DEF ServerInv, RoomInv
<1>4. Cardinality(RoomsOf(u) \cup {q}) <= MaxRoomsPerUser
  BY <1>1, <1>3 DEF RoomInv, RoomLimit
<1> QED
  BY <1>1, <1>2, <1>4, JoinRefines DEF ServerInv

LEMMA HandleUnsubscribeLeaves ==
  ASSUME ServerInv, NEW m \in Messages, HandleUnsubscribe(m)
  PROVE  Membership!Next \/ Pairs' = Pairs
<1>1. UserOf[m.conn] \in Users /\ m.room \in Rooms
  BY MessageFields, ServerAssumption DEF HandleUnsubscribe
<1>2. CASE Unsubscribe(UserOf[m.conn], m.room)
  BY <1>1, <1>2, LeaveRefines DEF ServerInv
<1>3. CASE UNCHANGED roomVars
  BY <1>3, RoomStutterRefines
<1> QED
  BY <1>2, <1>3 DEF HandleUnsubscribe

\* The end of the process takes every user out of every room.
LEMMA ProcessEndsLeaves ==
  ASSUME NEW end, ProcessEnds(end)
  PROVE  Membership!Next
<1>1. Pairs' = {}
  BY AtEmpty DEF ProcessEnds, Pairs, MembersOf
<1>2. Pairs \ (Users \X Rooms) = {}
  BY DEF Pairs
<1>3. Membership!LeaveAll(Users)
  BY <1>1, <1>2 DEF Membership!LeaveAll
<1> QED
  BY <1>3 DEF Membership!Next

LEMMA CloseLeaves ==
  ASSUME ServerInv, (\E c \in Conns : Close(c)) \/ CloseAll
  PROVE  Membership!Next
<1>1. CASE \E c \in Conns : Close(c)
  <2>1. PICK c \in Conns : Close(c)
    BY <1>1
  <2>2. {UserOf[c]} \in SUBSET Users /\ RemoveFromAllRooms({UserOf[c]})
    BY <2>1, ServerAssumption DEF Close, RemoveUserFromAllRooms
  <2> QED
    BY <2>2, LeaveAllRefines DEF ServerInv
<1>2. CASE CloseAll
  <2> DEFINE us == {UserOf[c] : c \in connections}
  <2>1. us \in SUBSET Users /\ RemoveFromAllRooms(us)
    BY <1>2, ServerAssumption DEF CloseAll, ServerInv, WsTypeOK
  <2> QED
    BY <2>1, LeaveAllRefines DEF ServerInv
<1> QED
  BY <1>1, <1>2

\* The server implements the membership relation: what its handlers do to the
\* two maps of RoomManager, batches included, is a join, a leave or nothing.
THEOREM ServerRefinement == Spec => MembershipSpec
<1>1. Init => Membership!Init
  BY RoomInitRefines DEF Init
<1>2. ServerInv /\ [Next]_vars => [Membership!Next]_Pairs
  <2> SUFFICES ASSUME ServerInv, [Next]_vars
               PROVE  Membership!Next \/ Pairs' = Pairs
    OBVIOUS
  <2>1. ASSUME UNCHANGED roomVars
        PROVE  Pairs' = Pairs
    BY <2>1, RoomStutterRefines
  <2>2. ASSUME NEW c \in Conns, Accept(c) \/ Reject(c) \/ Open(c) \/ Close(c)
        PROVE  Membership!Next \/ Pairs' = Pairs
    BY <2>1, <2>2, OpenJoins, CloseLeaves DEF Accept, Reject
  <2>3. ASSUME NEW m \in Messages, Answer(m)
        PROVE  Membership!Next \/ Pairs' = Pairs
    BY <2>1, <2>3, HandleSubscribeJoins, HandleUnsubscribeLeaves, ProcessEndsLeaves
       DEF Answer, RateLimited, RefuseSubscribe, HandlePublish, CrashOnClosedSocket
  <2>4. CASE (\E m \in Messages : ReceiveMessage(m)) \/ QuitAnswered \/ Shutdown
             \/ QuitRedis \/ Gone \/ UNCHANGED vars
    BY <2>1, <2>4 DEF ReceiveMessage, QuitAnswered, Shutdown, QuitRedis, Gone, vars
  <2>5. CASE CloseAll \/ Exit
    BY <2>5, CloseLeaves, ProcessEndsLeaves DEF Exit
  <2> QED
    BY <2>2, <2>3, <2>4, <2>5 DEF Next, RedisAnswers
<1>3. Spec => []ServerInv
  BY ServerInvariant
<1> QED
  BY <1>1, <1>2, <1>3, PTL DEF Spec, MembershipSpec, Membership!Spec

-----------------------------------------------------------------------------
(* A clean exit.  Once closeAll has run with a check in flight, the oldest *)
(* command is a check of a closed socket and stays it: only the crash can  *)
(* take it off the queue, and the QUIT waits behind it.                    *)

\* Only sockets that were open have checks in the queue.
SendersKnown ==
  \A i \in DOMAIN pending :
    pending[i] # Quit => socket[pending[i].conn] \in {"open", "closed"}

\* The QUIT is sent once everything is closed, not earlier.
QuitIsLast ==
  phase \in {"running", "draining", "closing"} =>
    \A i \in DOMAIN pending : pending[i] # Quit

CutIsStuck ==
  phase \in {"closing", "quitting"} /\ inFlightAtCut =>
    /\ pending # <<>>
    /\ Head(pending) # Quit
    /\ socket[Head(pending).conn] = "closed"

QuitWaits ==
  phase = "quitting" /\ inFlightAtCut => \E i \in DOMAIN pending : pending[i] = Quit

DrainInv == SendersKnown /\ QuitIsLast /\ CutIsStuck /\ QuitWaits

LEMMA QuitIsNoMessage == Quit \notin Messages
BY DEF Quit, Messages

\* What the queue's tail and an append keep.
LEMMA QueueElements ==
  ASSUME NEW S, NEW q \in Seq(S), NEW e \in S
  PROVE  /\ q # <<>> => Head(q) = q[1] /\ 1 \in DOMAIN q
         /\ q # <<>> => Tail(q) \in Seq(S)
         /\ q # <<>> => \A i \in DOMAIN Tail(q) : i + 1 \in DOMAIN q /\ Tail(q)[i] = q[i + 1]
         /\ Append(q, e) \in Seq(S) /\ Append(q, e) # <<>>
         /\ q # <<>> => Head(Append(q, e)) = Head(q)
         /\ Head(Append(<<>>, e)) = e
         /\ \A i \in DOMAIN Append(q, e) :
              Append(q, e)[i] = e \/ (i \in DOMAIN q /\ Append(q, e)[i] = q[i])
         /\ \A i \in DOMAIN q : i \in DOMAIN Append(q, e) /\ Append(q, e)[i] = q[i]
         /\ \E i \in DOMAIN Append(q, e) : Append(q, e)[i] = e
<1>1. q # <<>> => Head(q) = q[1] /\ 1 \in DOMAIN q /\ Tail(q) \in Seq(S)
  OBVIOUS
<1>2. q # <<>> => \A i \in DOMAIN Tail(q) : i + 1 \in DOMAIN q /\ Tail(q)[i] = q[i + 1]
  OBVIOUS
<1>3. Append(q, e) \in Seq(S) /\ Append(q, e) # <<>>
  <2>1. Append(q, e) \in Seq(S) /\ Len(Append(q, e)) = Len(q) + 1
    OBVIOUS
  <2>2. Len(q) + 1 # Len(<<>>)
    OBVIOUS
  <2> QED
    BY <2>1, <2>2
<1>4. /\ q # <<>> => Head(Append(q, e)) = Head(q)
      /\ Head(Append(<<>>, e)) = e
  OBVIOUS
<1>5. /\ \A i \in DOMAIN Append(q, e) :
           Append(q, e)[i] = e \/ (i \in DOMAIN q /\ Append(q, e)[i] = q[i])
      /\ \A i \in DOMAIN q : i \in DOMAIN Append(q, e) /\ Append(q, e)[i] = q[i]
  OBVIOUS
<1>6. Len(q) + 1 \in DOMAIN Append(q, e) /\ Append(q, e)[Len(q) + 1] = e
  OBVIOUS
<1> QED
  BY <1>1, <1>2, <1>3, <1>4, <1>5, <1>6

\* Sockets that only move forward, with the queue and the phase unchanged.
LEMMA SocketMovesDrainInv ==
  ASSUME ServerInv, DrainInv, UNCHANGED <<pending, phase, inFlightAtCut>>,
         \A d : socket[d] \in {"open", "closed"} => socket'[d] \in {"open", "closed"},
         \A d : socket[d] = "closed" => socket'[d] = "closed"
  PROVE  DrainInv'
<1>1. SendersKnown'
  BY DEF DrainInv, SendersKnown
<1>2. QuitIsLast' /\ QuitWaits'
  BY DEF DrainInv, QuitIsLast, QuitWaits
<1>3. CutIsStuck'
  BY DEF DrainInv, CutIsStuck
<1> QED
  BY <1>1, <1>2, <1>3 DEF DrainInv

LEMMA ConnectionStepDrainInv ==
  ASSUME ServerInv, DrainInv, NEW c \in Conns,
         Accept(c) \/ Reject(c) \/ Open(c) \/ Close(c)
  PROVE  DrainInv'
<1>0. socket \in [Conns -> {"new", "tcp", "open", "closed"}]
  BY DEF ServerInv, WsTypeOK
<1>1. /\ UNCHANGED <<pending, phase, inFlightAtCut>>
      /\ \/ socket[c] \in {"new", "tcp"} /\ \E v : socket' = [socket EXCEPT ![c] = v]
         \/ Close(c)
  BY DEF Accept, Reject, Open, Close, historyVars
<1>2. CASE socket[c] \in {"new", "tcp"} /\ \E v : socket' = [socket EXCEPT ![c] = v]
  <2>1. \A d : socket[d] \in {"open", "closed"} => socket'[d] = socket[d]
    BY <1>0, <1>2
  <2> QED
    BY <1>1, <2>1, SocketMovesDrainInv
<1>3. CASE Close(c)
  <2>1. socket' = [d \in Conns |-> IF d \in {c} THEN "closed" ELSE socket[d]]
    BY <1>3 DEF Close, SocketsClosed
  <2>2. /\ \A d \in Conns : socket[d] \in {"open", "closed"} =>
                              socket'[d] \in {"open", "closed"}
        /\ \A d \in Conns : socket[d] = "closed" => socket'[d] = "closed"
    BY <2>1
  <2>3. SendersKnown'
    BY <1>1, <2>2, QuitIsNoMessage, MessageFields
       DEF DrainInv, SendersKnown, ServerInv, WsTypeOK
  <2>4. CutIsStuck'
    <3>1. pending # <<>> /\ Head(pending) # Quit => Head(pending).conn \in Conns
      BY QueueElements, MessageFields DEF ServerInv, WsTypeOK
    <3> QED
      BY <1>1, <2>2, <3>1 DEF DrainInv, CutIsStuck
  <2> QED
    BY <1>1, <2>3, <2>4 DEF DrainInv, QuitIsLast, QuitWaits
<1> QED
  BY <1>1, <1>2, <1>3

\* An answer that is handled proves that nothing was cut.
LEMMA PopDrainInv ==
  ASSUME ServerInv, DrainInv, pending # <<>>, pending' = Tail(pending),
         UNCHANGED <<socket, phase, historyVars>>,
         Head(pending) = Quit \/ socket[Head(pending).conn] = "open"
  PROVE  DrainInv'
<1>1. pending \in Seq(Messages \cup {Quit})
  BY DEF ServerInv, WsTypeOK
<1>2. \A i \in DOMAIN pending' : i + 1 \in DOMAIN pending /\ pending'[i] = pending[i + 1]
  BY <1>1, QueueElements
<1>3. ~(phase' \in {"closing", "quitting"} /\ inFlightAtCut')
  BY DEF DrainInv, CutIsStuck, historyVars
<1>4. SendersKnown' /\ QuitIsLast'
  BY <1>2 DEF DrainInv, SendersKnown, QuitIsLast
<1> QED
  BY <1>3, <1>4 DEF DrainInv, CutIsStuck, QuitWaits

LEMMA ReceiveDrainInv ==
  ASSUME ServerInv, DrainInv, NEW m \in Messages, ReceiveMessage(m)
  PROVE  DrainInv'
<1>1. pending \in Seq(Messages \cup {Quit}) /\ m \in Messages \cup {Quit}
  BY DEF ServerInv, WsTypeOK
<1>2. /\ pending' = Append(pending, m)
      /\ UNCHANGED <<socket, phase, inFlightAtCut>>
      /\ socket[m.conn] = "open"
      /\ m # Quit
  BY QuitIsNoMessage DEF ReceiveMessage, serverVars, historyVars
<1>3. \A i \in DOMAIN pending' :
        pending'[i] = m \/ (i \in DOMAIN pending /\ pending'[i] = pending[i])
  BY <1>1, <1>2, QueueElements
<1>4. \A i \in DOMAIN pending : i \in DOMAIN pending' /\ pending'[i] = pending[i]
  BY <1>1, <1>2, QueueElements
<1>5. pending # <<>> => pending' # <<>> /\ Head(pending') = Head(pending)
  BY <1>1, <1>2, QueueElements
<1>6. SendersKnown'
  BY <1>2, <1>3 DEF DrainInv, SendersKnown
<1>7. QuitIsLast'
  BY <1>2, <1>3 DEF DrainInv, QuitIsLast
<1>8. CutIsStuck' /\ QuitWaits'
  BY <1>2, <1>4, <1>5 DEF DrainInv, CutIsStuck, QuitWaits
<1> QED
  BY <1>6, <1>7, <1>8 DEF DrainInv

LEMMA CloseAllDrainInv ==
  ASSUME ServerInv, DrainInv, CloseAll
  PROVE  DrainInv'
<1>1. /\ socket' = [c \in Conns |-> IF c \in connections THEN "closed" ELSE socket[c]]
      /\ connections = {c \in Conns : socket[c] = "open"}
      /\ pending' = pending
      /\ pending \in Seq(Messages \cup {Quit})
      /\ phase = "draining" /\ phase' = "closing"
  BY DEF CloseAll, SocketsClosed, ServerInv, RegistryExact, OpenConns, WsTypeOK
<1>2. ASSUME NEW i \in DOMAIN pending
      PROVE  pending[i] # Quit /\ socket'[pending[i].conn] = "closed"
  <2>1. pending[i] # Quit /\ pending[i] \in Messages
    BY <1>1 DEF DrainInv, QuitIsLast
  <2>2. pending[i].conn \in Conns /\ socket[pending[i].conn] \in {"open", "closed"}
    BY <2>1, MessageFields DEF DrainInv, SendersKnown
  <2> QED
    BY <1>1, <2>1, <2>2
<1>3. pending # <<>> => Head(pending) = pending[1] /\ 1 \in DOMAIN pending
  BY <1>1, QueueElements
<1>4. SendersKnown' /\ QuitIsLast' /\ QuitWaits'
  BY <1>1, <1>2 DEF SendersKnown, QuitIsLast, QuitWaits
<1>5. CutIsStuck'
  BY <1>1, <1>2, <1>3 DEF CutIsStuck, CloseAll
<1> QED
  BY <1>4, <1>5 DEF DrainInv

LEMMA QuitRedisDrainInv ==
  ASSUME ServerInv, DrainInv, QuitRedis
  PROVE  DrainInv'
<1>1. /\ pending \in Seq(Messages \cup {Quit})
      /\ Quit \in Messages \cup {Quit}
      /\ pending' = Append(pending, Quit)
      /\ UNCHANGED <<socket, inFlightAtCut>>
      /\ phase = "closing" /\ phase' = "quitting"
  BY DEF QuitRedis, serverVars, historyVars, ServerInv, WsTypeOK
<1>2. \A i \in DOMAIN pending' :
        pending'[i] = Quit \/ (i \in DOMAIN pending /\ pending'[i] = pending[i])
  BY <1>1, QueueElements
<1>3. \E i \in DOMAIN pending' : pending'[i] = Quit
  BY <1>1, QueueElements
<1>4. pending # <<>> => pending' # <<>> /\ Head(pending') = Head(pending)
  BY <1>1, QueueElements
<1>5. SendersKnown'
  BY <1>1, <1>2 DEF DrainInv, SendersKnown
<1>6. QuitIsLast' /\ QuitWaits'
  BY <1>1, <1>3 DEF QuitIsLast, QuitWaits
<1>7. CutIsStuck'
  BY <1>1, <1>4 DEF DrainInv, CutIsStuck
<1> QED
  BY <1>5, <1>6, <1>7 DEF DrainInv

LEMMA ProcessEndsDrainInv ==
  ASSUME NEW end \in {"exited", "crashed"}, ProcessEnds(end)
  PROVE  DrainInv'
BY DEF ProcessEnds, DrainInv, SendersKnown, QuitIsLast, CutIsStuck, QuitWaits

LEMMA AnswerDrainInv ==
  ASSUME ServerInv, DrainInv, NEW m \in Messages, Answer(m)
  PROVE  DrainInv'
<1>1. CASE Handled(m)
  BY <1>1, PopDrainInv DEF Handled, Answered
<1>2. CASE CrashOnClosedSocket(m)
  BY <1>2, ProcessEndsDrainInv DEF CrashOnClosedSocket
<1> QED
  BY <1>1, <1>2 DEF Answer, RateLimited, HandleSubscribe, RefuseSubscribe,
                    HandleUnsubscribe, HandlePublish

\* A process that ends by exit(0) had nothing in flight when closeAll ran.
THEOREM ServerCleanExit == Spec => CleanExit
<1>1. Init => DrainInv
  BY DEF Init, DrainInv, SendersKnown, QuitIsLast, CutIsStuck, QuitWaits
<1>2. ServerInv /\ DrainInv /\ [Next]_vars => DrainInv'
  <2> SUFFICES ASSUME ServerInv, DrainInv, [Next]_vars
               PROVE  DrainInv'
    OBVIOUS
  <2>1. ASSUME NEW c \in Conns, Accept(c) \/ Reject(c) \/ Open(c) \/ Close(c)
        PROVE  DrainInv'
    BY <2>1, ConnectionStepDrainInv
  <2>2. CASE \E m \in Messages : ReceiveMessage(m)
    BY <2>2, ReceiveDrainInv
  <2>3. CASE QuitAnswered
    BY <2>3, PopDrainInv DEF QuitAnswered, Answered, serverVars
  <2>4. CASE \E m \in Messages : Answer(m)
    BY <2>4, AnswerDrainInv
  <2>5. CASE Shutdown
    BY <2>5 DEF Shutdown, serverVars, historyVars, DrainInv, SendersKnown,
                QuitIsLast, CutIsStuck, QuitWaits
  <2>6. CASE CloseAll
    BY <2>6, CloseAllDrainInv
  <2>7. CASE QuitRedis
    BY <2>7, QuitRedisDrainInv
  <2>8. CASE Exit
    BY <2>8, ProcessEndsDrainInv DEF Exit
  <2>9. CASE UNCHANGED vars
    BY <2>9, SocketMovesDrainInv DEF vars, serverVars, historyVars
  <2> QED
    BY <2>1, <2>2, <2>3, <2>4, <2>5, <2>6, <2>7, <2>8, <2>9
       DEF Next, RedisAnswers, Gone
<1>3. DrainInv /\ [Next]_vars => [phase' = "exited" /\ Alive => ~inFlightAtCut]_vars
  <2> SUFFICES ASSUME DrainInv, Next, phase' = "exited", Alive, inFlightAtCut
               PROVE  FALSE
    BY DEF Alive
  <2>1. Exit
    BY DEF Next, RedisAnswers, QuitAnswered, Answer, RateLimited, HandleSubscribe,
           RefuseSubscribe, HandleUnsubscribe, HandlePublish, Handled, Accept,
           Reject, Open, Close, ReceiveMessage, CrashOnClosedSocket, ProcessEnds,
           Shutdown, CloseAll, QuitRedis, Gone, Alive
  <2> QED
    BY <2>1 DEF Exit, DrainInv, QuitWaits
<1>4. Spec => []ServerInv
  BY ServerInvariant
<1> QED
  BY <1>1, <1>2, <1>3, <1>4, PTL DEF Spec, CleanExit
=============================================================================
