------------------------- MODULE RoomManagerProofs --------------------------
(***************************************************************************)
(* RoomManager keeps its two maps well formed and mirrored, never passes   *)
(* the room limit, and implements the membership relation, for every set   *)
(* of users, every set of rooms and every limit.                           *)
(***************************************************************************)
EXTENDS RoomManager, SetMapTheorems, FiniteSetTheorems

RoomInv == RoomTypeOK /\ Mirror /\ RoomLimit

-----------------------------------------------------------------------------
(* What each mutator does to the two maps, as the getters show it. *)

LEMMA AdmitEffect ==
  ASSUME RoomTypeOK, NEW u \in Users, NEW rs \in SUBSET Rooms, Admit(u, rs)
  PROVE  /\ RoomTypeOK'
         /\ \A r : MembersOf(r)' = IF r \in rs THEN MembersOf(r) \cup {u}
                                               ELSE MembersOf(r)
         /\ \A x : RoomsOf(x)' = IF x = u THEN RoomsOf(x) \cup rs
                                          ELSE RoomsOf(x)
<1>1. rooms' \in SetMaps(Rooms, Users) /\ userRooms' \in SetMaps(Users, Rooms)
  BY PutType DEF RoomTypeOK, Admit
<1>2. ASSUME NEW r
      PROVE  MembersOf(r)' = IF r \in rs THEN MembersOf(r) \cup {u}
                                         ELSE MembersOf(r)
  BY AtPut DEF Admit, MembersOf
<1>3. ASSUME NEW x
      PROVE  RoomsOf(x)' = IF x = u THEN RoomsOf(x) \cup rs ELSE RoomsOf(x)
  BY AtPut DEF Admit, RoomsOf
<1> QED
  BY <1>1, <1>2, <1>3 DEF RoomTypeOK

LEMMA UnsubscribeEffect ==
  ASSUME RoomTypeOK, NEW u \in Users, NEW q \in Rooms, Unsubscribe(u, q)
  PROVE  /\ RoomTypeOK'
         /\ \A r : MembersOf(r)' = IF r = q THEN MembersOf(r) \ {u}
                                            ELSE MembersOf(r)
         /\ \A x : RoomsOf(x)' = IF x = u THEN RoomsOf(x) \ {q} ELSE RoomsOf(x)
<1>1. rooms' \in SetMaps(Rooms, Users) /\ userRooms' \in SetMaps(Users, Rooms)
  BY DropType DEF RoomTypeOK, Unsubscribe
<1>2. ASSUME NEW r
      PROVE  MembersOf(r)' = IF r = q THEN MembersOf(r) \ {u} ELSE MembersOf(r)
  <2>1. MembersOf(r)' = At(Drop(rooms, {q}, {u}), r)
    BY DEF Unsubscribe, MembersOf
  <2>2. At(Drop(rooms, {q}, {u}), r) = IF r \in {q} THEN At(rooms, r) \ {u}
                                                   ELSE At(rooms, r)
    BY AtDrop
  <2> QED
    BY <2>1, <2>2 DEF MembersOf
<1>3. ASSUME NEW x
      PROVE  RoomsOf(x)' = IF x = u THEN RoomsOf(x) \ {q} ELSE RoomsOf(x)
  <2>1. RoomsOf(x)' = At(Drop(userRooms, {u}, {q}), x)
    BY DEF Unsubscribe, RoomsOf
  <2>2. At(Drop(userRooms, {u}, {q}), x) = IF x \in {u} THEN At(userRooms, x) \ {q}
                                                       ELSE At(userRooms, x)
    BY AtDrop
  <2> QED
    BY <2>1, <2>2 DEF RoomsOf
<1> QED
  BY <1>1, <1>2, <1>3 DEF RoomTypeOK

LEMMA RemoveEffect ==
  ASSUME RoomTypeOK, NEW us, RemoveFromAllRooms(us)
  PROVE  /\ RoomTypeOK'
         /\ \A r : MembersOf(r)' =
                     MembersOf(r) \ {u \in us : r \in RoomsOf(u)}
         /\ \A x : RoomsOf(x)' = IF x \in us THEN {} ELSE RoomsOf(x)
<1> DEFINE f == [r \in DOMAIN rooms |->
                   rooms[r] \ {u \in us : r \in RoomsOf(u)}]
<1>1. rooms' = Compact(f) /\ userRooms' = Without(userRooms, us)
  BY DEF RemoveFromAllRooms
<1>2. rooms' \in SetMaps(Rooms, Users)
  <2>1. DOMAIN f \subseteq Rooms /\ \A r \in DOMAIN f : f[r] \subseteq Users
    BY SetMapsMember DEF RoomTypeOK
  <2> QED
    BY <1>1, <2>1, CompactType
<1>3. userRooms' \in SetMaps(Users, Rooms)
  BY <1>1, WithoutType DEF RoomTypeOK
<1>4. ASSUME NEW r
      PROVE  MembersOf(r)' = MembersOf(r) \ {u \in us : r \in RoomsOf(u)}
  <2>1. MembersOf(r)' = At(f, r)
    BY <1>1, AtCompact DEF MembersOf
  <2>2. At(f, r) = MembersOf(r) \ {u \in us : r \in RoomsOf(u)}
    BY DEF At, MembersOf
  <2> QED
    BY <2>1, <2>2
<1>5. ASSUME NEW x
      PROVE  RoomsOf(x)' = IF x \in us THEN {} ELSE RoomsOf(x)
  BY <1>1, AtWithout DEF RoomsOf
<1> QED
  BY <1>2, <1>3, <1>4, <1>5 DEF RoomTypeOK

-----------------------------------------------------------------------------
(* The mutators keep the invariant.  These lemmas are about the operators, *)
(* not about RoomNext: the WebSocket server's proofs cite them too.        *)

LEMMA RoomInitInv ==
  ASSUME RoomInit
  PROVE  RoomInv
<1>1. RoomTypeOK
  BY EmptyMapType DEF RoomInit, RoomTypeOK
<1>2. \A k : MembersOf(k) = {} /\ RoomsOf(k) = {}
  BY AtEmpty DEF RoomInit, MembersOf, RoomsOf
<1>3. RoomLimit
  BY <1>2, FS_EmptySet, MaxRoomsAssumption DEF RoomLimit
<1> QED
  BY <1>1, <1>2, <1>3 DEF RoomInv, Mirror

LEMMA AdmitInv ==
  ASSUME RoomInv, NEW u \in Users, NEW rs \in SUBSET Rooms, Admit(u, rs),
         IsFiniteSet(RoomsOf(u) \cup rs),
         Cardinality(RoomsOf(u) \cup rs) <= MaxRoomsPerUser
  PROVE  RoomInv'
<1>1. RoomTypeOK'
  BY AdmitEffect DEF RoomInv
<1>2. ASSUME NEW x \in Users, NEW r \in Rooms
      PROVE  x \in MembersOf(r)' <=> r \in RoomsOf(x)'
  BY AdmitEffect DEF RoomInv, Mirror
<1>3. ASSUME NEW x \in Users
      PROVE  /\ IsFiniteSet(RoomsOf(x)')
             /\ Cardinality(RoomsOf(x)') <= MaxRoomsPerUser
  BY AdmitEffect DEF RoomInv, RoomLimit
<1> QED
  BY <1>1, <1>2, <1>3 DEF RoomInv, Mirror, RoomLimit

\* One call of subscribe adds at most one room to a set below the limit.
LEMMA SubscribeInv ==
  ASSUME RoomInv, NEW u \in Users, NEW r \in Rooms, Subscribe(u, r)
  PROVE  RoomInv'
<1>1. /\ IsFiniteSet(RoomsOf(u))
      /\ Cardinality(RoomsOf(u)) \in Nat
      /\ Cardinality(RoomsOf(u)) < MaxRoomsPerUser
  BY FS_CardinalityType DEF RoomInv, RoomLimit, Subscribe, CanSubscribe
<1>2. /\ IsFiniteSet(RoomsOf(u) \cup {r})
      /\ Cardinality(RoomsOf(u) \cup {r}) <= Cardinality(RoomsOf(u)) + 1
  <2> DEFINE S == RoomsOf(u)
  <2>1. IsFiniteSet(S) /\ Cardinality(S) \in Nat
    BY <1>1
  <2> HIDE DEF S
  <2>2. IsFiniteSet(S \cup {r})
    BY <2>1, FS_AddElement
  <2>3. \/ Cardinality(S \cup {r}) = Cardinality(S)
        \/ Cardinality(S \cup {r}) = Cardinality(S) + 1
    BY <2>1, FS_AddElement
  <2>4. Cardinality(S \cup {r}) <= Cardinality(S) + 1
    BY <2>1, <2>3
  <2> QED
    BY <2>2, <2>4 DEF S
<1>3. Cardinality(RoomsOf(u) \cup {r}) <= MaxRoomsPerUser
  BY <1>1, <1>2, FS_CardinalityType, MaxRoomsAssumption
<1> QED
  BY <1>2, <1>3, AdmitInv DEF Subscribe

LEMMA UnsubscribeInv ==
  ASSUME RoomInv, NEW u \in Users, NEW q \in Rooms, Unsubscribe(u, q)
  PROVE  RoomInv'
<1>1. RoomTypeOK'
  BY UnsubscribeEffect DEF RoomInv
<1>2. ASSUME NEW x \in Users, NEW r \in Rooms
      PROVE  x \in MembersOf(r)' <=> r \in RoomsOf(x)'
  BY UnsubscribeEffect DEF RoomInv, Mirror
<1>3. ASSUME NEW x \in Users
      PROVE  /\ IsFiniteSet(RoomsOf(x)')
             /\ Cardinality(RoomsOf(x)') <= MaxRoomsPerUser
  <2>1. RoomsOf(x)' \subseteq RoomsOf(x)
    BY UnsubscribeEffect DEF RoomInv
  <2>2. /\ IsFiniteSet(RoomsOf(x))
        /\ Cardinality(RoomsOf(x)) <= MaxRoomsPerUser
    BY DEF RoomInv, RoomLimit
  <2>3. /\ IsFiniteSet(RoomsOf(x)')
        /\ Cardinality(RoomsOf(x)') <= Cardinality(RoomsOf(x))
    BY <2>1, <2>2, FS_Subset
  <2> QED
    BY <2>2, <2>3, FS_CardinalityType, MaxRoomsAssumption
<1> QED
  BY <1>1, <1>2, <1>3 DEF RoomInv, Mirror, RoomLimit

LEMMA RemoveInv ==
  ASSUME RoomInv, NEW us, RemoveFromAllRooms(us)
  PROVE  RoomInv'
<1>1. RoomTypeOK'
  BY RemoveEffect DEF RoomInv
<1>2. ASSUME NEW x \in Users, NEW r \in Rooms
      PROVE  x \in MembersOf(r)' <=> r \in RoomsOf(x)'
  BY RemoveEffect DEF RoomInv, Mirror
<1>3. ASSUME NEW x \in Users
      PROVE  /\ IsFiniteSet(RoomsOf(x)')
             /\ Cardinality(RoomsOf(x)') <= MaxRoomsPerUser
  <2>1. CASE x \in us
    <3>1. RoomsOf(x)' = {}
      BY <2>1, RemoveEffect DEF RoomInv
    <3>2. IsFiniteSet({}) /\ Cardinality({}) <= MaxRoomsPerUser
      BY FS_EmptySet, MaxRoomsAssumption
    <3> QED
      BY <3>1, <3>2
  <2>2. CASE x \notin us
    <3>1. RoomsOf(x)' = RoomsOf(x)
      BY <2>2, RemoveEffect DEF RoomInv
    <3> QED
      BY <3>1 DEF RoomInv, RoomLimit
  <2> QED
    BY <2>1, <2>2
<1> QED
  BY <1>1, <1>2, <1>3 DEF RoomInv, Mirror, RoomLimit

LEMMA RoomStutterInv ==
  ASSUME RoomInv, UNCHANGED roomVars
  PROVE  RoomInv'
BY DEF RoomInv, RoomTypeOK, Mirror, RoomLimit, MembersOf, RoomsOf, roomVars

-----------------------------------------------------------------------------

LEMMA RoomInvariant == RoomSpec => []RoomInv
<1>1. RoomInit => RoomInv
  BY RoomInitInv
<1>2. RoomInv /\ [RoomNext]_roomVars => RoomInv'
  <2> SUFFICES ASSUME RoomInv, [RoomNext]_roomVars
               PROVE  RoomInv'
    OBVIOUS
  <2>1. CASE \E u \in Users, r \in Rooms : Subscribe(u, r)
    BY <2>1, SubscribeInv
  <2>2. CASE \E u \in Users, r \in Rooms : Unsubscribe(u, r)
    BY <2>2, UnsubscribeInv
  <2>3. CASE \E u \in Users : RemoveUserFromAllRooms(u)
    BY <2>3, RemoveInv DEF RemoveUserFromAllRooms
  <2>4. CASE UNCHANGED roomVars
    BY <2>4, RoomStutterInv
  <2> QED
    BY <2>1, <2>2, <2>3, <2>4 DEF RoomNext
<1> QED
  BY <1>1, <1>2, PTL DEF RoomSpec

\* RoomManager's two maps stay maps to non-empty sets.
THEOREM RoomManagerTypeCorrect == RoomSpec => []RoomTypeOK
BY RoomInvariant, PTL DEF RoomInv

\* RoomManager's rooms and userRooms stay each other's inverse.
THEOREM RoomManagerMirror == RoomSpec => []Mirror
BY RoomInvariant, PTL DEF RoomInv

\* RoomManager never has a user in more rooms than the limit.
THEOREM RoomManagerLimit == RoomSpec => []RoomLimit
BY RoomInvariant, PTL DEF RoomInv

-----------------------------------------------------------------------------
(* The refinement: what each mutator does to the pairs of rooms. *)

LEMMA PairsMember ==
  ASSUME NEW u \in Users, NEW r \in Rooms
  PROVE  <<u, r>> \in Pairs <=> u \in MembersOf(r)
BY DEF Pairs

\* In a mirrored state the rooms paired with u are the rooms of userRooms.
LEMMA RoomsJoined ==
  ASSUME RoomInv, NEW u \in Users
  PROVE  {r \in Rooms : <<u, r>> \in Pairs} = RoomsOf(u)
<1>1. RoomsOf(u) \subseteq Rooms
  BY AtType DEF RoomInv, RoomTypeOK, RoomsOf
<1> QED
  BY <1>1, PairsMember DEF RoomInv, Mirror

LEMMA AdmitPairs ==
  ASSUME RoomTypeOK, NEW u \in Users, NEW rs \in SUBSET Rooms, Admit(u, rs)
  PROVE  Pairs' = Pairs \cup ({u} \X rs)
<1>1. \A r : MembersOf(r)' = IF r \in rs THEN MembersOf(r) \cup {u}
                                         ELSE MembersOf(r)
  BY AdmitEffect
<1>2. ASSUME NEW p \in Users \X Rooms
      PROVE  p \in Pairs' <=> p \in Pairs \cup ({u} \X rs)
  BY <1>1 DEF Pairs
<1> QED
  BY <1>2 DEF Pairs

LEMMA UnsubscribePairs ==
  ASSUME RoomTypeOK, NEW u \in Users, NEW q \in Rooms, Unsubscribe(u, q)
  PROVE  Pairs' = Pairs \ {<<u, q>>}
<1>1. \A r : MembersOf(r)' = IF r = q THEN MembersOf(r) \ {u} ELSE MembersOf(r)
  BY UnsubscribeEffect
<1>2. ASSUME NEW p \in Users \X Rooms
      PROVE  p \in Pairs' <=> p \in Pairs \ {<<u, q>>}
  BY <1>1 DEF Pairs
<1> QED
  BY <1>2 DEF Pairs

\* removeUserFromAllRooms finds every room of the user because of Mirror.
LEMMA RemovePairs ==
  ASSUME RoomInv, NEW us \in SUBSET Users, RemoveFromAllRooms(us)
  PROVE  Pairs' = Pairs \ (us \X Rooms)
<1>1. \A r : MembersOf(r)' = MembersOf(r) \ {u \in us : r \in RoomsOf(u)}
  BY RemoveEffect DEF RoomInv
<1>2. ASSUME NEW p \in Users \X Rooms
      PROVE  p \in Pairs' <=> p \in Pairs \ (us \X Rooms)
  BY <1>1 DEF Pairs, RoomInv, Mirror
<1> QED
  BY <1>2 DEF Pairs

LEMMA JoinRefines ==
  ASSUME RoomInv, NEW u \in Users, NEW rs \in SUBSET Rooms, Admit(u, rs),
         Cardinality(RoomsOf(u) \cup rs) <= MaxRoomsPerUser
  PROVE  Membership!Next
<1>1. Membership!Join(u, rs)
  <2>1. Membership!RoomsJoined(u) = RoomsOf(u)
    BY RoomsJoined DEF Membership!RoomsJoined
  <2>2. Pairs' = Pairs \cup ({u} \X rs)
    BY AdmitPairs DEF RoomInv
  <2> QED
    BY <2>1, <2>2 DEF Membership!Join, Cardinality, Membership!Cardinality
<1> QED
  BY <1>1 DEF Membership!Next

LEMMA LeaveRefines ==
  ASSUME RoomInv, NEW u \in Users, NEW q \in Rooms, Unsubscribe(u, q)
  PROVE  Membership!Next
<1>1. Pairs' = Pairs \ {<<u, q>>}
  BY UnsubscribePairs DEF RoomInv
<1>2. Membership!Leave(u, q)
  BY <1>1 DEF Membership!Leave
<1> QED
  BY <1>2 DEF Membership!Next

LEMMA LeaveAllRefines ==
  ASSUME RoomInv, NEW us \in SUBSET Users, RemoveFromAllRooms(us)
  PROVE  Membership!Next
<1>1. Pairs' = Pairs \ (us \X Rooms)
  BY RemovePairs
<1>2. Membership!LeaveAll(us)
  BY <1>1 DEF Membership!LeaveAll
<1> QED
  BY <1>2 DEF Membership!Next

LEMMA RoomInitRefines ==
  ASSUME RoomInit
  PROVE  Membership!Init
<1>1. \A r : MembersOf(r) = {}
  BY AtEmpty DEF RoomInit, MembersOf
<1> QED
  BY <1>1 DEF Membership!Init, Pairs

LEMMA RoomStutterRefines ==
  ASSUME UNCHANGED roomVars
  PROVE  Pairs' = Pairs
BY DEF roomVars, Pairs, MembersOf

\* RoomManager implements the membership relation of RoomMembership: each
\* method changes the pairs of its own user as promised and no others.
THEOREM RoomManagerRefinement == RoomSpec => MembershipSpec
<1>1. RoomInit => Membership!Init
  BY RoomInitRefines
<1>2. RoomInv /\ [RoomNext]_roomVars => [Membership!Next]_Pairs
  <2> SUFFICES ASSUME RoomInv, [RoomNext]_roomVars
               PROVE  Membership!Next \/ Pairs' = Pairs
    OBVIOUS
  <2>1. ASSUME NEW u \in Users, NEW r \in Rooms, Subscribe(u, r)
        PROVE  Membership!Next
    <3>1. RoomInv' /\ RoomsOf(u)' = RoomsOf(u) \cup {r}
      BY <2>1, SubscribeInv, AdmitEffect DEF Subscribe, RoomInv
    <3>2. Cardinality(RoomsOf(u) \cup {r}) <= MaxRoomsPerUser
      BY <3>1 DEF RoomInv, RoomLimit
    <3> QED
      BY <2>1, <3>2, JoinRefines DEF Subscribe
  <2>2. ASSUME NEW u \in Users, NEW r \in Rooms, Unsubscribe(u, r)
        PROVE  Membership!Next
    BY <2>2, LeaveRefines
  <2>3. ASSUME NEW u \in Users, RemoveUserFromAllRooms(u)
        PROVE  Membership!Next
    BY <2>3, LeaveAllRefines DEF RemoveUserFromAllRooms
  <2> QED
    BY <2>1, <2>2, <2>3, RoomStutterRefines DEF RoomNext
<1>3. RoomSpec => []RoomInv
  BY RoomInvariant
<1> QED
  BY <1>1, <1>2, <1>3, PTL DEF RoomSpec, MembershipSpec, Membership!Spec
=============================================================================
