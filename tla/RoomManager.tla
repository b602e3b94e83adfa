---------------------------- MODULE RoomManager -----------------------------
(***************************************************************************)
(* src/src/core/RoomManager.ts: who is in which room, kept twice.          *)
(*   rooms      roomId -> members of the room                              *)
(*   userRooms  userId -> rooms of the user                                *)
(* Every method runs to completion on the event loop, so a method is one   *)
(* action.  createdAt and logging are left out.                            *)
(***************************************************************************)
EXTENDS Naturals, FiniteSets, SetMap

CONSTANTS
  Users,
  Rooms,
  MaxRoomsPerUser    \* config.wsMaxRoomsPerConnection, a positive integer

ASSUME MaxRoomsAssumption == MaxRoomsPerUser \in Nat \ {0}

VARIABLES rooms, userRooms

roomVars == <<rooms, userRooms>>

-----------------------------------------------------------------------------
(* The getters. *)

MembersOf(r) == At(rooms, r)
RoomsOf(u) == At(userRooms, u)
MemberCount(r) == Cardinality(MembersOf(r))

-----------------------------------------------------------------------------
(* The mutators.  Next to some stands a faulty variant, a bug one could     *)
(* write in that method; the properties below tell each from the original. *)

RoomInit ==
  /\ rooms = EmptyMap
  /\ userRooms = EmptyMap

\* Faulty: one room too many.
CanSubscribeOffByOne(u) == Cardinality(RoomsOf(u)) <= MaxRoomsPerUser

\* The limit is tested before the room is looked at, so a user at the limit
\* is refused even for a room that the user is in.
CanSubscribe(u) == Cardinality(RoomsOf(u)) < MaxRoomsPerUser

Admit(u, rs) ==
  /\ rooms' = Put(rooms, rs, {u})
  /\ userRooms' = Put(userRooms, {u}, rs)

\* subscribe(u, r) returning true; when CanSubscribe(u) is false the call
\* returns false and changes nothing.
Subscribe(u, r) ==
  /\ CanSubscribe(u)
  /\ Admit(u, {r})

\* Faulty: a token's rooms bypass the limit.
GrantedAll(u, seq) == {seq[i] : i \in DOMAIN seq}

\* The rooms that subscribe(u, seq[1]), subscribe(u, seq[2]), ... admit when
\* called in one turn: every room before the one that finds the limit reached.
Granted(u, seq) ==
  {seq[i] : i \in {j \in DOMAIN seq :
     Cardinality(RoomsOf(u) \cup {seq[k] : k \in 1 .. j - 1}) < MaxRoomsPerUser}}

SubscribeInTurn(u, seq) == Admit(u, Granted(u, seq))

\* Faulty: userRooms is not updated.
UnsubscribeHalf(u, r) ==
  /\ r \in DOMAIN rooms
  /\ rooms' = Drop(rooms, {r}, {u})
  /\ UNCHANGED userRooms

\* unsubscribe(u, r); it returns early when the room does not exist.
Unsubscribe(u, r) ==
  /\ r \in DOMAIN rooms
  /\ rooms' = Drop(rooms, {r}, {u})
  /\ userRooms' = Drop(userRooms, {u}, {r})

\* removeUserFromAllRooms(u) for every u of us: userRooms says which rooms.
RemoveFromAllRooms(us) ==
  /\ rooms' = Compact([r \in DOMAIN rooms |->
                         rooms[r] \ {u \in us : r \in RoomsOf(u)}])
  /\ userRooms' = Without(userRooms, us)

RemoveUserFromAllRooms(u) == RemoveFromAllRooms({u})

RoomNext ==
  \/ \E u \in Users, r \in Rooms : Subscribe(u, r)
  \/ \E u \in Users, r \in Rooms : Unsubscribe(u, r)
  \/ \E u \in Users : RemoveUserFromAllRooms(u)

RoomSpec == RoomInit /\ [][RoomNext]_roomVars

-----------------------------------------------------------------------------
(* Properties. *)

\* Both maps are maps to non-empty sets: no empty room and no user without a
\* room stays behind (the cleanups of unsubscribe and removeUserFromAllRooms).
RoomTypeOK ==
  /\ rooms \in SetMaps(Rooms, Users)
  /\ userRooms \in SetMaps(Users, Rooms)

\* The two maps are each other's inverse.  removeUserFromAllRooms walks
\* userRooms only: a pair that is in rooms alone would never be removed.
Mirror == \A u \in Users, r \in Rooms : u \in MembersOf(r) <=> r \in RoomsOf(u)

\* No sequence of calls takes a user past the room limit.
RoomLimit ==
  \A u \in Users :
    /\ IsFiniteSet(RoomsOf(u))
    /\ Cardinality(RoomsOf(u)) <= MaxRoomsPerUser

\* The two maps implement one membership relation: every call changes the
\* pairs of the user it is called for and nothing else.
Pairs == {p \in Users \X Rooms : p[1] \in MembersOf(p[2])}

Membership == INSTANCE RoomMembership WITH member <- Pairs

MembershipSpec == Membership!Spec
=============================================================================
