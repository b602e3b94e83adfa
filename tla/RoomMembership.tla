--------------------------- MODULE RoomMembership ---------------------------
(***************************************************************************)
(* What the room bookkeeping promises, without its two mirrored maps: one  *)
(* relation between users and rooms.  A user joins rooms up to the limit,  *)
(* leaves one room, or is taken out of every room; no operation on behalf  *)
(* of one user touches another user's memberships.                         *)
(***************************************************************************)
EXTENDS Naturals, FiniteSets

CONSTANTS Users, Rooms, MaxRoomsPerUser

VARIABLE member    \* member \subseteq Users \X Rooms

RoomsJoined(u) == {r \in Rooms : <<u, r>> \in member}

Init == member = {}

\* u joins every room of rs, at most MaxRoomsPerUser rooms in all.
Join(u, rs) ==
  /\ Cardinality(RoomsJoined(u) \cup rs) <= MaxRoomsPerUser
  /\ member' = member \cup ({u} \X rs)

Leave(u, r) == member' = member \ {<<u, r>>}

\* A disconnect takes one user out of every room, a shutdown many.
LeaveAll(us) == member' = member \ (us \X Rooms)

Next ==
  \/ \E u \in Users, rs \in SUBSET Rooms : Join(u, rs)
  \/ \E u \in Users, r \in Rooms : Leave(u, r)
  \/ \E us \in SUBSET Users : LeaveAll(us)

Spec == Init /\ [][Next]_member
=============================================================================
