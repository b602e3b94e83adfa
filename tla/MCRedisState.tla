---------------------------- MODULE MCRedisState ----------------------------
(***************************************************************************)
(* RedisState for TLC: ann has two sockets at the first instance and one   *)
(* at the second; the token of the first socket names a room.              *)
(* Some of the runs need only the sockets of the first instance.           *)
(***************************************************************************)
EXTENDS RedisState

CONSTANTS i1, i2, c1, c2, c3, ann, r1

MCHome == [c \in Conns |-> IF c = c3 THEN i2 ELSE i1]
MCUserOf == [c \in Conns |-> ann]
MCJwtRooms == [c \in Conns |-> IF c = c1 THEN <<r1>> ELSE <<>>]
=============================================================================
