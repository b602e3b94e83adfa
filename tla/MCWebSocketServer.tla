------------------------- MODULE MCWebSocketServer --------------------------
(***************************************************************************)
(* WebSocketServer for TLC: user u1 may have two sockets (c1, c2), u2 has  *)
(* one; the token of c2 names more rooms than the limit of one room; two   *)
(* sockets may be open at once, so the third upgrade finds no capacity.    *)
(***************************************************************************)
EXTENDS WebSocketServer, TLC

CONSTANTS u1, u2, c1, c2, c3, r1, r2

MCUserOf == (c1 :> u1) @@ (c2 :> u1) @@ (c3 :> u2)
MCJwtRooms == (c1 :> <<r1>>) @@ (c2 :> <<r2, r1>>) @@ (c3 :> <<>>)
=============================================================================
