--------------------------- MODULE MCMessageRelay ---------------------------
(***************************************************************************)
(* MessageRelay for TLC: two instances, ann's socket at the first, bob's   *)
(* at the second; ann's token names the one room, bob may subscribe to it. *)
(***************************************************************************)
EXTENDS MessageRelay, TLC

CONSTANTS i1, i2, c1, c2

Ann == <<"ann">>
Bob == <<"bob">>
Room == <<"room", "global">>

MCHome == (c1 :> i1) @@ (c2 :> i2)
MCUserOf == (c1 :> Ann) @@ (c2 :> Bob)
MCJwtRooms == (c1 :> <<Room>>) @@ (c2 :> <<>>)
MCRooms == {Room}
MCTargets == {UserTopic(Bob), <<"room">> \o Room}
MCFragileLinks == {<<"publisher", i1>>, <<"subscriber", i2>>}
=============================================================================
