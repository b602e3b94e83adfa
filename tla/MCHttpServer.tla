---------------------------- MODULE MCHttpServer ----------------------------
(***************************************************************************)
(* HttpServer for TLC: three posts from one address at two instances, one  *)
(* with a bad body and one for an unknown target, a health check, and a    *)
(* request without the key.                                                *)
(***************************************************************************)
EXTENDS HttpServer, TLC

CONSTANTS i1, i2, p1, p2, p3, h1, g1, ip

MCHome == (p3 :> i2) @@ [q \in Reqs \ {p3} |-> i1]
MCIp == [q \in Reqs |-> ip]
MCWithKey == Reqs \ {g1}
=============================================================================
