----------------------------- MODULE HttpServer -----------------------------
(***************************************************************************)
(* The life of the requests to the HTTP API                                *)
(* (src/src/transport/HttpServer.ts): the API key, the body that arrives   *)
(* in pieces, the rate check that waits for Redis, routing, the answer,    *)
(* and the client that goes away in between.                               *)
(*                                                                         *)
(* A POST handler starts to read the body and asks the rate limiter at the *)
(* same time.  Using the response of an aborted request throws (uWS); out  *)
(* of an async function nobody awaits, that ends the process, as does a    *)
(* body promise that is rejected before anybody awaits it.                 *)
(*                                                                         *)
(* What a request routes is in MessageRelay; here only that it does.       *)
(***************************************************************************)
EXTENDS RateLimiter, Sequences

CONSTANTS
  Instances,
  Posts,        \* requests to send, broadcast or send to a room
  Healths,      \* requests for the health of the instance
  Gets,         \* all other requests: answered in the turn they arrive
  Home,         \* Home[q]: the instance that gets q
  Ip,           \* Ip[q]: x-forwarded-for of q
  WithKey,      \* requests with the right API key, or that need none
  GoodBody,     \* posts whose body is valid
  Unroutable,   \* posts to a target that is neither a user nor a room
  MaxFailures,  \* bound: rate checks that fail
  MaxAborts     \* bound: requests aborted

Reqs == Posts \cup Healths \cup Gets

ASSUME HttpAssumption ==
  /\ Posts \cap Healths = {} /\ Posts \cap Gets = {} /\ Healths \cap Gets = {}
  /\ Home \in [Reqs -> Instances]
  /\ Ip \in [Reqs -> Identifiers]
  /\ Unroutable \subseteq Posts

VARIABLES
  phase,        \* of each request: new, checking, reading, pinging, answered, gone
  complete,     \* posts whose body is complete
  aborted,      \* requests whose client went away before the answer
  status,       \* the answer of each request, 0 before
  waiting,      \* requests of each instance that wait for Redis, oldest first
  crashed,      \* instances whose process ended
  routed        \* how often a message went out for each request

\* History: read by no guard but `failures`, a bound.
VARIABLES
  calledAt,     \* the time each rate check was called
  verdict,      \* what it said: none, allowed, refused, failed
  overtaken,    \* identifiers with a check executed after a later one
  failures

reqVars == <<phase, complete, aborted, status, waiting, crashed, routed>>
histVars == <<calledAt, verdict, overtaken, failures>>
vars == <<limiterVars, reqVars, histVars>>

Pending == {q \in Reqs : phase[q] \in {"checking", "reading", "pinging"}}

Init ==
  /\ LimiterInit
  /\ phase = [q \in Reqs |-> "new"]
  /\ complete = {} /\ aborted = {}
  /\ status = [q \in Reqs |-> 0]
  /\ waiting = [i \in Instances |-> <<>>]
  /\ crashed = {}
  /\ routed = [q \in Reqs |-> 0]
  /\ calledAt = [q \in Reqs |-> 0]
  /\ verdict = [q \in Reqs |-> "none"]
  /\ overtaken = {}
  /\ failures = 0

-----------------------------------------------------------------------------
(* Answers. *)

\* The process of q ends, and every request it had with it.
Crash(q) ==
  /\ crashed' = crashed \cup {Home[q]}
  /\ phase' = [p \in Reqs |-> IF p \in Pending /\ Home[p] = Home[q] THEN "gone" ELSE phase[p]]
  /\ UNCHANGED status

\* sendJson, and the 429: on an aborted request it throws.  In the try block
\* the catch block tries again and throws out of the handler.
Respond(q, st) ==
  IF q \in aborted
    THEN Crash(q)
    ELSE /\ phase' = [phase EXCEPT ![q] = "answered"]
         /\ status' = [status EXCEPT ![q] = st]
         /\ UNCHANGED crashed

\* Faulty: routed before the body is looked at.
FinishUnparsed(q) ==
  /\ routed' = [routed EXCEPT ![q] = @ + 1]
  /\ Respond(q, IF q \in GoodBody THEN 200 ELSE 400)

\* The try block, once the body is there: parse, route, answer.  For an unknown
\* target sendToTarget sends nothing; the answer, success: false, is a 200 too.
Finish(q) ==
  IF q \in GoodBody
    THEN /\ routed' = [routed EXCEPT ![q] = IF q \in Unroutable THEN @ ELSE @ + 1]
         /\ Respond(q, 200)
    ELSE /\ UNCHANGED routed
         /\ Respond(q, 400)

-----------------------------------------------------------------------------
(* Requests arrive. *)

Arrives(q) == phase[q] = "new" /\ Home[q] \notin crashed

\* No key or a wrong one; GET /api/rooms, /api/connections, /metrics, OPTIONS
\* and the 404 are answered in the same turn.
AnswerAtOnce(q) ==
  /\ Arrives(q)
  /\ q \in Gets \/ q \notin WithKey
  /\ Respond(q, IF q \in WithKey THEN 200 ELSE 401)
  /\ UNCHANGED <<limiterVars, complete, aborted, waiting, routed, histVars>>

\* The body is being read and the rate check is on its way.
ReceivePost(q) ==
  /\ Arrives(q)
  /\ q \in Posts \cap WithKey
  /\ phase' = [phase EXCEPT ![q] = "checking"]
  /\ waiting' = [waiting EXCEPT ![Home[q]] = Append(@, q)]
  /\ calledAt' = [calledAt EXCEPT ![q] = now]
  /\ UNCHANGED <<limiterVars, complete, aborted, status, crashed, routed, verdict, overtaken, failures>>

ReceiveHealth(q) ==
  /\ Arrives(q)
  /\ q \in Healths
  /\ phase' = [phase EXCEPT ![q] = "pinging"]
  /\ waiting' = [waiting EXCEPT ![Home[q]] = Append(@, q)]
  /\ UNCHANGED <<limiterVars, complete, aborted, status, crashed, routed, histVars>>

\* The last chunk of the body, before or after the rate check's answer.
BodyComplete(q) ==
  /\ q \in Posts \cap Pending
  /\ q \notin complete \cup aborted
  /\ complete' = complete \cup {q}
  /\ IF phase[q] = "reading"
       THEN Finish(q)
       ELSE UNCHANGED <<phase, status, crashed, routed>>
  /\ UNCHANGED <<limiterVars, aborted, waiting, histVars>>

\* The client goes away.  The body promise is rejected, unless it was resolved:
\* unhandled while the rate check is on its way, after it caught by a handler
\* that answers a request that is gone.
Abort(q) ==
  /\ q \in Pending \ aborted
  /\ Cardinality(aborted) < MaxAborts
  /\ aborted' = aborted \cup {q}
  /\ IF q \in Posts \ complete THEN Crash(q) ELSE UNCHANGED <<phase, status, crashed>>
  /\ UNCHANGED <<limiterVars, complete, waiting, routed, histVars>>

-----------------------------------------------------------------------------
(* Redis answers. *)

\* q is the oldest request that waits for Redis at its instance.
Oldest(q) ==
  /\ Home[q] \notin crashed
  /\ waiting[Home[q]] # <<>>
  /\ q = Head(waiting[Home[q]])
  /\ waiting' = [waiting EXCEPT ![Home[q]] = Tail(@)]

Says(q, v) == verdict' = [verdict EXCEPT ![q] = v]

\* Faulty: the body is awaited whatever has arrived.
GoOnReading(q) ==
  /\ phase' = [phase EXCEPT ![q] = "reading"]
  /\ UNCHANGED <<status, crashed, routed>>

\* The handler goes on after a check that lets the request pass.
GoOn(q) ==
  IF q \in complete
    THEN Finish(q)
    ELSE /\ phase' = [phase EXCEPT ![q] = "reading"]
         /\ UNCHANGED <<status, crashed, routed>>

\* The check is executed and its answer handled.
CheckAnswered(q) ==
  LET id == Ip[q]
      at == calledAt[q]
  IN  /\ q \in Posts
      /\ Oldest(q)
      /\ Record(id, q, at)
      /\ overtaken' = IF \E e \in hits[id] : e.score > at
                        THEN overtaken \cup {id} ELSE overtaken
      /\ \/ WithinLimit(id, q, at) /\ Says(q, "allowed") /\ GoOn(q)
         \/ ~WithinLimit(id, q, at) /\ Says(q, "refused") /\ Respond(q, 429) /\ UNCHANGED routed
      /\ UNCHANGED <<now, complete, aborted, calledAt, failures>>

\* Faulty: a failed check is thrown at the handler.
CheckFailsThrows(q) ==
  /\ q \in Posts
  /\ failures < MaxFailures
  /\ failures' = failures + 1
  /\ Oldest(q)
  /\ Says(q, "failed")
  /\ Crash(q)
  /\ UNCHANGED <<limiterVars, complete, aborted, routed, calledAt, overtaken>>

\* The pipeline fails, executed or not: the request passes.  So it does when
\* only its ZCARD fails, whose result is then undefined and counts as 0.
CheckFails(q) ==
  /\ q \in Posts
  /\ failures < MaxFailures
  /\ failures' = failures + 1
  /\ Oldest(q)
  /\ Record(Ip[q], q, calledAt[q]) \/ UNCHANGED hits
  /\ Says(q, "failed")
  /\ GoOn(q)
  /\ UNCHANGED <<now, complete, aborted, calledAt, overtaken>>

\* Faulty: answered although aborted.
PingAnsweredAnyway(q) ==
  /\ q \in Healths
  /\ Oldest(q)
  /\ phase' = [phase EXCEPT ![q] = IF q \in aborted THEN "gone" ELSE "answered"]
  /\ status' = [status EXCEPT ![q] = 200]
  /\ UNCHANGED <<limiterVars, complete, aborted, crashed, routed, histVars>>

\* PING was answered or failed: 200 with the state of Redis, unless aborted.
PingAnswered(q) ==
  /\ q \in Healths
  /\ Oldest(q)
  /\ phase' = [phase EXCEPT ![q] = IF q \in aborted THEN "gone" ELSE "answered"]
  /\ status' = [status EXCEPT ![q] = IF q \in aborted THEN 0 ELSE 200]
  /\ UNCHANGED <<limiterVars, complete, aborted, crashed, routed, histVars>>

-----------------------------------------------------------------------------

RedisAnswers(q) == CheckAnswered(q) \/ CheckFails(q) \/ PingAnswered(q)

HttpTick == Tick /\ UNCHANGED <<reqVars, histVars>>

Next ==
  \/ HttpTick
  \/ \E q \in Reqs :
       \/ AnswerAtOnce(q) \/ ReceivePost(q) \/ ReceiveHealth(q)
       \/ BodyComplete(q) \/ Abort(q) \/ RedisAnswers(q)

Spec == Init /\ [][Next]_vars

\* Redis answers or ioredis gives up; a body that does not arrive times out.
\* Requests arrive once, so fairness for all of them together is enough.
Fairness ==
  /\ WF_vars(\E q \in Posts \cup Healths : RedisAnswers(q))
  /\ WF_vars(\E q \in Posts : BodyComplete(q) \/ Abort(q))

FairSpec == Spec /\ Fairness

-----------------------------------------------------------------------------
(* Properties. *)

HttpTypeOK ==
  /\ now \in 1 .. MaxTime
  /\ hits \in [Identifiers -> SUBSET [member : Posts, score : 1 .. now]]
  /\ phase \in [Reqs -> {"new", "checking", "reading", "pinging", "answered", "gone"}]
  /\ complete \subseteq Posts /\ aborted \subseteq Reqs
  /\ status \in [Reqs -> {0, 200, 400, 401, 429}]
  /\ \A q \in Reqs : status[q] # 0 <=> phase[q] = "answered"
  /\ \A i \in Instances : waiting[i] \in Seq({q \in Reqs : Home[q] = i})
  /\ crashed \subseteq Instances
  /\ routed \in [Reqs -> Nat]
  /\ calledAt \in [Reqs -> 0 .. now]
  /\ verdict \in [Reqs -> {"none", "allowed", "refused", "failed"}]
  /\ overtaken \subseteq Identifiers

\* The checks of an identifier, executed with a verdict in vs, that were called
\* in the window that ends at t.
ChecksIn(id, t, vs) ==
  {q \in Posts : /\ Ip[q] = id /\ verdict[q] \in vs
                 /\ calledAt[q] <= t /\ t < calledAt[q] + Window}

\* In no window are more requests of one identifier let through than the limit,
\* over all instances, not counting checks that failed; as long as checks are
\* executed in the order of their times.
WindowLimit ==
  \A id \in Identifiers \ overtaken, t \in 1 .. MaxTime :
    Cardinality(ChecksIn(id, t, {"allowed"})) <= MaxRequests

\* A request is refused only if there were as many as the limit before it in
\* its window, refused and failed ones counted.
RefusedRightly ==
  \A q \in Posts : verdict[q] = "refused" /\ Ip[q] \notin overtaken =>
    Cardinality(ChecksIn(Ip[q], calledAt[q], {"allowed", "refused", "failed"}) \ {q})
      >= MaxRequests

\* A message goes out at most once, only with the key, a complete and valid body,
\* a known target and past the rate check.  A request answered 200 sent its
\* message unless the target is unknown; any other answer says that nothing was.
RoutedRightly ==
  \A q \in Posts :
    /\ routed[q] <= 1
    /\ status[q] = 200 => (routed[q] = 1 <=> q \notin Unroutable)
    /\ routed[q] = 1 =>
         /\ q \in (WithKey \cap complete \cap GoodBody) \ Unroutable
         /\ verdict[q] \in {"allowed", "failed"}
         /\ status[q] = 200 \/ q \in aborted

\* The process ends only over a POST whose client went away; a health check
\* that is aborted, a check that fails or a bad request never end it.
CrashOnlyAfterAbort ==
  \A i \in crashed : \E q \in Posts \cap aborted : Home[q] = i

\* No request stays open for ever: each is answered, aborted or lost with its
\* process.  Every request arrives once, so this is one formula for all.
RequestsEnd == []<>(Pending = {})

\* LiveRelay-Architecture.md lists the handling of connection errors as done.
HttpNeverCrashes == crashed = {}
=============================================================================
