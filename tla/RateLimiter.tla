----------------------------- MODULE RateLimiter -----------------------------
(***************************************************************************)
(* The sliding window of src/src/core/RateLimiter.ts.  For every           *)
(* identifier Redis keeps a sorted set with a member for each request,     *)
(* scored with its time; a check removes what has left the window, adds    *)
(* the request, allowed or not, and counts.  The time is taken when the    *)
(* check is called, the set changes when Redis executes it.                *)
(*                                                                         *)
(* The member is the time and a random suffix that is drawn once, so that  *)
(* a pipeline that is sent again after a lost link adds it once: the       *)
(* request stands for it.  The TTL removes a set only when all of it has   *)
(* left the window.                                                        *)
(***************************************************************************)
EXTENDS Naturals, FiniteSets

CONSTANTS
  Identifiers,  \* what requests are counted by
  Window,       \* windowMs
  MaxRequests,  \* maxRequests
  MaxTime       \* bound: the clock stops here

ASSUME LimiterAssumption ==
  /\ Window \in Nat \ {0}
  /\ MaxRequests \in Nat \ {0}
  /\ MaxTime \in Nat \ {0}

VARIABLES
  now,   \* Date.now(), the same for all instances
  hits   \* the sorted set of each identifier: its entries

limiterVars == <<now, hits>>

LimiterInit ==
  /\ now = 1
  /\ hits = [id \in Identifiers |-> {}]

Tick ==
  /\ now < MaxTime
  /\ now' = now + 1
  /\ UNCHANGED hits

\* What ZADD adds: a member, scored with its time.
Entry(m, at) == [member |-> m, score |-> at]

\* Faulty: an entry stays one unit of time too long.
InWindowLong(id, at) == {e \in hits[id] : e.score + Window >= at}

\* ZREMRANGEBYSCORE -inf .. at - Window: the entries that stay.
InWindow(id, at) == {e \in hits[id] : e.score + Window > at}

Entries(id, m, at) == InWindow(id, at) \cup {Entry(m, at)}

\* Faulty: counted before the request is added.
WithinLimitBefore(id, m, at) == Cardinality(InWindow(id, at)) <= MaxRequests

\* ZCARD, compared with the limit.
WithinLimit(id, m, at) == Cardinality(Entries(id, m, at)) <= MaxRequests

\* Redis executes the pipeline of a check of m that was called at `at`.
Record(id, m, at) == hits' = [hits EXCEPT ![id] = Entries(id, m, at)]

=============================================================================
