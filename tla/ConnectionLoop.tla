---------------------------- MODULE ConnectionLoop ----------------------------
(***************************************************************************)
(* The two loops over ConnectionManager.connections that end sockets: the  *)
(* heartbeat's round (src/src/core/Heartbeat.ts) and closeAll              *)
(* (src/src/core/ConnectionManager.ts).  uWebSockets.js runs the close     *)
(* handler inside end(), and the handler deletes the entry, so the Map     *)
(* shrinks under the iterator.                                             *)
(*                                                                         *)
(* A Map keeps its entries in a list.  Deleting one leaves a hole where it *)
(* was, and an iterator goes on from its index to the next entry that is   *)
(* there.  Holes are dropped when no iterator is left to see them.         *)
(***************************************************************************)
EXTENDS Naturals, SequencesExt

CONSTANTS
  Sockets,
  Interval,   \* wsHeartbeatInterval
  Timeout,    \* wsHeartbeatTimeout
  Hole        \* the place of a deleted entry

ASSUME LoopAssumption ==
  /\ Interval \in Nat \ {0} /\ Timeout \in Nat
  /\ Hole \notin Sockets

VARIABLES
  entries,    \* the list of the Map `connections`
  open,       \* sockets that are open
  silence,    \* time since lastPong of each socket, 0 if it is not served
  due,        \* time to the next round
  loop,       \* the loop that runs, if one does
  index,      \* of the entry the iterator gave last
  visited,    \* sockets the loop has seen, in that order
  ended,      \* sockets the loop has ended
  shut        \* closeAll has run: a process shuts down once

loopVars == <<loop, index, visited, ended>>
vars == <<entries, open, silence, due, loopVars, shut>>

\* What an observer between two events sees: the sockets a loop has ended are
\* served until it is over.
Serving == open \cup ended

Atomic == INSTANCE Heartbeat WITH serving <- Serving

Init ==
  /\ entries = <<>>
  /\ open = {}
  /\ silence = [s \in Sockets |-> 0]
  /\ due = Interval
  /\ loop = "none" /\ index = 0 /\ visited = <<>> /\ ended = {}
  /\ shut = FALSE

-----------------------------------------------------------------------------
(* Events between the loops. *)

Idle == loop = "none" /\ UNCHANGED <<loopVars, shut>>

Opens(s) ==
  /\ Idle
  /\ s \notin open
  /\ open' = open \cup {s}
  /\ entries' = Append(entries, s)
  /\ silence' = [silence EXCEPT ![s] = 0]
  /\ UNCHANGED due

\* Faulty: the close handler leaves the entry in the Map.
ClosesUnnoticed(s) ==
  /\ Idle
  /\ s \in open
  /\ open' = open \ {s}
  /\ silence' = [silence EXCEPT ![s] = 0]
  /\ UNCHANGED <<entries, due>>

Closes(s) ==
  /\ Idle
  /\ s \in open
  /\ open' = open \ {s}
  /\ entries' = Remove(entries, s)
  /\ silence' = [silence EXCEPT ![s] = 0]
  /\ UNCHANGED due

Pongs(s) ==
  /\ Idle
  /\ s \in open
  /\ silence' = [silence EXCEPT ![s] = 0]
  /\ UNCHANGED <<entries, open, due>>

Elapses ==
  /\ Idle
  /\ due > 0
  /\ due' = due - 1
  /\ silence' = [s \in Sockets |->
       IF s \in open /\ silence[s] < Atomic!Capped THEN silence[s] + 1 ELSE silence[s]]
  /\ UNCHANGED <<entries, open>>

-----------------------------------------------------------------------------
(* The loops.  Nothing else happens while one runs. *)

RoundBegins ==
  /\ loop = "none"
  /\ due = 0
  /\ loop' = "round"
  /\ UNCHANGED <<entries, open, silence, due, index, visited, ended, shut>>

CloseAllBegins ==
  /\ loop = "none"
  /\ ~shut
  /\ shut' = TRUE
  /\ loop' = "closeAll"
  /\ UNCHANGED <<entries, open, silence, due, index, visited, ended>>

\* Faulty: the entries behind a deleted one move up, as in an array.
RemainingInArray ==
  {k \in DOMAIN entries : entries[k] # Hole
     /\ Cardinality({j \in 1 .. k - 1 : entries[j] # Hole}) >= Len(visited)}

\* Faulty: the loop is left with the first socket it ends.
RemainingUntilEnd ==
  {k \in DOMAIN entries : k > index /\ entries[k] # Hole /\ ended = {}}

\* The entries the iterator has still to give.
Remaining == {k \in DOMAIN entries : k > index /\ entries[k] # Hole}

\* The heartbeat ends those that missed theirs and pings the others.
MustEnd(s) == loop = "closeAll" \/ silence[s] > Interval + Timeout

\* end() and the close handler it runs
End(k) ==
  /\ entries' = [entries EXCEPT ![k] = Hole]
  /\ open' = open \ {entries[k]}
  /\ ended' = ended \cup {entries[k]}

Visit ==
  /\ loop # "none"
  /\ Remaining # {}
  /\ LET k == Min(Remaining)
     IN  /\ index' = k
         /\ visited' = Append(visited, entries[k])
         /\ IF MustEnd(entries[k]) THEN End(k) ELSE UNCHANGED <<entries, open, ended>>
  /\ UNCHANGED <<silence, due, loop, shut>>

\* closeAll clears the Map after its loop.
LoopEnds ==
  /\ loop # "none"
  /\ Remaining = {}
  /\ entries' = IF loop = "closeAll" THEN <<>> ELSE SelectSeq(entries, LAMBDA s : s # Hole)
  /\ due' = IF loop = "round" THEN Interval ELSE due
  /\ loop' = "none" /\ index' = 0 /\ visited' = <<>> /\ ended' = {}
  /\ silence' = [s \in Sockets |-> IF s \in open THEN silence[s] ELSE 0]
  /\ UNCHANGED <<open, shut>>

-----------------------------------------------------------------------------

Next ==
  \/ \E s \in Sockets : Opens(s) \/ Closes(s) \/ Pongs(s)
  \/ Elapses
  \/ RoundBegins \/ CloseAllBegins \/ Visit \/ LoopEnds

Spec == Init /\ [][Next]_vars

-----------------------------------------------------------------------------
(* Properties. *)

\* Types; the Map holds each open socket once, and holes only under a loop.
LoopTypeOK ==
  /\ entries \in Seq(Sockets \cup {Hole})
  /\ open \subseteq Sockets /\ ended \subseteq Sockets
  /\ silence \in [Sockets -> 0 .. Atomic!Capped]
  /\ due \in 0 .. Interval /\ shut \in BOOLEAN
  /\ loop \in {"none", "round", "closeAll"}
  /\ index \in 0 .. Len(entries) /\ visited \in Seq(Sockets)
  /\ \A s \in Sockets : Cardinality({k \in DOMAIN entries : entries[k] = s})
                          = IF s \in open THEN 1 ELSE 0
  /\ loop = "none" => ToSet(entries) \subseteq Sockets

\* However many sockets a loop ends on its way, it gives none a second time
\* and passes over none: who was there when it began has been seen or is still
\* to come, and when nothing is to come all have been seen.
EachOnce ==
  loop # "none" =>
    LET toCome == {entries[k] : k \in Remaining}
    IN  /\ IsInjective(visited)
        /\ ToSet(visited) \cap toCome = {}
        /\ ToSet(visited) \cup toCome = Serving

\* A whole loop is one step of the server's heartbeat: a round ends exactly
\* the sockets that had missed theirs when it began, closeAll ends all, and no
\* socket stays open that the Map has forgotten.
LoopsAtomic == Atomic!HbSpec
=============================================================================
