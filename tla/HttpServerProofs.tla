--------------------------- MODULE HttpServerProofs ---------------------------
(***************************************************************************)
(* Theorems about HttpServer, for any requests, instances and limits:      *)
(* what a request routes and answers, and what can end a process.          *)
(***************************************************************************)
EXTENDS HttpServer, FiniteSetTheorems, TLAPS

-----------------------------------------------------------------------------
(* The invariant: where a request can be, and what it has done by then.    *)

Shape ==
  /\ phase \in [Reqs -> {"new", "checking", "reading", "pinging", "answered", "gone"}]
  /\ status \in [Reqs -> Nat]
  /\ routed \in [Reqs -> Nat]
  /\ verdict \in [Reqs -> {"none", "allowed", "refused", "failed"}]
  /\ waiting \in [Instances -> Seq(Reqs)]
  /\ complete \subseteq Posts

\* Nothing has gone out yet.
Untouched(q) == routed[q] = 0 /\ status[q] = 0

\* RoutedRightly for one request
Settled(q) ==
  /\ routed[q] <= 1
  /\ status[q] = 200 => (routed[q] = 1 <=> q \notin Unroutable)
  /\ routed[q] = 1 =>
       /\ q \in (WithKey \cap complete \cap GoodBody) \ Unroutable
       /\ verdict[q] \in {"allowed", "failed"}
       /\ status[q] = 200 \/ q \in aborted

PostInv(q) ==
  /\ phase[q] # "pinging"
  /\ phase[q] \in {"new", "checking", "reading"} => Untouched(q)
  /\ phase[q] \in {"checking", "reading"} => q \in WithKey
  /\ phase[q] = "reading" => q \notin complete /\ verdict[q] \in {"allowed", "failed"}
  /\ Settled(q)

\* A request has arrived before its client can go away.
ArrivedInv(q) == phase[q] = "new" => q \notin aborted

\* While a process lives, each of its requests that wait for Redis is in its
\* queue once, in the phase that waits.
QueueInv(i) ==
  i \notin crashed =>
    /\ \A k \in DOMAIN waiting[i] :
         /\ Home[waiting[i][k]] = i
         /\ waiting[i][k] \in Posts => phase[waiting[i][k]] = "checking"
         /\ phase[waiting[i][k]] # "new"
    /\ \A j, k \in DOMAIN waiting[i] : waiting[i][j] = waiting[i][k] => j = k

HttpInv ==
  /\ Shape
  /\ \A q \in Posts : PostInv(q)
  /\ \A q \in Reqs : ArrivedInv(q)
  /\ \A i \in Instances : QueueInv(i)
  /\ CrashOnlyAfterAbort

-----------------------------------------------------------------------------
(* A step of request q: what it may do to the others. *)

Spares(q) ==
  /\ \A p \in Reqs \ {q} :
       /\ status'[p] = status[p] /\ routed'[p] = routed[p] /\ verdict'[p] = verdict[p]
       /\ \/ phase'[p] = phase[p]
          \/ p \in Pending /\ phase'[p] = "gone" /\ Home[p] \in crashed'
  /\ aborted \subseteq aborted' /\ aborted' \subseteq aborted \cup {q}
  /\ complete \subseteq complete' /\ complete' \subseteq complete \cup {q}
  /\ crashed \subseteq crashed'
  /\ \A i \in crashed' \ crashed : i = Home[q] /\ q \in Posts \cap aborted'

\* The other posts keep their invariant.
LEMMA OthersKept ==
  ASSUME HttpInv, NEW q \in Reqs, Spares(q), NEW p \in Posts, p # q PROVE PostInv(p)'
  <1>1. p \in Reqs \ {q}
    BY DEF Reqs
  <1>2. PostInv(p)
    BY DEF HttpInv
  <1>3. routed'[p] = routed[p] /\ status'[p] = status[p] /\ verdict'[p] = verdict[p]
    BY <1>1 DEF Spares
  <1>4. (p \in complete' <=> p \in complete) /\ (p \in aborted' <=> p \in aborted)
    BY <1>1 DEF Spares
  <1>5. phase'[p] = phase[p] \/ phase'[p] = "gone"
    BY <1>1 DEF Spares
  <1>. QED
    BY <1>2, <1>3, <1>4, <1>5 DEF PostInv, Settled, Untouched

\* A step of q keeps what does not depend on the queues.
LEMMA RequestStep ==
  ASSUME HttpInv, NEW q \in Reqs, Spares(q), Shape',
         q \in Posts => PostInv(q)',
         phase'[q] # "new" \/ q \notin aborted'
  PROVE  /\ Shape'
         /\ \A p \in Posts : PostInv(p)'
         /\ \A p \in Reqs : ArrivedInv(p)'
         /\ CrashOnlyAfterAbort'
  <1>1. \A p \in Posts : PostInv(p)'
    BY OthersKept
  <1>2. ASSUME NEW p \in Reqs PROVE ArrivedInv(p)'
    <2>1. CASE p = q
      BY <2>1 DEF ArrivedInv
    <2>2. CASE p # q
      <3>1. phase'[p] = phase[p] \/ phase'[p] = "gone"
        BY <2>2 DEF Spares
      <3>2. p \in aborted' => p \in aborted
        BY <2>2 DEF Spares
      <3>. QED
        BY <3>1, <3>2 DEF HttpInv, ArrivedInv
    <2>. QED
      BY <2>1, <2>2
  <1>3. ASSUME NEW i \in crashed' PROVE \E p \in Posts \cap aborted' : Home[p] = i
    <2>1. CASE i \in crashed
      BY <2>1 DEF HttpInv, CrashOnlyAfterAbort, Spares
    <2>2. CASE i \notin crashed
      BY <2>2 DEF Spares
    <2>. QED
      BY <2>1, <2>2
  <1>. QED
    BY <1>1, <1>2, <1>3 DEF CrashOnlyAfterAbort

-----------------------------------------------------------------------------
(* The queues. *)

\* A phase that changes is that of q or of a request whose process ends.
LEMMA PhaseOfOthers ==
  ASSUME NEW q \in Reqs, Spares(q), NEW p \in Reqs, p # q, Home[p] \notin crashed'
  PROVE  phase'[p] = phase[p]
  BY DEF Spares

\* The queues stay as they are, and q is in none, or in the same phase.
LEMMA QueueSame ==
  ASSUME HttpInv, NEW q \in Reqs, Spares(q), waiting' = waiting,
         \/ phase'[q] = phase[q]
         \/ phase[q] = "new"
         \/ q \in Posts /\ phase[q] = "reading"
         \/ Home[q] \in crashed',
         NEW i \in Instances
  PROVE  QueueInv(i)'
  <1>. SUFFICES ASSUME i \notin crashed' PROVE QueueInv(i)'
    BY DEF QueueInv
  <1>1. i \notin crashed
    BY DEF Spares
  <1>2. QueueInv(i) /\ waiting[i] \in Seq(Reqs)
    BY DEF HttpInv, Shape
  <1>3. ASSUME NEW k \in DOMAIN waiting[i]
        PROVE  phase'[waiting[i][k]] = phase[waiting[i][k]]
    <2>1. waiting[i][k] \in Reqs /\ Home[waiting[i][k]] = i
      BY <1>1, <1>2 DEF QueueInv
    <2>2. CASE waiting[i][k] # q
      BY <2>1, <2>2, PhaseOfOthers
    <2>3. CASE waiting[i][k] = q
      BY <1>1, <1>2, <2>1, <2>3 DEF QueueInv
    <2>. QED
      BY <2>2, <2>3
  <1>. QED
    BY <1>1, <1>2, <1>3 DEF QueueInv

\* A request that arrives joins the queue of its instance.
LEMMA QueueJoin ==
  ASSUME HttpInv, NEW q \in Reqs, Spares(q), phase[q] = "new",
         waiting' = [waiting EXCEPT ![Home[q]] = Append(@, q)],
         phase'[q] # "new",
         q \in Posts => phase'[q] = "checking",
         NEW i \in Instances
  PROVE  QueueInv(i)'
  <1>. SUFFICES ASSUME i \notin crashed' PROVE QueueInv(i)'
    BY DEF QueueInv
  <1>1. i \notin crashed
    BY DEF Spares
  <1>2. QueueInv(i) /\ waiting[i] \in Seq(Reqs) /\ Home[q] \in Instances
        /\ DOMAIN waiting = Instances
    BY HttpAssumption DEF HttpInv, Shape
  <1>3. ASSUME NEW k \in DOMAIN waiting[i]
        PROVE  /\ waiting[i][k] # q /\ Home[waiting[i][k]] = i
               /\ phase'[waiting[i][k]] = phase[waiting[i][k]]
    <2>1. waiting[i][k] \in Reqs /\ Home[waiting[i][k]] = i /\ waiting[i][k] # q
      BY <1>1, <1>2 DEF QueueInv
    <2>. QED
      BY <2>1, PhaseOfOthers
  <1>4. CASE i # Home[q]
    <2>1. waiting'[i] = waiting[i]
      BY <1>2, <1>4
    <2>. QED
      BY <1>1, <1>2, <1>3, <2>1 DEF QueueInv
  <1>5. CASE i = Home[q]
    <2>. DEFINE w == waiting[i]
    <2>1. waiting'[i] = Append(w, q)
      BY <1>2, <1>5
    <2>2. DOMAIN waiting'[i] = 1 .. Len(w) + 1 /\ DOMAIN w = 1 .. Len(w) /\ Len(w) \in Nat
      BY <1>2, <2>1
    <2>3. \A k \in DOMAIN w : waiting'[i][k] = w[k]
      BY <1>2, <2>1
    <2>4. waiting'[i][Len(w) + 1] = q
      BY <1>2, <2>1
    <2>5. ASSUME NEW k \in DOMAIN waiting'[i]
          PROVE  /\ Home[waiting'[i][k]] = i
                 /\ waiting'[i][k] \in Posts => phase'[waiting'[i][k]] = "checking"
                 /\ phase'[waiting'[i][k]] # "new"
      <3>1. CASE k \in DOMAIN w
        BY <1>1, <1>2, <1>3, <2>3, <3>1 DEF QueueInv
      <3>2. CASE k = Len(w) + 1
        BY <1>5, <2>4, <3>2
      <3>. QED
        BY <2>2, <3>1, <3>2
    <2>6. ASSUME NEW j \in DOMAIN waiting'[i], NEW k \in DOMAIN waiting'[i],
                 waiting'[i][j] = waiting'[i][k]
          PROVE  j = k
      <3>1. CASE j \in DOMAIN w /\ k \in DOMAIN w
        BY <1>1, <1>2, <2>3, <2>6, <3>1 DEF QueueInv
      <3>2. CASE j = Len(w) + 1 \/ k = Len(w) + 1
        BY <1>3, <2>2, <2>3, <2>4, <2>6, <3>2
      <3>. QED
        BY <2>2, <3>1, <3>2
    <2>. QED
      BY <2>5, <2>6 DEF QueueInv
  <1>. QED
    BY <1>4, <1>5

\* The oldest request leaves the queue of its instance.
LEMMA QueueLeave ==
  ASSUME HttpInv, NEW q \in Reqs, Spares(q), Oldest(q), NEW i \in Instances
  PROVE  QueueInv(i)'
  <1>. SUFFICES ASSUME i \notin crashed' PROVE QueueInv(i)'
    BY DEF QueueInv
  <1>1. i \notin crashed
    BY DEF Spares
  <1>2. QueueInv(i) /\ waiting[i] \in Seq(Reqs) /\ Home[q] \in Instances
        /\ DOMAIN waiting = Instances
    BY HttpAssumption DEF HttpInv, Shape
  <1>3. \A k \in DOMAIN waiting[i] : waiting[i][k] \in Reqs /\ Home[waiting[i][k]] = i
    BY <1>1, <1>2 DEF QueueInv
  <1>4. CASE i # Home[q]
    <2>1. waiting'[i] = waiting[i]
      BY <1>2, <1>4 DEF Oldest
    <2>2. \A k \in DOMAIN waiting[i] : phase'[waiting[i][k]] = phase[waiting[i][k]]
      BY <1>3, <1>4, PhaseOfOthers
    <2>. QED
      BY <1>1, <1>2, <2>1, <2>2 DEF QueueInv
  <1>5. CASE i = Home[q]
    <2>. DEFINE w == waiting[i]
    <2>1. waiting'[i] = Tail(w) /\ w # <<>> /\ q = Head(w)
      BY <1>2, <1>5 DEF Oldest
    <2>2. Len(w) \in Nat \ {0} /\ DOMAIN w = 1 .. Len(w) /\ q = w[1]
      BY <1>2, <2>1
    <2>3. DOMAIN waiting'[i] = 1 .. Len(w) - 1
      BY <1>2, <2>1, <2>2
    <2>4. \A k \in DOMAIN waiting'[i] : waiting'[i][k] = w[k + 1] /\ k + 1 \in DOMAIN w
      BY <1>2, <2>1, <2>2, <2>3
    <2>5. ASSUME NEW k \in DOMAIN waiting'[i]
          PROVE  phase'[w[k + 1]] = phase[w[k + 1]]
      <3>1. k + 1 \in DOMAIN w /\ 1 \in DOMAIN w /\ k + 1 # 1
        BY <2>2, <2>3, <2>4
      <3>2. w[k + 1] # q
        BY <1>1, <1>2, <2>2, <3>1 DEF QueueInv
      <3>. QED
        BY <1>3, <3>1, <3>2, PhaseOfOthers
    <2>6. \A j, k \in DOMAIN waiting'[i] : waiting'[i][j] = waiting'[i][k] => j = k
      <3>. SUFFICES ASSUME NEW j \in DOMAIN waiting'[i], NEW k \in DOMAIN waiting'[i],
                           w[j + 1] = w[k + 1]
                    PROVE  j = k
        BY <2>4
      <3>1. j + 1 = k + 1
        BY <1>1, <1>2, <2>4 DEF QueueInv
      <3>. QED
        BY <2>2, <2>3, <3>1
    <2>. QED
      BY <1>1, <1>2, <2>4, <2>5, <2>6 DEF QueueInv
  <1>. QED
    BY <1>4, <1>5

-----------------------------------------------------------------------------
(* Answers and crashes. *)

Phases == {"new", "checking", "reading", "pinging", "answered", "gone"}

LEMMA CrashEffect ==
  ASSUME Shape, NEW q \in Reqs, Crash(q)
  PROVE  /\ phase' \in [Reqs -> Phases]
         /\ status' = status
         /\ crashed' = crashed \cup {Home[q]}
         /\ \A p \in Reqs :
              \/ phase'[p] = phase[p]
              \/ p \in Pending /\ phase'[p] = "gone" /\ Home[p] \in crashed'
         /\ q \in Pending => phase'[q] = "gone"
  BY DEF Crash, Shape, Phases

LEMMA RespondEffect ==
  ASSUME Shape, NEW q \in Reqs, NEW st \in Nat, Respond(q, st)
  PROVE  /\ phase' \in [Reqs -> Phases]
         /\ status' \in [Reqs -> Nat]
         /\ \A p \in Reqs \ {q} :
              /\ status'[p] = status[p]
              /\ \/ phase'[p] = phase[p]
                 \/ p \in Pending /\ phase'[p] = "gone" /\ Home[p] \in crashed'
         /\ q \notin aborted =>
              phase'[q] = "answered" /\ status'[q] = st /\ crashed' = crashed
         /\ q \in aborted =>
              /\ q \in Pending => phase'[q] = "gone"
              /\ status'[q] = status[q]
              /\ crashed' = crashed \cup {Home[q]}
  <1>1. CASE q \notin aborted
    BY <1>1 DEF Respond, Shape, Phases
  <1>2. CASE q \in aborted
    <2>1. Crash(q)
      BY <1>2 DEF Respond
    <2>. QED
      BY <1>2, <2>1, CrashEffect DEF Shape
  <1>. QED
    BY <1>1, <1>2

\* The try block leaves a post settled: it has gone out at most once, and
\* before a 200 unless its target is unknown.
LEMMA FinishEffect ==
  ASSUME Shape, NEW q \in Posts, q \in Pending, Untouched(q), q \in WithKey,
         Finish(q), aborted' = aborted, q \in complete',
         verdict'[q] \in {"allowed", "failed"}
  PROVE  /\ phase' \in [Reqs -> Phases]
         /\ status' \in [Reqs -> Nat]
         /\ routed' \in [Reqs -> Nat]
         /\ \A p \in Reqs \ {q} :
              /\ status'[p] = status[p] /\ routed'[p] = routed[p]
              /\ \/ phase'[p] = phase[p]
                 \/ p \in Pending /\ phase'[p] = "gone" /\ Home[p] \in crashed'
         /\ crashed \subseteq crashed'
         /\ \A i \in crashed' \ crashed : i = Home[q] /\ q \in aborted
         /\ phase'[q] \in {"answered", "gone"}
         /\ PostInv(q)'
  <1>. DEFINE Effect(st) ==
         /\ phase' \in [Reqs -> Phases]
         /\ status' \in [Reqs -> Nat]
         /\ \A p \in Reqs \ {q} :
              /\ status'[p] = status[p]
              /\ \/ phase'[p] = phase[p]
                 \/ p \in Pending /\ phase'[p] = "gone" /\ Home[p] \in crashed'
         /\ \/ phase'[q] = "answered" /\ status'[q] = st /\ crashed' = crashed
            \/ /\ q \in aborted /\ phase'[q] = "gone" /\ status'[q] = 0
               /\ crashed' = crashed \cup {Home[q]}
  <1>. q \in Reqs /\ status[q] = 0
    BY DEF Reqs, Untouched
  <1>1. CASE q \in GoodBody
    <2>1. Respond(q, 200) /\ routed' = [routed EXCEPT ![q] = IF q \in Unroutable THEN @ ELSE @ + 1]
      BY <1>1 DEF Finish
    <2>2. routed' \in [Reqs -> Nat] /\ routed'[q] = (IF q \in Unroutable THEN 0 ELSE 1)
          /\ \A p \in Reqs \ {q} : routed'[p] = routed[p]
      BY <2>1 DEF Shape, Untouched
    <2>3. Effect(200)
      BY <2>1, RespondEffect
    <2>4. PostInv(q)'
      BY <1>1, <2>2, <2>3 DEF PostInv, Settled, Untouched
    <2>. QED
      BY <2>2, <2>3, <2>4
  <1>2. CASE q \notin GoodBody
    <2>1. Respond(q, 400) /\ routed' = routed
      BY <1>2 DEF Finish
    <2>2. Effect(400)
      BY <2>1, RespondEffect
    <2>3. PostInv(q)'
      BY <1>2, <2>1, <2>2 DEF PostInv, Settled, Untouched
    <2>. QED
      BY <2>1, <2>2, <2>3 DEF Shape
  <1>. QED
    BY <1>1, <1>2

LEMMA Combined ==
  ASSUME HttpInv, NEW q \in Reqs, Spares(q), Shape',
         q \in Posts => PostInv(q)',
         phase'[q] # "new" \/ q \notin aborted',
         \A i \in Instances : QueueInv(i)'
  PROVE  HttpInv'
  BY RequestStep DEF HttpInv

-----------------------------------------------------------------------------
(* The actions. *)

LEMMA HttpStarts == ASSUME Init PROVE HttpInv
  <1>1. Shape
    BY DEF Init, Shape
  <1>2. \A q \in Posts : PostInv(q)
    BY DEF Init, PostInv, Settled, Untouched, Reqs
  <1>3. \A q \in Reqs : ArrivedInv(q)
    BY DEF Init, ArrivedInv
  <1>4. ASSUME NEW i \in Instances PROVE QueueInv(i)
    BY <1>4 DEF Init, QueueInv
  <1>. QED
    BY <1>1, <1>2, <1>3, <1>4 DEF HttpInv, Init, CrashOnlyAfterAbort

LEMMA AnswerAtOnceStep ==
  ASSUME HttpInv, NEW q \in Reqs, AnswerAtOnce(q) PROVE HttpInv'
  <1>. DEFINE st == IF q \in WithKey THEN 200 ELSE 401
  <1>1. phase[q] = "new" /\ Respond(q, st) /\ q \notin aborted
        /\ UNCHANGED <<complete, aborted, waiting, routed, verdict>>
    BY DEF AnswerAtOnce, Arrives, HttpInv, ArrivedInv, histVars
  <1>2. st \in Nat
    OBVIOUS
  <1>3. Shape
    BY DEF HttpInv
  <1>4. Spares(q)
    BY <1>1, <1>2, <1>3, RespondEffect DEF Spares
  <1>5. Shape'
    BY <1>1, <1>2, <1>3, RespondEffect DEF Shape, Phases
  <1>6. phase'[q] = "answered" /\ status'[q] = st
    BY <1>1, <1>2, <1>3, RespondEffect
  <1>7. ASSUME q \in Posts PROVE PostInv(q)'
    <2>1. q \notin WithKey
      BY <1>7, HttpAssumption DEF AnswerAtOnce
    <2>2. routed'[q] = 0
      BY <1>1, <1>7 DEF HttpInv, PostInv, Untouched
    <2>. QED
      BY <1>1, <1>6, <2>1, <2>2 DEF PostInv, Settled
  <1>8. \A i \in Instances : QueueInv(i)'
    BY <1>1, <1>4, QueueSame
  <1>. QED
    BY <1>4, <1>5, <1>6, <1>7, <1>8, Combined

LEMMA JoinShape ==
  ASSUME Shape, NEW q \in Reqs, waiting' = [waiting EXCEPT ![Home[q]] = Append(@, q)]
  PROVE  waiting' \in [Instances -> Seq(Reqs)]
  <1>1. Home[q] \in Instances
    BY HttpAssumption
  <1>2. waiting[Home[q]] \in Seq(Reqs)
    BY <1>1 DEF Shape
  <1>3. Append(waiting[Home[q]], q) \in Seq(Reqs)
    BY <1>2
  <1>. QED
    BY <1>3 DEF Shape

LEMMA ReceivePostStep ==
  ASSUME HttpInv, NEW q \in Reqs, ReceivePost(q) PROVE HttpInv'
  <1>1. phase[q] = "new" /\ q \in Posts \cap WithKey
        /\ phase' = [phase EXCEPT ![q] = "checking"]
        /\ waiting' = [waiting EXCEPT ![Home[q]] = Append(@, q)]
        /\ UNCHANGED <<complete, aborted, status, crashed, routed, verdict>>
    BY DEF ReceivePost, Arrives
  <1>2. Spares(q)
    BY <1>1 DEF Spares, HttpInv, Shape
  <1>3. Shape'
    <2>1. waiting' \in [Instances -> Seq(Reqs)]
      BY <1>1, JoinShape DEF HttpInv
    <2>. QED
      BY <1>1, <2>1 DEF HttpInv, Shape
  <1>4. PostInv(q)' /\ phase'[q] = "checking"
    BY <1>1 DEF HttpInv, Shape, PostInv, Settled, Untouched
  <1>5. \A i \in Instances : QueueInv(i)'
    BY <1>1, <1>2, <1>4, QueueJoin
  <1>. QED
    BY <1>2, <1>3, <1>4, <1>5, Combined

LEMMA ReceiveHealthStep ==
  ASSUME HttpInv, NEW q \in Reqs, ReceiveHealth(q) PROVE HttpInv'
  <1>1. phase[q] = "new" /\ q \in Healths
        /\ phase' = [phase EXCEPT ![q] = "pinging"]
        /\ waiting' = [waiting EXCEPT ![Home[q]] = Append(@, q)]
        /\ UNCHANGED <<complete, aborted, status, crashed, routed, verdict>>
    BY DEF ReceiveHealth, Arrives, histVars
  <1>2. Spares(q)
    BY <1>1 DEF Spares, HttpInv, Shape
  <1>3. Shape'
    <2>1. waiting' \in [Instances -> Seq(Reqs)]
      BY <1>1, JoinShape DEF HttpInv
    <2>. QED
      BY <1>1, <2>1 DEF HttpInv, Shape
  <1>4. q \notin Posts /\ phase'[q] = "pinging"
    BY <1>1, HttpAssumption DEF HttpInv, Shape
  <1>5. \A i \in Instances : QueueInv(i)'
    BY <1>1, <1>2, <1>4, QueueJoin
  <1>. QED
    BY <1>2, <1>3, <1>4, <1>5, Combined

LEMMA BodyCompleteStep ==
  ASSUME HttpInv, NEW q \in Reqs, BodyComplete(q) PROVE HttpInv'
  <1>1. q \in Posts /\ q \in Pending /\ q \notin complete
        /\ complete' = complete \cup {q}
        /\ UNCHANGED <<aborted, waiting, verdict>>
    BY DEF BodyComplete, histVars
  <1>2. Shape /\ PostInv(q)
    BY <1>1 DEF HttpInv
  <1>3. phase[q] \in {"checking", "reading"} /\ Untouched(q) /\ q \in WithKey
    BY <1>1, <1>2 DEF Pending, PostInv
  <1>4. CASE phase[q] = "reading"
    <2>1. Finish(q) /\ verdict'[q] \in {"allowed", "failed"}
      BY <1>1, <1>2, <1>4 DEF BodyComplete, PostInv
    <2>2. Spares(q)
      BY <1>1, <1>2, <1>3, <2>1, FinishEffect DEF Spares
    <2>3. Shape'
      <3>1. phase' \in [Reqs -> Phases] /\ status' \in [Reqs -> Nat] /\ routed' \in [Reqs -> Nat]
        BY <1>1, <1>2, <1>3, <2>1, FinishEffect
      <3>. QED
        BY <1>1, <1>2, <3>1 DEF Shape, Phases
    <2>4. PostInv(q)' /\ phase'[q] # "new"
      BY <1>1, <1>2, <1>3, <2>1, FinishEffect
    <2>5. \A i \in Instances : QueueInv(i)'
      BY <1>1, <1>4, <2>2, QueueSame
    <2>. QED
      BY <2>2, <2>3, <2>4, <2>5, Combined
  <1>5. CASE phase[q] = "checking"
    <2>1. UNCHANGED <<phase, status, crashed, routed>>
      BY <1>5 DEF BodyComplete
    <2>2. Spares(q)
      BY <1>1, <2>1 DEF Spares
    <2>3. Shape'
      BY <1>1, <1>2, <2>1 DEF Shape
    <2>4. PostInv(q)' /\ phase'[q] # "new"
      BY <1>1, <1>2, <1>5, <2>1 DEF PostInv, Settled, Untouched
    <2>5. \A i \in Instances : QueueInv(i)'
      BY <1>1, <2>1, <2>2, QueueSame
    <2>. QED
      BY <2>2, <2>3, <2>4, <2>5, Combined
  <1>. QED
    BY <1>3, <1>4, <1>5

LEMMA AbortStep ==
  ASSUME HttpInv, NEW q \in Reqs, Abort(q) PROVE HttpInv'
  <1>1. q \in Pending /\ aborted' = aborted \cup {q}
        /\ UNCHANGED <<complete, waiting, routed, verdict>>
    BY DEF Abort, histVars
  <1>2. Shape /\ (q \in Posts => PostInv(q))
    BY DEF HttpInv
  <1>3. CASE q \in Posts \ complete
    <2>1. Crash(q)
      BY <1>3 DEF Abort
    <2>2. Spares(q)
      BY <1>1, <1>2, <1>3, <2>1, CrashEffect DEF Spares
    <2>3. Shape' /\ phase'[q] = "gone" /\ status' = status /\ Home[q] \in crashed'
      BY <1>1, <1>2, <2>1, CrashEffect DEF Shape, Phases
    <2>4. PostInv(q)'
      BY <1>1, <1>2, <1>3, <2>3 DEF PostInv, Settled, Untouched, Pending
    <2>5. \A i \in Instances : QueueInv(i)'
      BY <1>1, <2>2, <2>3, QueueSame
    <2>. QED
      BY <2>2, <2>3, <2>4, <2>5, Combined
  <1>4. CASE q \notin Posts \ complete
    <2>1. UNCHANGED <<phase, status, crashed>>
      BY <1>4 DEF Abort
    <2>2. Spares(q)
      BY <1>1, <2>1 DEF Spares
    <2>3. Shape' /\ phase'[q] # "new"
      BY <1>1, <1>2, <2>1 DEF Shape, Pending
    <2>4. q \in Posts => PostInv(q)'
      BY <1>1, <1>2, <2>1 DEF PostInv, Settled, Untouched
    <2>5. \A i \in Instances : QueueInv(i)'
      BY <1>1, <2>1, <2>2, QueueSame
    <2>. QED
      BY <2>2, <2>3, <2>4, <2>5, Combined
  <1>. QED
    BY <1>3, <1>4

\* The oldest request of a process that lives is a post that is being checked,
\* or no post.
LEMMA OldestPhase ==
  ASSUME HttpInv, NEW q \in Reqs, Oldest(q)
  PROVE  /\ q \in Posts => phase[q] = "checking"
         /\ phase[q] # "new"
         /\ waiting' \in [Instances -> Seq(Reqs)]
  <1>. DEFINE w == waiting[Home[q]]
  <1>1. Home[q] \in Instances /\ Home[q] \notin crashed /\ w \in Seq(Reqs) /\ w # <<>>
        /\ q = w[1] /\ waiting' = [waiting EXCEPT ![Home[q]] = Tail(w)]
    BY HttpAssumption DEF Oldest, HttpInv, Shape
  <1>2. 1 \in DOMAIN w /\ Tail(w) \in Seq(Reqs)
    BY <1>1
  <1>. QED
    BY <1>1, <1>2 DEF HttpInv, Shape, QueueInv

\* The step of a check that lets its request pass.
LEMMA GoOnStep ==
  ASSUME HttpInv, NEW q \in Posts, Oldest(q), GoOn(q),
         NEW v \in {"allowed", "failed"}, Says(q, v),
         UNCHANGED <<complete, aborted>>
  PROVE  HttpInv'
  <1>. q \in Reqs
    BY DEF Reqs
  <1>1. Shape /\ PostInv(q)
    BY DEF HttpInv
  <1>2. phase[q] = "checking" /\ q \in Pending /\ Untouched(q) /\ q \in WithKey
        /\ waiting' \in [Instances -> Seq(Reqs)]
    BY <1>1, OldestPhase DEF PostInv, Pending
  <1>3. verdict'[q] = v /\ (\A p \in Reqs \ {q} : verdict'[p] = verdict[p])
        /\ verdict' \in [Reqs -> {"none", "allowed", "refused", "failed"}]
    BY <1>1 DEF Says, Shape
  <1>4. CASE q \in complete
    <2>1. Finish(q)
      BY <1>4 DEF GoOn
    <2>2. Spares(q)
      BY <1>1, <1>2, <1>3, <1>4, <2>1, FinishEffect DEF Spares
    <2>3. Shape'
      <3>1. phase' \in [Reqs -> Phases] /\ status' \in [Reqs -> Nat] /\ routed' \in [Reqs -> Nat]
        BY <1>1, <1>2, <1>3, <1>4, <2>1, FinishEffect
      <3>. QED
        BY <1>1, <1>2, <1>3, <3>1 DEF Shape, Phases
    <2>4. PostInv(q)' /\ phase'[q] # "new"
      BY <1>1, <1>2, <1>3, <1>4, <2>1, FinishEffect
    <2>5. \A i \in Instances : QueueInv(i)'
      BY <2>2, QueueLeave
    <2>. QED
      BY <2>2, <2>3, <2>4, <2>5, Combined
  <1>5. CASE q \notin complete
    <2>1. phase' = [phase EXCEPT ![q] = "reading"] /\ UNCHANGED <<status, crashed, routed>>
      BY <1>5 DEF GoOn
    <2>2. Spares(q)
      BY <1>1, <1>3, <2>1 DEF Spares, Shape
    <2>3. Shape' /\ phase'[q] = "reading"
      BY <1>1, <1>2, <1>3, <2>1 DEF Shape
    <2>4. PostInv(q)'
      BY <1>1, <1>2, <1>3, <1>5, <2>1, <2>3 DEF PostInv, Settled, Untouched
    <2>5. \A i \in Instances : QueueInv(i)'
      BY <2>2, QueueLeave
    <2>. QED
      BY <2>2, <2>3, <2>4, <2>5, Combined
  <1>. QED
    BY <1>4, <1>5

LEMMA RefusedStep ==
  ASSUME HttpInv, NEW q \in Posts, Oldest(q), Respond(q, 429), Says(q, "refused"),
         UNCHANGED <<complete, aborted, routed>>
  PROVE  HttpInv'
  <1>. q \in Reqs
    BY DEF Reqs
  <1>1. Shape /\ PostInv(q)
    BY DEF HttpInv
  <1>2. phase[q] = "checking" /\ q \in Pending /\ Untouched(q)
        /\ waiting' \in [Instances -> Seq(Reqs)]
    BY <1>1, OldestPhase DEF PostInv, Pending
  <1>3. (\A p \in Reqs \ {q} : verdict'[p] = verdict[p])
        /\ verdict' \in [Reqs -> {"none", "allowed", "refused", "failed"}]
    BY <1>1 DEF Says, Shape
  <1>4. Spares(q)
    BY <1>1, <1>3, RespondEffect DEF Spares
  <1>5. Shape'
    BY <1>1, <1>2, <1>3, RespondEffect DEF Shape, Phases
  <1>6. PostInv(q)' /\ phase'[q] # "new"
    <2>1. phase'[q] \in {"answered", "gone"} /\ status'[q] \in {0, 429}
      BY <1>1, <1>2, RespondEffect DEF Untouched
    <2>. QED
      BY <1>2, <2>1 DEF PostInv, Settled, Untouched
  <1>7. \A i \in Instances : QueueInv(i)'
    BY <1>4, QueueLeave
  <1>. QED
    BY <1>4, <1>5, <1>6, <1>7, Combined

LEMMA PingAnsweredStep ==
  ASSUME HttpInv, NEW q \in Reqs, PingAnswered(q) PROVE HttpInv'
  <1>1. q \in Healths /\ Oldest(q)
        /\ phase' = [phase EXCEPT ![q] = IF q \in aborted THEN "gone" ELSE "answered"]
        /\ status' = [status EXCEPT ![q] = IF q \in aborted THEN 0 ELSE 200]
        /\ UNCHANGED <<complete, aborted, crashed, routed, verdict>>
    BY DEF PingAnswered, histVars
  <1>2. Shape /\ waiting' \in [Instances -> Seq(Reqs)]
    BY <1>1, OldestPhase DEF HttpInv
  <1>3. Spares(q)
    BY <1>1, <1>2 DEF Spares, Shape
  <1>4. Shape' /\ phase'[q] # "new"
    BY <1>1, <1>2 DEF Shape
  <1>5. q \notin Posts
    BY <1>1, HttpAssumption
  <1>6. \A i \in Instances : QueueInv(i)'
    BY <1>1, <1>3, QueueLeave
  <1>. QED
    BY <1>3, <1>4, <1>5, <1>6, Combined

LEMMA StutterStep ==
  ASSUME HttpInv, UNCHANGED <<reqVars, verdict>> PROVE HttpInv'
  BY DEF HttpInv, reqVars, Shape, PostInv, Settled, Untouched, ArrivedInv, QueueInv,
         CrashOnlyAfterAbort

LEMMA HttpKept ==
  ASSUME HttpInv, [Next]_vars PROVE HttpInv'
  <1>1. CASE HttpTick
    BY <1>1, StutterStep DEF HttpTick, histVars
  <1>2. ASSUME NEW q \in Reqs,
               AnswerAtOnce(q) \/ ReceivePost(q) \/ ReceiveHealth(q)
                 \/ BodyComplete(q) \/ Abort(q)
        PROVE  HttpInv'
    BY <1>2, AnswerAtOnceStep, ReceivePostStep, ReceiveHealthStep, BodyCompleteStep, AbortStep
  <1>3. ASSUME NEW q \in Reqs, CheckAnswered(q) PROVE HttpInv'
    <2>1. q \in Posts /\ Oldest(q) /\ UNCHANGED <<complete, aborted>>
      BY <1>3 DEF CheckAnswered
    <2>2. \/ Says(q, "allowed") /\ GoOn(q)
          \/ Says(q, "refused") /\ Respond(q, 429) /\ UNCHANGED routed
      BY <1>3 DEF CheckAnswered
    <2>. QED
      BY <2>1, <2>2, GoOnStep, RefusedStep
  <1>4. ASSUME NEW q \in Reqs, CheckFails(q) PROVE HttpInv'
    <2>1. q \in Posts /\ Oldest(q) /\ UNCHANGED <<complete, aborted>>
          /\ Says(q, "failed") /\ GoOn(q)
      BY <1>4 DEF CheckFails
    <2>. QED
      BY <2>1, GoOnStep
  <1>5. ASSUME NEW q \in Reqs, PingAnswered(q) PROVE HttpInv'
    BY <1>5, PingAnsweredStep
  <1>6. CASE UNCHANGED vars
    BY <1>6, StutterStep DEF vars, histVars
  <1>. QED
    BY <1>1, <1>2, <1>3, <1>4, <1>5, <1>6 DEF Next, RedisAnswers

LEMMA HttpInvariant == Spec => []HttpInv
  <1>1. Init => HttpInv
    BY HttpStarts
  <1>2. HttpInv /\ [Next]_vars => HttpInv'
    BY HttpKept
  <1>. QED
    BY <1>1, <1>2, PTL DEF Spec

-----------------------------------------------------------------------------

\* A message goes out at most once, with the key, a complete and valid body, a
\* known target and past the rate check.  A request answered 200 sent its
\* message exactly if the target is known, and any other answer says that
\* nothing went out (HttpServer.ts:163-192, MessageRouter.ts:41-71).
THEOREM HttpRoutedRightly == Spec => []RoutedRightly
  <1>1. HttpInv => RoutedRightly
    BY DEF HttpInv, PostInv, Settled, RoutedRightly
  <1>. QED
    BY <1>1, HttpInvariant, PTL

\* Nothing ends a process but a POST whose client went away, however checks,
\* bodies and health checks fail or come late (HttpServer.ts:19-31, 111-127).
THEOREM HttpCrashOnlyAfterAbort == Spec => []CrashOnlyAfterAbort
  <1>1. HttpInv => CrashOnlyAfterAbort
    BY DEF HttpInv
  <1>. QED
    BY <1>1, HttpInvariant, PTL

-----------------------------------------------------------------------------
(* Types: the answers, the queues and the times.                           *)

Answers == {200, 400, 401, 429}

\* A post is checked once, with the time at which it arrived.
Timed ==
  \A q \in Posts :
    /\ phase[q] \in {"new", "checking"} => verdict[q] = "none"
    /\ phase[q] = "checking" => calledAt[q] >= 1

TypeInv == HttpTypeOK /\ Timed

\* What a step leaves of the phases and answers; a request whose phase is new
\* or checking afterwards had it before and is not in s.
AnswersOK(s) ==
  /\ phase' \in [Reqs -> Phases]
  /\ status' \in [Reqs -> Answers \cup {0}]
  /\ \A p \in Reqs : status'[p] # 0 <=> phase'[p] = "answered"
  /\ crashed' \subseteq Instances
  /\ \A p \in Reqs : phase'[p] \in {"new", "checking"} => p \notin s /\ phase'[p] = phase[p]

LEMMA CrashTypes ==
  ASSUME HttpTypeOK, NEW q \in Reqs, Crash(q)
  PROVE  AnswersOK({})
         /\ (q \in Pending => AnswersOK({q}))
  <1>1. Home[q] \in Instances
    BY HttpAssumption
  <1>2. \A p \in Reqs : p \in Pending => status[p] = 0 /\ phase[p] # "answered"
    BY DEF HttpTypeOK, Pending
  <1>3. \A p \in Reqs : phase'[p] = IF p \in Pending /\ Home[p] = Home[q] THEN "gone" ELSE phase[p]
    BY DEF Crash
  <1>4. phase' \in [Reqs -> Phases]
    BY DEF Crash, HttpTypeOK, Phases
  <1>5. status' \in [Reqs -> Answers \cup {0}] /\ status' = status /\ crashed' \subseteq Instances
    BY <1>1 DEF Crash, HttpTypeOK, Answers
  <1>6. \A p \in Reqs : status'[p] # 0 <=> phase'[p] = "answered"
    BY <1>2, <1>3, <1>5 DEF HttpTypeOK
  <1>. QED
    BY <1>3, <1>4, <1>5, <1>6 DEF AnswersOK

LEMMA RespondTypes ==
  ASSUME HttpTypeOK, NEW q \in Reqs, q \in Pending \/ q \notin aborted,
         NEW st \in Answers, Respond(q, st)
  PROVE  AnswersOK({q})
  <1>1. CASE q \in aborted
    BY <1>1, CrashTypes DEF Respond
  <1>2. CASE q \notin aborted
    <2>1. phase' = [phase EXCEPT ![q] = "answered"] /\ status' = [status EXCEPT ![q] = st]
          /\ crashed' = crashed
      BY <1>2 DEF Respond
    <2>2. st # 0
      BY DEF Answers
    <2>. QED
      BY <2>1, <2>2 DEF AnswersOK, HttpTypeOK, Phases, Answers
  <1>. QED
    BY <1>1, <1>2

LEMMA FinishTypes ==
  ASSUME HttpTypeOK, NEW q \in Reqs, q \in Pending, Finish(q)
  PROVE  AnswersOK({q}) /\ routed' \in [Reqs -> Nat]
  <1>1. 200 \in Answers /\ 400 \in Answers
    BY DEF Answers
  <1>2. AnswersOK({q})
    BY <1>1, RespondTypes DEF Finish
  <1>3. routed \in [Reqs -> Nat]
    BY DEF HttpTypeOK
  <1>4. routed' \in [Reqs -> Nat]
    BY <1>3 DEF Finish
  <1>. QED
    BY <1>2, <1>4

LEMMA GoOnTypes ==
  ASSUME HttpTypeOK, NEW q \in Reqs, phase[q] = "checking", GoOn(q)
  PROVE  AnswersOK({q}) /\ routed' \in [Reqs -> Nat]
  <1>1. CASE q \in complete
    <2>1. q \in Pending /\ Finish(q)
      BY <1>1 DEF GoOn, Pending
    <2>. QED
      BY <2>1, FinishTypes
  <1>2. CASE q \notin complete
    <2>1. phase' = [phase EXCEPT ![q] = "reading"] /\ UNCHANGED <<status, crashed, routed>>
      BY <1>2 DEF GoOn
    <2>2. routed \in [Reqs -> Nat] /\ status[q] = 0 /\ phase \in [Reqs -> Phases]
      BY DEF HttpTypeOK, Phases
    <2>3. AnswersOK({q})
      BY <2>1, <2>2 DEF AnswersOK, HttpTypeOK, Phases, Answers
    <2>. QED
      BY <2>1, <2>2, <2>3
  <1>. QED
    BY <1>1, <1>2

\* The queues hold requests of their instance.
QueueTypes == \A i \in Instances : waiting[i] \in Seq({q \in Reqs : Home[q] = i})

LEMMA JoinTypes ==
  ASSUME HttpInv, QueueTypes, NEW q \in Reqs,
         waiting' = [waiting EXCEPT ![Home[q]] = Append(@, q)]
  PROVE  QueueTypes'
  <1>. SUFFICES ASSUME NEW i \in Instances
                PROVE  waiting'[i] \in Seq({p \in Reqs : Home[p] = i})
    BY DEF QueueTypes
  <1>. DEFINE R == {p \in Reqs : Home[p] = i}
  <1>1. DOMAIN waiting = Instances /\ waiting[i] \in Seq(R)
    BY DEF HttpInv, Shape, QueueTypes
  <1>2. CASE i = Home[q]
    <2>1. q \in R /\ waiting'[i] = Append(waiting[i], q)
      BY <1>1, <1>2
    <2>2. Append(waiting[i], q) \in Seq(R)
      <3>. HIDE DEF R
      <3>. QED
        BY <1>1, <2>1
    <2>. QED
      BY <2>1, <2>2
  <1>3. CASE i # Home[q]
    BY <1>1, <1>3
  <1>. QED
    BY <1>2, <1>3

LEMMA LeaveTypes ==
  ASSUME HttpInv, QueueTypes, NEW q \in Reqs, Oldest(q)
  PROVE  QueueTypes'
  <1>. SUFFICES ASSUME NEW i \in Instances
                PROVE  waiting'[i] \in Seq({p \in Reqs : Home[p] = i})
    BY DEF QueueTypes
  <1>. DEFINE R == {p \in Reqs : Home[p] = i}
  <1>1. DOMAIN waiting = Instances /\ waiting[i] \in Seq(R)
    BY DEF HttpInv, Shape, QueueTypes
  <1>2. CASE i = Home[q]
    <2>1. waiting'[i] = Tail(waiting[i]) /\ waiting[i] # <<>>
      BY <1>1, <1>2 DEF Oldest
    <2>2. Tail(waiting[i]) \in Seq(R)
      <3>. HIDE DEF R
      <3>. QED
        BY <1>1, <2>1
    <2>. QED
      BY <2>1, <2>2
  <1>3. CASE i # Home[q]
    BY <1>1, <1>3 DEF Oldest
  <1>. QED
    BY <1>2, <1>3

\* A check enters the request with its time.
LEMMA RecordTypes ==
  ASSUME HttpTypeOK, NEW q \in Posts, calledAt[q] >= 1,
         Record(Ip[q], q, calledAt[q]) \/ UNCHANGED hits
  PROVE  hits' \in [Identifiers -> SUBSET [member : Posts, score : 1 .. now]]
  <1>1. q \in Reqs /\ Ip[q] \in Identifiers
    BY HttpAssumption DEF Reqs
  <1>2. calledAt[q] \in 1 .. now
    BY <1>1 DEF HttpTypeOK
  <1>3. Entry(q, calledAt[q]) \in [member : Posts, score : 1 .. now]
    BY <1>2 DEF Entry
  <1>4. InWindow(Ip[q], calledAt[q]) \subseteq [member : Posts, score : 1 .. now]
    BY <1>1 DEF InWindow, HttpTypeOK
  <1>5. Entries(Ip[q], q, calledAt[q]) \in SUBSET [member : Posts, score : 1 .. now]
    BY <1>3, <1>4 DEF Entries
  <1>. QED
    BY <1>1, <1>5 DEF Record, HttpTypeOK

\* HttpTypeOK, the part of it that AnswersOK and QueueTypes do not state.
RestTypes ==
  /\ now \in 1 .. MaxTime
  /\ hits \in [Identifiers -> SUBSET [member : Posts, score : 1 .. now]]
  /\ complete \subseteq Posts /\ aborted \subseteq Reqs
  /\ routed \in [Reqs -> Nat]
  /\ calledAt \in [Reqs -> 0 .. now]
  /\ verdict \in [Reqs -> {"none", "allowed", "refused", "failed"}]
  /\ overtaken \subseteq Identifiers

LEMMA TypesTogether ==
  ASSUME AnswersOK({}), QueueTypes', RestTypes' PROVE HttpTypeOK'
  <1>1. phase' \in [Reqs -> {"new", "checking", "reading", "pinging", "answered", "gone"}]
    BY DEF AnswersOK, Phases
  <1>2. status' \in [Reqs -> {0, 200, 400, 401, 429}]
    <2>1. Answers \cup {0} = {0, 200, 400, 401, 429}
      BY DEF Answers
    <2>. QED
      BY <2>1 DEF AnswersOK
  <1>3. \A q \in Reqs : status'[q] # 0 <=> phase'[q] = "answered"
    BY DEF AnswersOK
  <1>4. crashed' \subseteq Instances
    BY DEF AnswersOK
  <1>5. \A i \in Instances : waiting'[i] \in Seq({q \in Reqs : Home[q] = i})
    BY DEF QueueTypes
  <1>. QED
    BY <1>1, <1>2, <1>3, <1>4, <1>5, Zenon DEF HttpTypeOK, RestTypes

\* The rest of a step that changes no times, checks and entries.
LEMMA UncheckedTypes ==
  ASSUME HttpInv, TypeInv, AnswersOK({}), routed' \in [Reqs -> Nat], QueueTypes',
         complete' \subseteq Posts, aborted' \subseteq Reqs,
         UNCHANGED <<now, hits, calledAt, verdict, overtaken>>
  PROVE  TypeInv'
  <1>1. HttpTypeOK'
    <2>1. RestTypes'
      BY DEF TypeInv, HttpTypeOK, RestTypes
    <2>. QED
      BY <2>1, TypesTogether
  <1>2. Timed'
    <2>. SUFFICES ASSUME NEW p \in Posts
                  PROVE  /\ phase'[p] \in {"new", "checking"} => verdict'[p] = "none"
                         /\ phase'[p] = "checking" => calledAt'[p] >= 1
      BY DEF Timed
    <2>1. p \in Reqs
      BY DEF Reqs
    <2>2. phase'[p] \in {"new", "checking"} => phase'[p] = phase[p]
      BY <2>1 DEF AnswersOK
    <2>. QED
      BY <2>2 DEF TypeInv, Timed
  <1>. QED
    BY <1>1, <1>2 DEF TypeInv

\* The check of q has said v.
LEMMA CheckedTypes ==
  ASSUME HttpInv, TypeInv, NEW q \in Posts, Oldest(q), AnswersOK({q}),
         routed' \in [Reqs -> Nat],
         NEW v \in {"allowed", "refused", "failed"}, Says(q, v),
         Record(Ip[q], q, calledAt[q]) \/ UNCHANGED hits,
         overtaken' \subseteq Identifiers,
         UNCHANGED <<now, complete, aborted, calledAt>>
  PROVE  TypeInv'
  <1>1. q \in Reqs
    BY DEF Reqs
  <1>2. phase[q] = "checking"
    BY <1>1, OldestPhase
  <1>3. HttpTypeOK /\ calledAt[q] >= 1 /\ QueueTypes
    BY <1>2 DEF TypeInv, Timed, HttpTypeOK, QueueTypes
  <1>4. hits' \in [Identifiers -> SUBSET [member : Posts, score : 1 .. now]]
    BY <1>3, RecordTypes
  <1>5. QueueTypes'
    BY <1>1, <1>3, LeaveTypes
  <1>6. verdict' = [verdict EXCEPT ![q] = v] /\ verdict \in [Reqs -> {"none", "allowed", "refused", "failed"}]
    BY <1>3 DEF Says, HttpTypeOK
  <1>7. verdict' \in [Reqs -> {"none", "allowed", "refused", "failed"}]
    BY <1>6
  <1>8. HttpTypeOK'
    <2>1. RestTypes'
      BY <1>3, <1>4, <1>7 DEF HttpTypeOK, RestTypes
    <2>2. AnswersOK({})
      BY DEF AnswersOK
    <2>. QED
      BY <1>5, <2>1, <2>2, TypesTogether
  <1>9. Timed'
    <2>. SUFFICES ASSUME NEW p \in Posts, phase'[p] \in {"new", "checking"}
                  PROVE  verdict'[p] = "none" /\ (phase'[p] = "checking" => calledAt'[p] >= 1)
      BY DEF Timed
    <2>1. p \in Reqs
      BY DEF Reqs
    <2>2. p # q /\ phase'[p] = phase[p]
      BY <2>1 DEF AnswersOK
    <2>3. verdict'[p] = verdict[p]
      BY <1>6, <2>1, <2>2
    <2>. QED
      BY <2>2, <2>3 DEF TypeInv, Timed
  <1>. QED
    BY <1>8, <1>9 DEF TypeInv

LEMMA TypesStart == ASSUME Init PROVE TypeInv
  <1>1. 1 \in 1 .. MaxTime
    BY LimiterAssumption
  <1>2. \A i \in Instances : waiting[i] \in Seq({q \in Reqs : Home[q] = i})
    BY DEF Init
  <1>3. now = 1 /\ hits \in [Identifiers -> SUBSET [member : Posts, score : 1 .. now]]
    BY DEF Init, LimiterInit
  <1>4. HttpTypeOK
    BY <1>1, <1>2, <1>3 DEF Init, HttpTypeOK
  <1>5. Timed
    BY DEF Init, Timed, Reqs
  <1>. QED
    BY <1>4, <1>5 DEF TypeInv

LEMMA TickTypes == ASSUME TypeInv, HttpTick PROVE TypeInv'
  <1>1. now < MaxTime /\ now' = now + 1 /\ UNCHANGED hits /\ UNCHANGED <<reqVars, histVars>>
    BY DEF HttpTick, Tick
  <1>2. now \in 1 .. MaxTime
    BY DEF TypeInv, HttpTypeOK
  <1>3. now' \in 1 .. MaxTime
    BY <1>1, <1>2, LimiterAssumption
  <1>4. 1 .. now \subseteq 1 .. now' /\ 0 .. now \subseteq 0 .. now'
    BY <1>1, <1>2
  <1>5. hits' \in [Identifiers -> SUBSET [member : Posts, score : 1 .. now']]
    BY <1>1, <1>4 DEF TypeInv, HttpTypeOK
  <1>6. calledAt' \in [Reqs -> 0 .. now']
    BY <1>1, <1>4 DEF TypeInv, HttpTypeOK, histVars
  <1>7. HttpTypeOK'
    <2>1. UNCHANGED <<phase, complete, aborted, status, waiting, crashed, routed, verdict, overtaken>>
      BY <1>1 DEF reqVars, histVars
    <2>2. RestTypes'
      BY <1>3, <1>5, <1>6, <2>1 DEF TypeInv, HttpTypeOK, RestTypes
    <2>3. AnswersOK({})
      BY <2>1 DEF AnswersOK, TypeInv, HttpTypeOK, Phases, Answers
    <2>4. QueueTypes
      BY DEF QueueTypes, TypeInv, HttpTypeOK
    <2>5. QueueTypes'
      BY <2>1, <2>4 DEF QueueTypes
    <2>. QED
      BY <2>2, <2>3, <2>5, TypesTogether
  <1>8. Timed'
    BY <1>1 DEF TypeInv, Timed, reqVars, histVars
  <1>. QED
    BY <1>7, <1>8 DEF TypeInv

LEMMA ReceivePostTypes ==
  ASSUME HttpInv, TypeInv, NEW q \in Reqs, ReceivePost(q) PROVE TypeInv'
  <1>1. q \in Posts /\ phase' = [phase EXCEPT ![q] = "checking"] /\ phase[q] = "new"
        /\ waiting' = [waiting EXCEPT ![Home[q]] = Append(@, q)]
        /\ calledAt' = [calledAt EXCEPT ![q] = now]
        /\ UNCHANGED <<now, hits, complete, aborted, status, crashed, routed, verdict, overtaken>>
    BY DEF ReceivePost, Arrives, limiterVars
  <1>2. now \in 1 .. MaxTime /\ now \in Nat /\ calledAt \in [Reqs -> 0 .. now]
        /\ phase \in [Reqs -> Phases]
    BY LimiterAssumption DEF TypeInv, HttpTypeOK, Phases
  <1>3. calledAt' \in [Reqs -> 0 .. now] /\ calledAt'[q] >= 1
    BY <1>1, <1>2
  <1>4. QueueTypes'
    <2>1. QueueTypes
      BY DEF TypeInv, HttpTypeOK, QueueTypes
    <2>. QED
      BY <1>1, <2>1, JoinTypes
  <1>5. phase' \in [Reqs -> Phases]
    BY <1>1, <1>2 DEF Phases
  <1>6. \A p \in Reqs : status'[p] # 0 <=> phase'[p] = "answered"
    BY <1>1, <1>2 DEF TypeInv, HttpTypeOK
  <1>7. HttpTypeOK'
    BY <1>1, <1>3, <1>4, <1>5, <1>6 DEF TypeInv, HttpTypeOK, QueueTypes, Phases
  <1>8. Timed'
    <2>. SUFFICES ASSUME NEW p \in Posts, phase'[p] \in {"new", "checking"}
                  PROVE  verdict'[p] = "none" /\ (phase'[p] = "checking" => calledAt'[p] >= 1)
      BY DEF Timed
    <2>1. p \in Reqs
      BY DEF Reqs
    <2>2. CASE p = q
      BY <1>1, <1>3, <2>2 DEF TypeInv, Timed
    <2>3. CASE p # q
      <3>1. phase'[p] = phase[p] /\ calledAt'[p] = calledAt[p]
        BY <1>1, <1>2, <2>1, <2>3
      <3>. QED
        BY <1>1, <3>1 DEF TypeInv, Timed
    <2>. QED
      BY <2>2, <2>3
  <1>. QED
    BY <1>7, <1>8 DEF TypeInv

LEMMA TypesKept ==
  ASSUME HttpInv, TypeInv, [Next]_vars PROVE TypeInv'
  <1>0. HttpTypeOK /\ QueueTypes /\ routed \in [Reqs -> Nat] /\ complete \subseteq Posts
        /\ aborted \subseteq Reqs /\ overtaken \subseteq Identifiers
    BY DEF TypeInv, HttpTypeOK, QueueTypes
  <1>1. CASE HttpTick
    BY <1>1, TickTypes
  <1>2. ASSUME NEW q \in Reqs, AnswerAtOnce(q) PROVE TypeInv'
    <2>1. q \notin aborted
      BY <1>2 DEF AnswerAtOnce, Arrives, HttpInv, ArrivedInv
    <2>2. 200 \in Answers /\ 401 \in Answers
      BY DEF Answers
    <2>3. AnswersOK({q})
      BY <1>0, <1>2, <2>1, <2>2, RespondTypes DEF AnswerAtOnce
    <2>4. UNCHANGED <<now, hits, complete, aborted, waiting, routed, calledAt, verdict, overtaken>>
      BY <1>2 DEF AnswerAtOnce, limiterVars, histVars
    <2>5. QueueTypes' /\ AnswersOK({})
      BY <1>0, <2>3, <2>4 DEF QueueTypes, AnswersOK
    <2>. QED
      BY <1>0, <2>4, <2>5, UncheckedTypes
  <1>3. ASSUME NEW q \in Reqs, ReceivePost(q) PROVE TypeInv'
    BY <1>3, ReceivePostTypes
  <1>4. ASSUME NEW q \in Reqs, ReceiveHealth(q) PROVE TypeInv'
    <2>1. phase[q] = "new" /\ phase' = [phase EXCEPT ![q] = "pinging"]
          /\ waiting' = [waiting EXCEPT ![Home[q]] = Append(@, q)]
          /\ UNCHANGED <<now, hits, complete, aborted, status, crashed, routed, calledAt, verdict, overtaken>>
      BY <1>4 DEF ReceiveHealth, Arrives, limiterVars, histVars
    <2>2. QueueTypes'
      BY <1>0, <2>1, JoinTypes
    <2>3. AnswersOK({})
      BY <1>0, <2>1 DEF AnswersOK, HttpTypeOK, Phases, Answers
    <2>. QED
      BY <1>0, <2>1, <2>2, <2>3, UncheckedTypes
  <1>5. ASSUME NEW q \in Reqs, BodyComplete(q) PROVE TypeInv'
    <2>1. q \in Posts /\ q \in Pending /\ complete' = complete \cup {q}
          /\ UNCHANGED <<now, hits, aborted, waiting, calledAt, verdict, overtaken>>
      BY <1>5 DEF BodyComplete, limiterVars, histVars
    <2>2. AnswersOK({}) /\ routed' \in [Reqs -> Nat]
      <3>1. CASE phase[q] = "reading"
        <4>1. Finish(q)
          BY <1>5, <3>1 DEF BodyComplete
        <4>2. AnswersOK({q}) /\ routed' \in [Reqs -> Nat]
          BY <1>0, <2>1, <4>1, FinishTypes
        <4>. QED
          BY <4>2 DEF AnswersOK
      <3>2. CASE phase[q] # "reading"
        <4>1. UNCHANGED <<phase, status, crashed, routed>>
          BY <1>5, <3>2 DEF BodyComplete
        <4>. QED
          BY <1>0, <4>1 DEF AnswersOK, HttpTypeOK, Phases, Answers
      <3>. QED
        BY <3>1, <3>2
    <2>3. QueueTypes' /\ complete' \subseteq Posts /\ aborted' \subseteq Reqs
      BY <1>0, <2>1 DEF QueueTypes
    <2>. QED
      BY <2>1, <2>2, <2>3, UncheckedTypes
  <1>6. ASSUME NEW q \in Reqs, Abort(q) PROVE TypeInv'
    <2>1. aborted' = aborted \cup {q}
          /\ UNCHANGED <<now, hits, complete, waiting, routed, calledAt, verdict, overtaken>>
      BY <1>6 DEF Abort, limiterVars, histVars
    <2>2. AnswersOK({})
      <3>1. CASE q \in Posts \ complete
        BY <1>0, <1>6, <3>1, CrashTypes DEF Abort
      <3>2. CASE q \notin Posts \ complete
        <4>1. UNCHANGED <<phase, status, crashed>>
          BY <1>6, <3>2 DEF Abort
        <4>. QED
          BY <1>0, <4>1 DEF AnswersOK, HttpTypeOK, Phases, Answers
      <3>. QED
        BY <3>1, <3>2
    <2>3. QueueTypes' /\ complete' \subseteq Posts /\ aborted' \subseteq Reqs /\ routed' \in [Reqs -> Nat]
      BY <1>0, <2>1 DEF QueueTypes
    <2>. QED
      BY <2>1, <2>2, <2>3, UncheckedTypes
  <1>7. ASSUME NEW q \in Reqs, CheckAnswered(q) PROVE TypeInv'
    <2>1. q \in Posts /\ Oldest(q) /\ Record(Ip[q], q, calledAt[q])
          /\ UNCHANGED <<now, complete, aborted, calledAt>>
      BY <1>7 DEF CheckAnswered
    <2>2. Ip[q] \in Identifiers /\ phase[q] = "checking" /\ q \in Pending
      BY <2>1, HttpAssumption, OldestPhase DEF Pending
    <2>3. overtaken' \subseteq Identifiers
      BY <1>0, <1>7, <2>2 DEF CheckAnswered
    <2>4. 429 \in Answers
      BY DEF Answers
    <2>5. CASE Says(q, "allowed") /\ GoOn(q)
      <3>1. AnswersOK({q}) /\ routed' \in [Reqs -> Nat]
        BY <1>0, <2>2, <2>5, GoOnTypes
      <3>. QED
        BY <2>1, <2>3, <2>5, <3>1, CheckedTypes
    <2>6. CASE Says(q, "refused") /\ Respond(q, 429) /\ UNCHANGED routed
      <3>1. AnswersOK({q}) /\ routed' \in [Reqs -> Nat]
        BY <1>0, <2>2, <2>4, <2>6, RespondTypes
      <3>. QED
        BY <2>1, <2>3, <2>6, <3>1, CheckedTypes
    <2>. QED
      BY <1>7, <2>5, <2>6 DEF CheckAnswered
  <1>8. ASSUME NEW q \in Reqs, CheckFails(q) PROVE TypeInv'
    <2>1. q \in Posts /\ Oldest(q) /\ Says(q, "failed") /\ GoOn(q)
          /\ UNCHANGED <<now, complete, aborted, calledAt, overtaken>>
      BY <1>8 DEF CheckFails
    <2>2. Record(Ip[q], q, calledAt[q]) \/ UNCHANGED hits
      BY <1>8 DEF CheckFails
    <2>3. phase[q] = "checking"
      BY <2>1, OldestPhase
    <2>4. AnswersOK({q}) /\ routed' \in [Reqs -> Nat]
      BY <1>0, <2>1, <2>3, GoOnTypes
    <2>5. overtaken' \subseteq Identifiers
      BY <1>0, <2>1
    <2>. QED
      BY <2>1, <2>2, <2>4, <2>5, CheckedTypes
  <1>9. ASSUME NEW q \in Reqs, PingAnswered(q) PROVE TypeInv'
    <2>1. Oldest(q)
          /\ phase' = [phase EXCEPT ![q] = IF q \in aborted THEN "gone" ELSE "answered"]
          /\ status' = [status EXCEPT ![q] = IF q \in aborted THEN 0 ELSE 200]
          /\ UNCHANGED <<now, hits, complete, aborted, crashed, routed, calledAt, verdict, overtaken>>
      BY <1>9 DEF PingAnswered, limiterVars, histVars
    <2>2. AnswersOK({})
      BY <1>0, <2>1 DEF AnswersOK, HttpTypeOK, Phases, Answers
    <2>3. QueueTypes'
      BY <1>0, <2>1, LeaveTypes
    <2>. QED
      BY <1>0, <2>1, <2>2, <2>3, UncheckedTypes
  <1>10. CASE UNCHANGED vars
    <2>1. UNCHANGED <<now, hits, reqVars, calledAt, verdict, overtaken>>
      BY <1>10 DEF vars, limiterVars, histVars
    <2>2. /\ now' = now /\ hits' = hits /\ phase' = phase /\ complete' = complete /\ aborted' = aborted
          /\ status' = status /\ waiting' = waiting /\ crashed' = crashed /\ routed' = routed
          /\ calledAt' = calledAt /\ verdict' = verdict /\ overtaken' = overtaken
      BY <2>1 DEF reqVars
    <2>3. HttpTypeOK /\ Timed
      BY DEF TypeInv
    <2>4. HttpTypeOK'
      <3>1. /\ (now \in 1 .. MaxTime)'
            /\ (hits \in [Identifiers -> SUBSET [member : Posts, score : 1 .. now]])'
            /\ (calledAt \in [Reqs -> 0 .. now])'
            /\ (verdict \in [Reqs -> {"none", "allowed", "refused", "failed"}])'
            /\ (overtaken \subseteq Identifiers)'
        BY <2>2, <2>3 DEF HttpTypeOK
      <3>2. /\ (phase \in [Reqs -> {"new", "checking", "reading", "pinging", "answered", "gone"}])'
            /\ (complete \subseteq Posts)' /\ (aborted \subseteq Reqs)'
            /\ (status \in [Reqs -> {0, 200, 400, 401, 429}])'
        BY <2>2, <2>3 DEF HttpTypeOK
      <3>3. (\A q \in Reqs : status[q] # 0 <=> phase[q] = "answered")'
        BY <2>2, <2>3 DEF HttpTypeOK
      <3>4. (\A i \in Instances : waiting[i] \in Seq({q \in Reqs : Home[q] = i}))'
        <4>1. \A i \in Instances : waiting[i] \in Seq({q \in Reqs : Home[q] = i})
          BY <2>3, Zenon DEF HttpTypeOK
        <4>2. waiting' = waiting
          BY <2>2
        <4>. QED
          BY ONLY <4>1, <4>2, Zenon
      <3>5. (crashed \subseteq Instances)' /\ (routed \in [Reqs -> Nat])'
        BY <2>2, <2>3 DEF HttpTypeOK
      <3>. QED
        BY <3>1, <3>2, <3>3, <3>4, <3>5 DEF HttpTypeOK
    <2>5. Timed'
      BY <2>2, <2>3, Zenon DEF Timed
    <2>. QED
      BY <2>4, <2>5 DEF TypeInv
  <1>. QED
    BY <1>1, <1>2, <1>3, <1>4, <1>5, <1>6, <1>7, <1>8, <1>9, <1>10 DEF Next, RedisAnswers

LEMMA HttpTypeInvariant == Spec => []TypeInv
  <1>1. Init => TypeInv
    BY TypesStart
  <1>2. HttpInv /\ TypeInv /\ [Next]_vars => TypeInv'
    BY TypesKept
  <1>. QED
    BY <1>1, <1>2, HttpInvariant, PTL DEF Spec

\* Every variable of the API keeps its type; a request has a status exactly when
\* it was answered, and the queue of an instance holds its own requests.
THEOREM HttpTypes == Spec => []HttpTypeOK
  <1>1. TypeInv => HttpTypeOK
    BY DEF TypeInv
  <1>. QED
    BY <1>1, HttpTypeInvariant, PTL

-----------------------------------------------------------------------------
(* The rate limit.  The sorted set of an identifier and the verdicts of    *)
(* the posts tell the same story: an entry belongs to a post that was      *)
(* checked at its time, and the post of a check that was executed has an   *)
(* entry, or one a window later has removed it.                            *)

Checked == {q \in Posts : verdict[q] # "none"}

EntriesInv ==
  \A id \in Identifiers : \A e \in hits[id] :
    /\ Ip[e.member] = id
    /\ e.score = calledAt[e.member]
    /\ e.member \in Checked

\* The entry of q is there or has left the window of a later one.
Recorded(q) ==
  \/ Entry(q, calledAt[q]) \in hits[Ip[q]]
  \/ \E e \in hits[Ip[q]] : calledAt[q] + Window <= e.score

RecordedInv == \A q \in Posts : verdict[q] \in {"allowed", "refused"} => Recorded(q)

FiniteInv ==
  /\ IsFiniteSet(Checked)
  /\ \A id \in Identifiers : IsFiniteSet(hits[id])

\* A step without a check.
Unchecked ==
  /\ UNCHANGED <<hits, verdict, overtaken>>
  /\ \A q \in Checked : calledAt'[q] = calledAt[q]

\* The check of q is answered: it was executed, and said v.
Executed(q, v) ==
  /\ Record(Ip[q], q, calledAt[q])
  /\ overtaken' = IF \E e \in hits[Ip[q]] : e.score > calledAt[q]
                    THEN overtaken \cup {Ip[q]} ELSE overtaken
  /\ v = IF WithinLimit(Ip[q], q, calledAt[q]) THEN "allowed" ELSE "refused"

\* The check of q fails.
Failed(q, v) ==
  /\ Record(Ip[q], q, calledAt[q]) \/ UNCHANGED hits
  /\ UNCHANGED overtaken
  /\ v = "failed"

Judged(q, v) ==
  /\ verdict[q] = "none"
  /\ Says(q, v)
  /\ UNCHANGED calledAt
  /\ Executed(q, v) \/ Failed(q, v)

LEMMA StepKinds ==
  ASSUME HttpInv, TypeInv, [Next]_vars
  PROVE  \/ Unchecked
         \/ \E q \in Posts : \E v \in {"allowed", "refused", "failed"} : Judged(q, v)
  <1>1. CASE UNCHANGED vars \/ HttpTick
    BY <1>1 DEF HttpTick, Tick, vars, limiterVars, histVars, Unchecked
  <1>2. ASSUME NEW q \in Reqs,
               AnswerAtOnce(q) \/ ReceiveHealth(q) \/ BodyComplete(q) \/ Abort(q) \/ PingAnswered(q)
        PROVE  Unchecked
    BY <1>2 DEF AnswerAtOnce, ReceiveHealth, BodyComplete, Abort, PingAnswered, limiterVars,
                histVars, Unchecked
  <1>3. ASSUME NEW q \in Reqs, ReceivePost(q) PROVE Unchecked
    <2>1. UNCHANGED <<hits, verdict, overtaken>> /\ phase[q] = "new" /\ q \in Posts
          /\ calledAt' = [calledAt EXCEPT ![q] = now]
      BY <1>3 DEF ReceivePost, Arrives, limiterVars
    <2>2. q \notin Checked
      BY <2>1 DEF Checked, TypeInv, Timed
    <2>. QED
      BY <2>1, <2>2 DEF Unchecked, TypeInv, HttpTypeOK
  <1>4. ASSUME NEW q \in Posts, Oldest(q) PROVE verdict[q] = "none"
    <2>1. phase[q] = "checking"
      BY <1>4, OldestPhase DEF Reqs
    <2>. QED
      BY <2>1 DEF TypeInv, Timed
  <1>5. ASSUME NEW q \in Reqs, CheckAnswered(q)
        PROVE  q \in Posts /\ \E v \in {"allowed", "refused", "failed"} : Judged(q, v)
    <2>1. q \in Posts /\ verdict[q] = "none" /\ UNCHANGED calledAt
      BY <1>4, <1>5 DEF CheckAnswered
    <2>2. /\ Record(Ip[q], q, calledAt[q])
          /\ overtaken' = IF \E e \in hits[Ip[q]] : e.score > calledAt[q]
                            THEN overtaken \cup {Ip[q]} ELSE overtaken
      BY <1>5 DEF CheckAnswered
    <2>3. CASE WithinLimit(Ip[q], q, calledAt[q]) /\ Says(q, "allowed")
      <3>1. Judged(q, "allowed")
        BY <2>1, <2>2, <2>3 DEF Judged, Executed
      <3>. QED
        BY <2>1, <3>1
    <2>4. CASE ~WithinLimit(Ip[q], q, calledAt[q]) /\ Says(q, "refused")
      <3>1. Judged(q, "refused")
        BY <2>1, <2>2, <2>4 DEF Judged, Executed
      <3>. QED
        BY <2>1, <3>1
    <2>. QED
      BY <1>5, <2>3, <2>4 DEF CheckAnswered
  <1>6. ASSUME NEW q \in Reqs, CheckFails(q)
        PROVE  q \in Posts /\ \E v \in {"allowed", "refused", "failed"} : Judged(q, v)
    <2>1. q \in Posts /\ verdict[q] = "none" /\ UNCHANGED <<calledAt, overtaken>> /\ Says(q, "failed")
      BY <1>4, <1>6 DEF CheckFails
    <2>2. Record(Ip[q], q, calledAt[q]) \/ UNCHANGED hits
      BY <1>6 DEF CheckFails
    <2>3. Judged(q, "failed")
      BY <2>1, <2>2 DEF Judged, Failed
    <2>. QED
      BY <2>1, <2>3
  <1>. QED
    BY <1>1, <1>2, <1>3, <1>5, <1>6 DEF Next, RedisAnswers

-----------------------------------------------------------------------------
(* The story is kept. *)

LimitInv == EntriesInv /\ RecordedInv /\ FiniteInv

LEMMA LimitStarts == ASSUME Init PROVE LimitInv
  <1>1. \A id \in Identifiers : hits[id] = {}
    BY DEF Init, LimiterInit
  <1>2. \A q \in Posts : verdict[q] = "none"
    BY DEF Init, Reqs
  <1>3. Checked = {}
    BY <1>2 DEF Checked
  <1>. QED
    BY <1>1, <1>2, <1>3, FS_EmptySet DEF LimitInv, EntriesInv, RecordedInv, FiniteInv

LEMMA UncheckedStep == ASSUME LimitInv, TypeInv, Unchecked PROVE LimitInv'
  <1>1. hits' = hits /\ verdict' = verdict /\ Checked' = Checked
    BY DEF Unchecked, Checked
  <1>2. \A q \in Checked : calledAt'[q] = calledAt[q]
    BY DEF Unchecked
  <1>3. EntriesInv'
    BY <1>1, <1>2 DEF LimitInv, EntriesInv
  <1>4. ASSUME NEW q \in Posts, verdict'[q] \in {"allowed", "refused"} PROVE Recorded(q)'
    <2>1. calledAt'[q] = calledAt[q]
      BY <1>1, <1>2, <1>4 DEF Checked
    <2>2. Recorded(q)
      BY <1>1, <1>4 DEF LimitInv, RecordedInv
    <2>. QED
      BY <1>1, <2>1, <2>2 DEF Recorded, Entry
  <1>. QED
    BY <1>1, <1>3, <1>4 DEF LimitInv, RecordedInv, FiniteInv

\* What Record does to the set of its identifier.
LEMMA RecordEffect ==
  ASSUME TypeInv, NEW q \in Posts, Record(Ip[q], q, calledAt[q])
  PROVE  /\ Ip[q] \in Identifiers
         /\ hits'[Ip[q]] = Entries(Ip[q], q, calledAt[q])
         /\ \A id \in Identifiers \ {Ip[q]} : hits'[id] = hits[id]
         /\ \A e \in hits'[Ip[q]] : e \in hits[Ip[q]] \/ e = Entry(q, calledAt[q])
         /\ Entry(q, calledAt[q]) \in hits'[Ip[q]]
         /\ \A e \in hits[Ip[q]] : e \in hits'[Ip[q]] \/ e.score + Window <= calledAt[q]
  <1>1. Ip[q] \in Identifiers /\ q \in Reqs
    BY HttpAssumption DEF Reqs
  <1>2. hits'[Ip[q]] = Entries(Ip[q], q, calledAt[q])
        /\ \A id \in Identifiers \ {Ip[q]} : hits'[id] = hits[id]
    BY <1>1 DEF Record, TypeInv, HttpTypeOK
  <1>3. ASSUME NEW e \in hits[Ip[q]], ~(e.score + Window > calledAt[q])
        PROVE  e.score + Window <= calledAt[q]
    <2>1. e.score \in Nat /\ Window \in Nat /\ calledAt[q] \in Nat
      <3>1. e \in [member : Posts, score : 1 .. now] /\ calledAt[q] \in 0 .. now
        BY <1>1 DEF TypeInv, HttpTypeOK
      <3>. QED
        BY <3>1, LimiterAssumption
    <2>. QED
      BY <1>3, <2>1
  <1>. QED
    BY <1>1, <1>2, <1>3 DEF Entries, InWindow

LEMMA JudgedStep ==
  ASSUME LimitInv, TypeInv, NEW q \in Posts, NEW v \in {"allowed", "refused", "failed"},
         Judged(q, v)
  PROVE  LimitInv'
  <1>1. /\ verdict[q] = "none" /\ calledAt' = calledAt /\ q \in Reqs
        /\ verdict' = [verdict EXCEPT ![q] = v]
        /\ Record(Ip[q], q, calledAt[q]) \/ hits' = hits
        /\ v # "failed" => Record(Ip[q], q, calledAt[q])
    BY DEF Judged, Executed, Failed, Says, Reqs
  <1>2. /\ \A p \in Posts \ {q} : verdict'[p] = verdict[p]
        /\ verdict'[q] = v
    BY <1>1 DEF TypeInv, HttpTypeOK, Reqs
  <1>3. Checked' = Checked \cup {q}
    BY <1>2 DEF Checked
  <1>4. EntriesInv'
    <2>. SUFFICES ASSUME NEW id \in Identifiers, NEW e \in hits'[id]
                  PROVE  /\ Ip[e.member] = id
                         /\ e.score = calledAt[e.member]
                         /\ e.member \in Checked \cup {q}
      BY <1>1, <1>3 DEF EntriesInv
    <2>1. CASE e \in hits[id]
      BY <2>1 DEF LimitInv, EntriesInv
    <2>2. CASE e \notin hits[id]
      <3>1. Record(Ip[q], q, calledAt[q])
        BY <1>1, <2>2
      <3>2. id = Ip[q] /\ e = Entry(q, calledAt[q])
        BY <2>2, <3>1, RecordEffect
      <3>. QED
        BY <3>2 DEF Entry
    <2>. QED
      BY <2>1, <2>2
  <1>5. ASSUME NEW p \in Posts, verdict'[p] \in {"allowed", "refused"} PROVE Recorded(p)'
    <2>1. CASE p = q
      <3>1. Record(Ip[q], q, calledAt[q])
        BY <1>1, <1>2, <1>5, <2>1
      <3>. QED
        BY <1>1, <2>1, <3>1, RecordEffect DEF Recorded, Entry
    <2>2. CASE p # q
      <3>1. Recorded(p) /\ p \in Reqs
        BY <1>2, <1>5, <2>2 DEF LimitInv, RecordedInv, Reqs
      <3>2. CASE hits' = hits
        BY <1>1, <3>1, <3>2 DEF Recorded, Entry
      <3>3. CASE Record(Ip[q], q, calledAt[q]) /\ Ip[p] # Ip[q]
        <4>1. Ip[p] \in Identifiers
          BY <3>1, HttpAssumption
        <4>2. hits'[Ip[p]] = hits[Ip[p]]
          BY <3>3, <4>1, RecordEffect
        <4>. QED
          BY <1>1, <3>1, <4>2 DEF Recorded, Entry
      <3>4. CASE Record(Ip[q], q, calledAt[q]) /\ Ip[p] = Ip[q]
        <4>. DEFINE id == Ip[q]
        <4>1. /\ Entry(q, calledAt[q]) \in hits'[id]
              /\ \A e \in hits[id] : e \in hits'[id] \/ e.score + Window <= calledAt[q]
          BY <3>4, RecordEffect
        <4>2. Entry(q, calledAt[q]).score = calledAt[q] /\ Entry(p, calledAt[p]).score = calledAt[p]
          BY DEF Entry
        <4>3. PICK e \in hits[id] : e = Entry(p, calledAt[p]) \/ calledAt[p] + Window <= e.score
          BY <3>1, <3>4 DEF Recorded
        <4>4. id \in Identifiers
          BY <3>1, <3>4, HttpAssumption
        <4>5. e.score \in Nat /\ calledAt[p] \in Nat /\ calledAt[q] \in Nat /\ Window \in Nat
          <5>1. e \in [member : Posts, score : 1 .. now] /\ calledAt[q] \in 0 .. now
                /\ calledAt[p] \in 0 .. now
            BY <1>1, <3>1, <4>4 DEF TypeInv, HttpTypeOK
          <5>. QED
            BY <5>1, LimiterAssumption
        <4>6. CASE e \in hits'[id]
          <5>1. e = Entry(p, calledAt[p]) \/ calledAt[p] + Window <= e.score
            BY <4>3
          <5>. QED
            BY <1>1, <3>4, <4>6, <5>1 DEF Recorded, Entry
        <4>7. CASE e.score + Window <= calledAt[q]
          <5>1. calledAt[p] + Window <= calledAt[q]
            BY <4>2, <4>3, <4>5, <4>7
          <5>. QED
            BY <1>1, <3>4, <4>1, <4>2, <5>1 DEF Recorded, Entry
        <4>. QED
          BY <4>1, <4>6, <4>7
      <3>. QED
        BY <1>1, <3>2, <3>3, <3>4
    <2>. QED
      BY <2>1, <2>2
  <1>6. FiniteInv'
    <2>1. IsFiniteSet(Checked')
      BY <1>3, FS_AddElement DEF LimitInv, FiniteInv
    <2>2. ASSUME NEW id \in Identifiers PROVE IsFiniteSet(hits'[id])
      <3>1. IsFiniteSet(hits[id])
        BY DEF LimitInv, FiniteInv
      <3>2. IsFiniteSet(hits[id] \cup {Entry(q, calledAt[q])})
        BY <3>1, FS_AddElement
      <3>3. hits'[id] \subseteq hits[id] \cup {Entry(q, calledAt[q])}
        BY <1>1, RecordEffect
      <3>. QED
        BY <3>2, <3>3, FS_Subset
    <2>. QED
      BY <2>1, <2>2 DEF FiniteInv
  <1>. QED
    BY <1>4, <1>5, <1>6 DEF LimitInv, RecordedInv

LEMMA LimitInvariant == Spec => []LimitInv
  <1>1. Init => LimitInv
    BY LimitStarts
  <1>2. HttpInv /\ TypeInv /\ LimitInv /\ [Next]_vars => LimitInv'
    BY StepKinds, UncheckedStep, JudgedStep
  <1>. QED
    BY <1>1, <1>2, HttpInvariant, HttpTypeInvariant, PTL DEF Spec

-----------------------------------------------------------------------------
(* Counting: the entries in a window against the checks in it.             *)

\* The times of a post are numbers.
LEMMA Times ==
  ASSUME TypeInv
  PROVE  /\ Window \in Nat \ {0} /\ MaxRequests \in Nat
         /\ \A q \in Posts : calledAt[q] \in Nat /\ Ip[q] \in Identifiers
         /\ \A id \in Identifiers : \A e \in hits[id] :
              e.score \in Nat /\ e.member \in Posts /\ e = Entry(e.member, e.score)
  <1>1. Window \in Nat \ {0} /\ MaxRequests \in Nat /\ now \in Nat
    BY LimiterAssumption DEF TypeInv, HttpTypeOK
  <1>2. ASSUME NEW q \in Posts PROVE calledAt[q] \in Nat /\ Ip[q] \in Identifiers
    <2>1. q \in Reqs /\ calledAt[q] \in 0 .. now
      BY DEF Reqs, TypeInv, HttpTypeOK
    <2>. QED
      BY <1>1, <2>1, HttpAssumption
  <1>3. ASSUME NEW id \in Identifiers, NEW e \in hits[id]
        PROVE  e.score \in Nat /\ e.member \in Posts /\ e = Entry(e.member, e.score)
    <2>1. e \in [member : Posts, score : 1 .. now]
      BY DEF TypeInv, HttpTypeOK
    <2>. QED
      BY <1>1, <2>1 DEF Entry
  <1>. QED
    BY <1>1, <1>2, <1>3

LEMMA ChecksFinite ==
  ASSUME LimitInv, NEW id, NEW t, NEW vs, "none" \notin vs
  PROVE  IsFiniteSet(ChecksIn(id, t, vs))
  <1>1. ChecksIn(id, t, vs) \subseteq Checked
    BY DEF ChecksIn, Checked
  <1>. QED
    BY <1>1, FS_Subset DEF LimitInv, FiniteInv

\* A step without a check leaves every count as it is.
LEMMA ChecksSame ==
  ASSUME Unchecked, NEW id, NEW t, NEW vs, "none" \notin vs
  PROVE  ChecksIn(id, t, vs)' = ChecksIn(id, t, vs)
  <1>1. ASSUME NEW q \in Posts, verdict[q] \in vs PROVE calledAt'[q] = calledAt[q]
    BY <1>1 DEF Unchecked, Checked
  <1>2. verdict' = verdict
    BY DEF Unchecked
  <1>. QED
    BY <1>1, <1>2 DEF ChecksIn

\* A check adds itself, if it counts.
LEMMA ChecksGrow ==
  ASSUME TypeInv, NEW q \in Posts, NEW v, Judged(q, v), NEW id, NEW t, NEW vs, "none" \notin vs
  PROVE  /\ ChecksIn(id, t, vs) \subseteq ChecksIn(id, t, vs)'
         /\ ChecksIn(id, t, vs)' \subseteq ChecksIn(id, t, vs) \cup {q}
         /\ q \in ChecksIn(id, t, vs)' <=>
              /\ Ip[q] = id /\ v \in vs
              /\ calledAt[q] <= t /\ t < calledAt[q] + Window
  <1>1. verdict[q] = "none" /\ verdict' = [verdict EXCEPT ![q] = v] /\ calledAt' = calledAt
    BY DEF Judged, Says
  <1>2. verdict'[q] = v /\ \A p \in Posts \ {q} : verdict'[p] = verdict[p]
    BY <1>1 DEF TypeInv, HttpTypeOK, Reqs
  <1>3. q \notin ChecksIn(id, t, vs)
    BY <1>1 DEF ChecksIn
  <1>4. ChecksIn(id, t, vs)' =
          {p \in Posts : /\ Ip[p] = id /\ verdict'[p] \in vs
                         /\ calledAt[p] <= t /\ t < calledAt[p] + Window}
    BY <1>1 DEF ChecksIn
  <1>. QED
    BY <1>2, <1>3, <1>4 DEF ChecksIn

\* The checks let through in a window that ends at t have their entries in the
\* window of one called at or before t, unless checks overtook each other.
LEMMA AllowedHaveEntries ==
  ASSUME TypeInv, LimitInv, NEW q \in Posts, NEW t \in Nat,
         \A e \in hits[Ip[q]] : ~(e.score > calledAt[q]),
         calledAt[q] <= t,
         NEW p \in ChecksIn(Ip[q], t, {"allowed"})
  PROVE  Entry(p, calledAt[p]) \in InWindow(Ip[q], calledAt[q])
  <1>1. p \in Posts /\ Ip[p] = Ip[q] /\ verdict[p] = "allowed" /\ t < calledAt[p] + Window
    BY DEF ChecksIn
  <1>2. calledAt[p] \in Nat /\ calledAt[q] \in Nat /\ Window \in Nat /\ Ip[q] \in Identifiers
    BY <1>1, Times
  <1>3. Recorded(p)
    BY <1>1 DEF LimitInv, RecordedInv
  <1>4. ASSUME NEW e \in hits[Ip[q]] PROVE ~(calledAt[p] + Window <= e.score)
    <2>1. e.score \in Nat /\ ~(e.score > calledAt[q])
      BY <1>2, <1>4, Times
    <2>. QED
      BY <1>1, <1>2, <2>1
  <1>5. Entry(p, calledAt[p]) \in hits[Ip[q]]
    BY <1>1, <1>3, <1>4 DEF Recorded
  <1>6. Entry(p, calledAt[p]).score + Window > calledAt[q]
    BY <1>1, <1>2 DEF Entry
  <1>. QED
    BY <1>5, <1>6 DEF InWindow

\* A check that is let through finds fewer than the limit before it.
LEMMA AllowedCounted ==
  ASSUME TypeInv, LimitInv, NEW q \in Posts, NEW t \in Nat, NEW D,
         \A e \in hits[Ip[q]] : ~(e.score > calledAt[q]),
         calledAt[q] <= t, WithinLimit(Ip[q], q, calledAt[q]),
         D = ChecksIn(Ip[q], t, {"allowed"}) \cup {q}
  PROVE  Cardinality(D) <= MaxRequests
  <1>. DEFINE T == Entries(Ip[q], q, calledAt[q])
              f == [p \in D |-> Entry(p, calledAt[p])]
  <1>1. \A p \in D : f[p] \in T
    BY AllowedHaveEntries DEF Entries
  <1>2. \A p, r \in D : f[p] = f[r] => p = r
    <2>1. \A p, r \in D : Entry(p, calledAt[p]) = Entry(r, calledAt[r]) => p = r
      BY DEF Entry
    <2>. QED
      BY <2>1
  <1>3. f \in Injection(D, T)
    BY <1>1, <1>2 DEF Injection, IsInjective
  <1>4. IsFiniteSet(T)
    <2>1. IsFiniteSet(hits[Ip[q]]) /\ InWindow(Ip[q], calledAt[q]) \subseteq hits[Ip[q]]
      BY Times DEF LimitInv, FiniteInv, InWindow
    <2>2. IsFiniteSet(InWindow(Ip[q], calledAt[q]))
      BY <2>1, FS_Subset
    <2>. QED
      BY <2>2, FS_AddElement DEF Entries
  <1>5. IsFiniteSet(D) /\ Cardinality(D) <= Cardinality(T)
    <2>. HIDE DEF f, T
    <2>. QED
      BY <1>3, <1>4, FS_Injection
  <1>6. Cardinality(T) <= MaxRequests
    BY DEF WithinLimit
  <1>7. Cardinality(D) \in Nat /\ Cardinality(T) \in Nat /\ MaxRequests \in Nat
    BY <1>4, <1>5, FS_CardinalityType, Times
  <1>. QED
    BY <1>5, <1>6, <1>7

LEMMA WindowKept ==
  ASSUME HttpInv, TypeInv, LimitInv, LimitInv', WindowLimit, [Next]_vars PROVE WindowLimit'
  <1>. SUFFICES ASSUME NEW id \in Identifiers \ overtaken', NEW t \in 1 .. MaxTime
                PROVE  Cardinality(ChecksIn(id, t, {"allowed"})') <= MaxRequests
    BY DEF WindowLimit
  <1>. DEFINE C == ChecksIn(id, t, {"allowed"})
  <1>0. t \in Nat
    BY LimiterAssumption
  <1>1. CASE Unchecked
    <2>1. C' = C
      BY <1>1, ChecksSame
    <2>2. id \notin overtaken
      BY <1>1 DEF Unchecked
    <2>. QED
      BY <2>1, <2>2 DEF WindowLimit
  <1>2. ASSUME NEW q \in Posts, NEW v \in {"allowed", "refused", "failed"}, Judged(q, v)
        PROVE  Cardinality(C') <= MaxRequests
    <2>1. id \notin overtaken
      BY <1>2 DEF Judged, Executed, Failed
    <2>2. C \subseteq C' /\ C' \subseteq C \cup {q}
      BY <1>2, ChecksGrow
    <2>3. CASE q \notin C'
      <3>1. C' = C
        BY <2>2, <2>3
      <3>. QED
        BY <2>1, <3>1 DEF WindowLimit
    <2>4. CASE q \in C'
      <3>1. Ip[q] = id /\ v = "allowed" /\ calledAt[q] <= t
        BY <1>2, <2>4, ChecksGrow
      <3>2. Executed(q, v)
        BY <1>2, <3>1 DEF Judged, Failed
      <3>3. WithinLimit(id, q, calledAt[q])
        BY <3>1, <3>2 DEF Executed
      <3>4. \A e \in hits[id] : ~(e.score > calledAt[q])
        BY <3>1, <3>2 DEF Executed
      <3>5. C' = C \cup {q}
        BY <2>2, <2>4
      <3>6. C' = ChecksIn(Ip[q], t, {"allowed"}) \cup {q}
        BY <3>1, <3>5
      <3>. HIDE DEF C
      <3>. QED
        BY <1>0, <3>1, <3>3, <3>4, <3>6, AllowedCounted
    <2>. QED
      BY <2>3, <2>4
  <1>. QED
    BY <1>1, <1>2, StepKinds

\* In no window are more requests of one identifier let through than the limit,
\* over all instances, for checks executed in the order of their times
\* (RateLimiter.ts:25-43).
THEOREM HttpWindowLimit == Spec => []WindowLimit
  <1>1. ASSUME Init PROVE WindowLimit
    <2>. SUFFICES ASSUME NEW id \in Identifiers, NEW t \in 1 .. MaxTime
                  PROVE  Cardinality(ChecksIn(id, t, {"allowed"})) <= MaxRequests
      BY DEF WindowLimit
    <2>1. ChecksIn(id, t, {"allowed"}) = {}
      BY <1>1 DEF Init, ChecksIn, Reqs
    <2>. QED
      BY <2>1, FS_EmptySet, LimiterAssumption
  <1>2. HttpInv /\ TypeInv /\ LimitInv /\ LimitInv' /\ WindowLimit /\ [Next]_vars => WindowLimit'
    BY WindowKept
  <1>. QED
    BY <1>1, <1>2, HttpInvariant, HttpTypeInvariant, LimitInvariant, PTL DEF Spec

-----------------------------------------------------------------------------

Said == {"allowed", "refused", "failed"}

\* RefusedRightly for one request
Justified(q) ==
  verdict[q] = "refused" /\ Ip[q] \notin overtaken =>
    Cardinality(ChecksIn(Ip[q], calledAt[q], Said) \ {q}) >= MaxRequests

\* A check that is refused finds the limit of others in its window.
LEMMA RefusedCounted ==
  ASSUME TypeInv, LimitInv, NEW q \in Posts, verdict[q] = "none",
         \A e \in hits[Ip[q]] : ~(e.score > calledAt[q]),
         ~WithinLimit(Ip[q], q, calledAt[q]),
         NEW D, IsFiniteSet(D), ChecksIn(Ip[q], calledAt[q], Said) \ {q} \subseteq D
  PROVE  Cardinality(D) >= MaxRequests
  <1>. DEFINE W == InWindow(Ip[q], calledAt[q])
              f == [e \in W |-> e.member]
  <1>1. Ip[q] \in Identifiers /\ calledAt[q] \in Nat /\ Window \in Nat \ {0}
    BY Times
  <1>2. ASSUME NEW e \in W
        PROVE  e.member \in D /\ e = Entry(e.member, calledAt[e.member])
    <2>1. e \in hits[Ip[q]] /\ e.score + Window > calledAt[q]
      BY DEF InWindow
    <2>2. e.member \in Posts /\ e.score \in Nat /\ e = Entry(e.member, e.score)
      BY <1>1, <2>1, Times
    <2>3. Ip[e.member] = Ip[q] /\ e.score = calledAt[e.member] /\ verdict[e.member] # "none"
      BY <1>1, <2>1 DEF LimitInv, EntriesInv, Checked
    <2>4. verdict[e.member] \in Said
      <3>1. e.member \in Reqs
        BY <2>2 DEF Reqs
      <3>. QED
        BY <2>3, <3>1 DEF TypeInv, HttpTypeOK, Said
    <2>5. calledAt[e.member] <= calledAt[q] /\ calledAt[q] < calledAt[e.member] + Window
      BY <1>1, <2>1, <2>2, <2>3
    <2>6. e.member \in ChecksIn(Ip[q], calledAt[q], Said) \ {q}
      BY <2>2, <2>3, <2>4, <2>5 DEF ChecksIn
    <2>. QED
      BY <2>2, <2>3, <2>6
  <1>3. f \in Injection(W, D)
    <2>1. f \in [W -> D]
      BY <1>2
    <2>2. \A e, g \in W : f[e] = f[g] => e = g
      BY <1>2
    <2>. QED
      BY <2>1, <2>2 DEF Injection, IsInjective
  <1>4. IsFiniteSet(W)
    <2>1. IsFiniteSet(hits[Ip[q]]) /\ W \subseteq hits[Ip[q]]
      BY <1>1 DEF LimitInv, FiniteInv, InWindow
    <2>. QED
      BY <2>1, FS_Subset
  <1>5. Cardinality(W) <= Cardinality(D)
    <2>. HIDE DEF f, W
    <2>. QED
      BY <1>3, FS_Injection
  <1>6. /\ IsFiniteSet(W \cup {Entry(q, calledAt[q])})
        /\ Cardinality(W \cup {Entry(q, calledAt[q])}) \in {Cardinality(W), Cardinality(W) + 1}
    <2>. HIDE DEF W
    <2>. QED
      BY <1>4, FS_AddElement
  <1>7. ~(Cardinality(W \cup {Entry(q, calledAt[q])}) <= MaxRequests)
    BY DEF WithinLimit, Entries
  <1>8. Cardinality(W) \in Nat /\ Cardinality(D) \in Nat /\ MaxRequests \in Nat
    BY <1>4, FS_CardinalityType, Times
  <1>. QED
    BY <1>5, <1>6, <1>7, <1>8

LEMMA RefusedKept ==
  ASSUME HttpInv, TypeInv, LimitInv, LimitInv', \A p \in Posts : Justified(p), [Next]_vars,
         NEW p \in Posts
  PROVE  Justified(p)'
  <1>. SUFFICES ASSUME verdict'[p] = "refused", Ip[p] \notin overtaken',
                       NEW t, t = calledAt'[p]
                PROVE  Cardinality(ChecksIn(Ip[p], t, Said)' \ {p}) >= MaxRequests
    BY DEF Justified, ChecksIn
  <1>. "none" \notin Said
    BY DEF Said
  <1>0. IsFiniteSet(ChecksIn(Ip[p], t, Said)' \ {p})
    <2>1. ChecksIn(Ip[p], t, Said)' \subseteq Checked'
      BY DEF ChecksIn, Checked
    <2>2. IsFiniteSet(Checked')
      BY DEF LimitInv, FiniteInv
    <2>. QED
      BY <2>1, <2>2, FS_Subset
  <1>1. ASSUME verdict[p] = "refused", Ip[p] \notin overtaken, calledAt'[p] = calledAt[p],
               ChecksIn(Ip[p], t, Said) \subseteq ChecksIn(Ip[p], t, Said)'
        PROVE  Cardinality(ChecksIn(Ip[p], t, Said)' \ {p}) >= MaxRequests
    <2>. DEFINE O == ChecksIn(Ip[p], t, Said) \ {p}
                N == ChecksIn(Ip[p], t, Said)' \ {p}
    <2>1. Cardinality(O) >= MaxRequests
      BY <1>1 DEF Justified, ChecksIn
    <2>2. O \subseteq N
      BY <1>1
    <2>3. IsFiniteSet(N)
      BY <1>0
    <2>. HIDE DEF O, N
    <2>4. IsFiniteSet(O) /\ Cardinality(O) <= Cardinality(N)
      BY <2>2, <2>3, FS_Subset
    <2>5. Cardinality(O) \in Nat /\ Cardinality(N) \in Nat /\ MaxRequests \in Nat
      BY <2>3, <2>4, FS_CardinalityType, Times
    <2>6. Cardinality(N) >= MaxRequests
      BY <2>1, <2>4, <2>5
    <2>. QED
      BY <2>6 DEF N
  <1>2. CASE Unchecked
    <2>1. verdict[p] = "refused" /\ Ip[p] \notin overtaken
      BY <1>2 DEF Unchecked
    <2>2. calledAt'[p] = calledAt[p]
      BY <1>2, <2>1 DEF Unchecked, Checked
    <2>3. ChecksIn(Ip[p], t, Said)' = ChecksIn(Ip[p], t, Said)
      BY <1>2, <2>2, ChecksSame
    <2>. QED
      BY <1>1, <2>1, <2>2, <2>3
  <1>3. ASSUME NEW q \in Posts, NEW v \in Said, Judged(q, v)
        PROVE  Cardinality(ChecksIn(Ip[p], t, Said)' \ {p}) >= MaxRequests
    <2>1. calledAt' = calledAt /\ verdict[q] = "none" /\ verdict' = [verdict EXCEPT ![q] = v]
      BY <1>3 DEF Judged, Says
    <2>2. Ip[p] \notin overtaken
      BY <1>3 DEF Judged, Executed, Failed
    <2>3. ChecksIn(Ip[p], t, Said) \subseteq ChecksIn(Ip[p], t, Said)'
      BY <1>3, <2>1, ChecksGrow
    <2>4. CASE p # q
      <3>1. verdict[p] = "refused"
        BY <2>1, <2>4 DEF TypeInv, HttpTypeOK, Reqs
      <3>. QED
        BY <1>1, <2>1, <2>2, <2>3, <3>1
    <2>5. CASE p = q
      <3>1. v = "refused"
        BY <2>1, <2>5 DEF TypeInv, HttpTypeOK, Reqs
      <3>2. Executed(q, "refused")
        BY <1>3, <3>1 DEF Judged, Failed
      <3>3. ~WithinLimit(Ip[q], q, calledAt[q]) /\ \A e \in hits[Ip[q]] : ~(e.score > calledAt[q])
        BY <2>5, <3>2 DEF Executed
      <3>4. ChecksIn(Ip[q], calledAt[q], Said) \ {q} \subseteq ChecksIn(Ip[p], t, Said)' \ {p}
        BY <2>1, <2>3, <2>5 DEF ChecksIn
      <3>. QED
        BY <1>0, <2>1, <3>3, <3>4, RefusedCounted
    <2>. QED
      BY <2>4, <2>5
  <1>. QED
    BY <1>2, <1>3, StepKinds DEF Said

\* A request is refused only if there were as many as the limit before it in its
\* window, refused and failed ones counted (RateLimiter.ts:25-43).
THEOREM HttpRefusedRightly == Spec => []RefusedRightly
  <1>1. Init => \A q \in Posts : Justified(q)
    BY DEF Init, Justified, Reqs
  <1>2. HttpInv /\ TypeInv /\ LimitInv /\ LimitInv' /\ (\A q \in Posts : Justified(q)) /\ [Next]_vars
          => (\A q \in Posts : Justified(q))'
    BY RefusedKept
  <1>3. (\A q \in Posts : Justified(q)) => RefusedRightly
    BY DEF RefusedRightly, Justified, Said
  <1>. QED
    BY <1>1, <1>2, <1>3, HttpInvariant, HttpTypeInvariant, LimitInvariant, PTL DEF Spec
=============================================================================
