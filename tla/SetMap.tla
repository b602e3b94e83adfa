------------------------------- MODULE SetMap -------------------------------
(***************************************************************************)
(* JavaScript's Map<K, Set<V>> the way this server keeps it: a key is      *)
(* present exactly while its set has an element.  RoomManager (rooms,      *)
(* userRooms) and ConnectionManager (userConnections) create the entry on  *)
(* the first insertion and delete it when the set becomes empty.           *)
(* A map is a function whose domain is its current set of keys.            *)
(***************************************************************************)

\* The maps from keys in K to non-empty sets of values of V.
SetMaps(K, V) == UNION {[S -> (SUBSET V) \ {{}}] : S \in SUBSET K}

EmptyMap == [k \in {} |-> {}]

\* map.get(k) ?? new Set()
At(m, k) == IF k \in DOMAIN m THEN m[k] ELSE {}

\* A faulty Compact: keys stay behind when their set is emptied.
CompactKeepsEmpty(f) == f

\* The entries of f that are worth keeping.
Compact(f) == [k \in {x \in DOMAIN f : f[x] # {}} |-> f[k]]

\* Add every value of vs to the set of every key of ks.
Put(m, ks, vs) ==
  Compact([k \in DOMAIN m \cup ks |->
             IF k \in ks THEN At(m, k) \cup vs ELSE m[k]])

\* Remove every value of vs from the set of every key of ks.
Drop(m, ks, vs) ==
  Compact([k \in DOMAIN m |-> IF k \in ks THEN m[k] \ vs ELSE m[k]])

\* map.delete(k) for every k in ks.
Without(m, ks) == [k \in DOMAIN m \ ks |-> m[k]]
=============================================================================
