--------------------------- MODULE SetMapTheorems ---------------------------
(***************************************************************************)
(* What the operators of SetMap return: their types, and the set that At   *)
(* finds after an update.                                                  *)
(***************************************************************************)
EXTENDS SetMap, TLAPS

\* A map belongs to SetMaps(K, V) when its keys are in K and their sets are
\* non-empty subsets of V.
LEMMA SetMapsMember ==
  ASSUME NEW K, NEW V, NEW m
  PROVE  m \in SetMaps(K, V) <=>
           /\ m = [k \in DOMAIN m |-> m[k]]
           /\ DOMAIN m \subseteq K
           /\ \A k \in DOMAIN m : m[k] \subseteq V /\ m[k] # {}
<1>1. ASSUME m \in SetMaps(K, V)
      PROVE  /\ m = [k \in DOMAIN m |-> m[k]]
             /\ DOMAIN m \subseteq K
             /\ \A k \in DOMAIN m : m[k] \subseteq V /\ m[k] # {}
  <2>1. PICK S \in SUBSET K : m \in [S -> (SUBSET V) \ {{}}]
    BY <1>1 DEF SetMaps
  <2> QED
    BY <2>1
<1>2. ASSUME m = [k \in DOMAIN m |-> m[k]],
             DOMAIN m \subseteq K,
             \A k \in DOMAIN m : m[k] \subseteq V /\ m[k] # {}
      PROVE  m \in SetMaps(K, V)
  <2>1. m \in [DOMAIN m -> (SUBSET V) \ {{}}]
    BY <1>2
  <2> QED
    BY <1>2, <2>1 DEF SetMaps
<1> QED
  BY <1>1, <1>2

\* The new map is in SetMaps and has no key.
LEMMA EmptyMapType ==
  ASSUME NEW K, NEW V
  PROVE  EmptyMap \in SetMaps(K, V)
<1>1. EmptyMap \in [{} -> (SUBSET V) \ {{}}] /\ {} \in SUBSET K
  BY DEF EmptyMap
<1> QED
  BY <1>1 DEF SetMaps

LEMMA AtEmpty ==
  ASSUME NEW k
  PROVE  At(EmptyMap, k) = {}
BY DEF At, EmptyMap

LEMMA AtType ==
  ASSUME NEW K, NEW V, NEW m \in SetMaps(K, V), NEW k
  PROVE  At(m, k) \subseteq V
BY SetMapsMember DEF At

\* A key is in the map exactly when its set has an element.
LEMMA KeyIffNonEmpty ==
  ASSUME NEW K, NEW V, NEW m \in SetMaps(K, V), NEW k
  PROVE  k \in DOMAIN m <=> At(m, k) # {}
BY SetMapsMember DEF At

\* Compact leaves the set of every key as it was.
LEMMA AtCompact ==
  ASSUME NEW f, NEW k
  PROVE  At(Compact(f), k) = At(f, k)
BY DEF At, Compact

LEMMA CompactType ==
  ASSUME NEW K, NEW V, NEW f, DOMAIN f \subseteq K,
         \A k \in DOMAIN f : f[k] \subseteq V
  PROVE  Compact(f) \in SetMaps(K, V)
<1> DEFINE g == Compact(f)
<1>1. /\ DOMAIN g = {x \in DOMAIN f : f[x] # {}}
      /\ g = [k \in DOMAIN g |-> g[k]]
      /\ \A k \in DOMAIN g : g[k] = f[k]
  BY DEF Compact
<1> QED
  BY <1>1, SetMapsMember

LEMMA PutType ==
  ASSUME NEW K, NEW V, NEW m \in SetMaps(K, V),
         NEW ks \in SUBSET K, NEW vs \in SUBSET V
  PROVE  Put(m, ks, vs) \in SetMaps(K, V)
<1> DEFINE f == [k \in DOMAIN m \cup ks |->
                   IF k \in ks THEN At(m, k) \cup vs ELSE m[k]]
<1>1. DOMAIN f \subseteq K /\ \A k \in DOMAIN f : f[k] \subseteq V
  BY SetMapsMember, AtType
<1> QED
  BY <1>1, CompactType DEF Put

LEMMA DropType ==
  ASSUME NEW K, NEW V, NEW m \in SetMaps(K, V), NEW ks, NEW vs
  PROVE  Drop(m, ks, vs) \in SetMaps(K, V)
<1> DEFINE f == [k \in DOMAIN m |-> IF k \in ks THEN m[k] \ vs ELSE m[k]]
<1>1. DOMAIN f \subseteq K /\ \A k \in DOMAIN f : f[k] \subseteq V
  BY SetMapsMember
<1> QED
  BY <1>1, CompactType DEF Drop

LEMMA WithoutType ==
  ASSUME NEW K, NEW V, NEW m \in SetMaps(K, V), NEW ks
  PROVE  Without(m, ks) \in SetMaps(K, V)
BY SetMapsMember DEF Without

\* Put adds vs to the keys of ks and touches no other key.
LEMMA AtPut ==
  ASSUME NEW m, NEW ks, NEW vs, NEW k
  PROVE  At(Put(m, ks, vs), k) =
           IF k \in ks THEN At(m, k) \cup vs ELSE At(m, k)
<1> DEFINE f == [x \in DOMAIN m \cup ks |->
                   IF x \in ks THEN At(m, x) \cup vs ELSE m[x]]
<1>1. At(Put(m, ks, vs), k) = At(f, k)
  BY AtCompact DEF Put
<1>2. At(f, k) = IF k \in ks THEN At(m, k) \cup vs ELSE At(m, k)
  BY DEF At
<1> QED
  BY <1>1, <1>2

\* Drop takes vs from the keys of ks and touches no other key.
LEMMA AtDrop ==
  ASSUME NEW m, NEW ks, NEW vs, NEW k
  PROVE  At(Drop(m, ks, vs), k) =
           IF k \in ks THEN At(m, k) \ vs ELSE At(m, k)
BY AtCompact DEF Drop, At

LEMMA AtWithout ==
  ASSUME NEW m, NEW ks, NEW k
  PROVE  At(Without(m, ks), k) = IF k \in ks THEN {} ELSE At(m, k)
BY DEF Without, At
=============================================================================
