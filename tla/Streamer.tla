------------------------------ MODULE Streamer ------------------------------
(***************************************************************************)
(* The store of things that lie in the world (core/streamer.hpp on         *)
(* core/streamer_grid.hpp), and the set of configured things with their    *)
(* keys (core/dynamic_items.hpp), as operators.  A store is a function     *)
(* from the keys in use to what they stand for; keys are used again, the   *)
(* lowest first.  A place is one of a few spots, and a thing says from     *)
(* where it is seen and how far away it is there.                          *)
(***************************************************************************)
EXTENDS Integers, FiniteSets, FiniteSetsExt

CONSTANTS
  Things,    \* what may be put into a store
  Spots,     \* where a player may be
  KeyCap,    \* a bound on the keys
  Distance,  \* Distance[i]: how far i is, from each spot where it is in reach
  Look       \* what pickup_only_coords_less compares

Key == 0..(KeyCap - 1)

ASSUME StreamerAssumption ==
  /\ KeyCap \in Nat
  /\ Look \in [Things -> Nat]
  /\ \A i \in Things : \E S \in SUBSET Spots : Distance[i] \in [S -> Nat]

Stores == UNION {[K -> Things] : K \in SUBSET Key}
Keyed(I) == UNION {[J -> Key] : J \in SUBSET I}

None == [i \in {} |-> i]
KeysOf(data) == {data[i] : i \in DOMAIN data}
Removed(s, K) == [k \in DOMAIN s \ K |-> s[k]]

(* The keys get_unused_key gives to the things I, added one after the other
   in some order.                                                          *)
NewKeys(s, I) ==
  {f \in [I -> Key \ DOMAIN s] :
     /\ \A i, j \in I : f[i] = f[j] => i = j
     /\ \A k \in KeysOf(f) : \A j \in 0..k : j \in DOMAIN s \cup KeysOf(f)}

Added(s, f, thing) ==
  [k \in DOMAIN s \cup KeysOf(f) |->
     IF k \in DOMAIN s THEN s[k] ELSE thing[CHOOSE i \in DOMAIN f : f[i] = k]]

(* dynamic_items::update_end with the store's item_delete and item_add: first
   what is no longer wanted is deleted, then what is new is created.       *)
Gone(data, new) == {data[i] : i \in DOMAIN data \ new}
UpdateEnd(s, data, new, thing) ==
  LET left == Removed(s, Gone(data, new))
  IN {[store |-> Added(left, f, thing),
       data  |-> [i \in new |-> IF i \in DOMAIN data THEN data[i] ELSE f[i]]]
        : f \in NewKeys(left, new \ DOMAIN data)}

(* Up to n of the nearest, in the order of the multimap metrics_keys; of two
   that are equally far the one the grid lists first, so any.              *)
Nearest(metric, n) ==
  {K \in SUBSET DOMAIN metric :
     /\ Cardinality(K) <= n
     /\ Cardinality(K) = n \/ K = DOMAIN metric
     /\ \A k \in K, j \in DOMAIN metric \ K : metric[k] <= metric[j]}

InReach(s, S) == {k \in DOMAIN s : S \cap DOMAIN Distance[s[k]] # {}}

ItemsByPos(s, t, n) ==
  Nearest([k \in InReach(s, {t}) |-> Distance[s[k]][t]], n)

(* From several places at once, and of those that look the same only one.  *)
Collated(s, K) ==
  {U \in SUBSET K :
     \A k \in K : Cardinality({u \in U : Look[s[u]] = Look[s[k]]}) = 1}
ItemsByPoses(s, S, n) ==
  LET Metrics(k) == {Distance[s[k]][t] : t \in S \cap DOMAIN Distance[s[k]]}
      Alike(k)   == {j \in InReach(s, S) : Look[s[j]] = Look[s[k]]}
  IN UNION {Nearest([u \in U |-> Min(UNION {Metrics(j) : j \in Alike(u)})], n)
              : U \in Collated(s, InReach(s, S))}
=============================================================================
