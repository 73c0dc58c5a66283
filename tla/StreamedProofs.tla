--------------------------- MODULE StreamedProofs ---------------------------
(***************************************************************************)
(* Proofs about Streamer and Streamed.  Everything about keys comes from   *)
(* one lemma on update_end (UpdateKeeps): the keys of others keep what     *)
(* they stand for, the keys of data are exactly the rest, and each stands  *)
(* for its thing.  A reconfiguration applies it once to the objects, once  *)
(* to the shop and twice, in either order, to the pickups two parts share. *)
(* The invariants make the refinement of Scenery, which knows no keys.     *)
(***************************************************************************)
EXTENDS Streamed, FiniteSetTheorems, TLAPS

\* What update_end needs of a store and of the data one part keeps of it.
Fit(s, data, I) ==
  /\ s \in Stores /\ data \in Keyed(I)
  /\ KeysOf(data) \subseteq DOMAIN s
  /\ \A i, j \in DOMAIN data : data[i] = data[j] => i = j

LEMMA StoreShape ==
  ASSUME NEW s
  PROVE  s \in Stores <=> /\ s = [k \in DOMAIN s |-> s[k]]
                          /\ DOMAIN s \subseteq Key
                          /\ \A k \in DOMAIN s : s[k] \in Things
BY DEF Stores

LEMMA KeyedShape ==
  ASSUME NEW I, NEW f
  PROVE  f \in Keyed(I) <=> /\ f = [i \in DOMAIN f |-> f[i]]
                            /\ DOMAIN f \subseteq I
                            /\ \A i \in DOMAIN f : f[i] \in Key
BY DEF Keyed

LEMMA RemovedStore ==
  ASSUME NEW s \in Stores, NEW K
  PROVE  /\ Removed(s, K) \in Stores
         /\ DOMAIN Removed(s, K) = DOMAIN s \ K
         /\ \A k \in DOMAIN s \ K : Removed(s, K)[k] = s[k]
BY StoreShape DEF Removed

(* The store a holds what s holds, and the things of I under the keys of f,
   which nobody used in s, each its own.                                   *)
Adds(a, s, I, thing, f) ==
  /\ a \in Stores
  /\ DOMAIN a = DOMAIN s \cup KeysOf(f)
  /\ \A k \in DOMAIN s : a[k] = s[k]
  /\ \A i \in I : f[i] \in Key \ DOMAIN s /\ a[f[i]] = thing[i]
  /\ \A i, j \in I : f[i] = f[j] => i = j
  /\ KeysOf(f) = {f[i] : i \in I}

LEMMA AddedHolds ==
  ASSUME NEW s \in Stores, NEW I, NEW thing,
         \A i \in I : thing[i] \in Things,
         NEW f \in NewKeys(s, I)
  PROVE  Adds(Added(s, f, thing), s, I, thing, f)
<1> DEFINE a == Added(s, f, thing)
<1>1. /\ f \in [I -> Key \ DOMAIN s]
      /\ \A i, j \in I : f[i] = f[j] => i = j
  BY DEF NewKeys
<1>2. KeysOf(f) = {f[i] : i \in I} /\ KeysOf(f) \subseteq Key
  BY <1>1 DEF KeysOf
<1>3. DOMAIN a = DOMAIN s \cup KeysOf(f) /\ a = [k \in DOMAIN a |-> a[k]]
  BY DEF Added
<1>4. \A k \in DOMAIN s : a[k] = s[k]
  BY DEF Added
<1>5. ASSUME NEW i \in I
      PROVE  a[f[i]] = thing[i]
  <2>1. f[i] \in KeysOf(f) /\ f[i] \notin DOMAIN s /\ i \in DOMAIN f
    BY <1>1, <1>2
  <2>2. (CHOOSE j \in DOMAIN f : f[j] = f[i]) = i
    BY <1>1, <2>1
  <2> QED
    BY <2>1, <2>2 DEF Added
<1>6. \A k \in DOMAIN a : a[k] \in Things
  BY <1>2, <1>3, <1>4, <1>5, StoreShape
<1>7. DOMAIN s \subseteq Key
  BY StoreShape
<1>8. a \in Stores
  BY <1>2, <1>3, <1>6, <1>7, StoreShape
<1> HIDE DEF a
<1>9. Adds(a, s, I, thing, f)
  BY <1>1, <1>2, <1>3, <1>4, <1>5, <1>8 DEF Adds
<1> QED
  BY <1>9 DEF a

LEMMA NoneFits ==
  ASSUME NEW s \in Stores, NEW I
  PROVE  Fit(s, None, I) /\ None \in Stores /\ DOMAIN None = {} /\ KeysOf(None) = {}
<1>1. DOMAIN None = {} /\ None = [i \in DOMAIN None |-> None[i]]
  BY DEF None
<1>2. None \in Stores
  BY <1>1, StoreShape
<1>3. None \in Keyed(I)
  BY <1>1, KeyedShape
<1>4. KeysOf(None) = {}
  BY <1>1 DEF KeysOf
<1> QED
  BY <1>1, <1>2, <1>3, <1>4 DEF Fit

(* The keys of others keep what they stand for, as do the keys of what stays;
   the rest of the keys are those of new, each its own.                    *)
Renews(r, s, data, I, new, thing) ==
  /\ Fit(r.store, r.data, I)
  /\ DOMAIN r.data = new
  /\ DOMAIN r.store = (DOMAIN s \ KeysOf(data)) \cup KeysOf(r.data)
  /\ KeysOf(r.data) \cap (DOMAIN s \ KeysOf(data)) = {}
  /\ \A k \in DOMAIN s \ Gone(data, new) :
       k \in DOMAIN r.store /\ r.store[k] = s[k]
  /\ \A i \in new \cap DOMAIN data : r.data[i] = data[i]
  /\ \A i \in new \ DOMAIN data : r.store[r.data[i]] = thing[i]

LEMMA UpdateKeeps ==
  ASSUME NEW s, NEW data, NEW I, Fit(s, data, I),
         NEW new \in SUBSET I, NEW thing, \A i \in new : thing[i] \in Things,
         NEW r \in UpdateEnd(s, data, new, thing)
  PROVE  Renews(r, s, data, I, new, thing)
<1> DEFINE left == Removed(s, Gone(data, new))
           made == new \ DOMAIN data
<1>1. PICK f \in NewKeys(left, made) :
        r = [store |-> Added(left, f, thing),
             data  |-> [i \in new |-> IF i \in DOMAIN data THEN data[i] ELSE f[i]]]
  BY DEF UpdateEnd
<1>2. f \in NewKeys(left, made) /\ r.store = Added(left, f, thing)
  BY <1>1
<1>0. r.data = [i \in new |-> IF i \in DOMAIN data THEN data[i] ELSE f[i]]
  BY <1>1
<1>3. /\ s \in Stores /\ data \in Keyed(I) /\ KeysOf(data) \subseteq DOMAIN s
      /\ \A i, j \in DOMAIN data : data[i] = data[j] => i = j
  BY DEF Fit
<1>4. /\ left \in Stores /\ DOMAIN left = DOMAIN s \ Gone(data, new)
      /\ \A k \in DOMAIN left : left[k] = s[k]
  <2> DEFINE gone == Gone(data, new)
  <2> HIDE DEF gone
  <2>1. /\ Removed(s, gone) \in Stores /\ DOMAIN Removed(s, gone) = DOMAIN s \ gone
        /\ \A k \in DOMAIN s \ gone : Removed(s, gone)[k] = s[k]
    BY <1>3, RemovedStore
  <2> QED
    BY <2>1 DEF gone
<1> HIDE DEF left, made
<1>5. /\ r.store \in Stores
      /\ DOMAIN r.store = DOMAIN left \cup KeysOf(f)
      /\ \A k \in DOMAIN left : r.store[k] = left[k]
      /\ \A i \in made : f[i] \in Key \ DOMAIN left /\ r.store[f[i]] = thing[i]
      /\ \A i, j \in made : f[i] = f[j] => i = j
      /\ KeysOf(f) = {f[i] : i \in made}
  <2>1. \A i \in made : thing[i] \in Things
    BY DEF made
  <2>2. left \in Stores
    BY <1>4
  <2>3. Adds(r.store, left, made, thing, f)
    BY <1>2, <2>1, <2>2, AddedHolds
  <2> QED
    BY <2>3 DEF Adds
<1> USE DEF made
<1>6. /\ DOMAIN r.data = new
      /\ \A i \in new \cap DOMAIN data : r.data[i] = data[i]
      /\ \A i \in made : r.data[i] = f[i]
      /\ r.data = [i \in DOMAIN r.data |-> r.data[i]]
  BY <1>0
<1>7. \A i \in DOMAIN data : data[i] \in DOMAIN s /\ data[i] \in Key
  BY <1>3, KeyedShape DEF KeysOf
<1>8. \A i \in new \cap DOMAIN data : data[i] \in DOMAIN left
  BY <1>3, <1>4, <1>7 DEF Gone
<1>9. \A i, j \in new : r.data[i] = r.data[j] => i = j
  <2> SUFFICES ASSUME NEW i \in new, NEW j \in new, r.data[i] = r.data[j]
               PROVE  i = j
    OBVIOUS
  <2>1. CASE i \in DOMAIN data /\ j \in DOMAIN data
    BY <1>3, <1>6, <2>1
  <2>2. CASE i \in made /\ j \in made
    BY <1>5, <1>6, <2>2
  <2>3. CASE i \in made /\ j \in DOMAIN data
    BY <1>5, <1>6, <1>8, <2>3
  <2>4. CASE j \in made /\ i \in DOMAIN data
    BY <1>5, <1>6, <1>8, <2>4
  <2> QED
    BY <2>1, <2>2, <2>3, <2>4
<1>10. \A i \in new : r.data[i] \in DOMAIN r.store /\ r.data[i] \in Key
  BY <1>5, <1>6, <1>7, <1>8
<1>11. KeysOf(r.data) = {r.data[i] : i \in new}
  BY <1>6 DEF KeysOf
<1>12. Fit(r.store, r.data, I)
  <2>1. r.data \in Keyed(I)
    BY <1>6, <1>10, KeyedShape
  <2> QED
    BY <1>5, <1>6, <1>9, <1>10, <1>11, <2>1 DEF Fit
<1>13. KeysOf(data) = {data[i] : i \in DOMAIN data} /\ Gone(data, new) \subseteq KeysOf(data)
  BY DEF KeysOf, Gone
<1>14. KeysOf(r.data) \cap (DOMAIN s \ KeysOf(data)) = {}
  <2> SUFFICES ASSUME NEW i \in new, r.data[i] \in DOMAIN s \ KeysOf(data)
               PROVE  FALSE
    BY <1>11
  <2>1. i \notin DOMAIN data
    BY <1>6, <1>13
  <2> QED
    BY <1>4, <1>5, <1>6, <1>13, <2>1
<1>15. DOMAIN r.store = (DOMAIN s \ KeysOf(data)) \cup KeysOf(r.data)
  <2>1. \A k \in DOMAIN left : k \in KeysOf(data) => k \in KeysOf(r.data)
    BY <1>4, <1>6, <1>11, <1>13 DEF Gone
  <2>2. \A k \in KeysOf(f) : k \in KeysOf(r.data)
    BY <1>5, <1>6, <1>11
  <2>3. DOMAIN s \ KeysOf(data) \subseteq DOMAIN left
    BY <1>4, <1>13
  <2>4. KeysOf(r.data) \subseteq DOMAIN r.store
    BY <1>10, <1>11
  <2>5. DOMAIN left \subseteq DOMAIN s
    BY <1>4
  <2> QED
    BY <1>5, <2>1, <2>2, <2>3, <2>4, <2>5
<1> QED
  BY <1>4, <1>5, <1>6, <1>12, <1>14, <1>15 DEF Renews
-----------------------------------------------------------------------------
\* What a part that had data in s finds after its update_end.
Updated(r, s, data, I, new, thing) ==
  /\ Fit(r.store, r.data, I) /\ DOMAIN r.data = new
  /\ Holds(r.store, r.data, thing)
  /\ DOMAIN r.store = (DOMAIN s \ KeysOf(data)) \cup KeysOf(r.data)
  /\ KeysOf(r.data) \cap (DOMAIN s \ KeysOf(data)) = {}

\* All keys of s but those in K stand for what they stood for.
Kept(r, s, K) == \A k \in DOMAIN s \ K : k \in DOMAIN r.store /\ r.store[k] = s[k]

LEMMA UpdateHolds ==
  ASSUME NEW s, NEW data, NEW I, Fit(s, data, I),
         NEW new \in SUBSET I, NEW thing, \A i \in new : thing[i] \in Things,
         Holds(s, data, thing),
         NEW r \in UpdateEnd(s, data, new, thing)
  PROVE  Updated(r, s, data, I, new, thing) /\ Kept(r, s, Gone(data, new))
<1>0. Renews(r, s, data, I, new, thing)
  BY UpdateKeeps
<1>1. /\ Fit(r.store, r.data, I)
      /\ DOMAIN r.data = new
      /\ DOMAIN r.store = (DOMAIN s \ KeysOf(data)) \cup KeysOf(r.data)
      /\ KeysOf(r.data) \cap (DOMAIN s \ KeysOf(data)) = {}
      /\ \A k \in DOMAIN s \ Gone(data, new) :
           k \in DOMAIN r.store /\ r.store[k] = s[k]
      /\ \A i \in new \cap DOMAIN data : r.data[i] = data[i]
      /\ \A i \in new \ DOMAIN data : r.store[r.data[i]] = thing[i]
  BY <1>0 DEF Renews
<1>2. \A i \in new \cap DOMAIN data : data[i] \in DOMAIN s \ Gone(data, new)
  BY DEF Fit, Gone, KeysOf
<1>3. \A i \in new : r.data[i] \in DOMAIN r.store
  BY <1>1 DEF KeysOf
<1>4. ASSUME NEW i \in new
      PROVE  r.store[r.data[i]] = thing[i]
  <2>1. CASE i \in DOMAIN data
    <3>1. r.data[i] = data[i] /\ r.store[data[i]] = s[data[i]]
      BY <1>1, <1>2, <2>1
    <3>2. s[data[i]] = thing[i]
      BY <2>1 DEF Holds
    <3> QED
      BY <3>1, <3>2
  <2>2. CASE i \notin DOMAIN data
    BY <1>1, <2>2
  <2> QED
    BY <2>1, <2>2
<1>5. Holds(r.store, r.data, thing)
  BY <1>1, <1>3, <1>4 DEF Holds, Fit
<1> QED
  BY <1>1, <1>5 DEF Updated, Kept

\* The same when other definitions renew everything first.
LEMMA Renewed ==
  ASSUME NEW d, NEW s, NEW data, NEW I, Fit(s, data, I),
         NEW new \in SUBSET I, NEW thing, \A i \in new : thing[i] \in Things,
         d = defs => Holds(s, data, thing),
         NEW r \in UpdateEnd(Rest(d, s, data), Stay(d, data), new, thing)
  PROVE  /\ Updated(r, s, data, I, new, thing)
         /\ Kept(r, s, Gone(data, IF d = defs THEN new ELSE {}))
<1>1. CASE d = defs
  BY <1>1, UpdateHolds DEF Rest, Stay
<1>2. CASE d # defs
  <2> DEFINE t == Removed(s, KeysOf(data))
  <2>1. r \in UpdateEnd(t, None, new, thing)
    BY <1>2 DEF Rest, Stay
  <2>2. /\ t \in Stores /\ DOMAIN t = DOMAIN s \ KeysOf(data)
        /\ \A k \in DOMAIN s \ KeysOf(data) : t[k] = s[k]
    BY RemovedStore DEF Fit
  <2> HIDE DEF t
  <2>3. Fit(t, None, I) /\ DOMAIN None = {} /\ KeysOf(None) = {}
    BY <2>2, NoneFits
  <2>4. Holds(t, None, thing)
    BY <2>3 DEF Holds
  <2>5. Updated(r, t, None, I, new, thing) /\ Kept(r, t, Gone(None, new))
    BY <2>1, <2>3, <2>4, UpdateHolds
  <2>6. Gone(None, new) = {} /\ Gone(data, {}) = KeysOf(data)
    BY <2>3 DEF Gone, KeysOf
  <2>7. Kept(r, s, Gone(data, {}))
    BY <2>2, <2>5, <2>6 DEF Kept
  <2>8. Updated(r, s, data, I, new, thing)
    BY <2>2, <2>3, <2>5 DEF Updated
  <2> QED
    BY <1>2, <2>7, <2>8
<1> QED
  BY <1>1, <1>2

\* Who shares the store does not notice.
LEMMA OthersKept ==
  ASSUME NEW s, NEW r, NEW K, Kept(r, s, K), r.store \in Stores,
         NEW other, NEW J, Fit(s, other, J), KeysOf(other) \cap K = {},
         NEW thing, Holds(s, other, thing)
  PROVE  Fit(r.store, other, J) /\ Holds(r.store, other, thing)
<1>1. \A j \in DOMAIN other : other[j] \in DOMAIN s \ K
  BY DEF Fit, KeysOf
<1>2. \A j \in DOMAIN other : other[j] \in DOMAIN r.store
                              /\ r.store[other[j]] = s[other[j]]
  BY <1>1 DEF Kept
<1> QED
  BY <1>2 DEF Fit, Holds, KeysOf

\* One part after the other in the store they share.
LEMMA Shared ==
  ASSUME NEW s, NEW a, NEW A, Fit(s, a, A), NEW b, NEW B, Fit(s, b, B),
         DOMAIN s = KeysOf(a) \cup KeysOf(b), KeysOf(a) \cap KeysOf(b) = {},
         NEW n, NEW t, NEW r, NEW K, K \subseteq KeysOf(a),
         Updated(r, s, a, A, n, t), Kept(r, s, K),
         NEW m, NEW u, NEW q, NEW L, L \subseteq KeysOf(b),
         Updated(q, r.store, b, B, m, u), Kept(q, r.store, L)
  PROVE  /\ Fit(q.store, r.data, A) /\ Holds(q.store, r.data, t)
         /\ DOMAIN q.store = KeysOf(r.data) \cup KeysOf(q.data)
         /\ KeysOf(r.data) \cap KeysOf(q.data) = {}
         /\ Kept(q, s, K \cup L)
<1>1. /\ Fit(r.store, r.data, A) /\ Holds(r.store, r.data, t)
      /\ DOMAIN r.store = KeysOf(b) \cup KeysOf(r.data)
      /\ KeysOf(r.data) \cap KeysOf(b) = {}
  BY DEF Updated
<1>2. /\ q.store \in Stores
      /\ DOMAIN q.store = KeysOf(r.data) \cup KeysOf(q.data)
      /\ KeysOf(r.data) \cap KeysOf(q.data) = {}
  BY <1>1 DEF Updated, Fit
<1>3. Fit(q.store, r.data, A) /\ Holds(q.store, r.data, t)
  BY <1>1, <1>2, OthersKept
<1>4. Kept(q, s, K \cup L)
  BY DEF Kept
<1> QED
  BY <1>2, <1>3, <1>4
-----------------------------------------------------------------------------
(* Who is away has nothing; without it the invariants would not survive his
   return.                                                                 *)
Absent == \A p \in Players \ on :
  last[p] = Origin /\ seen[p] = None /\ near[p] = {} /\ offer[p] = NoOffer

Inv == /\ TypeOK /\ StoresOwned /\ Absent
       /\ ShownAreCurrent /\ SeesWhatIsNear /\ OfferIsSeen

\* What is shown under the keys of v is what they stand for in s.
Current(v, s) == \A k \in DOMAIN v : k \in DOMAIN s /\ v[k] = s[k]

LEMMA RemovedCurrent ==
  ASSUME NEW v \in Stores, NEW K, NEW s, Current(v, s),
         NEW r, Kept(r, s, K)
  PROVE  Removed(v, K) \in Stores /\ Current(Removed(v, K), r.store)
<1> DEFINE w == Removed(v, K)
<1>1. w \in Stores /\ DOMAIN w = DOMAIN v \ K /\ \A k \in DOMAIN w : w[k] = v[k]
  BY RemovedStore
<1> HIDE DEF w
<1>2. Current(w, r.store)
  BY <1>1 DEF Current, Kept
<1> QED
  BY <1>1, <1>2 DEF w

LEMMA RemovedNone ==
  ASSUME NEW K
  PROVE  Removed(None, K) = None
<1>1. Removed(None, K) = [k \in {} |-> None[k]]
  BY DEF Removed, None
<1> QED
  BY <1>1 DEF None

LEMMA ShownCurrent ==
  ASSUME NEW s \in Stores, NEW old \in Stores, Current(old, s),
         NEW K, K \subseteq DOMAIN s
  PROVE  /\ Shown(s, old, K) \in Stores /\ DOMAIN Shown(s, old, K) = K
         /\ Current(Shown(s, old, K), s)
<1> DEFINE v == Shown(s, old, K)
<1>1. DOMAIN v = K /\ v = [k \in DOMAIN v |-> v[k]]
  BY DEF Shown
<1>2. \A k \in K : v[k] = s[k]
  BY DEF Shown, Current
<1> HIDE DEF v
<1>3. v \in Stores /\ Current(v, s)
  BY <1>1, <1>2, StoreShape DEF Current
<1> QED
  BY <1>1, <1>3 DEF v

\* Only what lies there is found.
LEMMA FoundLies ==
  ASSUME NEW s, NEW t, NEW n, NEW K \in ItemsByPos(s, t, n)
  PROVE  K \subseteq DOMAIN s
<1>1. K \in SUBSET DOMAIN [k \in InReach(s, {t}) |-> Distance[s[k]][t]]
  BY DEF ItemsByPos, Nearest
<1> QED
  BY <1>1 DEF InReach

LEMMA FoundLieThere ==
  ASSUME NEW s, NEW S, NEW n, NEW K \in ItemsByPoses(s, S, n)
  PROVE  K \subseteq DOMAIN s
<1> DEFINE M(U) == [u \in U |-> Min(UNION {{Distance[s[k]][t] : t \in S \cap DOMAIN Distance[s[k]]} : k \in {j \in InReach(s, S) : Look[s[j]] = Look[s[u]]}})]
<1>1. PICK U \in Collated(s, InReach(s, S)) : K \in Nearest(M(U), n)
  BY DEF ItemsByPoses
<1>2. U \subseteq InReach(s, S)
  BY <1>1 DEF Collated
<1>3. DOMAIN M(U) = U
  OBVIOUS
<1> HIDE DEF M
<1>4. K \subseteq DOMAIN M(U)
  BY <1>1 DEF Nearest
<1> QED
  BY <1>2, <1>3, <1>4 DEF InReach

\* At most one thing is for sale at a place.
LEMMA OneOffer ==
  ASSUME NEW s \in Stores, NEW t, NEW K \in ItemsByPos(s, t, 1), NEW j \in K, NEW k \in K
  PROVE  j = k
<1>1. K \subseteq DOMAIN s /\ DOMAIN s \subseteq 0..(KeyCap - 1)
  BY FoundLies, StoreShape DEF Key
<1>2. IsFiniteSet(K)
  <2>1. 0 \in Int /\ KeyCap - 1 \in Int
    BY StreamerAssumption
  <2>2. IsFiniteSet(0..(KeyCap - 1))
    BY <2>1, FS_Interval
  <2> QED
    BY <1>1, <2>2, FS_Subset
<1>3. Cardinality(K) <= 1
  BY DEF ItemsByPos, Nearest
<1>4. Cardinality(K) \in Nat
  BY <1>2, FS_CardinalityType
<1>5. Cardinality(K) = 0 \/ Cardinality(K) = 1
  BY <1>3, <1>4
<1>6. K # {}
  OBVIOUS
<1>7. PICK i : K = {i}
  BY <1>2, <1>5, <1>6, FS_EmptySet, FS_Singleton
<1> QED
  BY <1>7

LEMMA SameIs ==
  ASSUME NEW I, NEW i \in I
  PROVE  Same(I)[i] = i
BY DEF Same

LEMMA PicksAreThings ==
  ASSUME NEW d \in Defs, NEW G \in SUBSET DOMAIN PickupOf[d]
  PROVE  G \subseteq Goods /\ \A i \in G : PickupOf[d][i] \in Things
<1>1. PICK H \in SUBSET Goods : PickupOf[d] \in [H -> Things]
  BY StreamedAssumption
<1> QED
  BY <1>1

\* Each part alone has what its update_end needs.
LEMMA PartsFit ==
  ASSUME TypeOK, StoresOwned
  PROVE  /\ Fit(objects, objectKey, Objects) /\ Fit(shop, shopKey, Goods)
         /\ Fit(pickups, plainPick, Plain) /\ Fit(pickups, shopPick, Goods)
BY DEF TypeOK, StoresOwned, Fit, Holds

LEMMA ObjectsRenewed ==
  ASSUME Inv, NEW O \in SUBSET Objects, NEW n \in Nat, ObjectsPost(O, n)
  PROVE  /\ objects' \in Stores /\ objectKey' \in Keyed(Objects) /\ limit' = n
         /\ Holds(objects', objectKey', Same(Objects))
         /\ DOMAIN objects' = KeysOf(objectKey')
         /\ last' = [p \in Players |-> Origin]
         /\ seen' \in [Players -> Stores]
         /\ \A p \in Players : Current(seen'[p], objects')
         /\ \A p \in Players \ on : seen'[p] = None
<1>1. PICK r \in UpdateEnd(objects, objectKey, O, Same(Objects)) :
        objects' = r.store /\ objectKey' = r.data
  BY DEF ObjectsPost
<1>2. Fit(objects, objectKey, Objects) /\ Holds(objects, objectKey, Same(Objects))
  BY PartsFit DEF Inv, StoresOwned
<1>3. \A i \in O : Same(Objects)[i] \in Things
  BY SameIs, StreamedAssumption
<1>4. /\ Updated(r, objects, objectKey, Objects, O, Same(Objects))
      /\ Kept(r, objects, Gone(objectKey, O))
  BY <1>1, <1>2, <1>3, UpdateHolds
<1>5. DOMAIN objects = KeysOf(objectKey)
  BY DEF Inv, StoresOwned
<1>6. seen' = [p \in Players |-> Removed(seen[p], Gone(objectKey, O))]
      /\ limit' = n /\ last' = [p \in Players |-> Origin]
  BY DEF ObjectsPost
<1>7. ASSUME NEW p \in Players
      PROVE  seen'[p] \in Stores /\ Current(seen'[p], objects')
  <2>1. seen[p] \in Stores /\ Current(seen[p], objects)
    BY DEF Inv, TypeOK, ShownAreCurrent, Current
  <2> QED
    BY <1>1, <1>4, <1>6, <2>1, RemovedCurrent
<1>8. ASSUME NEW p \in Players \ on
      PROVE  seen'[p] = None
  BY <1>6, RemovedNone DEF Inv, Absent
<1> QED
  BY <1>1, <1>4, <1>5, <1>6, <1>7, <1>8 DEF Updated, Fit

LEMMA ShopRenewed ==
  ASSUME Inv, NEW d \in Defs, NEW G \in SUBSET Goods, ShopPost(d, G)
  PROVE  /\ shop' \in Stores /\ shopKey' \in Keyed(Goods) /\ defs' = d
         /\ Holds(shop', shopKey', Same(Goods))
         /\ DOMAIN shop' = KeysOf(shopKey')
         /\ DOMAIN shopKey' = G
<1>1. PICK r \in UpdateEnd(Rest(d, shop, shopKey), Stay(d, shopKey), G, Same(Goods)) :
        shop' = r.store /\ shopKey' = r.data
  BY DEF ShopPost
<1>2. Fit(shop, shopKey, Goods) /\ Holds(shop, shopKey, Same(Goods))
  BY PartsFit DEF Inv, StoresOwned
<1>3. \A i \in G : Same(Goods)[i] \in Things
  BY SameIs, StreamedAssumption
<1>4. Updated(r, shop, shopKey, Goods, G, Same(Goods))
  BY <1>1, <1>2, <1>3, Renewed
<1>5. DOMAIN shop = KeysOf(shopKey) /\ defs' = d
  BY DEF Inv, StoresOwned, ShopPost
<1> QED
  BY <1>1, <1>4, <1>5 DEF Updated, Fit

LEMMA PickupsRenewed ==
  ASSUME Inv, NEW d \in Defs, NEW G \in SUBSET DOMAIN PickupOf[d],
         NEW P \in SUBSET Plain, PickupsPost(d, G, P)
  PROVE  /\ pickups' \in Stores /\ plainPick' \in Keyed(Plain)
         /\ shopPick' \in Keyed(Goods) /\ world' \in Stores
         /\ Holds(pickups', plainPick', Same(Plain))
         /\ Holds(pickups', shopPick', PickupOf[d])
         /\ DOMAIN pickups' = KeysOf(plainPick') \cup KeysOf(shopPick')
         /\ KeysOf(plainPick') \cap KeysOf(shopPick') = {}
         /\ DOMAIN shopPick' = G
         /\ Current(world', pickups')
<1> DEFINE K == Gone(plainPick, P)
           L == Gone(shopPick, IF d = defs THEN G ELSE {})
<1>1. /\ Fit(pickups, plainPick, Plain) /\ Fit(pickups, shopPick, Goods)
      /\ Holds(pickups, plainPick, Same(Plain))
      /\ Holds(pickups, shopPick, PickupOf[defs])
      /\ DOMAIN pickups = KeysOf(plainPick) \cup KeysOf(shopPick)
      /\ KeysOf(plainPick) \cap KeysOf(shopPick) = {}
  BY PartsFit DEF Inv, StoresOwned
<1>2. K \subseteq KeysOf(plainPick) /\ L \subseteq KeysOf(shopPick)
  BY DEF Gone, KeysOf
<1>3. /\ G \in SUBSET Goods /\ \A i \in G : PickupOf[d][i] \in Things
      /\ \A i \in P : Same(Plain)[i] \in Things
  BY PicksAreThings, SameIs, StreamedAssumption
<1>4. world' = Removed(world, K \cup L)
  BY DEF PickupsPost
<1>5. world \in Stores /\ Current(world, pickups)
  BY DEF Inv, TypeOK, ShownAreCurrent, Current
<1> HIDE DEF K, L
<1>6. CASE PickupsFirst
  <2>1. PICK r \in PlainPicks(pickups, P) : \E q \in ShopPicks(r.store, d, G) :
          pickups' = q.store /\ plainPick' = r.data /\ shopPick' = q.data
    BY <1>6 DEF PickupsPost
  <2>2. PICK q \in ShopPicks(r.store, d, G) :
          pickups' = q.store /\ plainPick' = r.data /\ shopPick' = q.data
    BY <2>1
  <2>3. Updated(r, pickups, plainPick, Plain, P, Same(Plain)) /\ Kept(r, pickups, K)
    <3>1. r \in UpdateEnd(pickups, plainPick, P, Same(Plain))
      BY <2>1 DEF PlainPicks
    <3> QED
      BY <1>1, <1>3, <3>1, UpdateHolds DEF K
  <2>4. Fit(r.store, shopPick, Goods) /\ Holds(r.store, shopPick, PickupOf[defs])
    <3>1. r.store \in Stores /\ KeysOf(shopPick) \cap K = {}
      BY <1>1, <1>2, <2>3 DEF Updated, Fit
    <3> QED
      BY <1>1, <2>3, <3>1, OthersKept
  <2>5. Updated(q, r.store, shopPick, Goods, G, PickupOf[d]) /\ Kept(q, r.store, L)
    <3>1. q \in UpdateEnd(Rest(d, r.store, shopPick), Stay(d, shopPick), G, PickupOf[d])
      BY <2>2 DEF ShopPicks
    <3> QED
      BY <1>3, <2>4, <3>1, Renewed DEF L
  <2>6. /\ Fit(q.store, r.data, Plain) /\ Holds(q.store, r.data, Same(Plain))
        /\ DOMAIN q.store = KeysOf(r.data) \cup KeysOf(q.data)
        /\ KeysOf(r.data) \cap KeysOf(q.data) = {}
        /\ Kept(q, pickups, K \cup L)
    BY <1>1, <1>2, <2>3, <2>5, Shared
  <2>7. /\ Fit(q.store, q.data, Goods) /\ Holds(q.store, q.data, PickupOf[d])
        /\ DOMAIN q.data = G
    BY <2>5 DEF Updated
  <2>8. Removed(world, K \cup L) \in Stores /\ Current(Removed(world, K \cup L), q.store)
    BY <1>5, <2>6, RemovedCurrent
  <2> QED
    BY <1>4, <2>2, <2>6, <2>7, <2>8 DEF Fit
<1>7. CASE ~PickupsFirst
  <2>1. PICK q \in ShopPicks(pickups, d, G) : \E r \in PlainPicks(q.store, P) :
          pickups' = r.store /\ plainPick' = r.data /\ shopPick' = q.data
    BY <1>7 DEF PickupsPost
  <2>2. PICK r \in PlainPicks(q.store, P) :
          pickups' = r.store /\ plainPick' = r.data /\ shopPick' = q.data
    BY <2>1
  <2>3. Updated(q, pickups, shopPick, Goods, G, PickupOf[d]) /\ Kept(q, pickups, L)
    <3>1. q \in UpdateEnd(Rest(d, pickups, shopPick), Stay(d, shopPick), G, PickupOf[d])
      BY <2>1 DEF ShopPicks
    <3> QED
      BY <1>1, <1>3, <3>1, Renewed DEF L
  <2>4. Fit(q.store, plainPick, Plain) /\ Holds(q.store, plainPick, Same(Plain))
    <3>1. q.store \in Stores /\ KeysOf(plainPick) \cap L = {}
      BY <1>1, <1>2, <2>3 DEF Updated, Fit
    <3> QED
      BY <1>1, <2>3, <3>1, OthersKept
  <2>5. Updated(r, q.store, plainPick, Plain, P, Same(Plain)) /\ Kept(r, q.store, K)
    <3>1. r \in UpdateEnd(q.store, plainPick, P, Same(Plain))
      BY <2>2 DEF PlainPicks
    <3> QED
      BY <1>3, <2>4, <3>1, UpdateHolds DEF K
  <2>6. /\ Fit(r.store, q.data, Goods) /\ Holds(r.store, q.data, PickupOf[d])
        /\ DOMAIN r.store = KeysOf(q.data) \cup KeysOf(r.data)
        /\ KeysOf(q.data) \cap KeysOf(r.data) = {}
        /\ Kept(r, pickups, L \cup K)
    <3>1. /\ DOMAIN pickups = KeysOf(shopPick) \cup KeysOf(plainPick)
          /\ KeysOf(shopPick) \cap KeysOf(plainPick) = {}
      BY <1>1
    <3> QED
      BY <1>1, <1>2, <2>3, <2>5, <3>1, Shared
  <2>7. /\ Fit(r.store, r.data, Plain) /\ Holds(r.store, r.data, Same(Plain))
        /\ DOMAIN q.data = G
    BY <2>3, <2>5 DEF Updated
  <2>8. Removed(world, L \cup K) \in Stores /\ Current(Removed(world, L \cup K), r.store)
    BY <1>5, <2>6, RemovedCurrent
  <2>9. K \cup L = L \cup K
    OBVIOUS
  <2>10. world' \in Stores /\ Current(world', pickups')
    BY <1>4, <2>2, <2>8, <2>9
  <2> QED
    BY <2>2, <2>6, <2>7, <2>10 DEF Fit
<1> QED
  BY <1>6, <1>7
-----------------------------------------------------------------------------
LEMMA InitInv ==
  ASSUME Init
  PROVE  Inv
<1>1. None \in Stores /\ DOMAIN None = {} /\ KeysOf(None) = {}
  BY NoneFits, KeyedShape DEF Stores, None, KeysOf
<1>2. \A I : None \in Keyed(I)
  BY KeyedShape DEF None
<1>3. TypeOK
  BY <1>1, <1>2, StreamedAssumption DEF Init, TypeOK
<1>4. \A thing : Holds(None, None, thing)
  BY <1>1 DEF Holds
<1>5. StoresOwned
  BY <1>1, <1>4 DEF Init, StoresOwned
<1>6. Absent
  BY DEF Init, Absent
<1>7. ShownAreCurrent /\ SeesWhatIsNear /\ OfferIsSeen
  BY <1>1 DEF Init, ShownAreCurrent, SeesWhatIsNear, OfferIsSeen
<1> QED
  BY <1>3, <1>5, <1>6, <1>7 DEF Inv

LEMMA ConfigureKeeps ==
  ASSUME Inv, Configure
  PROVE  Inv'
<1>1. PICK c \in Configs :
        LET G == c.goods \cap DOMAIN PickupOf[c.defs]
        IN /\ ObjectsPost(c.objects, c.limit)
           /\ ShopPost(c.defs, G)
           /\ PickupsPost(c.defs, G, c.plain)
           /\ UNCHANGED <<on, at, buyVars>>
  BY DEF Configure
<1> DEFINE d == c.defs
           G == c.goods \cap DOMAIN PickupOf[d]
<1>2. /\ c.objects \in SUBSET Objects /\ c.limit \in Nat /\ d \in Defs
      /\ c.plain \in SUBSET Plain
  BY StreamedAssumption
<1>3. G \in SUBSET DOMAIN PickupOf[d]
  OBVIOUS
<1>4. /\ ObjectsPost(c.objects, c.limit) /\ ShopPost(d, G)
      /\ PickupsPost(d, G, c.plain)
      /\ UNCHANGED <<on, at, near, offer, sign>>
  BY <1>1 DEF buyVars
<1> HIDE DEF d, G
<1>5. G \in SUBSET Goods
  BY <1>2, <1>3, PicksAreThings
<1>6. /\ objects' \in Stores /\ objectKey' \in Keyed(Objects) /\ limit' \in Nat
      /\ Holds(objects', objectKey', Same(Objects))
      /\ DOMAIN objects' = KeysOf(objectKey')
      /\ last' = [p \in Players |-> Origin]
      /\ seen' \in [Players -> Stores]
      /\ \A p \in Players : Current(seen'[p], objects')
      /\ \A p \in Players \ on : seen'[p] = None
  BY <1>2, <1>4, ObjectsRenewed
<1>7. /\ shop' \in Stores /\ shopKey' \in Keyed(Goods) /\ defs' = d
      /\ Holds(shop', shopKey', Same(Goods))
      /\ DOMAIN shop' = KeysOf(shopKey')
      /\ DOMAIN shopKey' = G
  BY <1>2, <1>4, <1>5, ShopRenewed
<1>8. /\ pickups' \in Stores /\ plainPick' \in Keyed(Plain)
      /\ shopPick' \in Keyed(Goods) /\ world' \in Stores
      /\ Holds(pickups', plainPick', Same(Plain))
      /\ Holds(pickups', shopPick', PickupOf[d])
      /\ DOMAIN pickups' = KeysOf(plainPick') \cup KeysOf(shopPick')
      /\ KeysOf(plainPick') \cap KeysOf(shopPick') = {}
      /\ DOMAIN shopPick' = G
      /\ Current(world', pickups')
  BY <1>2, <1>3, <1>4, PickupsRenewed
<1>9. TypeOK'
  BY <1>2, <1>4, <1>6, <1>7, <1>8, StreamedAssumption DEF Inv, TypeOK
<1>10. StoresOwned'
  BY <1>6, <1>7, <1>8 DEF StoresOwned
<1>11. Absent'
  BY <1>4, <1>6 DEF Inv, Absent
<1>12. ShownAreCurrent'
  BY <1>6, <1>8 DEF ShownAreCurrent, Current
<1>13. SeesWhatIsNear'
  <2>1. on' \subseteq Players
    BY <1>9 DEF TypeOK
  <2> QED
    BY <1>6, <2>1 DEF SeesWhatIsNear
<1>14. OfferIsSeen'
  BY <1>4 DEF Inv, OfferIsSeen
<1> QED
  BY <1>9, <1>10, <1>11, <1>12, <1>13, <1>14 DEF Inv

LEMMA Timer500Keeps ==
  ASSUME Inv, Timer500
  PROVE  Inv'
<1>1. PICK K \in Finds(LooksAround) :
        seen' = [p \in Players |->
                  IF p \in on THEN Shown(objects, seen[p], K[p]) ELSE None]
  BY DEF Timer500
<1>2. PICK W \in ItemsByPoses(pickups, {at[p] : p \in on}, MaxPickups) :
        world' = Shown(pickups, world, W)
  BY DEF Timer500
<1>3. /\ last' = [p \in Players |-> IF p \in on /\ Moved(p) THEN at[p] ELSE last[p]]
      /\ UNCHANGED <<on, at, objects, objectKey, limit, defs, shop, shopKey,
                     shopPick, pickups, plainPick, near, offer, sign>>
  BY DEF Timer500, objectVars, shopVars, pickupVars, buyVars
<1>4. /\ on \subseteq Players /\ at \in [Players -> Spots] /\ objects \in Stores
      /\ last \in [Players -> Spots] /\ seen \in [Players -> Stores]
      /\ pickups \in Stores /\ world \in Stores /\ Current(world, pickups)
      /\ \A p \in Players : Current(seen[p], objects)
  BY DEF Inv, TypeOK, ShownAreCurrent, Current
<1>5. ASSUME NEW p \in on
      PROVE  /\ K[p] \subseteq DOMAIN objects
             /\ Moved(p) => K[p] \in ItemsByPos(objects, at[p], limit)
             /\ ~Moved(p) => K[p] = DOMAIN seen[p]
  <2>1. K[p] \in LooksAround(p)
    BY DEF Finds
  <2>2. DOMAIN seen[p] \subseteq DOMAIN objects
    BY <1>4 DEF Current
  <2>3. CASE Moved(p)
    BY <2>1, <2>3, FoundLies DEF LooksAround
  <2>4. CASE ~Moved(p)
    BY <2>1, <2>2, <2>4 DEF LooksAround
  <2> QED
    BY <2>3, <2>4
<1>6. ASSUME NEW p \in on
      PROVE  /\ seen'[p] \in Stores /\ Current(seen'[p], objects)
             /\ DOMAIN seen'[p] = K[p]
  <2>1. seen'[p] = Shown(objects, seen[p], K[p])
    BY <1>1, <1>4
  <2>2. seen[p] \in Stores /\ Current(seen[p], objects) /\ K[p] \subseteq DOMAIN objects
    BY <1>4, <1>5
  <2> QED
    BY <1>4, <2>1, <2>2, ShownCurrent
<1>7. /\ seen' = [p \in Players |-> seen'[p]]
      /\ \A p \in Players \ on : seen'[p] = None
  BY <1>1
<1>8. None \in Stores /\ DOMAIN None = {}
  BY <1>4, NoneFits
<1>9. world' \in Stores /\ Current(world', pickups)
  BY <1>2, <1>4, FoundLieThere, ShownCurrent
<1>10. /\ last' \in [Players -> Spots]
       /\ \A p \in Players : last'[p] = IF p \in on /\ Moved(p) THEN at[p] ELSE last[p]
  BY <1>3, <1>4
<1>11. TypeOK'
  <2>1. seen' \in [Players -> Stores]
    BY <1>6, <1>7, <1>8
  <2> QED
    BY <1>3, <1>9, <1>10, <2>1 DEF Inv, TypeOK
<1>12. StoresOwned'
  BY <1>3 DEF Inv, StoresOwned
<1>13. Absent'
  BY <1>3, <1>7, <1>10 DEF Inv, Absent
<1>14. ShownAreCurrent'
  <2>1. \A p \in Players : Current(seen'[p], objects)
    BY <1>6, <1>7, <1>8 DEF Current
  <2> QED
    BY <1>3, <1>9, <2>1 DEF ShownAreCurrent, Current
<1>15. SeesWhatIsNear'
  <2> SUFFICES ASSUME NEW p \in on, last'[p] # Origin
               PROVE  DOMAIN seen'[p] \in ItemsByPos(objects, last'[p], limit)
    BY <1>3 DEF SeesWhatIsNear
  <2>1. CASE Moved(p)
    BY <1>4, <1>5, <1>6, <1>10, <2>1
  <2>2. CASE ~Moved(p)
    BY <1>4, <1>5, <1>6, <1>10, <2>2 DEF Inv, SeesWhatIsNear
  <2> QED
    BY <2>1, <2>2
<1>16. OfferIsSeen'
  BY <1>3 DEF Inv, OfferIsSeen
<1> QED
  BY <1>11, <1>12, <1>13, <1>14, <1>15, <1>16 DEF Inv

LEMMA Timer250Keeps ==
  ASSUME Inv, Timer250
  PROVE  Inv'
<1>1. PICK K \in Finds(LooksForOffer), rich \in SUBSET on :
        LET enters == {p \in on : K[p] \ near[p] # {}}
            exits  == {p \in on : near[p] \ K[p] # {}}
        IN /\ near' = [p \in Players |-> IF p \in on THEN K[p] ELSE {}]
           /\ offer' = [p \in Players |->
                IF p \in enters THEN CHOOSE k \in K[p] : k \notin near[p]
                ELSE IF p \in exits THEN NoOffer ELSE offer[p]]
           /\ sign' = (sign \ exits) \cup (enters \cap rich)
           /\ UNCHANGED <<on, at, objectVars, last, seen, shopVars, pickupVars, world>>
  BY DEF Timer250
<1> DEFINE enters == {p \in on : K[p] \ near[p] # {}}
           exits  == {p \in on : near[p] \ K[p] # {}}
<1>2. /\ near' = [p \in Players |-> IF p \in on THEN K[p] ELSE {}]
      /\ sign' = (sign \ exits) \cup (enters \cap rich)
      /\ UNCHANGED <<on, at, objects, objectKey, limit, last, seen, defs, shop,
                     shopKey, shopPick, pickups, plainPick, world>>
  BY <1>1 DEF objectVars, shopVars, pickupVars
<1>3. offer' = [p \in Players |->
                 IF p \in enters THEN CHOOSE k \in K[p] : k \notin near[p]
                 ELSE IF p \in exits THEN NoOffer ELSE offer[p]]
  BY <1>1
<1>4. /\ on \subseteq Players /\ shop \in Stores /\ near \in [Players -> SUBSET Key]
      /\ offer \in [Players -> Key \cup {NoOffer}] /\ sign \subseteq on
      /\ NoOffer \notin Key /\ DOMAIN shop \subseteq Key
  BY StreamedAssumption, StoreShape DEF Inv, TypeOK
<1>5. ASSUME NEW p \in on
      PROVE  K[p] \subseteq Key /\ \A j, k \in K[p] : j = k
  <2>1. K[p] \in ItemsByPos(shop, at[p], 1)
    BY DEF Finds, LooksForOffer
  <2> QED
    BY <1>4, <2>1, FoundLies, OneOffer
<1>6. \A p \in Players : /\ near[p] = IF offer[p] = NoOffer THEN {} ELSE {offer[p]}
                         /\ p \in sign => offer[p] # NoOffer
  BY DEF Inv, OfferIsSeen
<1>7. ASSUME NEW p \in Players
      PROVE  /\ near'[p] \in SUBSET Key /\ offer'[p] \in Key \cup {NoOffer}
             /\ near'[p] = IF offer'[p] = NoOffer THEN {} ELSE {offer'[p]}
             /\ p \in sign' => offer'[p] # NoOffer
             /\ p \notin on => near'[p] = {} /\ offer'[p] = NoOffer
  <2>1. /\ near'[p] = IF p \in on THEN K[p] ELSE {}
        /\ offer'[p] = IF p \in enters THEN CHOOSE k \in K[p] : k \notin near[p]
                       ELSE IF p \in exits THEN NoOffer ELSE offer[p]
    BY <1>2, <1>3
  <2>2. CASE p \in enters
    <3>1. PICK k \in K[p] : k \notin near[p]
      BY <2>2
    <3>2. /\ (CHOOSE j \in K[p] : j \notin near[p]) \in K[p]
          /\ K[p] \subseteq Key /\ \A i, j \in K[p] : i = j
      BY <1>5, <2>2, <3>1
    <3>3. offer'[p] \in K[p] /\ near'[p] = K[p]
      BY <2>1, <2>2, <3>2
    <3>4. near'[p] = {offer'[p]} /\ offer'[p] \in Key
      BY <3>2, <3>3
    <3> QED
      BY <1>4, <2>2, <3>4
  <2>3. CASE p \in exits /\ p \notin enters
    <3>1. K[p] \subseteq near[p] /\ near[p] \ K[p] # {}
      BY <2>3
    <3>2. K[p] = {}
      BY <1>4, <1>6, <3>1
    <3>3. near'[p] = {} /\ offer'[p] = NoOffer /\ p \notin sign'
      BY <1>2, <2>1, <2>3, <3>2
    <3> QED
      BY <3>3
  <2>4. CASE p \in on /\ p \notin exits /\ p \notin enters
    <3>1. K[p] = near[p]
      BY <2>4
    <3>2. near'[p] = near[p] /\ offer'[p] = offer[p] /\ (p \in sign' => p \in sign)
      BY <1>2, <2>1, <2>4, <3>1
    <3> QED
      BY <1>4, <1>6, <2>4, <3>2
  <2>5. CASE p \notin on
    <3>1. near'[p] = {} /\ offer'[p] = offer[p] /\ offer[p] = NoOffer
      BY <2>1, <2>5 DEF Inv, Absent
    <3>2. p \notin sign'
      BY <1>2, <1>4, <2>5
    <3> QED
      BY <3>1, <3>2
  <2> QED
    BY <2>2, <2>3, <2>4, <2>5
<1>8. near' = [p \in Players |-> near'[p]] /\ offer' = [p \in Players |-> offer'[p]]
  BY <1>2, <1>3
<1>9. sign' \subseteq on
  BY <1>2, <1>4
<1> HIDE DEF enters, exits
<1>10. near' \in [Players -> SUBSET Key] /\ offer' \in [Players -> Key \cup {NoOffer}]
  BY <1>7, <1>8
<1>11. TypeOK'
  BY <1>2, <1>9, <1>10 DEF Inv, TypeOK
<1>12. StoresOwned' /\ ShownAreCurrent'
  BY <1>2 DEF Inv, StoresOwned, ShownAreCurrent
<1>13. Absent' /\ OfferIsSeen'
  BY <1>2, <1>7 DEF Inv, Absent, OfferIsSeen
<1>14. SeesWhatIsNear'
  BY <1>2 DEF Inv, SeesWhatIsNear
<1> QED
  BY <1>11, <1>12, <1>13, <1>14 DEF Inv

\* Players come, walk, try to buy, and go.
LEMMA PlayersKeep ==
  ASSUME Inv, NEW p \in Players, NEW t \in Spots,
         Connect(p, t) \/ Move(p, t) \/ Disconnect(p) \/ Buy(p)
  PROVE  Inv'
<1>1. /\ UNCHANGED <<objects, objectKey, limit, defs, shop, shopKey, shopPick,
                     pickups, plainPick, world>>
      /\ at' \in [Players -> Spots]
  BY StreamedAssumption DEF Inv, TypeOK, Connect, Move, Disconnect, Buy, objectVars, shopVars, pickupVars
<1>2. /\ on \subseteq Players /\ last \in [Players -> Spots]
      /\ seen \in [Players -> Stores] /\ near \in [Players -> SUBSET Key]
      /\ offer \in [Players -> Key \cup {NoOffer}] /\ sign \subseteq on
      /\ objects \in Stores
  BY DEF Inv, TypeOK
<1>3. StoresOwned'
  BY <1>1 DEF Inv, StoresOwned
<1>4. CASE Connect(p, t)
  <2>1. /\ on' = on \cup {p} /\ p \notin on
        /\ UNCHANGED <<last, seen, near, offer, sign>>
    BY <1>4 DEF Connect, buyVars
  <2>2. TypeOK' /\ Absent' /\ ShownAreCurrent' /\ OfferIsSeen'
    BY <1>1, <1>2, <2>1 DEF Inv, TypeOK, Absent, ShownAreCurrent, OfferIsSeen
  <2>3. SeesWhatIsNear'
    BY <1>1, <2>1 DEF Inv, SeesWhatIsNear, Absent
  <2> QED
    BY <1>3, <2>2, <2>3 DEF Inv
<1>5. CASE Move(p, t)
  <2>1. UNCHANGED <<on, last, seen, near, offer, sign>>
    BY <1>5 DEF Move, buyVars
  <2>2. TypeOK' /\ Absent' /\ ShownAreCurrent' /\ OfferIsSeen' /\ SeesWhatIsNear'
    BY <1>1, <2>1 DEF Inv, TypeOK, Absent, ShownAreCurrent, OfferIsSeen, SeesWhatIsNear
  <2> QED
    BY <1>3, <2>2 DEF Inv
<1>6. CASE Disconnect(p)
  <2>1. /\ on' = on \ {p} /\ last' = [last EXCEPT ![p] = Origin]
        /\ seen' = [seen EXCEPT ![p] = None] /\ near' = [near EXCEPT ![p] = {}]
        /\ offer' = [offer EXCEPT ![p] = NoOffer] /\ sign' = sign \ {p}
    BY <1>6 DEF Disconnect
  <2>2. None \in Stores /\ DOMAIN None = {}
    BY <1>2, NoneFits
  <2>3. /\ last'[p] = Origin /\ seen'[p] = None /\ near'[p] = {} /\ offer'[p] = NoOffer
        /\ \A q \in Players \ {p} : /\ last'[q] = last[q] /\ seen'[q] = seen[q]
                                    /\ near'[q] = near[q] /\ offer'[q] = offer[q]
    BY <1>2, <2>1
  <2>4. /\ last' \in [Players -> Spots] /\ seen' \in [Players -> Stores]
        /\ near' \in [Players -> SUBSET Key] /\ offer' \in [Players -> Key \cup {NoOffer}]
    BY <1>2, <2>1, <2>2, StreamedAssumption
  <2>5. TypeOK'
    BY <1>1, <1>2, <2>1, <2>4 DEF Inv, TypeOK
  <2>6. Absent'
    BY <2>1, <2>3 DEF Inv, Absent
  <2>7. ShownAreCurrent'
    BY <1>1, <2>2, <2>3 DEF Inv, ShownAreCurrent
  <2>8. SeesWhatIsNear'
    BY <1>1, <1>2, <2>1, <2>3 DEF Inv, SeesWhatIsNear
  <2>9. OfferIsSeen'
    BY <2>1, <2>3 DEF Inv, OfferIsSeen
  <2> QED
    BY <1>3, <2>5, <2>6, <2>7, <2>8, <2>9 DEF Inv
<1>7. CASE Buy(p)
  <2>1. /\ UNCHANGED <<on, last, seen, near, offer>>
        /\ sign' \subseteq sign
    BY <1>7 DEF Buy
  <2>2. TypeOK' /\ Absent' /\ ShownAreCurrent' /\ SeesWhatIsNear'
    BY <1>1, <2>1 DEF Inv, TypeOK, Absent, ShownAreCurrent, SeesWhatIsNear
  <2>3. OfferIsSeen'
    BY <2>1 DEF Inv, OfferIsSeen
  <2> QED
    BY <1>3, <2>2, <2>3 DEF Inv
<1> QED
  BY <1>4, <1>5, <1>6, <1>7

LEMMA Inductive ==
  ASSUME Inv, [Next]_vars
  PROVE  Inv'
<1>1. CASE UNCHANGED vars
  BY <1>1 DEF Inv, vars, objectVars, shopVars, pickupVars, buyVars, TypeOK,
              StoresOwned, Absent, ShownAreCurrent, SeesWhatIsNear, OfferIsSeen
<1>2. CASE Next
  <2>1. Spots # {}
    BY StreamedAssumption
  <2> QED
    BY <1>2, <2>1, PlayersKeep, Timer500Keeps, Timer250Keeps, ConfigureKeeps DEF Next
<1> QED
  BY <1>1, <1>2

LEMMA AlwaysInv == Spec => []Inv
<1>1. Inv /\ [Next]_vars => Inv'
  BY Inductive
<1> QED
  BY <1>1, InitInv, PTL DEF Spec

\* Players, stores and offers have their types.
THEOREM StreamedTypes == Spec => []TypeOK
<1>1. Inv => TypeOK
  BY DEF Inv
<1> QED
  BY <1>1, AlwaysInv, PTL

(* However often the server is configured anew, and whichever of the parts
   that share the pickups comes first: no key is lost, shared or left with
   the pickup of an older definition.                                      *)
THEOREM KeysOwned == Spec => []StoresOwned
<1>1. Inv => StoresOwned
  BY DEF Inv
<1> QED
  BY <1>1, AlwaysInv, PTL

(* A key a client shows something under is never given to another thing
   behind his back.                                                        *)
THEOREM ClientsShowCurrent == Spec => []ShownAreCurrent
<1>1. Inv => ShownAreCurrent
  BY DEF Inv
<1> QED
  BY <1>1, AlwaysInv, PTL

(* Whoever looked around away from the origin sees the nearest objects there,
   as many as the present configuration allows.                            *)
THEOREM NearestSeen == Spec => []SeesWhatIsNear
<1>1. Inv => SeesWhatIsNear
  BY DEF Inv
<1> QED
  BY <1>1, AlwaysInv, PTL

(* What a player would buy, what holds him for a buyer and what he reads on
   the screen agree; it rests on at most one item being near (OneOffer).   *)
THEOREM OffersSeen == Spec => []OfferIsSeen
<1>1. Inv => OfferIsSeen
  BY DEF Inv
<1> QED
  BY <1>1, AlwaysInv, PTL
-----------------------------------------------------------------------------
(* Offers and timers.                                                      *)

LEMMA TimerRenewsOffers ==
  ASSUME Inv, Timer250, NEW p \in Players
  PROVE  ~Stale(p)'
<1>1. PICK K \in Finds(LooksForOffer), rich \in SUBSET on :
        LET enters == {q \in on : K[q] \ near[q] # {}}
            exits  == {q \in on : near[q] \ K[q] # {}}
        IN /\ near' = [q \in Players |-> IF q \in on THEN K[q] ELSE {}]
           /\ offer' = [q \in Players |->
                IF q \in enters THEN CHOOSE k \in K[q] : k \notin near[q]
                ELSE IF q \in exits THEN NoOffer ELSE offer[q]]
           /\ sign' = (sign \ exits) \cup (enters \cap rich)
           /\ UNCHANGED <<on, at, objectVars, last, seen, shopVars, pickupVars, world>>
  BY DEF Timer250
<1>2. near'[p] = IF p \in on THEN K[p] ELSE {}
  BY <1>1
<1>3. p \in on => K[p] \subseteq DOMAIN shop
  <2>1. p \in on => K[p] \in ItemsByPos(shop, at[p], 1)
    BY DEF Finds, LooksForOffer
  <2> QED
    BY <2>1, FoundLies
<1>4. near'[p] = IF offer'[p] = NoOffer THEN {} ELSE {offer'[p]}
  BY Timer250Keeps DEF Inv, OfferIsSeen
<1>5. shop' = shop
  BY DEF Timer250, shopVars
<1> QED
  BY <1>2, <1>3, <1>4, <1>5 DEF Stale

LEMMA OnlyConfigureStales ==
  ASSUME Inv, [Next]_vars, NEW p \in Players, Stale(p)', ~Stale(p)
  PROVE  Configure
<1>1. CASE Timer250
  BY <1>1, TimerRenewsOffers
<1>2. CASE Timer500 \/ UNCHANGED vars
  BY <1>2 DEF Timer500, vars, shopVars, buyVars, Stale
<1>3. ASSUME NEW q \in Players, NEW t \in Spots,
             Connect(q, t) \/ Move(q, t) \/ Disconnect(q) \/ Buy(q)
      PROVE  FALSE
  <2>1. shop' = shop
    BY <1>3 DEF Connect, Move, Disconnect, Buy, shopVars
  <2>2. offer' = offer \/ offer' = [offer EXCEPT ![q] = NoOffer]
    BY <1>3 DEF Connect, Move, Disconnect, Buy, buyVars
  <2>3. offer'[p] = offer[p] \/ offer'[p] = NoOffer
    BY <2>2 DEF Inv, TypeOK
  <2> QED
    BY <2>1, <2>3 DEF Stale
<1>4. Spots # {}
  BY StreamedAssumption
<1> QED
  BY <1>1, <1>2, <1>3, <1>4 DEF Next

(* The reason why a stale offer ends: weapons_item::on_timer250 renews every
   offer, and no other step but a reconfiguration makes one stale.         *)
THEOREM OffersAreRenewed == Spec => OffersRenewed
<1>1. Inv /\ [Next]_vars =>
        [/\ Timer250 => \A p \in Players : ~Stale(p)'
         /\ \A p \in Players : Stale(p)' /\ ~Stale(p) => Configure]_vars
  BY TimerRenewsOffers, OnlyConfigureStales
<1> QED
  BY <1>1, AlwaysInv, PTL DEF Spec, OffersRenewed
-----------------------------------------------------------------------------
(* The scenery.  Keys come and go; what a client shows under them is what it
   was shown, and the objects of a store are as many as their keys.        *)

\* An object's key stands for it and for nothing else.
LEMMA KeyOfObject ==
  ASSUME Inv
  PROVE  /\ \A k \in DOMAIN objects : /\ objects[k] \in DOMAIN objectKey
                                      /\ objectKey[objects[k]] = k
         /\ \A i \in DOMAIN objectKey : /\ objectKey[i] \in DOMAIN objects
                                        /\ objects[objectKey[i]] = i
         /\ DOMAIN objectKey \subseteq Objects
<1>1. /\ Holds(objects, objectKey, Same(Objects))
      /\ DOMAIN objects = KeysOf(objectKey)
      /\ DOMAIN objectKey \subseteq Objects
  BY KeyedShape DEF Inv, StoresOwned, TypeOK
<1>2. \A i \in DOMAIN objectKey : /\ objectKey[i] \in DOMAIN objects
                                  /\ objects[objectKey[i]] = i
  BY <1>1, SameIs DEF Holds
<1> QED
  BY <1>1, <1>2 DEF KeysOf

LEMMA AsManyThings ==
  ASSUME Inv, NEW K \in SUBSET DOMAIN objects
  PROVE  Cardinality({objects[k] : k \in K}) = Cardinality(K)
<1> DEFINE T == {objects[k] : k \in K}
           f == [k \in K |-> objects[k]]
<1>1. \A j, k \in K : objects[j] = objects[k] => j = k
  BY KeyOfObject
<1>2. f \in Surjection(K, T) /\ f \in Injection(K, T)
  BY <1>1 DEF Surjection, Injection, IsInjective
<1>3. IsFiniteSet(K)
  <2>1. 0 \in Int /\ KeyCap - 1 \in Int
    BY StreamerAssumption
  <2>2. IsFiniteSet(0..(KeyCap - 1))
    BY <2>1, FS_Interval
  <2>3. DOMAIN objects \subseteq 0..(KeyCap - 1)
    BY StoreShape DEF Inv, TypeOK, Key
  <2> QED
    BY <2>2, <2>3, FS_Subset
<1> HIDE DEF f, T
<1>4. Cardinality(T) = Cardinality(K)
  BY <1>2, <1>3, FS_Surjection
<1> QED
  BY <1>4 DEF T

\* The scenery counts as the server does.
LEMMA SceneryCounts == \A S : Sc!Cardinality(S) = Cardinality(S)
BY DEF Sc!Cardinality, Cardinality

LEMMA NearestThings ==
  ASSUME Inv, NEW t, NEW K \in ItemsByPos(objects, t, limit)
  PROVE  {objects[k] : k \in K} \in Sc!NearestTo(t)
<1> DEFINE R == InReach(objects, {t})
           S == {objects[k] : k \in K}
<1>1. /\ K \subseteq R /\ Cardinality(K) <= limit
      /\ Cardinality(K) = limit \/ K = R
      /\ \A k \in K, j \in R \ K : Distance[objects[k]][t] <= Distance[objects[j]][t]
  <2> DEFINE m == [k \in R |-> Distance[objects[k]][t]]
  <2>1. K \in Nearest(m, limit) /\ DOMAIN m = R /\ \A k \in R : m[k] = Distance[objects[k]][t]
    BY DEF ItemsByPos
  <2> HIDE DEF m, R
  <2> QED
    BY <2>1 DEF Nearest
<1>2. \A k \in DOMAIN objects : k \in R <=> t \in DOMAIN Distance[objects[k]]
  BY DEF InReach
<1>3. R \subseteq DOMAIN objects
  BY DEF InReach
<1> HIDE DEF R
<1>4. Sc!InReachOf(t) = {objects[k] : k \in R}
  BY <1>2, <1>3, KeyOfObject DEF Sc!InReachOf
<1>5. Cardinality(S) = Cardinality(K)
  BY <1>1, <1>3, AsManyThings
<1>6. \A j \in R : objects[j] \notin S => j \notin K
  OBVIOUS
<1>7. S \subseteq Sc!InReachOf(t) /\ (K = R => S = Sc!InReachOf(t))
  BY <1>1, <1>4
<1>8. ASSUME NEW i \in S, NEW j \in Sc!InReachOf(t) \ S
      PROVE  Distance[i][t] <= Distance[j][t]
  <2>1. PICK k \in K : i = objects[k]
    OBVIOUS
  <2>2. PICK h \in R \ K : j = objects[h]
    BY <1>4, <1>6
  <2> QED
    BY <1>1, <2>1, <2>2
<1> HIDE DEF S
<1>9. S \in Sc!NearestTo(t)
  <2>1. /\ Cardinality(S) <= limit
        /\ Cardinality(S) = limit \/ S = Sc!InReachOf(t)
    BY <1>1, <1>5, <1>7
  <2>2. S \in SUBSET Sc!InReachOf(t)
    BY <1>7
  <2>3. \A i \in S, j \in Sc!InReachOf(t) \ S : Distance[i][t] <= Distance[j][t]
    BY <1>8
  <2> HIDE DEF Sc!InReachOf
  <2> QED
    BY <2>1, <2>2, <2>3, SceneryCounts DEF Sc!NearestTo
<1> QED
  BY <1>9 DEF S

\* What somebody sees is what his keys stand for.
LEMMA SightIsCurrent ==
  ASSUME NEW v, NEW s, Current(v, s)
  PROVE  Sight(v) = {s[k] : k \in DOMAIN v}
BY DEF Sight, Current

Sights == [p \in Players |-> Sight(seen[p])]
Places == [p \in on |-> at[p]]

\* Nobody shown nothing sees anything.
LEMMA NothingSeen == Sight(None) = {} /\ DOMAIN None = {}
BY DEF Sight, None

\* Timers of some players at once.
LEMMA SceneryLook ==
  ASSUME Inv, Timer500
  PROVE  Sc!LookAround
<1>1. PICK K \in Finds(LooksAround) :
        seen' = [p \in Players |->
                  IF p \in on THEN Shown(objects, seen[p], K[p]) ELSE None]
  BY DEF Timer500
<1>2. UNCHANGED <<on, at, objectKey, limit>>
  BY DEF Timer500, objectVars
<1>3. ASSUME NEW p \in Players
      PROVE  \/ Sight(seen'[p]) = Sight(seen[p])
             \/ p \in on /\ Sight(seen'[p]) \in Sc!NearestTo(at[p])
  <2>1. CASE p \notin on
    BY <1>1, <2>1 DEF Inv, Absent
  <2>2. CASE p \in on
    <3>1. K[p] \in LooksAround(p) /\ seen'[p] = Shown(objects, seen[p], K[p])
      BY <1>1, <2>2 DEF Finds
    <3>2. Current(seen[p], objects) /\ seen[p] \in Stores /\ objects \in Stores
      BY DEF Inv, ShownAreCurrent, Current, TypeOK
    <3>3. CASE Moved(p)
      <4>1. K[p] \in ItemsByPos(objects, at[p], limit)
        BY <3>1, <3>3 DEF LooksAround
      <4>2. K[p] \subseteq DOMAIN objects
        BY <4>1, FoundLies
      <4>3. DOMAIN seen'[p] = K[p] /\ Current(seen'[p], objects)
        BY <3>1, <3>2, <4>2, ShownCurrent
      <4>4. Sight(seen'[p]) = {objects[k] : k \in K[p]}
        BY <4>3, SightIsCurrent
      <4> QED
        BY <2>2, <4>1, <4>4, NearestThings
    <3>4. CASE ~Moved(p)
      <4>1. K[p] = DOMAIN seen[p]
        BY <3>1, <3>4 DEF LooksAround
      <4>2. DOMAIN seen[p] \subseteq DOMAIN objects
        BY <3>2 DEF Current
      <4>3. DOMAIN seen'[p] = DOMAIN seen[p] /\ Current(seen'[p], objects)
        BY <3>1, <3>2, <4>1, <4>2, ShownCurrent
      <4> QED
        BY <3>2, <4>3, SightIsCurrent
    <3> QED
      BY <3>3, <3>4
  <2> QED
    BY <2>1, <2>2
<1>4. on \subseteq Players
  BY DEF Inv, TypeOK
<1> QED
  BY <1>2, <1>3, <1>4 DEF Sc!LookAround

\* A reconfiguration takes away the keys of exactly the objects that go.
LEMMA SceneryRebuilds ==
  ASSUME Inv, Configure
  PROVE  Sc!Next
<1>1. PICK c \in Configs : ObjectsPost(c.objects, c.limit) /\ UNCHANGED <<on, at>>
  BY DEF Configure
<1> DEFINE O == c.objects
<1>2. O \in SUBSET Objects /\ c.limit \in Nat
  BY StreamedAssumption
<1>3. PICK r \in UpdateEnd(objects, objectKey, O, Same(Objects)) :
        objects' = r.store /\ objectKey' = r.data
  BY <1>1 DEF ObjectsPost
<1>4. /\ limit' = c.limit
      /\ seen' = [p \in Players |-> Removed(seen[p], Gone(objectKey, O))]
  BY <1>1 DEF ObjectsPost
<1> HIDE DEF O
<1>5. Fit(objects, objectKey, Objects) /\ Holds(objects, objectKey, Same(Objects))
  BY PartsFit DEF Inv, StoresOwned
<1>6. \A i \in O : Same(Objects)[i] \in Things
  BY <1>2, SameIs, StreamedAssumption
<1>7. DOMAIN objectKey' = O
  <2>1. Updated(r, objects, objectKey, Objects, O, Same(Objects))
    BY <1>2, <1>3, <1>5, <1>6, UpdateHolds
  <2> QED
    BY <1>3, <2>1 DEF Updated
<1>8. \A k \in DOMAIN objects : k \in Gone(objectKey, O) <=> objects[k] \notin O
  BY KeyOfObject DEF Gone
<1>9. ASSUME NEW p \in Players
      PROVE  Sight(seen'[p]) = Sight(seen[p]) \cap O
  <2>1. seen'[p] = Removed(seen[p], Gone(objectKey, O))
    BY <1>4
  <2>2. Current(seen[p], objects) /\ seen[p] \in Stores
    BY DEF Inv, ShownAreCurrent, Current, TypeOK
  <2>3. /\ DOMAIN seen'[p] = DOMAIN seen[p] \ Gone(objectKey, O)
        /\ \A k \in DOMAIN seen'[p] : seen'[p][k] = seen[p][k]
    <3> DEFINE gone == Gone(objectKey, O)
    <3> HIDE DEF gone
    <3>1. /\ DOMAIN Removed(seen[p], gone) = DOMAIN seen[p] \ gone
          /\ \A k \in DOMAIN seen[p] \ gone : Removed(seen[p], gone)[k] = seen[p][k]
      BY <2>2, RemovedStore
    <3> QED
      BY <2>1, <3>1 DEF gone
  <2>4. \A k \in DOMAIN seen[p] : k \in Gone(objectKey, O) <=> seen[p][k] \notin O
    BY <1>8, <2>2 DEF Current
  <2> QED
    BY <2>3, <2>4 DEF Sight
<1>10. Sc!Rebuild(O)
  BY <1>1, <1>2, <1>4, <1>7, <1>9 DEF Sc!Rebuild
<1> QED
  BY <1>2, <1>10 DEF Sc!Next

LEMMA SceneryStep ==
  ASSUME Inv, [Next]_vars
  PROVE  [Sc!Next]_(Sc!vars)
<1>0. /\ on \subseteq Players /\ at \in [Players -> Spots]
      /\ seen \in [Players -> Stores]
  BY DEF Inv, TypeOK
<1>s. ASSUME Places' = Places, UNCHANGED <<objectKey, limit, seen>>
      PROVE  UNCHANGED Sc!vars
  BY <1>s DEF Sc!vars, Places
<1>1. CASE UNCHANGED vars
  BY <1>1, <1>s DEF vars, objectVars, Places
<1>2. CASE Timer500
  BY <1>2, SceneryLook DEF Sc!Next
<1>3. CASE Timer250
  <2>1. Places' = Places /\ UNCHANGED <<objectKey, limit, seen>>
    BY <1>3 DEF Timer250, objectVars, Places
  <2> QED
    BY <1>s, <2>1
<1>4. CASE Configure
  BY <1>4, SceneryRebuilds
<1>5. ASSUME NEW p \in Players, NEW t \in Spots, Connect(p, t)
      PROVE  Sc!Next
  <2>1. /\ p \notin on /\ on' = on \cup {p} /\ at' = [at EXCEPT ![p] = t]
        /\ UNCHANGED <<objectKey, limit, seen>>
    BY <1>5 DEF Connect, objectVars
  <2>2. [q \in on' |-> at'[q]] = [q \in on \cup {p} |-> IF q = p THEN t ELSE at[q]]
    BY <1>0, <2>1
  <2>3. Sc!Come(p, t)
    BY <1>0, <2>1, <2>2 DEF Sc!Come
  <2> QED
    BY <2>3 DEF Sc!Next
<1>6. ASSUME NEW p \in Players, NEW t \in Spots, Move(p, t)
      PROVE  Sc!Next
  <2>1. /\ p \in on /\ on' = on /\ at' = [at EXCEPT ![p] = t]
        /\ UNCHANGED <<objectKey, limit, seen>>
    BY <1>6 DEF Move, objectVars
  <2>2. [q \in on' |-> at'[q]] = [[q \in on |-> at[q]] EXCEPT ![p] = t]
    BY <1>0, <2>1
  <2>3. Sc!Walk(p, t)
    BY <1>0, <2>1, <2>2 DEF Sc!Walk
  <2> QED
    BY <2>3 DEF Sc!Next
<1>7. ASSUME NEW p \in Players, Disconnect(p)
      PROVE  Sc!Next
  <2>1. /\ p \in on /\ on' = on \ {p} /\ at' = [at EXCEPT ![p] = Origin]
        /\ seen' = [seen EXCEPT ![p] = None]
        /\ UNCHANGED <<objectKey, limit>>
    BY <1>7 DEF Disconnect, objectVars
  <2>2. [q \in on' |-> at'[q]] = [q \in on \ {p} |-> at[q]]
    BY <1>0, <2>1
  <2>3. [q \in Players |-> Sight(seen'[q])]
          = [[q \in Players |-> Sight(seen[q])] EXCEPT ![p] = {}]
    BY <1>0, <2>1, NothingSeen
  <2>4. Sc!Leave(p)
    BY <1>0, <2>1, <2>2, <2>3 DEF Sc!Leave
  <2> QED
    BY <2>4 DEF Sc!Next
<1>8. ASSUME NEW p \in Players, Buy(p)
      PROVE  UNCHANGED Sc!vars
  <2>1. Places' = Places /\ UNCHANGED <<objectKey, limit, seen>>
    BY <1>8 DEF Buy, objectVars, Places
  <2> QED
    BY <1>s, <2>1
<1> QED
  BY <1>1, <1>2, <1>3, <1>4, <1>5, <1>6, <1>7, <1>8 DEF Next

(* The objects with all their keys implement a scenery of things: whatever is
   taken away goes from every client at once, whatever stays is neither lost
   nor swapped for what gets its key, and who looks sees the nearest.      *)
THEOREM SceneryIsShown == Spec => SceneryPromise
<1>1. Init => Sc!Init
  <2> SUFFICES ASSUME Init PROVE Sc!Init
    OBVIOUS
  <2>1. /\ on = {} /\ objectKey = None /\ limit = 0
        /\ seen = [p \in Players |-> None]
    BY DEF Init
  <2>2. [p \in on |-> at[p]] = [p \in {} |-> p]
    BY <2>1
  <2> QED
    BY <2>1, <2>2, NothingSeen DEF Sc!Init
<1>2. Inv /\ [Next]_vars => [Sc!Next]_(Sc!vars)
  BY SceneryStep
<1> QED
  BY <1>1, <1>2, AlwaysInv, PTL DEF Spec, SceneryPromise, Sc!Spec
=============================================================================
