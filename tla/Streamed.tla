------------------------------ MODULE Streamed ------------------------------
(***************************************************************************)
(* What lies in the world and who is shown it: objects near a player       *)
(* (objects.cpp; map_icons.cpp is the same with a fixed limit), pickups    *)
(* near anybody (pickups.cpp), and the shop of weapons with its offers     *)
(* (weapons.cpp), which puts a pickup where it sells.  Players move, come  *)
(* and go, timers fire, and the server is configured anew under their      *)
(* feet.  One handler is one step.                                         *)
(***************************************************************************)
EXTENDS Streamer

CONSTANTS
  Players,
  Objects, Goods, Plain,  \* objects, things for sale, configured pickups
  Defs,                   \* configurations of the weapons,
  PickupOf,               \*   which say for some goods what pickup to make
  Configs,                \* what may be configured, see Configure
  MaxPickups,             \* pickups::max_pickups
  Goes,                   \* Goes[p]: the spots where p may be (a bound)
  Close,                  \* Close[s]: spots within the checker's threshold
  Origin,                 \* pos3()
  NoOffer,                \* an empty active_key_id
  PickupsFirst            \* the order of configure_post of the two parts

ASSUME StreamedAssumption ==
  /\ Objects \subseteq Things /\ Goods \subseteq Things /\ Plain \subseteq Things
  /\ Goods \cap Plain = {}
  /\ \A d \in Defs : \E G \in SUBSET Goods : PickupOf[d] \in [G -> Things]
  /\ Configs \subseteq [objects : SUBSET Objects, limit : Nat, defs : Defs,
                          goods : SUBSET Goods, plain : SUBSET Plain]
  /\ MaxPickups \in Nat
  /\ Goes \in [Players -> SUBSET Spots]
  /\ Origin \in Spots
  /\ Close \in [Spots -> SUBSET Spots] /\ \A t \in Spots : t \in Close[t]
  /\ NoOffer \notin Key
  /\ PickupsFirst \in BOOLEAN

VARIABLES
  on, at,              \* who is connected, and where
  objects, objectKey,  \* objects::streamer, objects_dynamic
  limit,               \* objects::max_objects_dynamic
  last, seen,          \* objects_item: its checker; objects_player, with what
                       \* the client was told to show
  defs,                \* weapons::weapon_defs
  shop, shopKey,       \* weapons::streamer, and the keys in weapons::buffer:
  shopPick,            \*   streamer_id and pickup_id of the goods that have one
  pickups, plainPick,  \* pickups::streamer, pickups::buffer
  world,               \* pickups::work_pickups, with what clients see there
  near, offer, sign    \* weapons_item: weapon_buy_player, active_key_id, and
                       \* who sees buy_text

objectVars == <<objects, objectKey, limit>>
shopVars   == <<defs, shop, shopKey, shopPick>>
pickupVars == <<pickups, plainPick>>
buyVars    == <<near, offer, sign>>
vars == <<on, at, objectVars, last, seen, shopVars, pickupVars, world, buyVars>>

Same(I) == [i \in I |-> i]

Init ==
  /\ on = {} /\ at = [p \in Players |-> Origin]
  /\ objects = None /\ objectKey = None /\ limit = 0
  /\ last = [p \in Players |-> Origin] /\ seen = [p \in Players |-> None]
  /\ defs \in Defs
  /\ shop = None /\ shopKey = None /\ shopPick = None
  /\ pickups = None /\ plainPick = None /\ world = None
  /\ near = [p \in Players |-> {}]
  /\ offer = [p \in Players |-> NoOffer] /\ sign = {}

Connect(p, t) ==
  /\ p \notin on /\ t \in Goes[p]
  /\ on' = on \cup {p}
  /\ at' = [at EXCEPT ![p] = t]
  /\ UNCHANGED <<objectVars, last, seen, shopVars, pickupVars, world, buyVars>>

(* All items of the player go, and with him his client.                    *)
Disconnect(p) ==
  /\ p \in on
  /\ on' = on \ {p}
  /\ at' = [at EXCEPT ![p] = Origin]
  /\ last' = [last EXCEPT ![p] = Origin]
  /\ seen' = [seen EXCEPT ![p] = None]
  /\ near' = [near EXCEPT ![p] = {}]
  /\ offer' = [offer EXCEPT ![p] = NoOffer]
  /\ sign' = sign \ {p}
  /\ UNCHANGED <<objectVars, shopVars, pickupVars, world>>

Move(p, t) ==
  /\ p \in on /\ t \in Goes[p] \ {at[p]}
  /\ at' = [at EXCEPT ![p] = t]
  /\ UNCHANGED <<on, objectVars, last, seen, shopVars, pickupVars, world, buyVars>>
-----------------------------------------------------------------------------
(* update_end of a set of keys shown: what stays is not shown again.       *)
Shown(s, old, K) == [k \in K |-> IF k \in DOMAIN old THEN old[k] ELSE s[k]]

Moved(p) == at[p] \notin Close[last[p]]

(* What each player may find, all at once.                                 *)
Finds(Options(_)) ==
  {K \in [on -> UNION {Options(p) : p \in on}] : \A p \in on : K[p] \in Options(p)}

(* objects_item::on_timer500 of every player, and pickups::on_timer500.    *)
LooksAround(p) ==
  IF Moved(p) THEN ItemsByPos(objects, at[p], limit) ELSE {DOMAIN seen[p]}
Timer500 ==
  /\ \E K \in Finds(LooksAround) :
       seen' = [p \in Players |->
                 IF p \in on THEN Shown(objects, seen[p], K[p]) ELSE None]
  /\ last' = [p \in Players |-> IF p \in on /\ Moved(p) THEN at[p] ELSE last[p]]
  /\ \E K \in ItemsByPoses(pickups, {at[p] : p \in on}, MaxPickups) :
       world' = Shown(pickups, world, K)
  /\ UNCHANGED <<on, at, objectVars, shopVars, pickupVars, buyVars>>

(* weapons_item::on_timer250 of every player: on_exit of the item that is no
   longer near, then on_enter of the new one, which only a player with the
   money (rich) is shown the text for.                                     *)
\* Mutant of LooksForOffer: who stands still is not looked at, as for objects.
LooksForOfferMoved(p) ==
  IF Moved(p) THEN ItemsByPos(shop, at[p], 1) ELSE {near[p]}

LooksForOffer(p) == ItemsByPos(shop, at[p], 1)
Timer250 ==
  \E K \in Finds(LooksForOffer), rich \in SUBSET on :
    LET enters == {p \in on : K[p] \ near[p] # {}}
        exits  == {p \in on : near[p] \ K[p] # {}}
    IN /\ near' = [p \in Players |-> IF p \in on THEN K[p] ELSE {}]
       /\ offer' = [p \in Players |->
            IF p \in enters THEN CHOOSE k \in K[p] : k \notin near[p]
            ELSE IF p \in exits THEN NoOffer ELSE offer[p]]
       /\ sign' = (sign \ exits) \cup (enters \cap rich)
       /\ UNCHANGED <<on, at, objectVars, last, seen, shopVars, pickupVars, world>>

\* Mutant of Buy: who cannot pay loses the offer as well.
BuyTakesOffer(p) ==
  /\ p \in on /\ offer[p] # NoOffer
  /\ \/ sign' = sign \ {p} /\ offer' = [offer EXCEPT ![p] = NoOffer]
     \/ UNCHANGED <<sign, offer>>
  /\ UNCHANGED <<on, at, objectVars, last, seen, shopVars, pickupVars, world, near>>

(* weapons_item::on_keystate_change: who cannot pay is no longer shown the
   text; a sale changes nothing here, and is the second alternative.       *)
Buy(p) ==
  /\ p \in on /\ offer[p] # NoOffer
  /\ \/ sign' = sign \ {p}
     \/ UNCHANGED sign
  /\ UNCHANGED <<on, at, objectVars, last, seen, shopVars, pickupVars, world,
                 near, offer>>
-----------------------------------------------------------------------------
\* Mutants of ObjectsPost: players are not told of deleted objects, as in the
\* shop; or not made to look around again.
ObjectsPostUnheard(O, n) ==
  /\ \E r \in UpdateEnd(objects, objectKey, O, Same(Objects)) :
       objects' = r.store /\ objectKey' = r.data
  /\ limit' = n
  /\ last' = [p \in Players |-> Origin]
  /\ UNCHANGED seen
ObjectsPostUnseen(O, n) ==
  /\ \E r \in UpdateEnd(objects, objectKey, O, Same(Objects)) :
       objects' = r.store /\ objectKey' = r.data
  /\ limit' = n
  /\ seen' = [p \in Players |-> Removed(seen[p], Gone(objectKey, O))]
  /\ UNCHANGED last

(* objects::configure_post.  Deleting an object takes it from every player,
   and all of them look around again at the next timer.                    *)
ObjectsPost(O, n) ==
  /\ \E r \in UpdateEnd(objects, objectKey, O, Same(Objects)) :
       objects' = r.store /\ objectKey' = r.data
  /\ limit' = n
  /\ seen' = [p \in Players |-> Removed(seen[p], Gone(objectKey, O))]
  /\ last' = [p \in Players |-> Origin]

(* weapons::configure_post: other definitions renew everything.            *)
Stay(d, data) == IF d = defs THEN data ELSE None
Rest(d, s, data) == IF d = defs THEN s ELSE Removed(s, KeysOf(data))

\* Mutant of ShopPicks: other definitions renew the offers only.
ShopPicksKept(s, d, G) == UpdateEnd(s, shopPick, G, PickupOf[d])

ShopPicks(s, d, G) ==
  UpdateEnd(Rest(d, s, shopPick), Stay(d, shopPick), G, PickupOf[d])
ShopPost(d, G) ==
  /\ \E r \in UpdateEnd(Rest(d, shop, shopKey), Stay(d, shopKey), G, Same(Goods)) :
       shop' = r.store /\ shopKey' = r.data
  /\ defs' = d

PlainPicks(s, P) == UpdateEnd(s, plainPick, P, Same(Plain))

(* Both parts use pickups::streamer, one after the other.                  *)
PickupsPost(d, G, P) ==
  /\ IF PickupsFirst
     THEN \E r \in PlainPicks(pickups, P) : \E q \in ShopPicks(r.store, d, G) :
            pickups' = q.store /\ plainPick' = r.data /\ shopPick' = q.data
     ELSE \E q \in ShopPicks(pickups, d, G) : \E r \in PlainPicks(q.store, P) :
            pickups' = r.store /\ plainPick' = r.data /\ shopPick' = q.data
  /\ world' = Removed(world, Gone(plainPick, P)
                               \cup Gone(shopPick, IF d = defs THEN G ELSE {}))

(* A reconfiguration.  Goods without a definition get no key.  Nobody tells
   weapons_item: delete_item_event of the shop is bound in the destructor
   only.                                                                   *)
Configure ==
  \E c \in Configs :
    LET G == c.goods \cap DOMAIN PickupOf[c.defs]
    IN /\ ObjectsPost(c.objects, c.limit)
       /\ ShopPost(c.defs, G)
       /\ PickupsPost(c.defs, G, c.plain)
       /\ UNCHANGED <<on, at, buyVars>>

Next ==
  \/ \E p \in Players, t \in Spots : Connect(p, t) \/ Move(p, t)
  \/ \E p \in Players : Disconnect(p) \/ Buy(p)
  \/ Timer500 \/ Timer250 \/ Configure

Spec     == Init /\ [][Next]_vars
FairSpec == Spec /\ WF_vars(Timer250)
-----------------------------------------------------------------------------
TypeOK ==
  /\ on \subseteq Players /\ at \in [Players -> Spots]
  /\ objects \in Stores /\ objectKey \in Keyed(Objects) /\ limit \in Nat
  /\ last \in [Players -> Spots] /\ seen \in [Players -> Stores]
  /\ defs \in Defs
  /\ shop \in Stores /\ shopKey \in Keyed(Goods) /\ shopPick \in Keyed(Goods)
  /\ pickups \in Stores /\ plainPick \in Keyed(Plain) /\ world \in Stores
  /\ near \in [Players -> SUBSET Key]
  /\ offer \in [Players -> Key \cup {NoOffer}] /\ sign \subseteq on

(* s holds what data says, under the keys data says, and nothing else.     *)
Holds(s, data, thing) ==
  /\ \A i \in DOMAIN data : data[i] \in DOMAIN s /\ s[data[i]] = thing[i]
  /\ \A i, j \in DOMAIN data : data[i] = data[j] => i = j

(* No key is lost or shared: what is in a store is what is configured, each
   once, also in the store of pickups that two parts use; and the pickup of
   a thing for sale is the one its present definition asks for.            *)
StoresOwned ==
  /\ Holds(objects, objectKey, Same(Objects))
  /\ DOMAIN objects = KeysOf(objectKey)
  /\ Holds(shop, shopKey, Same(Goods))
  /\ DOMAIN shop = KeysOf(shopKey)
  /\ Holds(pickups, plainPick, Same(Plain))
  /\ Holds(pickups, shopPick, PickupOf[defs])
  /\ DOMAIN pickups = KeysOf(plainPick) \cup KeysOf(shopPick)
  /\ KeysOf(plainPick) \cap KeysOf(shopPick) = {}
  /\ DOMAIN shopPick = DOMAIN shopKey

(* What a client was told to show under a key is still what the key stands
   for, although keys are used again: a deleted object or pickup is taken
   from everybody before its key can name another one.                     *)
ShownAreCurrent ==
  /\ \A p \in Players : \A k \in DOMAIN seen[p] :
       k \in DOMAIN objects /\ seen[p][k] = objects[k]
  /\ \A k \in DOMAIN world : k \in DOMAIN pickups /\ world[k] = pickups[k]

(* Where a player last looked around he sees the nearest objects, as many as
   the present limit allows; a reconfiguration makes him look again.  (It
   does so by pretending that he was at the origin, so who stands there sees
   what is left of the old objects until he moves.)                        *)
SeesWhatIsNear == \A p \in on :
  last[p] # Origin => DOMAIN seen[p] \in ItemsByPos(objects, last[p], limit)

(* The key under which a player buys, the item weapon_buy_player holds for
   him and the text on his screen agree, whatever is sold out, configured
   away or refused in between.                                             *)
OfferIsSeen == \A p \in Players :
  /\ near[p] = IF offer[p] = NoOffer THEN {} ELSE {offer[p]}
  /\ p \in sign => offer[p] # NoOffer

(* A reconfiguration leaves players with the key of a thing that is gone; the
   next timer takes it back, or the key names another thing.               *)
Stale(p) == offer[p] \notin DOMAIN shop \cup {NoOffer}
StaleOfferEnds == \A p \in Players : Stale(p) ~> ~Stale(p)

(* Only a reconfiguration takes away what somebody is being offered, and the
   next timer leaves nobody with an offer of nothing: the step by step reason
   why a stale offer ends.                                                 *)
OffersRenewed ==
  [][/\ Timer250 => \A p \in Players : ~Stale(p)'
     /\ \A p \in Players : Stale(p)' /\ ~Stale(p) => Configure]_vars
-----------------------------------------------------------------------------
(* What is shown under the keys of v.                                      *)
Sight(v) == {v[k] : k \in DOMAIN v}

Sc == INSTANCE Scenery WITH
        at    <- [p \in on |-> at[p]],
        there <- DOMAIN objectKey,
        most  <- limit,
        shown <- [p \in Players |-> Sight(seen[p])]

(* The promise of the objects: keys that are taken back, given out again and
   shown by clients amount to a scenery that everybody sees as it is.      *)
SceneryPromise == Sc!Spec
=============================================================================
