--------------------------- MODULE TimeOutsProofs ---------------------------
(***************************************************************************)
(* Lemmas about the operators on items, cited wherever items are counted.  *)
(***************************************************************************)
EXTENDS TimeOuts, TLAPS

-----------------------------------------------------------------------------
(* An attempt turns an item into an item: the count never leaves its range   *)
(* and the age never exceeds its bound, whatever the penalty (increase).     *)
LEMMA IncreasedIsItem ==
  ASSUME NEW i \in Items, NEW p \in Params
  PROVE  Increased(i, p) \in Items
<1> USE TimeOutsAssumption
<1>1. CASE IsExist(i, p.time_interval)
  <2>1. i \in [age : Ages, val : 1..MaxCount]
    BY <1>1 DEF IsExist, Items
  <2>2. CountUp(i.val) \in 1..MaxCount
    BY <2>1 DEF CountUp
  <2>3. Penalty(CountUp(i.val), p) \in Nat
    BY <2>2 DEF Penalty, Params
  <2>4. i.age - Penalty(CountUp(i.val), p) \in Ages
    BY <2>1, <2>3 DEF Ages
  <2> QED BY <1>1, <2>2, <2>4 DEF Increased, Items
<1>2. CASE ~IsExist(i, p.time_interval)
  BY <1>2 DEF Increased, Inserted, Items, Ages
<1> QED BY <1>1, <1>2

\* What is left of an item by the sweep counts and blocks exactly as the item
\* did (erase_timeouts against is_exist).
LEMMA KeptCountsTheSame ==
  ASSUME NEW i \in Items, NEW p \in Params
  PROVE  /\ IsBlocked(Kept(i, p.time_interval), p.time_interval, p)
              <=> IsBlocked(i, p.time_interval, p)
         /\ Increased(Kept(i, p.time_interval), p) = Increased(i, p)
<1>1. CASE IsExist(i, p.time_interval)
  BY <1>1 DEF Kept
<1>2. CASE ~IsExist(i, p.time_interval)
  BY <1>2 DEF Kept, IsExist, IsBlocked, Increased, Items
<1> QED BY <1>1, <1>2

\* Time, a sweep and an insertion leave items items (is_item_timeout,
\* erase_timeouts, insert).
LEMMA ItemsStayItems ==
  /\ Inserted(1) \in Items
  /\ \A i \in Items : Aged(i) \in Items
  /\ \A i \in Items, t \in Int : Kept(i, t) \in Items
<1>1. Inserted(1) \in Items
  BY TimeOutsAssumption DEF Inserted, Items, Ages
<1>2. \A i \in Items : Aged(i) \in Items
  BY TimeOutsAssumption DEF Aged, Older, Items, Ages
<1>3. \A i \in Items, t \in Int : Kept(i, t) \in Items
  BY DEF Kept, Items
<1> QED BY <1>1, <1>2, <1>3
=============================================================================
