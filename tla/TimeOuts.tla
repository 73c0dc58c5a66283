------------------------------ MODULE TimeOuts ------------------------------
(***************************************************************************)
(* time_outs<key_t, val_t> (core/time_outs.hpp) and the attempt counter    *)
(* time_count_blocker<key_t> built on it (core/time_count_blocker.hpp), as *)
(* operators on values.                                                    *)
(*                                                                         *)
(* The code stores when an item was last updated and only ever looks at    *)
(* the difference to the current time, so an item carries that difference, *)
(* its age.  Ages grow with time and stop at MaxAge, which lies above      *)
(* every time-out: beyond a time-out ages are told apart by nobody.  An    *)
(* age is negative when a penalty moved the last update into the future.   *)
(***************************************************************************)
EXTENDS Integers

CONSTANTS
  NoItem,     \* the map has no item under a key
  MaxAge,     \* ages stop growing here
  MaxCount    \* counters of attempts stop growing here

ASSUME TimeOutsAssumption ==
  /\ MaxAge \in Nat \ {0}
  /\ MaxCount \in Nat \ {0}
  /\ NoItem \notin [age : Int, val : Nat] /\ NoItem \notin Int

Ages  == {a \in Int : a <= MaxAge}
Items == [age : Ages, val : 1..MaxCount] \cup {NoItem}

\* The parameters of a counter, time_count_blocker_params.
Params == [time_interval : 0..(MaxAge - 1), attemp_count : 1..MaxCount,
           critical_attemp_count : 1..MaxCount,
           penalty : Nat, critical_penalty : Nat]

-----------------------------------------------------------------------------
(* time_outs, one item i and the time-out t of the map.                    *)

Older(a) == IF a < MaxAge THEN a + 1 ELSE a
Aged(i)  == IF i = NoItem THEN i ELSE [i EXCEPT !.age = Older(@)]

IsTimeout(i, t) == i.age > t

IsExist(i, t) == i # NoItem /\ ~IsTimeout(i, t)

Inserted(v) == [age |-> 0, val |-> v]

\* Mutant of Kept: the sweep takes an item one unit early.
KeptYounger(i, t) == IF i # NoItem /\ i.age < t THEN i ELSE NoItem

\* erase_timeouts keeps the items whose time-out has not passed.
Kept(i, t) == IF IsExist(i, t) THEN i ELSE NoItem

-----------------------------------------------------------------------------
(* time_count_blocker, one item i under parameters p.                      *)

CountUp(n) == IF n < MaxCount THEN n + 1 ELSE n

Penalty(n, p) == IF n >= p.critical_attemp_count THEN p.critical_penalty
                 ELSE IF n >= p.attemp_count THEN p.penalty
                 ELSE 0

\* Mutant of Increased: every attempt starts the interval anew at one.
IncreasedAnew(i, p) == Inserted(1)

\* increase
Increased(i, p) ==
  IF IsExist(i, p.time_interval)
  THEN LET n == CountUp(i.val)
       IN  [age |-> i.age - Penalty(n, p), val |-> n]
  ELSE Inserted(1)

\* Mutant of IsBlocked: one attempt too few blocks.
IsBlockedEarly(i, t, p) == IsExist(i, t) /\ i.val + 1 >= p.attemp_count

\* Mutant of IsBlocked: only the sweep forgets, nobody looks at the time.
IsBlockedForever(i, t, p) == i # NoItem /\ i.val >= p.attemp_count

\* is_blocked
IsBlocked(i, t, p) == IsExist(i, t) /\ i.val >= p.attemp_count
=============================================================================
