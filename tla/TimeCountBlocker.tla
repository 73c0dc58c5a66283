-------------------------- MODULE TimeCountBlocker --------------------------
(***************************************************************************)
(* One time_count_blocker<key_t> (core/time_count_blocker.hpp) in use: its *)
(* owner counts the attempts of its keys, sweeps the old ones from a       *)
(* timer, forgets the keys of who leaves and takes new parameters from the *)
(* configuration.  Commands, chat and /check share this class.             *)
(***************************************************************************)
EXTENDS TimeOuts

CONSTANTS
  Keys,
  ParamSets,  \* the configurations an operator may load
  MinAge      \* bound: penalties move no last update further than this

ASSUME BlockerAssumption == ParamSets \subseteq Params /\ MinAge \in Int

VARIABLES
  params,   \* time_count_blocker::params
  timeOut,  \* items.time_out, a copy made by increase and erase_timeouts
  items     \* items, an item or NoItem for every key

vars == <<params, timeOut, items>>

TypeOK ==
  /\ params \in ParamSets
  /\ timeOut \in 0..(MaxAge - 1)
  /\ items \in [Keys -> Items]

Blocked(k) == IsBlocked(items[k], timeOut, params)

Init ==
  /\ params \in ParamSets
  /\ timeOut = params.time_interval
  /\ items = [k \in Keys |-> NoItem]

Increase(k) ==
  LET i == Increased(items[k], params)
  IN  /\ i.age >= MinAge
      /\ timeOut' = params.time_interval
      /\ items' = [items EXCEPT ![k] = i]
      /\ UNCHANGED params

\* erase_timeouts
EraseTimeouts ==
  /\ timeOut' = params.time_interval
  /\ items' = [k \in Keys |-> Kept(items[k], params.time_interval)]
  /\ UNCHANGED params

Erase(k) ==
  /\ items' = [items EXCEPT ![k] = NoItem]
  /\ UNCHANGED <<params, timeOut>>

\* get_params().set, from configure_pre and configure of the owner.  The items
\* and the copy of the interval stay as they are.
Configure(p) ==
  /\ p # params
  /\ params' = p
  /\ UNCHANGED <<timeOut, items>>

Tick ==
  /\ items' = [k \in Keys |-> Aged(items[k])]
  /\ UNCHANGED <<params, timeOut>>

Next ==
  \/ \E k \in Keys : Increase(k) \/ Erase(k)
  \/ EraseTimeouts
  \/ \E p \in ParamSets : Configure(p)
  \/ Tick

Spec == Init /\ [][Next]_vars

-----------------------------------------------------------------------------
(* Sweeping is only about memory: while the copy of the interval is current, *)
(* erase_timeouts changes neither who is blocked nor what the next attempt   *)
(* of a key becomes.  The class may be swept at any time, or never.          *)
SweepInvisible ==
  [][EraseTimeouts =>
       \A k \in Keys :
         /\ timeOut = params.time_interval => (Blocked(k)' <=> Blocked(k))
         /\ Increased(items'[k], params) = Increased(items[k], params)]_vars
=============================================================================
