------------------------------ MODULE Watching ------------------------------
(***************************************************************************)
(* What spectating promises the other items of a player (player_events::   *)
(* on_spectate_start, change and stop in core/player/player_i.hpp): who    *)
(* watches whom, and that a watcher whose player leaves is taken to        *)
(* another one at once if there is one.  Spectate is shown to keep it,     *)
(* PlayerScreens relies on it.                                             *)
(***************************************************************************)
CONSTANTS Players, NoOne

VARIABLES
  present,  \* the known players
  watch     \* whom each watches, or NoOne

vars == <<present, watch>>

Init == present = {} /\ watch = [p \in Players |-> NoOne]

Connect(p) ==
  /\ p \notin present
  /\ present' = present \cup {p}
  /\ UNCHANGED watch

\* on_spectate_start
Start(p, q) ==
  /\ p \in present /\ watch[p] = NoOne
  /\ q \in present \ {p}
  /\ watch' = [watch EXCEPT ![p] = q]
  /\ UNCHANGED present

\* on_spectate_change
Change(p, q) ==
  /\ watch[p] # NoOne
  /\ q \in present \ {p, watch[p]}
  /\ watch' = [watch EXCEPT ![p] = q]
  /\ UNCHANGED present

\* on_spectate_stop
Stop(p) ==
  /\ watch[p] # NoOne
  /\ watch' = [watch EXCEPT ![p] = NoOne]
  /\ UNCHANGED present

\* Whom the watcher w may be taken to when p leaves.
Heirs(w, p) == IF present \ {w, p} = {} THEN {NoOne} ELSE present \ {w, p}

Leave(p) ==
  /\ p \in present
  /\ present' = present \ {p}
  /\ watch' \in [Players -> present' \cup {NoOne}]
  /\ \A w \in Players :
       IF w = p THEN watch'[w] = NoOne
       ELSE IF watch[w] = p THEN watch'[w] \in Heirs(w, p)
       ELSE watch'[w] = watch[w]

\* The game mode ends: everybody leaves.
Close ==
  /\ present' = {}
  /\ watch' = [p \in Players |-> NoOne]

Next ==
  \/ \E p \in Players :
       \/ Connect(p) \/ Stop(p) \/ Leave(p)
       \/ \E q \in Players : Start(p, q) \/ Change(p, q)
  \/ Close

Spec == Init /\ [][Next]_vars
=============================================================================
