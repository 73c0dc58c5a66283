---------------------------- MODULE GameContext ----------------------------
(***************************************************************************)
(* What state_save and state_load of player_spectate_item promise a player *)
(* who leaves the game to watch others: what he had when he left is kept   *)
(* while he is away and is given back, that and nothing else, when he      *)
(* returns; and nobody takes the endless health of a watcher into the game.*)
(* Spectate is shown to keep the promise as long as nobody starts to watch *)
(* again before he was given back what he is owed.                         *)
(***************************************************************************)
CONSTANTS Players, Nothing, Endless

VARIABLES
  phase,  \* where each player is between two returns
  had,    \* what he had when he left the game, or Nothing
  has     \* what he has: his health and his money

vars == <<phase, had, has>>

Init == /\ phase = [p \in Players |-> "out"]
        /\ had = [p \in Players |-> Nothing]
        /\ \A p \in Players : has[p].health # Endless

\* The step of one player from one phase to another.
From(p, was, is) == phase[p] \in was /\ phase'[p] = is

Enter(p)    == From(p, {"out"}, "game") /\ had'[p] = Nothing
Leave(p)    == phase'[p] = "out" /\ had'[p] = Nothing
GoAway(p)   == From(p, {"game", "given"}, "away") /\ had'[p] = has[p]
Stop(p)     == From(p, {"away"}, "owed") /\ had'[p] = had[p]
GiveBack(p) == /\ From(p, {"owed"}, "given")
               /\ has'[p] = had[p] /\ had'[p] = Nothing
Settle(p)   == From(p, {"given"}, "game") /\ had'[p] = Nothing
Stay(p)     == phase'[p] = phase[p] /\ had'[p] = had[p]

\* Everybody takes a step of his own or stays where he is.
Next ==
  /\ DOMAIN phase' = Players /\ DOMAIN had' = Players
  /\ \A p \in Players :
       /\ \/ Enter(p) \/ Leave(p) \/ GoAway(p) \/ Stop(p)
          \/ GiveBack(p) \/ Settle(p) \/ Stay(p)
       /\ phase'[p] \notin {"away", "owed"} => has'[p].health # Endless

Spec == Init /\ [][Next]_vars
=============================================================================
