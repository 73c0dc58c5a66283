----------------------------- MODULE MCSpectate -----------------------------
(* Model values for checking Spectate.  With four slots a watcher has a real *)
(* choice of two when the watched player leaves or a button is pressed.      *)
EXTENDS Spectate

FourPlayers == 0..3
TwoPlayers  == 0..1
OnlyFirst   == {0}
OnlyLast    == {3}
FirstAndMid == {0, 2}
Nobody      == {}
=============================================================================
