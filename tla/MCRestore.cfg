\* Spectating again before the respawn loses the saved state.
SPECIFICATION Spec
CONSTANTS
  Players <- TwoPlayers
  Admins <- OnlyFirst
  Cheaters <- Nobody
  Fighters <- Nobody
  Drivers <- Nobody
  None = None
  FfaFirst = TRUE
PROPERTIES
  RestoresOwnState
\* Nobody is online and no timer changes anything: the server may idle.
CHECK_DEADLOCK FALSE
