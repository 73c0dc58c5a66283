\* Two players who spawn, die, trade and drive while one of them watches and
\* may be blocked; the timer and the client bring him back to the game.
\* The spectate item comes first, the order in which a context switched too
\* early would answer the same spawn.
SPECIFICATION FairSpec
CONSTANTS
  Players <- TwoPlayers
  Admins <- OnlyFirst
  Cheaters <- OnlyFirst
  Fighters <- TwoPlayers
  Drivers <- TwoPlayers
  None = None
  FfaFirst = FALSE
INVARIANTS
  OneActiveContext
  EndingUntilRestored
  PendingSwitchAfterRestore
  LifeFlagsAgree
  EndlessHealthOnlyInSpectate
PROPERTIES
  OneContextPerSpawn
  ReturnsToGame
\* Nobody is online and no timer changes anything: the server may idle.
CHECK_DEADLOCK FALSE
