\* Four players of whom two may watch: shifting, leaving, refreshing.
SPECIFICATION Spec
CONSTANTS
  Players <- FourPlayers
  Admins <- FirstAndMid
  Cheaters <- Nobody
  Fighters <- Nobody
  Drivers <- OnlyLast
  None = None
  FfaFirst = FALSE
INVARIANTS
  TypeOK
  WatchedIsConnected
  ViewFollowsTarget
  ShiftsAreInverse
PROPERTIES
  WatchingPromise
\* Nobody is online and no timer changes anything: the server may idle.
CHECK_DEADLOCK FALSE
