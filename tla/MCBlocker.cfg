\* Two keys share a counter that is swept and configured while in use.
SPECIFICATION MCSpec
CONSTANTS
  NoItem = NoItem
  MaxAge = 3
  MaxCount = 3
  MinAge <- MinusTwo
  Keys <- TwoKeys
  ParamSets <- Shipped
  Seen = "k1"
  HistMax = 6
  MadeCap = 2
  PassCap = 5
INVARIANTS
  BlockedHasCause
  PassBound
PROPERTIES
  SweepInvisible
  QuietKeyIsFreed
