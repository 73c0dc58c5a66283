\* A user floods and is muted; nobody keeps lists.
SPECIFICATION FairSpec
CONSTANTS
  NoItem = NoItem
  MaxAge = 3
  MaxCount = 3
  Players <- UserAndAdmin
  Admins <- OnlyAdmin
  Writers <- OnlyUser
  Social <- Nobody
  Groups <- OneGroup
  NoGroup = NoGroup
  NoOne = NoOne
  FloodParams <- Strict
  SharedParams <- Slow
  BlockTime = 2
  MuteMin = 1
  MuteMax = 2
  DelayMin = 1
  DelayMax = 2
  Penalties <- OneTwo
  Oldest <- MinusTwo
INVARIANTS
  OneMessagePerInterval
PROPERTIES
  MutesHold
  MutesComeAndGo
