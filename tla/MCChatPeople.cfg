\* An administrator and a user who talk to each other, time kept short.
SPECIFICATION Spec
CONSTANTS
  NoItem = NoItem
  MaxAge = 1
  MaxCount = 1
  Players <- UserAndAdmin
  Admins <- OnlyAdmin
  Writers <- OnlyAdmin
  Social <- UserAndAdmin
  Groups <- OneGroup
  NoGroup = NoGroup
  NoOne = NoOne
  FloodParams <- Brisk
  SharedParams <- Brisk
  BlockTime = 2
  MuteMin = 1
  MuteMax = 2
  DelayMin = 1
  DelayMax = 2
  Penalties <- JustOne
  Oldest <- MinusTwo
INVARIANTS
  NoGhosts
