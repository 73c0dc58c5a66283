\* An administrator watches and reads the panel, a user is teleported, a guest
\* comes and goes, and the server has fewer text draws than they need.
SPECIFICATION FairSpec
CONSTANTS
  Admin = Admin
  User = User
  Guest = Guest
  Players <- Everybody
  Tds <- TdsOfAll
  Idx <- Two
  Ids <- TwoIds
  NoId = NoId
  Looks <- TwoLooks
  Words <- TwoWords
  NoPage = NoPage
  MaxTime = 1
  Time = Time
  Keys = Keys
  Loading = Loading
  Info <- Panels
  Content <- Saying
  First <- AtFirst
  NoOne = NoOne
  Watchers <- OnlyAdmin
  Travellers <- OnlyUser
  KeysTime = 1
  PreloadTime = 1
INVARIANTS
  TextDrawsOwned
  EachSeesHisTexts
  InfoSourceConnected
  TextsFollowState
PROPERTIES
  KeysGoAway
  PreloadEnds
