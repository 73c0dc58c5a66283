\* Two players walk among two objects, two things for sale and a pickup, with
\* a limit of one or two objects and of two pickups.
SPECIFICATION FairSpec
CONSTANTS
  Ann = Ann
  Bob = Bob
  Players <- Two
  Spots <- TheSpots
  Origin <- TheOrigin
  Goes <- TheGoes
  Close <- TheClose
  Things <- TheThings
  Objects <- TheObjects
  Goods <- TheGoods
  Plain <- ThePlain
  Defs <- TheDefs
  PickupOf <- TheMarks
  KeyCap = 3
  Distance <- TheDistance
  Look <- TheLook
  Configs <- TheConfigs
  MaxPickups = 2
  NoOffer = NoOffer
  PickupsFirst = TRUE
INVARIANTS
  StoresOwned
  ShownAreCurrent
  SeesWhatIsNear
  OfferIsSeen
PROPERTIES
  StaleOfferEnds
CHECK_DEADLOCK FALSE
