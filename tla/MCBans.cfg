\* Two addresses: one is banned by what it sends, one by how often it connects;
\* both are let in again every time.
SPECIFICATION FairSpec
CONSTANTS
  NoItem = NoItem
  MaxAge = 2
  MaxCount = 2
  IPs <- TwoAddresses
  Configs <- BothConfigs
  Default <- Loose
  Packets <- TwoSenders
  Nobody = Nobody
INVARIANTS
  BlockMatchesBan
  RulesMatchBan
PROPERTIES
  BanListPromise
  EveryBanIsLifted
