\* A handler that saw is_configured true runs on when it is false.
SPECIFICATION FairSpec
CONSTANTS
  NoItem = NoItem
  MaxAge = 2
  MaxCount = 2
  IPs <- OneAddress
  Configs <- BothConfigs
  Default <- Loose
  Packets <- OneSender
  Nobody = Nobody
PROPERTIES
  ConfiguredWhenActing
