CONSTANTS
  Clients <- OneClient
  Services = 1
  MaxId = 3
  MaxTid = 2
  MaxFaults = 1
  MaxDown = 2
  MaxLives = 1
  MaxSyncs = 2
  MaxTries = 1
SPECIFICATION FairSpec
PROPERTY RestartsAfterReset
