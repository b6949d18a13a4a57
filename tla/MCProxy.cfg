CONSTANTS
  Clients <- MCClients
  Services = 1
  MaxId = 2
  MaxTid = 2
  MaxFaults = 1
  MaxDown = 1
  MaxLives = 3
  MaxSyncs = 2
  MaxTries = 1
SPECIFICATION FairSpec
INVARIANTS TypeOK NoSharedClientId HeldIsRegistered InSync
PROPERTIES AnswersAreOwn EveryoneRegisters
