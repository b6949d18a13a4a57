CONSTANTS
  Addresses = {"a1", "a2"}
  MaxId = 3
  MaxFaults = 0
SPECIFICATION FairSpec
PROPERTY FoundIsConfigured
