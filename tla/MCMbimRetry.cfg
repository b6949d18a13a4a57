CONSTANTS
  Addresses = {"a1"}
  MaxId = 3
  MaxFaults = 0
SPECIFICATION FairSpec
PROPERTY RetriesConnect
