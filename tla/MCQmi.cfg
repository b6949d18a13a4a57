CONSTANTS
  Families = {"v4"}
  Addresses = {1, 2, 3}
  MaxSignals = 2
  MaxFaults = 3
SPECIFICATION FairSpec
INVARIANTS TypeOK NoStaleAddress
PROPERTY UplinkComesUp
