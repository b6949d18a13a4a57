CONSTANTS
  Hosts = {h1}
  Limit = 1
  MaxFaults = 2
SPECIFICATION FairSpec
INVARIANTS TypeOK AtMostOne OneLevel
PROPERTIES DownIsReported BackIsResolved
