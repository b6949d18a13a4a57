CONSTANTS
  MaxStrikes = 1
  HardResetLimit = 3
  Timely = TRUE
  MaxFaults = 5
SPECIFICATION FairSpec
INVARIANT TypeOK
PROPERTIES UplinkRecovers LastResort
