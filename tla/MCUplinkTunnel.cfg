CONSTANTS
  MaxStrikes = 1
  HardResetLimit = 3
  Timely = TRUE
  MaxFaults = 0
SPECIFICATION Spec
PROPERTY TunnelRevived
