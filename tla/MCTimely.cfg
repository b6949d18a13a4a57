CONSTANTS
  b1 = b1
  b2 = b2
  alerts = alerts
  changes = changes
  NoType = NoType
  Brokers <- MCBrokers
  Types <- MCTypes
  Pipes = {1, 2}
  PipeFrom <- MCPipeFrom
  PipeMax <- MCPipeMax
  Events = {1, 2}
  Lease = 2
  InitMayFail = FALSE
  Timely = TRUE
  MaxFaults = 2
SPECIFICATION Spec
SYMMETRY MCSymmetry
INVARIANT TimelyExclusive
PROPERTY DeliversOnce
