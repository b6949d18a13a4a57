CONSTANTS
  b1 = b1
  b2 = b2
  alerts = alerts
  changes = changes
  NoType = NoType
  Brokers <- MCBrokers
  Types <- MCTypes
  Pipes = {1, 2}
  PipeFrom <- MCPipeFrom
  PipeMax <- MCPipeMax
  Events = {1}
  Lease = 1
  InitMayFail = TRUE
  Timely = FALSE
  MaxFaults = 1
SPECIFICATION Spec
INVARIANT AckedDelivered
