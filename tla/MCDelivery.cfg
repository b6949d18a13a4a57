CONSTANTS
  b1 = b1
  b2 = b2
  alerts = alerts
  changes = changes
  NoType = NoType
  Brokers <- MCBrokers
  Types <- MCTypes
  Pipes = {1, 2}
  PipeFrom <- MCPipeFrom
  PipeMax <- MCPipeMax
  Events = {1, 2}
  Lease = 1
  InitMayFail = FALSE
  Timely = FALSE
  MaxFaults = 1
SPECIFICATION FairSpec
INVARIANTS TypeOK AckedDelivered
PROPERTIES ContractKept EventuallyAcked
