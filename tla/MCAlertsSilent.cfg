CONSTANTS
  Hosts = {h1}
  Limit = 1
  MaxFaults = 1
SPECIFICATION Spec
INVARIANT EveryAlertQueued
