CONSTANTS
  N = 3
  Settings = {"peer", "port"}
  Values = {"old", "new"}
  Malformed = {3}
  Handlers = {1}
  ReadOnly = FALSE
  MarkMayFail = FALSE
  ExecMayFail = FALSE
  MaxFaults = 2
SPECIFICATION Spec
INVARIANTS TypeOK NewestWins
