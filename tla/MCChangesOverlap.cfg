CONSTANTS
  N = 2
  Settings = {"peer"}
  Values = {"old", "new"}
  Malformed = {}
  Handlers = {1, 2}
  ReadOnly = FALSE
  MarkMayFail = TRUE
  ExecMayFail = TRUE
  MaxFaults = 2
SPECIFICATION FairSpec
INVARIANT StateIsTrue
PROPERTY EventuallySettled
