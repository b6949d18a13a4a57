CONSTANTS
  Families = {"v4"}
  Addresses = {1, 2}
  MaxSignals = 3
  MaxFaults = 4
SPECIFICATION Spec
INVARIANT AddressIsNew
