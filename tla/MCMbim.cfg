CONSTANTS
  Addresses = {"a1", "a2"}
  MaxId = 3
  MaxFaults = 2
SPECIFICATION FairSpec
INVARIANT TypeOK
PROPERTIES AnswersAreOwn EndsWhenTold GetsItsAddress ReopensModem
