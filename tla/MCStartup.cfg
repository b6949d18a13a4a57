CONSTANTS
  Procs <- MCProcs
  Services = 2
  MaxSyncs = 2
  MaxLives = 2
  MaxFaults = 1
SPECIFICATION FairSpec
INVARIANTS TypeOK TakenOver IdsAreKnown
PROPERTIES StopsWhenTold StartupEnds
