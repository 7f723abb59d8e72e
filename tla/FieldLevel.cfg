SPECIFICATION FairSpec
CONSTANTS
  Journeys = 1
  MaxRequests = 1
  Crashable = {"plane"}
INVARIANTS
  LevelIsSound
PROPERTIES
  StopIsFinal
  LevelEnds
CHECK_DEADLOCK FALSE
