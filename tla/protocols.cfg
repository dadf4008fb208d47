SPECIFICATION FairSpec
CONSTANTS
  Node <- AllNodes
  MaxMsgs = 0
  Systems <- AllSystems
  MaxDoubled = 1
  MaxLost = 1
INVARIANTS CorrectIsLegal AckedIsReplicated PlantedBugShows
PROPERTIES FaultFreeRunFinishes
CHECK_DEADLOCK FALSE
