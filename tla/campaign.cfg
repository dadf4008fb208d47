SPECIFICATION CampaignSpec
CONSTANTS
  Draws = {0, 99}
  MaxActions = 5
  SeedCount = 3
  Retain = 2
  StressOrder <- MCStressOrder
  Jobs <- MCJobs
  Hunts <- MCHunts
INVARIANTS ReplayIsIdentical RecallIsComplete KeptDescribesMinimized EveryKeptWasNeeded EmittedInOrder PartitionsSplit RetainedAreBest StrategiesAgree
PROPERTIES JobEnds
