SPECIFICATION ProgramsSpec
CONSTANTS
  Offsets = {0, 1, 4}
  Blocks <- SomeBlocks
  Programs <- AllPrograms
  MaxWrites = 3
  MaxCrashes = 2
INVARIANTS LogExplainsPending AckedIsRecovered ProbeIsRight LossesShow OraclesFire
PROPERTIES ReorderNeedsOverlap
CHECK_DEADLOCK FALSE
