SPECIFICATION PricesSpec
CONSTANTS
  base = base
  correction = correction
  late = late
  backfill = backfill
  renormalized = renormalized
  other = other
  Symbol = {"SPY", "GSPC"}
  Day = {1, 2, 3}
  Price = {"p", "q", "r"}
  Batch <- MCBatch
  Rows <- MCRows
  Artifact <- MCArtifact
  Asked <- MCAsked
  NoVersion = NoVersion
INVARIANTS
  ChainSound
PROPERTIES
  AsOfStable
CHECK_DEADLOCK FALSE
