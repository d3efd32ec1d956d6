\* Four submissions in two tiers, one of them off, over four ticks.
SPECIFICATION JournalSpec
CONSTANTS
  Tier = {Flight, Trace}
  Enabled = {Flight}
  Stride = 2
  MaxTick = 3
  MaxRecords = 4
INVARIANTS FlushedSurvives BundleWhole
PROPERTY NextIsExact
CHECK_DEADLOCK FALSE
