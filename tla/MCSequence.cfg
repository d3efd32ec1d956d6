\* Sheets of one to three ticks.
SPECIFICATION SequenceSpec
CONSTANTS
  MaxDuration = 3
  Sheets <- MCSheets
INVARIANT SpansFollowPlayhead FiredInOrder
PROPERTY SheetFinishes
