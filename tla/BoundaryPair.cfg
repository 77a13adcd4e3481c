CONSTANTS
  MaxEntries = 4
  InitialRows = 4
  Page = 1
  Pages = 2
  AnchorBudget = 8
  JobsPerRun = 4
  MaxCancels = 0
  MaxFailures = 0
  Passes = {"p1"}
  IdRank <- ReversedIds
  AnchorsOf <- SharedByTwo
  Stale <- NoEntries
  Aged <- NoEntries
  Retirable <- NoEntries
SPECIFICATION FairSpec
PROPERTY PairsMet
