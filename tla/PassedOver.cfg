CONSTANTS
  MaxEntries = 2
  InitialRows = 2
  Page = 2
  Pages = 1
  AnchorBudget = 1
  JobsPerRun = 4
  MaxCancels = 0
  MaxFailures = 0
  Passes = {"p1"}
  IdRank <- ReversedIds
  AnchorsOf <- OneAnchorEach
  Stale <- MCStale
  Aged <- NoEntries
  Retirable <- NoEntries
SPECIFICATION FairSpec
PROPERTY DroppedReadAgain
