CONSTANTS
  MaxEntries = 4
  InitialRows = 3
  Page = 2
  Pages = 2
  AnchorBudget = 3
  JobsPerRun = 1
  MaxCancels = 1
  MaxFailures = 1
  Passes = {"p1", "p2"}
  IdRank <- MCIdRank
  AnchorsOf <- MCAnchorsOf
  Stale <- MCStale
  Aged <- MCAged
  Retirable <- MCRetirable
SPECIFICATION FairSpec
INVARIANTS ConsolidationTypeOK NoLostAdvance
PROPERTIES EveryQuestionAsked
