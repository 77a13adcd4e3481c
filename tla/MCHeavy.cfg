CONSTANTS
  build = build
  refresh = refresh
  capture = capture
  huge = huge
  None = None
  Callers <- MCCallers
  HotPath <- MCHotPath
  TooLarge <- MCTooLarge
SPECIFICATION FairSpec
INVARIANTS SlotTypeOK SlotAccounted HolderIsOwner WatchedWhileHeld
  
