CONSTANTS
  c1 = c1
  c2 = c2
  c3 = c3
  c4 = c4
  None = None
  ChildCap = 2
  Calls <- MCCalls
  Mixes <- MCMixes
  KeyOf <- MCKeyOf
  ResidentOnly <- MCResidentOnly
SPECIFICATION FairSpec
CHECK_DEADLOCK FALSE
INVARIANTS WorkerTypeOK SlotWhileRunning RetiredUnused OneWorker RunsOnce
PROPERTIES Settles
