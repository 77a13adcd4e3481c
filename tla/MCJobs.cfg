CONSTANTS
  s1 = s1
  s2 = s2
  dedupe = dedupe
  stale = stale
  p1 = p1
  p2 = p2
  agent = agent
  Nobody = Nobody
  MaxJobs = 3
  MaxAttempts = 2
  Signatures <- MCSignatures
  Kinds <- MCKinds
  KindOf <- MCKindOf
  Processes <- MCProcesses
  Principal <- MCPrincipal
SPECIFICATION FairSpec
CHECK_DEADLOCK FALSE
INVARIANTS TypeOK OneHolder OneJobPerSignature AttemptsBounded
PROPERTIES FinishedFinal JobsFinish
