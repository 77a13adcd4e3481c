CONSTANTS
  s1 = s1
  s2 = s2
  dedupe = dedupe
  p1 = p1
  p2 = p2
  p3 = p3
  alice = alice
  bob = bob
  Nobody = Nobody
  MaxJobs = 3
  MaxAttempts = 2
  Signatures <- MCSignatures
  Kinds <- MCKinds
  KindOf <- MCKindOf
  Processes <- MCProcesses
  Principal <- MCPrincipal
SPECIFICATION ASpec
CHECK_DEADLOCK FALSE
INVARIANTS ATypeOK AnsweredOnce AnswerNotLost
