CONSTANTS
  daemon = daemon
  ops = ops
  r1 = r1
  r2 = r2
  check = check
  cli = cli
  d1 = d1
  d2 = d2
  Nobody = Nobody
  MaxIdle = 1
  Processes <- MCProcesses
  Dirs <- MCDirs
  Requests <- MCRequests
  ProcessOf <- MCProcessOf
  DirOf <- MCDirOf
  Checks <- MCChecks
  Legacy <- MCLegacy
SPECIFICATION FairSpec
INVARIANTS StoreInUseOpen IdleBounded ServedImported
PROPERTIES NeverReverted RequestsEnd
