CONSTANTS
  anon = anon
  a = a
  b = b
  b2 = b2
  c = c
  m1 = m1
  None = None
  MaxRev = 3
  MaxEpoch = 0
  Tiering = FALSE
  Entries <- MCEntries
  Principals <- MCPrincipals
  Anonymous <- MCAnonymous
  Admins <- MCAdmins
  Approvers <- MCApprovers
  Verifiers <- MCVerifiers
  HumanApprovers <- MCHumanApprovers
  Proposers <- MCProposers
  Editors <- MCEditors
  Owner <- MCOwner
  Ballots <- MCBallots
  Drafts <- MCDrafts
  Edits <- MCEdits
  Settings <- MCSettings
SPECIFICATION Spec
CHECK_DEADLOCK FALSE
SYMMETRY Twins
INVARIANTS QuorumCountsOwners RevisionsSound
PROPERTIES HistoryImmutable
