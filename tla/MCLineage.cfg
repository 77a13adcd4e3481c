CONSTANTS
  anon = anon
  a = a
  b = b
  m1 = m1
  m2 = m2
  None = None
  MaxRev = 1
  MaxEpoch = 1
  Tiering = TRUE
  Entries <- MCEntries
  Principals <- MCPrincipals
  Anonymous <- MCAnonymous
  Admins <- MCAdmins
  Approvers <- MCApprovers
  Verifiers <- MCVerifiers
  HumanApprovers <- MCHumanApprovers
  Proposers <- MCProposers
  Editors <- MCEditors
  Owner <- MCOwner
  Ballots <- MCBallots
  Drafts <- MCDrafts
  Edits <- MCEdits
  Settings <- MCSettings
SPECIFICATION Spec
CHECK_DEADLOCK FALSE
SYMMETRY Ids
INVARIANTS ForwardingAcyclic QuarantineContained
PROPERTIES SupersededAtItsGate
