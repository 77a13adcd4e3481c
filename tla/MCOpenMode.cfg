CONSTANTS
  anon = anon
  a = a
  b = b
  m1 = m1
  None = None
  MaxRev = 2
  MaxEpoch = 1
  Tiering = FALSE
  Entries <- MCEntries
  Principals <- MCPrincipals
  Anonymous <- MCAnonymous
  Admins <- MCAdmins
  Approvers <- MCApprovers
  Verifiers <- Everyone
  HumanApprovers <- NoOne
  Proposers <- MCProposers
  Editors <- MCEditors
  Owner <- MCOwner
  Ballots <- MCBallots
  Drafts <- MCDrafts
  Edits <- MCEdits
  Settings <- MCSettings
SPECIFICATION Spec
CHECK_DEADLOCK FALSE
INVARIANTS TypeOK PeerVerifiedSound PromotionEarned
PROPERTIES NoSoloRewrite RestoredMustReverify
