\* The store under two requests; the target may stop and every entry may be
\* cleared, so the system really ends.
SPECIFICATION Spec
CONSTANTS
  Requests = {r1, r2}
  Tokens <- MCTokens
  Drafts <- MCDrafts
  Bundles <- MCBundles
  Prompts <- MCPrompts
  MaxDraftTokens = 2
  InjectWindow = 1
  MaxSequence = 4
  MaxRegistrations = 2
SYMMETRY RequestSymmetry
INVARIANTS TypeOK LedgerBalanced ProposalExtendsDraft NoTokenCreditedTwice
PROPERTIES ReplacementForgetsNothing ImplementsLedger
CHECK_DEADLOCK FALSE
