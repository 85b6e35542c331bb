\* Every view of the Actor's output, every format, up to two slips of the fork's model.
SPECIFICATION ForkSpec
CONSTANTS
  None = None
  Jobs <- MCJobs
  Batches <- MCBatches
  MaxCandidates = 2
  MaxDraftTokens = 20
INVARIANTS ForkContinuesActor DecodedAsWhole DraftParsesBack ReceiptIsEarned
\* The route has answered.
CHECK_DEADLOCK FALSE
