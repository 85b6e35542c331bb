\* Two requests, three control calls and a target of two tokens after the prompt.
SPECIFICATION WorkerSpec
CONSTANTS
  Requests = {r1, r2}
  Unknown = Unknown
  None = None
  Tokens <- MCTokens
  Drafts <- MCDrafts
  Bundles <- MCBundles
  Prompts <- MCPrompts
  Payloads <- MCPayloads
  PromptLength = 1
  Concurrent = FALSE
  MaxDraftTokens = 2
  InjectWindow = 1
  MaxSequence = 3
  MaxRegistrations = 3
  MaxCalls = 3
SYMMETRY RequestSymmetry
INVARIANTS OnlyLatestBundle ProposalExtendsDraft
