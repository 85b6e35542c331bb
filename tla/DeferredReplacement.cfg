\* One candidate without a prompt length, submitted twice.
SPECIFICATION WorkerSpec
CONSTANTS
  Requests = {r1}
  Unknown = Unknown
  None = None
  Tokens <- MCTokens
  Drafts <- MCDrafts
  Bundles <- MCBundles
  Prompts <- MCPrompts
  Payloads <- MCDeferred
  PromptLength = 1
  Concurrent = FALSE
  MaxDraftTokens = 2
  InjectWindow = 1
  MaxSequence = 4
  MaxRegistrations = 2
  MaxCalls = 2
PROPERTY FiresOnce
