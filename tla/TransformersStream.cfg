\* Two workers are enough, as a generation is submitted before its first get.
SPECIFICATION Spec
CONSTANTS
  t1 = t1
  t2 = t2
  None = None
  Streams <- MCStreams
  MaxChunks = 2
  MaxEntries = 1
  Workers = 2
INVARIANTS ChunksInOrder NothingRunsOn OwnCandidates
INVARIANT ClearedPrefixesStayCleared
PROPERTY ConsumersAreAnswered
\* The streams come to their end.
CHECK_DEADLOCK FALSE
