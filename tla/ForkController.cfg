SPECIFICATION Spec
CONSTANTS
  Options <- MCOptions
  MaxChunks = 2
  MaxCalls = 2
INVARIANTS ForkProtocol MainCompletionWins DraftIsCompleteBatch
INVARIANTS ReturnedRunIsComplete AccelerationNeverFatal ReleasedAtEnd
INVARIANTS NoDraftOutlivesRun
PROPERTY RunEnds
\* The coroutine ends.
CHECK_DEADLOCK FALSE
