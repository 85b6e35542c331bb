\* More workers than streams: see ConsumersAreAnswered.
SPECIFICATION Spec
CONSTANTS
  l1 = l1
  l2 = l2
  None = None
  Streams <- MCStreams
  MaxPayloads = 2
  Workers = 3
INVARIANTS PayloadsInOrder NothingRunsOn
PROPERTY ConsumersAreAnswered
\* The streams come to their end.
CHECK_DEADLOCK FALSE
