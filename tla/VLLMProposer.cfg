\* Three requests, one of them started up to twice, one with an ID that begins
\* with that one's.
SPECIFICATION Spec
CONSTANTS
  Requests <- MCRequests
  Attempts <- MCAttempts
  Calls <- MCCalls
  Payload <- MCPayload
  MaxRetries = 1
  None = None
INVARIANTS EntriesAreReachable ClearRemovesEarlier
INVARIANTS DraftsFollowIds
PROPERTY SubmissionsAreAnswered
\* The clients stop calling.
CHECK_DEADLOCK FALSE
