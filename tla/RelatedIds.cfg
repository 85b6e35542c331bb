\* The same three requests; does one get the drafts of another?
SPECIFICATION Spec
CONSTANTS
  Requests <- MCRequests
  Attempts <- MCAttempts
  Calls <- MCCalls
  Payload <- MCPayload
  MaxRetries = 1
  None = None
INVARIANT DraftsStayWithTheirRequest
\* The clients stop calling.
CHECK_DEADLOCK FALSE
