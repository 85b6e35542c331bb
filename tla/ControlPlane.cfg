\* Two requests and room for one tombstone, so that a second clear evicts the
\* first; the channel may never answer for r1.
SPECIFICATION Spec
CONSTANTS
  Requests = {"r1", "r2"}
  Calls <- MCCalls
  NoCall = NoCall
  Contents = {"read", "list"}
  Sources = {"agent", "fork"}
  Payload <- MCPayload
  MaxClosed = 1
  Responsive = {"r2"}
INVARIANTS TypeOK OpenIsNotTombstoned NoUpdateLost LateUpdatesFenced
PROPERTY UnrelatedCallsFinish
\* The clients stop calling.
CHECK_DEADLOCK FALSE
