---------------------------- MODULE MCVLLMProposer ----------------------------
EXTENDS VLLMProposer

On(kind, request) == [kind |-> kind, request |-> request]

\* Three agents; the first is restarted, submits twice and clears twice. The ID
\* of the third begins with that of the first, as an internal ID of the first
\* would, so that _worker_request_id takes the one for the other.
A == <<1>>
B == <<2>>
C == <<1, 0>>
MCRequests == {A, B, C}
MCAttempts == [r \in MCRequests |-> IF r = A THEN 2 ELSE 1]
MCPayload == [submit1 |-> On("submit", A), submit2 |-> On("submit", A),
              clear1 |-> On("clear", A), clear2 |-> On("clear", A)]
MCCalls == DOMAIN MCPayload

=============================================================================
