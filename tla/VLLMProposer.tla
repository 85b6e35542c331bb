----------------------------- MODULE VLLMProposer -----------------------------
(***************************************************************************)
(* The vLLM integration (integrations/vllm.py): the HTTP routes of the API *)
(* server, the worker RPC methods they call, and the draft store of the    *)
(* worker that owns VLLMBoundaryProposer. A client knows a request by the  *)
(* external ID it chose; vLLM runs it under an internal ID. A worker finds *)
(* the internal ID by its text and remembers it as the alias of the        *)
(* external one, so that a clear can find what was registered.             *)
(*                                                                         *)
(* An ID is the sequence of its dash-separated parts. All the workers that *)
(* own a proposer get the same RPCs in the same order, so one stands for   *)
(* them; the others answer "skipped". An RPC is one step, except that a    *)
(* clear gives up the alias lock before it goes to the store. Each call of *)
(* the clients is made once; its arguments are Payload.                    *)
(***************************************************************************)
EXTENDS Integers, SequencesExt

CONSTANTS
  Requests,      (* external IDs: sequences of parts                        *)
  Attempts,      (* bound: how often a request is started                   *)
  Calls,         (* the calls the clients make                              *)
  Payload,       (* of each call: its kind and the request it is for        *)
  MaxRetries,    (* registration_wait_timeout / registration_retry_interval *)
  None

ASSUME CallsAssumption ==
  /\ Attempts \in [Requests -> Nat]
  /\ MaxRetries \in Nat
  /\ Requests \subseteq Seq(Nat)
  /\ None \notin Calls \cup Requests
  /\ \A c \in Calls : /\ Payload[c].kind \in {"submit", "clear"}
                      /\ Payload[c].request \in Requests

\* vLLM runs a request under the client's ID itself or under one it has made
\* unique with a further part.
Internal(r) == {r} \cup {Append(r, n) : n \in 1..Attempts[r]}

InternalIds == UNION {Internal(r) : r \in Requests}

ASSUME NoneAssumption == None \notin InternalIds

VARIABLES
  owner,      (* model_runner.requests: whose request runs under an ID, or None *)
  starts,     (* how often each request has been started                        *)
  aliases,    (* _request_aliases: external to internal ID, or None             *)
  store,      (* the submission whose bundle the store holds under an ID        *)
  pc, taken,  (* where each call is; the internal ID a clear has found          *)
  retries,    (* how often a submission has found its request not active        *)
  before      (* history: the submissions that had registered when a clear began *)

runner == <<owner, starts>>
vars == <<runner, aliases, store, pc, taken, retries, before>>

Request(c) == Payload[c].request

Clears == {c \in Calls : Payload[c].kind = "clear"}

Submissions == Calls \ Clears

Active == {i \in InternalIds : owner[i] # None}

Init ==
  /\ owner = [i \in InternalIds |-> None]
  /\ starts = [r \in Requests |-> 0]
  /\ aliases = [r \in Requests |-> None]
  /\ store = [i \in InternalIds |-> None]
  /\ pc = [c \in Calls |-> "idle"]
  /\ taken = [c \in Calls |-> None]
  /\ retries = [c \in Calls |-> 0]
  /\ before = [c \in Calls |-> {}]

Goto(c, label) == pc' = [pc EXCEPT ![c] = label]

\* A submission's route returns; how long it has tried is forgotten.
Answer(c, label) ==
  Goto(c, label) /\ retries' = [retries EXCEPT ![c] = 0]

-----------------------------------------------------------------------------
(***************************************************************************)
(* The engine starts and ends requests, and asks for proposals. A request  *)
(* can be started while the last run of it has not left the runner. Making *)
(* proposals changes nothing here.                                         *)
(***************************************************************************)
Start(r) ==
  /\ starts[r] < Attempts[r]
  /\ starts' = [starts EXCEPT ![r] = @ + 1]
  /\ \E i \in {r, Append(r, starts'[r])} :
       /\ owner[i] = None
       /\ owner' = [owner EXCEPT ![i] = r]
  /\ UNCHANGED <<aliases, store, pc, taken, retries, before>>

End(i) ==
  /\ i \in Active
  /\ owner' = [owner EXCEPT ![i] = None]
  /\ UNCHANGED <<starts, aliases, store, pc, taken, retries, before>>

\* The proposer serves each row of the batch from the store, by the request ID
\* the hook has set for the row: whose drafts would go to which request.
Offered ==
  {[drafts |-> Request(store[i]), request |-> owner[i]] :
     i \in {j \in Active : store[j] # None}}

-----------------------------------------------------------------------------
(***************************************************************************)
(* Submissions.                                                            *)
(***************************************************************************)
\* Variant of Matches: the batch position stands for the request.
MatchesAny(r) == IF r \in Active THEN {r} ELSE Active

\* _worker_request_id: the IDs that may be the one vLLM gave to r.
Matches(r) ==
  IF r \in Active THEN {r} ELSE {i \in Active : IsPrefix(r, i)}

\* The route has read the payload and has its engine client.
BeginSubmit(c) ==
  /\ pc[c] = "idle"
  /\ Goto(c, "trying")
  /\ UNCHANGED <<runner, aliases, store, taken, retries, before>>

\* Variant of Registered: what the request had under its last ID stays.
RegisteredBeside(c, i) == [store EXCEPT ![i] = c]

\* register_draft_bundle on the store: the bundle replaces the one under the same
\* ID, and the one the request had under another.
Registered(c, i) ==
  [j \in InternalIds |->
     IF j = i THEN c
     ELSE IF j = aliases[Request(c)] THEN None ELSE store[j]]

\* The worker has found the request: the registration is made.
Register(c) ==
  /\ pc[c] = "trying"
  /\ \E i \in Matches(Request(c)) :
       /\ Matches(Request(c)) = {i}
       /\ store' = Registered(c, i)
       /\ aliases' = [aliases EXCEPT ![Request(c)] = i]
  /\ Answer(c, "registered")
  /\ UNCHANGED <<runner, taken, before>>

\* Variant of NotActive: there is no deadline.
NotActiveForever(c) ==
  /\ pc[c] = "trying"
  /\ Matches(Request(c)) = {}
  /\ Goto(c, "sleeping")
  /\ UNCHANGED <<runner, aliases, store, taken, retries, before>>

\* The request is not active yet: sleep and try again, until the deadline.
NotActive(c) ==
  /\ pc[c] = "trying"
  /\ Matches(Request(c)) = {}
  /\ IF retries[c] < MaxRetries
     THEN /\ Goto(c, "sleeping")
          /\ retries' = [retries EXCEPT ![c] = @ + 1]
     ELSE Answer(c, "conflict")
  /\ UNCHANGED <<runner, aliases, store, taken, before>>

\* Several internal IDs match.
Ambiguous(c) ==
  /\ pc[c] = "trying"
  /\ Cardinality(Matches(Request(c))) > 1
  /\ Answer(c, "failed")
  /\ UNCHANGED <<runner, aliases, store, taken, before>>

Awake(c) ==
  /\ pc[c] = "sleeping"
  /\ Goto(c, "trying")
  /\ UNCHANGED <<runner, aliases, store, taken, retries, before>>

Submit(c) == Register(c) \/ NotActive(c) \/ Ambiguous(c) \/ Awake(c)

-----------------------------------------------------------------------------
(***************************************************************************)
(* Clears.                                                                 *)
(***************************************************************************)
\* clear_request takes the alias, or the external ID when there is none.
BeginClear(c) ==
  /\ pc[c] = "idle"
  /\ taken' = [taken EXCEPT ![c] =
                 IF aliases[Request(c)] = None THEN Request(c)
                                               ELSE aliases[Request(c)]]
  /\ aliases' = [aliases EXCEPT ![Request(c)] = None]
  /\ before' = [before EXCEPT ![c] =
                  {s \in Submissions : Request(s) = Request(c)
                                       /\ pc[s] = "registered"}]
  /\ Goto(c, "taking")
  /\ UNCHANGED <<runner, store, retries>>

\* Variant of TakeOutcome: the external ID is taken for the internal one.
TakeOutcomeOfAlias(c) ==
  /\ pc[c] = "taking"
  /\ store' = [store EXCEPT ![Request(c)] = None]
  /\ taken' = [taken EXCEPT ![c] = None]
  /\ Goto(c, "cleared")
  /\ UNCHANGED <<runner, aliases, retries, before>>

\* Then, without the alias lock, it takes the outcome out of the store.
TakeOutcome(c) ==
  /\ pc[c] = "taking"
  /\ store' = [store EXCEPT ![taken[c]] = None]
  /\ taken' = [taken EXCEPT ![c] = None]
  /\ Goto(c, "cleared")
  /\ UNCHANGED <<runner, aliases, retries, before>>

-----------------------------------------------------------------------------
Next ==
  \/ \E r \in Requests : Start(r)
  \/ \E i \in InternalIds : End(i)
  \/ \E c \in Submissions : BeginSubmit(c) \/ Submit(c)
  \/ \E c \in Clears : BeginClear(c) \/ TakeOutcome(c)

\* Workers answer and sleepers wake up; nothing is assumed of the requests or of
\* the clients.
Fairness ==
  /\ \A c \in Submissions : WF_vars(Submit(c))
  /\ \A c \in Clears : WF_vars(TakeOutcome(c))

Spec == Init /\ [][Next]_vars /\ Fairness

-----------------------------------------------------------------------------
(***************************************************************************)
(* Properties                                                              *)
(***************************************************************************)
\* A clear has taken the alias of internal ID i and is on its way to the store.
BeingCleared(i) == \E c \in Clears : pc[c] = "taking" /\ taken[c] = i

\* Whatever the store holds can be found by a clear: it is under the alias of the
\* request it was submitted for, or a clear that has taken the alias will remove
\* it. So a request has one bundle at most, however often it is restarted.
EntriesAreReachable ==
  \A i \in InternalIds :
    store[i] # None => aliases[Request(store[i])] = i \/ BeingCleared(i)

\* A clear leaves nothing of what had been registered for its request before it,
\* under whatever internal ID, unless another clear is still removing it.
ClearRemovesEarlier ==
  \A c \in Clears : pc[c] = "cleared" =>
    \A i \in InternalIds : store[i] \in before[c] => BeingCleared(i)

\* An internal ID of request q reads like one of r's.
Mistakable(r, q) == \E i \in Internal(q) : IsPrefix(r, i)

\* A request is only ever offered drafts that were submitted for it, or for a
\* request that cannot be told from it by the IDs; however the request was
\* restarted, cleared and registered again in between.
DraftsFollowIds ==
  \A s \in Offered : s.drafts # s.request => Mistakable(s.drafts, s.request)

\* "Different requests never share proposal state" (docs/architecture.md:188-189):
\* a request is only ever offered drafts that were submitted for it. It is false
\* of two requests of which the ID of one begins the internal ID of the other.
DraftsStayWithTheirRequest ==
  \A s \in Offered : s.drafts = s.request

\* A submission for a request that never becomes active is answered all the same.
SubmissionsAreAnswered ==
  \A c \in Submissions :
    pc[c] = "trying" ~> pc[c] \in {"registered", "conflict", "failed"}
=============================================================================
