----------------------------- MODULE SGLangWorker -----------------------------
(***************************************************************************)
(* The SGLang plugin (integrations/sglang.py): the draft store of an NGRAM *)
(* worker, driven by control payloads that arrive as corpus IDs and by the *)
(* worker's own step that prepares draft tokens for a batch.               *)
(*                                                                         *)
(* A client may not know the length of the prompt. Such a payload is       *)
(* deferred: it waits outside the store until the worker prepares a batch  *)
(* with its request, and is registered then with the length the worker     *)
(* sees. The module composes the actions of DraftStore with the deferred   *)
(* payloads. A handler takes the locks of the two one after the other, so  *)
(* each of its steps is an action. SGLang's scheduler (external) runs one  *)
(* handler at a time, unless Concurrent says otherwise, and appends tokens *)
(* only between two preparations.                                          *)
(***************************************************************************)
EXTENDS DraftStore

CONSTANTS
  Payloads,       \* the "replace" payloads: sequences of drafts, prompt maybe Unknown
  Unknown,        \* a prompt_token_count of None
  None,
  PromptLength,   \* len(origin_input_ids), of every request
  Concurrent,     \* bound: whether a control handler may run during a preparation
  MaxCalls        \* bound: control calls in one behaviour

\* Of the bounds of DraftStore, MaxRegistrations must not stop a handler half-way.
ASSUME WorkerAssumption ==
  /\ \A p \in Prompts : Len(p) = PromptLength
  /\ MaxCalls \in Nat /\ MaxRegistrations >= MaxCalls
  /\ Concurrent \in BOOLEAN

\* The control calls, and what the worker holds during a preparation.
Calls ==
  [op : {"defer", "replace"}, request : Requests, payload : Payloads]
    \cup [op : {"remove"}, request : Requests] \cup [op : {"clear"}]

Preparations ==
  [left : SUBSET Requests,
   popped : UNION {[R -> Payloads] : R \in SUBSET Requests}]

ASSUME NoneAssumption == None \notin Payloads \cup Calls \cup Preparations

VARIABLES
  deferred,   \* the pending payload of each request, or None
  control,    \* the control handler under way, or None
  worker,     \* the preparation under way: payloads popped, requests left; or None
  callCount,
  latest,     \* history: the payload of the last replacement, None once cleared
  offered     \* history: the identities offered since the request was cleared

storeVars == <<sequence, requests, stats>>

workerVars == <<storeVars, deferred, control, worker, callCount, latest, offered>>

WorkerInit ==
  /\ Init
  /\ deferred = [r \in Requests |-> None]
  /\ control = None
  /\ worker = None
  /\ callCount = 0
  /\ latest = [r \in Requests |-> None]
  /\ offered = [r \in Requests |-> {}]

-----------------------------------------------------------------------------
\* _control_bundle
Resolve(payload, count) ==
  [i \in DOMAIN payload |->
     [payload[i] EXCEPT !.prompt = IF @ = Unknown THEN count ELSE @]]

Counted(payload) == \A i \in DOMAIN payload : payload[i].prompt # Unknown

\* Once resolved, a payload is a bundle (_control_bundle refuses what is not).
ASSUME PayloadsAssumption ==
  \A payload \in Payloads :
    /\ \A i \in DOMAIN payload :
         DOMAIN payload[i] = {"identity", "tokens", "boundary", "prompt"}
    /\ Resolve(payload, PromptLength) \in Bundles
    /\ Counted(payload) => payload \in Bundles

\* Variant of Withdraw: the deferred payloads stay.
WithdrawNothing(R) == UNCHANGED deferred

\* pending.pop(request_id, None) under the pending lock.
Withdraw(R) ==
  deferred' = [r \in Requests |-> IF r \in R THEN None ELSE deferred[r]]

Forget(R) ==
  /\ latest' = [r \in Requests |-> IF r \in R THEN None ELSE latest[r]]
  /\ offered' = [r \in Requests |-> IF r \in R THEN {} ELSE offered[r]]

Idle == control = None /\ worker = None

\* A control call arrives.
Call(op) ==
  /\ control = None
  /\ Concurrent \/ worker = None
  /\ callCount < MaxCalls
  /\ callCount' = callCount + 1
  /\ control' = op

\* _register_control, when a draft has no prompt length: the store forgets the
\* request, and then the payload is deferred.
BeginDefer(r, payload) ==
  /\ ~Counted(payload)
  /\ Call([op |-> "defer", request |-> r, payload |-> payload])
  /\ Abandon({r})
  /\ latest' = [latest EXCEPT ![r] = payload]
  /\ UNCHANGED <<deferred, worker, offered>>

FinishDefer ==
  /\ control # None /\ control.op = "defer"
  /\ deferred' = [deferred EXCEPT ![control.request] = control.payload]
  /\ control' = None
  /\ UNCHANGED <<storeVars, worker, callCount, latest, offered>>

\* _register_control, when every draft has one: a deferred payload is withdrawn, and
\* then the bundle is registered.
BeginReplace(r, payload) ==
  /\ Counted(payload)
  /\ Call([op |-> "replace", request |-> r, payload |-> payload])
  /\ Withdraw({r})
  /\ latest' = [latest EXCEPT ![r] = payload]
  /\ UNCHANGED <<storeVars, worker, offered>>

FinishReplace ==
  /\ control # None /\ control.op = "replace"
  /\ RegisterBundle(control.request, control.payload)
  /\ control' = None
  /\ UNCHANGED <<deferred, worker, callCount, latest, offered>>

\* _remove_external_corpus
BeginRemove(r) ==
  /\ Call([op |-> "remove", request |-> r])
  /\ Withdraw({r})
  /\ UNCHANGED <<storeVars, worker, latest, offered>>

FinishRemove ==
  /\ control # None /\ control.op = "remove"
  /\ Abandon({control.request})
  /\ Forget({control.request})
  /\ control' = None
  /\ UNCHANGED <<deferred, worker, callCount>>

\* _clear_cache_pool: the store first, the deferred payloads after it.
BeginClearPool ==
  /\ Call([op |-> "clear"])
  /\ Abandon(Requests)
  /\ UNCHANGED <<deferred, worker, latest, offered>>

FinishClearPool ==
  /\ control # None /\ control.op = "clear"
  /\ Withdraw(Requests)
  /\ Forget(Requests)
  /\ control' = None
  /\ UNCHANGED <<storeVars, worker, callCount>>

-----------------------------------------------------------------------------
\* _prepare_draft_tokens pops the deferred payloads of the batch under their lock,
BeginPrepare(batch) ==
  /\ worker = None
  /\ Concurrent \/ control = None
  /\ worker' = [left |-> batch,
                popped |-> [r \in {q \in batch : deferred[q] # None} |-> deferred[r]]]
  /\ Withdraw(batch)
  /\ UNCHANGED <<storeVars, control, callCount, latest, offered>>

\* Variant of RegisterDeferred: the prompt is not skipped.
RegisterDeferredFromStart(r) ==
  /\ worker # None /\ r \in DOMAIN worker.popped
  /\ RegisterBundle(r, Resolve(worker.popped[r], 0))
  /\ worker' = [worker EXCEPT !.popped = [q \in DOMAIN @ \ {r} |-> @[q]]]
  /\ UNCHANGED <<deferred, control, callCount, latest, offered>>

\* registers each,
RegisterDeferred(r) ==
  /\ worker # None /\ r \in DOMAIN worker.popped
  /\ RegisterBundle(r, Resolve(worker.popped[r], PromptLength))
  /\ worker' = [worker EXCEPT !.popped = [q \in DOMAIN @ \ {r} |-> @[q]]]
  /\ UNCHANGED <<deferred, control, callCount, latest, offered>>

\* offers every request of the batch its sequence, the tokens of the step before
\* included (_previous_tokens), and writes the proposal into the batch (external),
OfferTo(r) ==
  /\ worker # None /\ DOMAIN worker.popped = {} /\ r \in worker.left
  /\ \/ ~Active(r) /\ UNCHANGED storeVars
     \/ OfferRepeated(r)
     \/ OfferNothing(r)
     \/ OfferProposal(r, MaxDraftTokens)
  /\ worker' = [worker EXCEPT !.left = @ \ {r}]
  /\ offered' = [offered EXCEPT ![r] = @ \cup
                   IF Waiting(r)' THEN {requests'[r].pending.identity} ELSE {}]
  /\ UNCHANGED <<deferred, control, callCount, latest>>

\* and returns.
FinishPrepare ==
  /\ worker # None /\ worker.left = {}
  /\ worker' = None
  /\ UNCHANGED <<storeVars, deferred, control, callCount, latest, offered>>

\* The target verifies the batch and goes on.
Extend(r) ==
  /\ worker = None
  /\ Emit(r)
  /\ UNCHANGED <<deferred, control, worker, callCount, latest, offered>>

WorkerNext ==
  \/ \E r \in Requests :
       \/ \E payload \in Payloads : BeginDefer(r, payload) \/ BeginReplace(r, payload)
       \/ BeginRemove(r) \/ RegisterDeferred(r) \/ OfferTo(r) \/ Extend(r)
  \/ \E batch \in SUBSET Requests \ {{}} : BeginPrepare(batch)
  \/ FinishDefer \/ FinishReplace \/ FinishRemove \/ BeginClearPool
  \/ FinishClearPool \/ FinishPrepare

WorkerSpec == WorkerInit /\ [][WorkerNext]_workerVars

-----------------------------------------------------------------------------
(***************************************************************************)
(* Properties.                                                             *)
(***************************************************************************)
PayloadIdentities(payload) == {payload[i].identity : i \in DOMAIN payload}

\* Between two handlers a request has the bundle of its last replacement and no
\* other, once: deferred or in the store, with its prompt length resolved; and after
\* it was cleared it has nothing. However control calls and preparations follow each
\* other, a payload that waits neither outlives the call that replaced or cleared it
\* nor overwrites a later one (_register_control, _remove_external_corpus,
\* _clear_cache_pool, _prepare_draft_tokens).
OnlyLatestBundle ==
  Idle => \A r \in Requests :
    IF latest[r] = None THEN deferred[r] = None /\ ~Active(r)
    ELSE IF deferred[r] # None THEN deferred[r] = latest[r] /\ ~Active(r)
    ELSE Identities(requests[r]) = PayloadIdentities(latest[r])

\* README.md:222: "each candidate fires at most once. Incremental bundle replacement
\* preserves already-fired identities." A proposal is never made by a candidate
\* that was offered before and that every bundle since has listed. (Every payload
\* of the run lists the same candidate; nothing is cleared by the client.)
FiresOnce ==
  [][\A r \in Requests :
       (Waiting(r)' /\ requests'[r].pending # requests[r].pending) =>
         requests'[r].pending.identity \notin offered[r]]_workerVars
=============================================================================
