# Verification of self-speculation

This directory holds TLA+ models of `self_speculation`, the TLC runs that check
them on small instances, and theorems that TLAPS proves for every value of the
constants. The code is the reference: every definition is translated from
`src/src/self_speculation/`, and `PROJECT.json` ("map") names the lines each one
stands for.

The program runs an agent's request on a *main* stream, opens a *fork* of it that
is made to write its next tool call at once, decodes that call, and registers it
with the inference engine as a *draft*. When the main stream writes the call's
boundary, the engine's verifier is offered the draft's tokens. Nothing of this may
change what main produces; the hard part is that streams, drafts, clears and
engine threads run side by side and every one of them can fail, come late or
outlive the others.

## The system

| Component | State | Operations | Speaks to | Hard |
| --- | --- | --- | --- | --- |
| **Boundary draft store** (`drafts/store.py`) | per request: candidates with fired flags, length of the last offer, pending proposal, verified steps; counters | `register_bundle`, `offer`, `observe_acceptance`, `take_outcome`, `clear`, `clear_all`, one lock | called by every engine integration | long call sequences: replacement between an offer and its verdict; what is settled, when, and how often |
| **Fork controller** (`controller.py`) | three tasks, four flags, decoder | `stream`, `_submit_draft`, cleanup | two engine streams, a feedback channel, the consumer | everything ready in the same turn, failures at each await, a consumer that leaves, closes that raise |
| **Control plane** (`control_plane.py`) | per request: drafts of both sources, a lock; bounded tombstones | `submit_candidates`, `fork`, `clear` | feedback channel, fork runner | updates that build while their request is cleared and opened again |
| **Streaming decoder** (`decoding/registry.py`) | structured fragments, text buffer, locked parser, emitted calls | `feed`, `finish` | parsers | fragments repeated, cumulative or cut anywhere |
| **vLLM integration** (`integrations/vllm.py`) | active requests, aliases, the worker's store | submission and clear routes, `register_draft_bundle`, `clear_request`, `propose` | workers by RPC, the draft store | IDs that vLLM changes, requests that are not there yet, clears in two steps |
| **llama.cpp engine** (`engines/llama_cpp_native.py`) | per stream: queue, stop event, thread; one generation lock | `stream` | the shared thread pool, a `Llama` object | blocking gets in a bounded pool, a consumer that leaves |
| **Transformers engine and prefix cache** (`engines/transformers.py`, `transformers_cache.py`) | per stream: streamer, stop event, thread; a lock and an attribute of the model; an LRU cache | `stream`, `clear`, `put`, `fork` | thread pool, model, draft store | a streamer ended by two sides, a prefix computed for a request that is gone |
| **SGLang integration** (`integrations/sglang.py`) | payloads waiting for their prompt length, the worker's store | `_register_control`, `_prepare_draft_tokens`, remove, clear | draft store | a payload is in one of two places, under two locks, and moves between them while calls replace or clear it |
| **Snapshot fork runner, candidate builder, HTTP routes** (`control_plane.py`, `continuations.py`, `forks.py`) | one request's way from payload to answer | `run`, `plan`, `build`, the routes' errors | engine stream, decoder, formatters | where the Actor is in its output; limits, failures and cache evidence before an answer is earned |
| **Parsers and formatters** (`decoding/`, `drafts/formatters.py`) | none kept between calls | `parse`, `format_tool_call_draft`, `tool_call_syntax` | decoder, draft builders | a parser reads a prefix again and again; both sides of a format are written by hand |
| OpenAI, callable and vLLM-native engines, HTTP feedback | none or a connection | adapters | | environment of the models |
| Models, events, prompts | none | data classes, wording | | not modelled |

What makes each of the modelled components correct is stated below with its module.

## Modules

    VerificationLedger      abstract: what every proposal becomes
      <- DraftStore         implements it            (DraftMatching: pure matching)
         <- SGLangWorker    drives a draft store: composition, and so implements both
    ForkController          one run of the controller
    ControlPlane            the service, against a feedback channel
    ToolCallText            formatters and parsers   (pure)
      <- SnapshotFork       from a snapshot or candidates to drafts, behind the service
    StreamingDecoder        the decoder, against a provider
    VLLMProposer            routes, RPC and worker, against vLLM
    ThreadPool              asyncio's executor (external)
      <- LlamaStream        the llama.cpp engine's streams
      <- TransformersStream the Transformers engine's streams

    LibraryLemmas           facts several proofs rest on
      <- DraftStoreProofs   (VerificationLedger, DraftStore and SGLangWorker),
         ControlPlaneProofs (ControlPlane and SnapshotFork, of control_plane.py),
         StreamingDecoderProofs, LlamaStreamProofs, TransformersStreamProofs
    ForkControllerProofs, VLLMProposerProofs
    MC<module>              the constants TLC uses

**Conventions.** A definition whose comment starts with "Variant of" is a mutant: put
in the place of the definition it varies, it makes TLC refute the property it is
listed with in `PROJECT.json`. It is in no specification. Variables named `history`,
`cleared`, `sent`, `latest` or `offered` record what happened and are read by
properties and bounds only.

### DraftStore, DraftMatching, VerificationLedger

One action per method; each runs under the store's lock, so each is one step.
`sequence` is the target's tokens (environment): `Emit` makes it longer. `offer` is three
actions, for the three ways it ends: at a length it has had (`OfferRepeated`), with no
candidate that can propose (`OfferNothing`) and with a proposal (`OfferProposal`).
Each settles the pending proposal from the sequence first, as `_resolve_pending` does.
Candidates are indexed by their place in the bundle among those that survive
de-duplication.

- `LedgerBalanced`: every proposal and every drafted token is verified, unresolved or
  pending, exactly one of them; `ImplementsLedger`: the store refines
  `VerificationLedger`, in which a request has one outstanding proposal and each one
  ends once.
- `ProposalExtendsDraft`: a proposal continues a registered draft after what the
  target wrote since the *generated* boundary.
- `NoTokenCreditedTwice`: token by token, what a step credits stands in the sequence where a
  draft of the step's identity foretold it, after a generated boundary, and no position is
  credited by two steps. (`at`, the length a step's proposal was made at, is history.)
- `ReplacementForgetsNothing`: whatever the bundles, an entry keeps its steps, a pending
  proposal (until it is one of the steps), its last offer and the fired marks.

Simplifications: the target's sequence only grows (a request ID that is reused for a
shorter sequence is listed as a hazard, not modelled); token IDs are three symbols;
identities are candidate IDs.

### ForkController

`pc` is the part of the loop's turn the coroutine is in; `done` is what
`asyncio.wait` returned, while other tasks go on finishing. The environment's
actions let streams yield, end or fail, the draft build or fail, and a submission
land. `Abandon` is a consumer that closes the generator or is cancelled at an await.
Closing a suspended stream may raise. A submission that its caller gives up on stops
or goes on (`GiveUp`).

- `MainCompletionWins`, `ForkProtocol`: what the events say, whatever was ready in
  the same turn. `DraftIsCompleteBatch`: the draft has every call of the fork.
- `ReturnedRunIsComplete`, `AccelerationNeverFatal`: a run that returns has delivered
  main; without the strict options only main (or a close) can fail it.
- `ReleasedAtEnd`, `NoDraftOutlivesRun`: cleanup on every way out, as long as closing a
  stream does not raise.
- `RunEnds`: the run ends when main does, or stays for ever at one await, without a timeout,
  of code it was given (`AwaitsUserCode`): the fork builder, a cancelled task that does not
  unwind, a close, a clear. It never waits for a fork or a draft that lost.

Not modelled: a second cancellation inside the finally block; a trigger given by the
user that raises.

### ControlPlane

Each call is a process of its own with a label: `Admit` or `Refuse` (tombstone),
`Build` (the await on builder or fork runner), `Acquire` (the request's lock and what
follows up to the next await), `Submit`, and for a clear `BeginClear`,
`AcquireClear`, `ClearFeedback`. The lock is granted in any order, which includes
`asyncio.Lock`'s FIFO. `_states_lock` holds no await, so its sections are atomic.
Drafts are contents with the set of sources that named them.

- `NoUpdateLost`: what the channel holds is the merge of the last drafts of both sources.
- `LateUpdatesFenced`, `OpenIsNotTombstoned`: a request that was cleared stays so,
  even if its tombstone was evicted meanwhile.
- `UnrelatedCallsFinish`: a channel that never answers for one request, and builds
  that never end, hold up no other request.

Each call is made once; cancelling a call is not modelled.

### StreamingDecoder

The provider cuts each call's arguments into deltas of either style (new text or all
so far), may send a delta twice, and sends text in chunks; the parsers are external and
find a call at marked symbols. `Feed` and `Finish` are the two methods.

- `CallsAreWhole`, `NothingIsMissed`, `OneBranch`: the calls handed out are those sent,
  whole and once, from one source.

In the passing run's arguments no piece comes twice in a row (see `split_arguments` below),
names come whole, whitespace is left out, and IDs come with a call's first delta (`LateIds`
FALSE).

### VLLMProposer

A client's ID is a sequence of parts and vLLM's internal one is the same or has a
further part, so that "starts with the ID and a dash" is a relation between
sequences. `Start` and `End` are vLLM's. A submission tries, sleeps and tries again
while its request is not active (`Register`, `NotActive`, `Ambiguous`, `Awake`);
`clear_request` is two steps (`BeginClear`, `TakeOutcome`), since it gives up the
alias lock in between. `Offered` says whose drafts `propose` would offer to which request,
by what the store holds under the IDs that run. One owning worker stands for all; an RPC is one step
otherwise.

- `EntriesAreReachable`, `ClearRemovesEarlier`: after a restart under a new internal ID
  no draft is left that a clear cannot find, and a clear removes what came before it.
- `DraftsFollowIds`: a request is only offered drafts submitted for it or for a request whose
  ID its own internal ID begins with. The latter happens: see `related_ids` below.
- `SubmissionsAreAnswered`: retries end.

### SGLangWorker

The worker's `BoundaryDraftStore` is `DraftStore` itself: the module extends it and uses
its actions. Around it are the payloads whose prompt length is unknown (`deferred`, the
pending dictionary of the worker), the control handler under way (`control`), and the
preparation of a batch under way (`worker`). A handler takes the pending lock and the store's
lock one after the other, so each is two actions (`BeginDefer`, `FinishDefer` and so on);
a preparation pops (`BeginPrepare`), registers (`RegisterDeferred`), offers (`OfferTo`) and
ends. The target's tokens grow between preparations. `Concurrent` says whether a control
handler may run inside a preparation; SGLang's scheduler runs one handler at a time, so
the runs have it FALSE.

- `OnlyLatestBundle`: between handlers, each request has the bundle of its last replacement,
  in one of the two places, and nothing once cleared.
- `ProposalExtendsDraft`: the store's property, of payloads that were resolved late.

Not modelled: payloads that are refused (they change nothing), the arrays that carry a
proposal to the verifier, the installation of the hooks.

### ToolCallText, SnapshotFork

Text is a sequence of lexemes: a marker, a piece of framing, a name or a value each. A
JSON call is an opening brace, name, value and closing brace; a call has one parameter whose
value is text. `DraftText` writes calls as `format_tool_call_draft` does; `JsonCalls`,
`QwenCalls`, `DsmlCalls`, `V3Calls` and `PythonicCalls` find them again, in any prefix.

`SnapshotFork` takes one payload of the two routes from its arrival (`stage` "received") to
its HTTP status ("done"). It shares a proof module with `ControlPlane`, hence the names
`ForkInit`, `ForkNext` and `ForkSpec`. `BuildBundle` makes a draft of each candidate. `BuildFork` plans the continuation (where the
Actor is, from prompt, output, reasoning and content as the API exposed them), and
applies the context window; `Read`, `StreamEnds`, `StreamFails` are the fork's stream through
the decoder; `CloseIterator` and `AnswerFork` are the end of `run`. The fork's model is
external: it writes the calls of its batch in the probed format, with lexemes left out or
written twice up to `slips`.

- `ForkContinuesActor`: the fork's prompt is what the Actor has written, the closing tag of
  the thought it is in, if it is in one, and the probe.
- `DecodedAsWhole`: the calls handed out while the stream grew are those of the whole text.
- `DraftParsesBack`: the format's own parser reads a draft as the calls it stands for.
- `ReceiptIsEarned`: an answer of 200 comes after the close, with calls, cache evidence when
  required, and inside the window.

`Exposed` says what a snapshot may be: all of the output as it is, or a thought and the
content after it without the tags around them. What stood between a thought and its
content is not shown; it is assumed to have been the closing tag with the code's own spacing
(`continuations.py:141-146`), so that of such a view only the choice of the envelope is
checked. Where the Actor stands in that output
(`Stands`) is defined without the planner, by the positions of the tags: an envelope is
open from its tag until a closing tag follows, and a tag in the prompt counts only if the
prompt ends with it. `JobsAssumption` asks this of every payload; TLC evaluates it for the
hand-made snapshots of `MCSnapshotFork`.

Excluded from the properties, each for a reason in the code: Python calls in
`DecodedAsWhole` (an expression is whole only when the text ends) and Pythonic candidates in
`DraftParsesBack` (they are written as `name(arguments={...})`); Qwen and DSML candidates
whose value holds parameter tags, also in `DraftParsesBack` (the formatters do not escape
them, see below); payloads with a boundary
of their own; views of the output in which the end of a thought cannot be seen; thoughts that
name another envelope's tag and do not close it (`continuations.py:71` picks the envelope by
the last tag). Not modelled: the bare-JSON and xLAM parsers, nested values, log
probabilities and timings of the receipt.

### ThreadPool, LlamaStream, TransformersStream

`ThreadPool` is the executor behind `asyncio.to_thread`: workers and a FIFO queue. The
coroutine of a stream is atomic between awaits, its thread between accesses to what
they share. Payloads and chunks are numbered.

- `PayloadsInOrder`, `ChunksInOrder`: the consumer gets its own stream's items without a gap.
- `NothingRunsOn`: when a stream has returned or raised, or was left or cancelled at an
  await of its loop, its thread is done and no worker stays blocked in a get.
- `ConsumersAreAnswered`: whoever asks or leaves gets an answer while other consumers
  pause or leave.
- `OwnCandidates`: the model's candidate generator is that of the running generation.
- `ClearedPrefixesStayCleared`: no prefix comes back after a clear.

Not modelled: a cancellation inside a finally block, which is swallowed there and ends the
stream with its thread running (`llama_cpp_native.py:372-375`, `transformers.py:649-658`);
several prompts of one request in the cache; llama.cpp's thread-local binding of the draft model (it is set and
read by the one thread).

## Runs

| Run | States | Shows |
| --- | --- | --- |
| `draft_store` | 324 530 | two requests, sequences to 4 tokens, two bundles (one lists a draft twice), proposals of 2 tokens, window 1 |
| `fork_controller` | 288 524 | all eight option sets, two chunks per stream, two tool calls, closes that fail, submissions that go on |
| `control_plane` | 89 063 | candidates, fork and clear of one request, candidates and clear of another, one tombstone |
| `streaming_decoder` | 19 736 | two calls, both styles, two parsers, a buffer that can overflow |
| `vllm_proposer` | 242 556 | two submissions and two clears, a request started twice, another whose ID begins with its ID, one retry |
| `llama_stream` | 35 160 | two streams of up to two payloads, three workers |
| `transformers_stream` | 275 001 | two actors, or actor and fork, two chunks, one cache entry, two workers |
| `sglang_worker` | 140 794 | two requests, payloads with and without a prompt length, three control calls, every batch |
| `snapshot_fork` | 104 489 | 823 payloads: every view of the Actor's output, every format alone and detected, engines with and without window and cache evidence, three options at a time, bundles |

Why these bounds: two requests or streams are what it takes for one to disturb
another; two of anything that repeats (chunks, calls, submissions, registrations) gives
a first, a later one and a replacement; one tombstone or cache entry makes the second
evict the first; four tokens leave room for a prompt boundary, a generated boundary and a
proposal that is partly accepted; three control calls for a worker are a payload, its
replacement and a clear, with preparations anywhere between. `draft_store` and
`sglang_worker` use the symmetry of their two requests, which is sound as they check no
liveness. Deadlock is checked in `sglang_worker`, whose scheduler can always prepare another
batch; every other system comes to an end (or to its bound).

**Fairness.** Controller: the event loop runs every step of the coroutine that awaits no code
it was given (`~AwaitsUserCode`), the consumer asks for the next event or leaves, and main
answers or fails and is finite. Nothing is assumed of the fork engine, the builders, the
channel, or of the unwinding and closing of tasks and streams: none of the awaits of these
(`controller.py:190`, 213, 221, 265, 293, 312-322) has a timeout.
Control plane: calls that are ready run, and the channel answers for the requests in
`Responsive` only. vLLM: a submission's retries and a clear's second step go on.
Streams: executor, event loop and threads go on, and a generation is finite; consumers may
pause for ever. A lock that a stream takes once needs no strong fairness. Store, decoder,
SGLang worker and snapshot fork have only safety properties: the first three are called by
others, and the last ends when the engine's stream does.

### Disagreements with the documentation

Each is a run that TLC refutes; `PROJECT.json` ("findings") quotes the sentence.

- `split_arguments`: a fragment equal to the end of what came before, such as the second of
  two closing braces, is dropped, and the call with it (`registry.py:110`).
- `deferred_replacement`: a replacement without a prompt length clears the store's entry
  before it waits, and with it the fired marks: its candidate is proposed again
  (`sglang.py:257`; the repository's `README.md:222` has each candidate fire at most once).
- `related_ids`: a draft for `a`, which is not active, is registered under the running `a-0`
  of another client, whose ID begins with `a-`, and offered to it (`vllm.py:94`;
  `docs/architecture.md:188` says that different requests never share proposal state).

Seen on the way and not kept as runs:

- a candidate that one bundle leaves out and a later one brings back is proposed again
  (`store.py:236`);
- a close of the main iterator that raises skips the fork's close and the draft's clear
  (`controller.py:313`; this is why `ReleasedAtEnd` excludes `history.closeFailed`), and a
  submission that goes on after its run gave it up is stored after the run's clear
  (`controller.py:220`; likewise `NoDraftOutlivesRun` and `history.detached`);
- a second clear returns while the first still waits for work in flight (`control_plane.py:575`);
- the drafts of the Qwen and DSML formats lack the line break that the probe of their format
  forces (`formatters.py:66`, which line 15 says is shared framing);
- neither format escapes a value that holds its own parameter tags: as a candidate, Qwen's
  parser reads no call in the draft (`qwen_xml.py:58-67`), and the DSML one cuts the value
  at the first closing tag (`DraftParsesBack` without `CannotCarry`);
- an unfinished llama.cpp source is closed after the generation lock was given up, while
  another stream may generate (`llama_cpp_native.py:352`); as many llama.cpp streams as there
  are workers, begun in the same turn, block each other for ever, because each stream's
  first get is submitted before its producer (`llama_cpp_native.py:359`; `LlamaStream` with
  `Workers = 2` shows it);
- with a control handler inside a preparation (`Concurrent = TRUE`) TLC refutes
  `OnlyLatestBundle`: the preparation registers a payload that was replaced or cleared after
  it was popped (`sglang.py:159`);
- with automatic detection, a Qwen call whose argument is a JSON object with a name is a tagged
  JSON call until its function is closed (`registry.py:208`), and a marker that the model
  writes twice makes one JSON call two (`json_parser.py:104`);
- `docs/vllm.md:9` speaks of four worker methods, the code has three.

## Proofs

`tlapm` checks every theorem to its leaves. Each proof is of the same shape: an invariant,
one lemma per action that preserves it, and the property from the invariant. What follows
says what each invariant adds to its property, and why.

- **ControlPlaneProofs**, the service: for any finite set of calls, any requests, contents and
  tombstone bound, `Spec` implies `[]TypeOK`, `[]OpenIsNotTombstoned` and
  `[]LateUpdatesFenced`. `LateUpdatesFenced` is not inductive: the invariant `Inv` adds
  whose request a state object belongs to (`Objects`), that a lock is held by exactly the
  call that is in the channel through it (`Locks`), that a state no longer in the
  dictionary is closed, with a clear waiting for its lock as long as an update holds it
  (`Fences`), and that what is registered for a request that is not open is about to be
  cleared, or its clear failed (`Swept`); `EntombedFacts` carries the sequence reasoning
  about tombstones. `UpdatesAreMerged` shows `[]NoUpdateLost`: `CombinedReflects`
  says that the merge of any two lists of drafts has each content once (a bijection between
  the positions that survive and the contents) with everybody's sources. The invariant
  `MergeInv` adds to `Inv` that a closed state object has a clear that began
  (`ClosedByClear`): an update that comes out of the channel while none has is the
  holder of the request's current object, so what it registered is what that object says.
- **ControlPlaneProofs**, the routes: for any payloads that satisfy `JobsAssumption` (any
  prompts, outputs, prefixes, windows, formats and engines), any batches and any model of
  the fork, `ForkSpec` implies `[]ForkContinuesActor` and `[]ReceiptIsEarned`.
  - *Where the Actor is*: the planner compares the last places of tags (`rfind`), while
    `Stands` says of every tag whether it is closed later. `LastAtFacts` and `UnclosedMeans`
    turn one into the other; `OpenedIsInnermost` and `BalancedIsClosed` do so for the output,
    and `OpensOne`, `TailStaysOpen` and `TailFacts` for the tag that ends a prompt, where at
    most one envelope can be open. `ActiveWhereActorIs` puts them together: `ActiveEnvelope`
    is the envelope the Actor is in, or none. `PlanContinues` then goes through the
    four ways an output can be exposed, and `ForkedContinues` through the prompt.
  - *The receipt*: `RouteInv` has three parts. `RouteInStep` relates the stage to the
    iterator and says that only the last step can answer 200, without which an exception
    that waits for the close could count as an answer. `RequestFits` says that prompt and
    `limit` fit the window together, of which what was written is a part. `AnswerChecked`
    says that the cache tokens reported are the engine's, which `verify_fork_cache` rests on.
    TLC checked it as an invariant of the run's instance before it was proved. Neither theorem
    says anything of what a parser finds.
- **DraftStoreProofs**, for any finite set of requests, and any drafts, bundles, prompts and
  limits, in five parts.
  - *Refinement*: `Spec` implies `[]TypeOK` and `ImplementsLedger`. The invariant adds to
    the types (`Typed`) that a pending proposal was made by the last offer (`Marked`): an
    offer that makes a proposal at a new length has therefore settled the one before.
    Without it a proposal could be overwritten, and the ledger has no step for that. Each
    action then settles one proposal, makes one, or does both, or is a stutter of the
    ledger (`LedgerSettles`, `LedgerProposes`, `LedgerStutters`, `AbandonImplements`).
    `TakeFacts`, `CommonPrefixBound` and `ContinuationFacts` bound what the matching
    functions return.
  - *Balance*: the ledger is typed and balanced, so the store is (`[]LedgerBalanced`). The
    work is in counting: `CountsSplit` and `CountsOfOne` say what changing one request does
    to the cardinality of a set of token marks.
  - *Origin and history*: `[]ProposalExtendsDraft`. `OriginInv` adds that every candidate of
    an entry was made of a draft of a bundle (`Sourced`), through settlements and
    replacements; `BodyContinued` is the step about the text, what a matched candidate has
    left after what the target wrote since the boundary. `Spec` also implies the action
    property `ReplacementForgetsNothing`: `HistoryInv` adds that the identities of an entry
    are distinct (`Distinct`), without which a candidate could be marked in another's place,
    and that no offer was longer than the sequence is.
  - *Credit*: `[]NoTokenCreditedTwice`. It is not inductive: the credit invariant
    (`CreditInv`), on top of `OriginInv`, says that each step of an entry ends where or
    before the next begins, and the last in front of the pending proposal (`Ordered`), so
    that positions are disjoint, and that each is foretold by a draft (`Drafted`), which a
    sequence that only grows does not change.
  - *The SGLang worker*: each of its steps is a step of the store or a stutter
    (`WorkerStepIsStoreStep`), so `WorkerSpec` implies the store's `Spec`, `ImplementsLedger`
    and `[]ProposalExtendsDraft`, whatever `Concurrent` is. With `Concurrent = FALSE` it
    implies `[]OnlyLatestBundle`: `WorkerInv` says what each handler owes half-way
    (`Promised`), and that a handler and a preparation are never both under way (`Serial`).
- **ForkControllerProofs**: for any options, chunks and calls, `Spec` implies all seven
  invariants of the run `fork_controller`. The invariant has two layers. `Control` is about
  the program: what each task, flag and stream can be at each place (`pc`) of the loop.
  `Told` is about what the consumer was told: how the events so far follow from where the
  program is. Since the properties count events, lemmas say what adding an event to the
  end of a history does to each count.
- **StreamingDecoderProofs**: for any calls, text, parsers and limits. `OneBranch` holds of
  every provider. `[]NothingIsMissed` needs that a provider that sends what is new never
  sends a piece twice in a row (`Unambiguous`; a provider that sends all so far may), and
  that IDs come first (`~LateIds`); the run `split_arguments` refutes it without the first.
  `[]CallsAreWhole` needs also that no text that reads as an object or an array goes on
  (`Closed`), which excludes white space after one. The run `streaming_decoder` satisfies
  all three. The invariant says that what the decoder has of a call is what was sent of it,
  and that the last fragment is the end of that (`Known`); that a call that was handed out
  does not grow (`HandedInv`); and that a call from text is found by the locked parser in
  the buffer (`TextInv`). `NewIsMerged`, `AllIsMerged` and `RepetitionIsMerged` say what
  `_merge_fragment` does with each of the three kinds of fragment.
- **VLLMProposerProofs**: for any calls, requests and number of restarts, `Spec` implies
  `[]EntriesAreReachable` and `[]ClearRemovesEarlier`. The first is what makes the second
  inductive: a clear asks for the alias's ID, so nothing may be in the store elsewhere,
  unless a clear that has its ID already is about to take it. `Removing` says that of
  everything a clear has to remove. `DraftsAreMistakenByIdOnly` shows `[]DraftsFollowIds` for
  any IDs: the invariant `Owned` says that what the store holds is under an ID that begins
  with that of its request, which is all that `vllm.py:94` looks at. It follows that a
  request that no other's ID begins is only offered its own drafts
  (`UnmistakableIsNeverServedOthers`); of the others, `related_ids` shows that it is false.
- **LlamaStreamProofs**: for any streams, number of workers and length of sources, `Spec`
  implies `[]PayloadsInOrder` and `[]NothingRunsOn`. The invariant says of the executor
  that no job is there twice (`PoolInv`), and of each stream who may have a job
  (`JobsInv`), how the coroutine, its thread and the lock go together (`ControlInv`),
  that the end is put last and stays for whoever takes an item (`EndInv`), and that what
  was received, followed by what is queued, is what the source made, then an error or
  the end (`OrderInv`). A step of one stream leaves the others' part alone
  (`OthersKeepInv`).
- **TransformersStreamProofs**: for any streams, forks, workers, chunks and cache size,
  `Spec` implies `[]ChunksInOrder`, `[]NothingRunsOn`, `[]OwnCandidates` and
  `[]ClearedPrefixesStayCleared`. The invariant has the same parts, here with an end that
  two sides may put (`Follows`), and adds that a stream that runs
  with drafts has its generator in the model's attribute (`GeneratorInv`), and that the
  cache has each request at most once and none that was cleared (`CacheInv`).
- **LibraryLemmas**: the smallest and the largest element that `Min` and `Max` pick exist
  in the sets they are taken of, `RemoveFirst` takes a distinct element out, and how a job
  is queued, taken up, ended and cancelled in a pool.

Assumptions: those named `...Assumption` in the modules, which TLC evaluates in the runs, and
`Concurrent = FALSE`, `Unambiguous`, `Closed` and `~LateIds` where it is said.

Only model-checked:

- liveness (`RunEnds`, `UnrelatedCallsFinish`, `SubmissionsAreAnswered`,
  `ConsumersAreAnswered`): fairness rests on ENABLED, which TLAPS cannot reason about;
- the text formats (`DecodedAsWhole`, `DraftParsesBack`): both compare what a parser makes
  of two texts. A parser, and the formatter of a list of calls (`Join`), work through a text
  of any length by recursion (recursive functions, here), and what they return for every
  text takes an induction over it that none of the provers can do.

## Not modelled

- The OpenAI-compatible, callable and vLLM-native engines, HTTP and callable feedback: adapters
  that turn one call into another and keep no state. The models take the streams and the
  channel they adapt as environments that may fail anywhere.
- Models, events, prompts, exports: data classes and wording.
- Installing hooks and routes, JSON type checks, counters that only report, logging.
- Examples and benchmarks of the repository.
- Composition of control plane and draft store: two sources of one draft are merged by content,
  but the store knows a candidate by its ID, so a draft that changes its first proposer
  may be new to the store (`control_plane.py:605`). The feedback channel between the two is
  open to implementations (`DraftFeedback`), and its HTTP form is an adapter.
- A request ID that is reused for a shorter sequence (`store.py:320`), a submission that fails
  half-way and leaves its drafts remembered (`control_plane.py:554` is in the model, but no
  document says which outcome is meant).

## Order of the work

The draft store and its ledger came first, since every integration rests on them; then the
controller and the control plane, which decide what reaches the store and when; then the
decoder, the engines' streams and vLLM; then SGLang as a composition over the store, and the
text formats below the control plane. Proofs followed in the same order: types and
refinement of the store, fences of the control plane, then the origin, the history and the
credit of proposals, the worker, the merge, vLLM's clears, the streams of both engines, the
controller's protocol and the decoder. The routes came last, since their theorems needed a
description of where the Actor is that does not use the planner. What could come next: the composition of control plane and draft store named above.
