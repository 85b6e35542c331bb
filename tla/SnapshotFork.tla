----------------------------- MODULE SnapshotFork -----------------------------
(***************************************************************************)
(* From a captured snapshot of the Actor's stream to a draft: the routes   *)
(* /fork and /candidates behind the control plane (control_plane.py).      *)
(*                                                                         *)
(* A fork renders the Actor's prompt again, plans how to continue it into  *)
(* a tool call (continuations.py), fits the request to the context window  *)
(* of the engine, reads the fork's stream through a decoder, and turns the *)
(* calls it decoded into a draft. A bundle of candidates becomes one draft *)
(* each, without a stream. An answer is the HTTP status of the route.      *)
(*                                                                         *)
(* One token is one lexeme of ToolCallText. The fork's model is external:  *)
(* it writes the calls it wants to make in the format it was probed for,   *)
(* with at most job.slips lexemes left out or said twice, and may stop     *)
(* early.                                                                  *)
(***************************************************************************)
EXTENDS ToolCallText

CONSTANTS
  Jobs,             \* payloads of the two routes, with the engine that serves them
  Batches,          \* the lists of calls that a JSON or Python value can denote
  MaxCandidates,    \* CandidateBundleBuilder.max_candidates
  MaxDraftTokens,   \* max_draft_tokens of the runner and of the bundle builder
  None

\* validate_fork_cache: what the runner asks of its engine when it is constructed.
Admitted(engine) == engine.policy = "required" => engine.reports

VARIABLES
  job,        \* the payload
  stage,      \* "received", "reading", "closing", "answering" or "done"
  prompt,     \* prompt of the fork request
  limit,      \* max_tokens of the fork request
  iterator,   \* engine.stream(...): "none", "open" or "closed"
  reply,      \* what the fork's model has yet to write
  slips,      \* slips it can still make
  written,    \* what it has written
  reused,     \* cache_read_tokens
  branch,     \* _locked_parser of the decoder, or None
  calls,      \* decoded: the calls handed out, in order, with their index
  drafts,     \* the drafts that were built
  status      \* the answer, or None; while closing, the one an exception leads to

fork == <<prompt, limit, iterator, reply, slips, written, reused, branch, calls>>

forkVars == <<job, stage, fork, drafts, status>>

-----------------------------------------------------------------------------
(***************************************************************************)
(* ContinuationPlanner (continuations.py).                                 *)
(***************************************************************************)
\* DEFAULT_REASONING_ENVELOPES
Envelopes == {[open |-> "<think>", close |-> "</think>"],
              [open |-> "<analysis>", close |-> "</analysis>"],
              [open |-> "<reasoning>", close |-> "</reasoning>"],
              [open |-> "[THINK]", close |-> "[/THINK]"],
              [open |-> "[ANALYSIS]", close |-> "[/ANALYSIS]"]}

\* ReasoningEnvelope.exit
Exit(envelope, content) ==
  (IF content # <<>> /\ Last(content) = NL THEN <<>> ELSE <<NL>>)
    \o <<envelope.close, NL, NL>>

\* str.rfind, with 0 for no place
LastAt(text, lexeme) == Max({0} \cup {i \in DOMAIN text : text[i] = lexeme})

\* _unclosed_envelope: all of them, and the one opened last.
Unclosed(text) ==
  {e \in Envelopes : LastAt(text, e.open) > LastAt(text, e.close)}

Innermost(text, envelopes) ==
  CHOOSE e \in envelopes :
    \A other \in envelopes : LastAt(text, other.open) <= LastAt(text, e.open)

\* Variant of ActiveEnvelope: any tag in the prompt counts, not only its tail.
ActiveAnywhere(base, generated) ==
  LET open == Unclosed(base \o generated)
  IN IF open = {} THEN None ELSE Innermost(base \o generated, open)

\* base_prompt[position:]
FromTag(base, envelope) == SubSeq(base, LastAt(base, envelope.open), Len(base))

\* _active_envelope: one that the output opened, or the one that ends the prompt
\* unless the output has closed it.
ActiveEnvelope(base, generated) ==
  LET trailing == {e \in Unclosed(base) :
                     /\ Strip(Tail(FromTag(base, e))) = <<>>
                     /\ e \in Unclosed(FromTag(base, e) \o generated)}
  IN IF Unclosed(generated) # {} THEN Innermost(generated, Unclosed(generated))
     ELSE IF trailing # {} THEN Innermost(base, trailing)
     ELSE None

\* The output is exposed as two fields, and as no more than their sum.
Split(actor) ==
  /\ actor.reasoning # <<>>
  /\ actor.generated \in {<<>>, actor.reasoning \o actor.content}

\* ContinuationPlanner.plan: what the fork takes as written, and what it forces
\* after it; None when the reasoning cannot be put back into text.
Plan(actor, prefix) ==
  LET observed   == IF Split(actor) THEN actor.reasoning ELSE actor.generated
      envelope   == ActiveEnvelope(actor.base, observed)
      transition == IF envelope = None THEN <<>> ELSE Exit(envelope, observed)
  IN IF Split(actor) /\ envelope = None THEN None
     ELSE IF Split(actor) /\ actor.content # <<>>
     THEN [observed |-> observed \o transition \o actor.content, suffix |-> prefix]
     ELSE [observed |-> observed, suffix |-> transition \o prefix]

-----------------------------------------------------------------------------
(***************************************************************************)
(* Payloads. Where an Actor is: an envelope is open from its tag until a   *)
(* closing tag follows. The tags of the prompt do not count, they may be   *)
(* quoted, but for one that a template ends it with.                       *)
(***************************************************************************)
Opens(base, envelope) ==
  \E i \in DOMAIN base :
    /\ base[i] = envelope.open
    /\ \A k \in (i + 1)..Len(base) : base[k] = NL

Closes(text, from, envelope) == \E i \in from..Len(text) : text[i] = envelope.close

\* What is opened after position i is closed again.
Balanced(text, i) ==
  \A envelope \in Envelopes : \A k \in (i + 1)..Len(text) :
    text[k] = envelope.open => Closes(text, k + 1, envelope)

\* After `base` and the output `text` the Actor is in the envelope `open`, or in none.
Stands(base, text, open) ==
  \/ /\ open = None
     /\ Balanced(text, 0)
     /\ \A envelope \in Envelopes : Opens(base, envelope) => Closes(text, 1, envelope)
  \/ /\ open \in Envelopes
     /\ Opens(base, open)
     /\ Balanced(text, 0)
     /\ ~Closes(text, 1, open)
  \/ /\ open \in Envelopes
     /\ \E i \in DOMAIN text :
          /\ text[i] = open.open
          /\ Balanced(text, i)
          /\ ~Closes(text, i + 1, open)

\* What a snapshot tells of the Actor's output: all of it as it is; or a thought and
\* the content after it, without the tags around them. A thought alone is one the
\* Actor is still at; one that no text envelope holds has been kept elsewhere. What
\* stood between a thought and its content is not shown: it is assumed to have been
\* the closing tag with the spacing that Exit gives it.
Exposed(actor) ==
  \/ /\ ~Split(actor)
     /\ actor.generated = actor.raw
     /\ Stands(actor.base, actor.raw, actor.open)
  \/ /\ Split(actor)
     /\ actor.content = <<>>
     /\ actor.raw = actor.reasoning
     /\ Stands(actor.base, actor.raw, actor.open)
  \/ /\ Split(actor)
     /\ actor.content # <<>>
     /\ actor.open = None
     /\ \E envelope \in Envelopes :
          /\ Stands(actor.base, actor.reasoning, envelope)
          /\ actor.raw = actor.reasoning \o Exit(envelope, actor.reasoning)
                           \o actor.content
  \/ /\ Split(actor)
     /\ Stands(actor.base, actor.reasoning, None)

\* A sequence, of whatever lexemes.
IsText(text) == text \in Seq(ToSet(text))

\* The engine of a fork was admitted when the runner was constructed.
ASSUME JobsAssumption ==
  /\ None \notin Int
  /\ None \notin Envelopes
  /\ \A payload \in Jobs :
       /\ payload.kind \in {"fork", "candidates"}
       /\ payload.kind = "fork" =>
            /\ Admitted(payload)
            /\ IsText(payload.actor.base)
            /\ IsText(payload.actor.raw)
            /\ IsText(payload.actor.generated)
            /\ IsText(payload.actor.reasoning)
            /\ IsText(payload.actor.content)
            /\ Exposed(payload.actor)
            /\ payload.prefix # None => IsText(payload.prefix)
            /\ payload.maxTokens \in Nat
            /\ payload.window # None => payload.window \in Nat
            /\ payload.cached \in Nat

-----------------------------------------------------------------------------
(***************************************************************************)
(* Drafts.                                                                 *)
(***************************************************************************)
\* ToolCallDraftBuilder.build_for_request
DraftOf(id, boundary, text, of) ==
  LET cap == Min({job.draftLimit, MaxDraftTokens})
  IN [id |-> id, calls |-> of, boundary |-> boundary, text |-> text,
      tokens |-> SubSeq(text, 1, Min({cap, Len(text)}))]

Boundary == IF job.boundary = None THEN Syntax(job.format).boundary ELSE job.boundary

\* str(candidate.get("id") or index)
CandidateId(i) ==
  IF job.candidates[i].id = "" THEN <<"0", "1", "2">>[i] ELSE job.candidates[i].id

\* _action_identity
IdentityHolds(i) ==
  LET identity == job.candidates[i].identity
  IN identity # None =>
       /\ identity.predicted = CandidateId(i)
       /\ identity.projected = (identity.predicted # identity.execution)

\* The call of a candidate has no raw text, so a Pythonic one is written with its
\* arguments as one keyword.
CandidateCall(i) ==
  LET call == job.candidates[i].call
  IN IF job.format = "pythonic" THEN [call EXCEPT !.args = <<"arguments=">> \o @]
     ELSE call

-----------------------------------------------------------------------------
ForkInit ==
  /\ job \in Jobs
  /\ stage = "received"
  /\ prompt = <<>>
  /\ limit = 0
  /\ iterator = "none"
  /\ reply = <<>>
  /\ slips = job.slips
  /\ written = <<>>
  /\ reused = 0
  /\ branch = None
  /\ calls = <<>>
  /\ drafts = <<>>
  /\ status = None

Answered(answer) ==
  /\ stage' = "done"
  /\ status' = answer

\* CandidateBundleBuilder.build, and a draft for every candidate.
BuildBundle ==
  LET size == Len(job.candidates)
      granted == /\ size \in 1..MaxCandidates
                 /\ job.boundary # ""
                 /\ \A i \in 1..size : IdentityHolds(i)
  IN /\ stage = "received"
     /\ job.kind = "candidates"
     /\ \/ /\ ~granted
           /\ Answered(422)
           /\ UNCHANGED drafts
        \/ /\ granted
           /\ Answered(200)
           /\ drafts' = [i \in 1..size |->
                DraftOf(CandidateId(i), Boundary,
                      DraftText(job.format, <<CandidateCall(i)>>),
                      <<job.candidates[i].call>>)]
     /\ UNCHANGED <<job, fork>>

\* What a model writes that keeps to the format of its calls.
Canonical(format, batch) ==
  LET texts == [i \in DOMAIN batch |-> CallText(format, batch[i])]
      tagged == [i \in DOMAIN batch |->
                   <<"<tool_call>", NL>> \o texts[i] \o <<NL, "</tool_call>">>]
  IN CASE format \in {"tagged_json", "qwen_xml"} -> Join(tagged, <<NL>>)
       [] format = "deepseek_dsml" -> <<"<calls>", NL>> \o Join(texts, <<NL>>)
                                        \o <<NL, "</calls>">>
       [] format = "deepseek_v3"   -> <<"<calls>">> \o Join(texts, <<NL>>)
                                        \o <<"</calls>">>
       [] OTHER -> <<Syntax(format).boundary>> \o ListText(texts)

Prefix == IF job.prefix = None THEN ProbePrefix(job.format) ELSE job.prefix

\* Variant of Room: the prompt must fit, and all the window is left.
RoomForPrompt(tokens) ==
  IF job.window = None THEN None
  ELSE IF tokens < job.window THEN job.window ELSE 0

\* fit_request_to_context: the room that a prompt leaves, None when the engine
\* declares no window.
Room(tokens) == IF job.window = None THEN None ELSE job.window - tokens

Limit(room) == IF room = None THEN job.maxTokens ELSE Min({job.maxTokens, room})

\* render_fork_base: a chat needs a renderer.
Rendered == job.chat => job.renderer

\* PrefixForkBuilder.build
Forked(plan) == job.actor.base \o plan.observed \o plan.suffix

\* Everything before the stream.
BuildFork ==
  LET plan    == Plan(job.actor, Prefix)
      room    == Room(Len(Forked(plan)))
      granted == /\ Rendered
                 /\ IsPrefix(<<Syntax(job.format).boundary>>, Prefix)
                 /\ plan # None
                 /\ job.window # None => job.counts /\ room > 0
  IN /\ stage = "received"
     /\ job.kind = "fork"
     /\ \/ /\ ~granted
           /\ Answered(422)
           /\ UNCHANGED fork
        \/ /\ granted
           /\ stage' = "reading"
           /\ prompt' = Forked(plan)
           /\ limit' = Limit(room)
           /\ iterator' = "open"
           /\ reply' = LET text == Canonical(job.format, job.batch)
                       IN SubSeq(text, Len(Prefix) + 1, Len(text))
           /\ UNCHANGED <<slips, written, reused, branch, calls, status>>
     /\ UNCHANGED <<job, drafts>>

\* Order of default_parser_registry, as far as it is modelled.
Branches == <<"deepseek_dsml", "deepseek_v3", "qwen_xml", "tagged_json",
              "mistral_json", "llama_json", "pythonic">>

\* Variant of NewCalls: the fingerprint leaves the index out.
NewByContent(found) ==
  SelectSeq(found, LAMBDA call : \A old \in ToSet(calls) :
                     <<old.name, old.args>> # <<call.name, call.args>>)

\* _new: a call is handed out once, by its fingerprint.
NewCalls(found) == SelectSeq(found, LAMBDA call : call \notin ToSet(calls))

\* StreamingToolCallDecoder._text_calls: the first parser that finds a call is kept.
Decode(text) ==
  LET parsers == CASE branch # None         -> <<branch>>
                   [] job.decoder = "auto"  -> Branches
                   [] OTHER                 -> <<job.decoder>>
      finding == SelectSeq(parsers, LAMBDA f : Parse(f, text, Batches) # <<>>)
      found   == Parse(Head(finding), text, Batches)
  IN IF finding = <<>> THEN UNCHANGED <<branch, calls>>
     ELSE /\ branch' = Head(finding)
          /\ calls' = calls \o NewCalls(found)

\* The fork's model says the next lexeme, or slips; the decoder's buffer began
\* with the forced prefix.
Read ==
  /\ stage = "reading"
  /\ Len(written) < limit
  /\ \E skipped \in {-1, 0, 1} :
       /\ skipped # 0 => slips > 0
       /\ Len(reply) > Max({skipped, 0})
       /\ LET said == IF skipped = 1 THEN reply[2] ELSE reply[1]
          IN /\ written' = Append(written, said)
             /\ Decode(Prefix \o written')
       /\ reply' = SubSeq(reply, 2 + skipped, Len(reply))
       /\ slips' = IF skipped = 0 THEN slips ELSE slips - 1
  /\ reused' = Max({reused, job.cached})
  /\ UNCHANGED <<job, stage, prompt, limit, iterator, drafts, status>>

\* The stream ends: the model stopped, or wrote all it may. decoder.finish finds
\* nothing that the last chunk did not.
StreamEnds ==
  /\ stage = "reading"
  /\ stage' = "closing"
  /\ UNCHANGED <<job, fork, drafts, status>>

\* The engine or the decoder raises: a ValueError is the client's, any other
\* error the server's.
StreamFails ==
  /\ stage = "reading"
  /\ stage' = "closing"
  /\ status' \in {422, 503}
  /\ UNCHANGED <<job, fork, drafts>>

\* The finally block: aclose, which may raise in its turn.
CloseIterator ==
  /\ stage = "closing"
  /\ iterator' = "closed"
  /\ \/ /\ stage' = IF status = None THEN "answering" ELSE "done"
        /\ UNCHANGED status
     \/ \E answer \in {422, 503} : Answered(answer)
  /\ UNCHANGED <<job, prompt, limit, reply, slips, written, reused, branch, calls,
                 drafts>>

\* verify_fork_cache
CacheProven == job.policy = "required" => job.reports /\ reused > 0

\* The rest of SnapshotForkRunner.run.
AnswerFork ==
  LET granted == /\ calls # <<>>
                 /\ CacheProven
                 /\ Boundary = Syntax(job.format).boundary
  IN /\ stage = "answering"
     /\ \/ /\ ~granted
           /\ Answered(422)
           /\ UNCHANGED drafts
        \/ /\ granted
           /\ Answered(200)
           /\ drafts' = <<DraftOf("self", Boundary, DraftText(job.format, calls), calls)>>
     /\ UNCHANGED <<job, fork>>

ForkNext ==
  \/ BuildBundle \/ BuildFork \/ Read \/ StreamEnds \/ StreamFails
  \/ CloseIterator \/ AnswerFork

ForkSpec == ForkInit /\ [][ForkNext]_forkVars

-----------------------------------------------------------------------------
(***************************************************************************)
(* Properties.                                                             *)
(***************************************************************************)
\* A fork goes on exactly where the Actor is: its prompt is the Actor's prompt, what
\* the Actor really wrote (job.actor.raw, however the API exposed it), the closing
\* tag of the envelope it is reasoning in, if it is, and the probe. Nothing is lost,
\* written twice or closed twice (ContinuationPlanner.plan, PrefixForkBuilder.build).
ForkContinuesActor ==
  iterator # "none" =>
    LET said    == job.actor.base \o job.actor.raw
        closing == SubSeq(prompt, Len(said) + 1, Len(prompt) - Len(Prefix))
    IN /\ prompt = said \o closing \o Prefix
       /\ IF job.actor.open = None THEN closing = <<>>
          ELSE Strip(closing) = <<job.actor.open.close>>

\* The calls handed out while the stream grew are the calls of the whole text: none
\* was taken from a part that turned out to mean something else, none is missing,
\* none is out of order. A Python expression is whole only when the text ends, so
\* that branch cannot promise it (StreamingToolCallDecoder, the parsers).
DecodedAsWhole ==
  (stage = "reading" /\ branch \notin {None, "pythonic"}) =>
    calls = Parse(branch, Prefix \o written, Batches)

\* The candidates a format cannot carry: a Pythonic one is written as f(arguments=...),
\* and the formatters do not escape a value that holds the tags around it: Qwen's
\* parser then finds no call, and the DSML one cuts the value at the first closing tag.
Unescaped == {"<parameter>", "</parameter>"}

CannotCarry(call) ==
  \/ job.format = "pythonic"
  \/ job.format \in {"qwen_xml", "deepseek_dsml"} /\ Unescaped \cap ToSet(call.args) # {}

\* What a draft asks the target to verify is what the parser of the format reads as
\* the calls it stands for, for the calls that a fork has decoded and for the
\* candidates that the format can carry (format_tool_call_draft against the parsers).
DraftParsesBack ==
  \A d \in ToSet(drafts) :
    (/\ job.boundary = None
     /\ job.kind = "candidates" => \A call \in ToSet(d.calls) : ~CannotCarry(call)) =>
         LET read == Parse(job.format, <<d.boundary>> \o d.text, Batches)
         IN /\ Len(read) = Len(d.calls)
            /\ \A i \in DOMAIN read : <<read[i].name, read[i].args>> =
                                      <<d.calls[i].name, d.calls[i].args>>

\* An answer of 200 to a fork is earned: the stream was closed, it held a call, the
\* engine proved that it reused the Actor's cache when that is required, and prompt
\* and output stayed in the context window. No answer is given while the stream is
\* open (SnapshotForkRunner.run).
ReceiptIsEarned ==
  /\ stage = "done" => iterator # "open"
  /\ (job.kind = "fork" /\ status = 200) =>
       /\ iterator = "closed"
       /\ calls # <<>>
       /\ job.policy = "required" => job.cached > 0
       /\ job.window # None => Len(prompt) + Len(written) <= job.window
=============================================================================
