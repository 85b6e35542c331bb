---------------------------- MODULE MCSnapshotFork ----------------------------
(***************************************************************************)
(* Payloads for SnapshotFork: every way the Actor's output can be exposed, *)
(* every format, and every kind of engine, each varied around a plain job. *)
(***************************************************************************)
EXTENDS SnapshotFork

CallF == [name |-> <<"f">>, args |-> <<"x">>]
CallG == [name |-> <<"g">>, args |-> <<"x">>]
Wrapped == [name |-> <<"f">>, args |-> <<NL, "x">>]
Markup  == [name |-> <<"f">>, args |-> <<"<parameter>", "x", "</parameter>">>]

MCBatches == UNION {[1..n -> {CallF, CallG}] : n \in 1..4}

Think == CHOOSE e \in Envelopes : e.open = "<think>"

-----------------------------------------------------------------------------
\* How an API shows `raw`, of which `thought` and `content` are the parts outside the
\* tags: as it is, in two fields, in two fields only, or both ways.
Views(actor, thought, content) ==
  LET fields == [reasoning |-> thought, content |-> content]
  IN {actor @@ view : view \in
       {[generated |-> actor.raw, reasoning |-> <<>>, content |-> actor.raw],
        fields @@ [generated |-> thought \o content],
        fields @@ [generated |-> <<>>],
        fields @@ [generated |-> actor.raw]}}

\* The prompt ends in an open envelope, after a tag that it quotes; the Actor thinks,
\* or is done thinking and has written content.
Bases == {<<"<think>", NL>>, <<"<analysis>", "p", "<think>", NL>>,
          <<"<think>", "q", "</think>", "p", "<think>">>}

Thinking(base) ==
  UNION {Views([base |-> base, raw |-> thought, open |-> Think], thought, <<>>) :
           thought \in {<<"t">>, <<"t", NL>>}}

Thought(base) ==
  UNION {Views([base |-> base, open |-> None,
                raw |-> thought \o Exit(Think, thought) \o content], thought, content) :
           thought \in {<<"t">>, <<"t", NL>>}, content \in {<<>>, <<"c">>}}

\* The output opens the envelope itself, and is seen as it is; the prompt quotes a tag.
Opening ==
  {[base |-> <<"<analysis>", "p">>, open |-> open, raw |-> raw, generated |-> raw,
    reasoning |-> <<>>, content |-> raw] :
     <<open, raw>> \in {<<None, <<>>>>, <<None, <<"c">>>>, <<Think, <<"<think>", "t">>>>,
                        <<None, <<"<think>", "t", "</think>", "c">>>>}}

\* Reasoning that no text envelope holds: refused.
Opaque == Views([base |-> <<"p">>, raw |-> <<"t">>, open |-> None], <<"t">>, <<"c">>)

\* A view in which the end of a thought cannot be seen does not tell where the Actor
\* is; the API of such a view has begun the content.
Placed(actor) ==
  \/ actor.open # None
  \/ actor.content # <<>>
  \/ actor.reasoning = <<>>
  \/ actor.generated = actor.raw

Actors == {actor \in Opening \cup UNION {Thinking(b) \cup Thought(b) : b \in Bases} :
             Placed(actor)}
            \cup {actor \in Opaque : actor.generated # actor.raw}

-----------------------------------------------------------------------------
Plain ==
  [kind |-> "fork", format |-> "tagged_json", decoder |-> "tagged_json",
   actor |-> CHOOSE actor \in Opening : actor.raw = <<"c">>,
   chat |-> FALSE, renderer |-> FALSE, prefix |-> None, boundary |-> None,
   batch |-> <<CallF>>, maxTokens |-> 40, draftLimit |-> 40,
   slips |-> 0,
   policy |-> "prefer", reports |-> TRUE, cached |-> 1, window |-> None, counts |-> TRUE]

PlanJobs == {[Plain EXCEPT !.actor = actor, !.maxTokens = 1] : actor \in Actors}

Xml == {"qwen_xml", "deepseek_dsml"}

Written(format) ==
  {<<CallF>>, <<CallF, CallF>>, <<CallF, CallG>>} \cup
  (IF format \in Xml THEN {<<Wrapped>>, <<Markup>>} ELSE {})

TextJobs ==
  UNION {{[Plain EXCEPT !.format = format, !.decoder = decoder, !.batch = batch,
                     !.slips = IF decoder = format THEN 3 - Len(batch) ELSE 0] :
            decoder \in {format, "auto"}, batch \in Written(format)} :
         format \in Formats}

Engines ==
  {[Plain EXCEPT !.policy = policy, !.reports = reports, !.cached = cached,
                 !.window = window, !.maxTokens = maxTokens, !.counts = counts] :
     policy \in {"required", "prefer"}, reports \in BOOLEAN, cached \in {0, 1},
     window \in {None, 5, 10, 30}, maxTokens \in {2, 40}, counts \in BOOLEAN}

EngineJobs == {engine \in Engines : Admitted(engine)}

OptionJobs ==
  {[Plain EXCEPT !.prefix = prefix, !.boundary = boundary, !.chat = chat,
                 !.renderer = renderer, !.draftLimit = cap] :
     prefix \in {None, <<>>, <<"<tool_call>">>, <<"{">>},
     boundary \in {None, "<tool_call>", "<calls>"},
     chat \in BOOLEAN, renderer \in BOOLEAN, cap \in {3, 40}}

Candidate(id, call, identity) == [id |-> id, call |-> call, identity |-> identity]

Identities ==
  {None} \cup [predicted : {"a", "b"}, execution : {"a", "b"}, projected : BOOLEAN]

Bundles(format) ==
  {<<>>, <<Candidate("", CallF, None), Candidate("", CallG, None)>>,
   <<Candidate("a", CallF, None), Candidate("b", CallG, None), Candidate("c", CallF, None)>>}
  \cup {<<Candidate("a", CallF, identity)>> : identity \in Identities}
  \cup (IF format \in Xml THEN {<<Candidate("a", Wrapped, None)>>,
                                 <<Candidate("a", Markup, None)>>} ELSE {})

BundleJobs ==
  UNION {{[kind |-> "candidates", format |-> format, boundary |-> boundary, slips |-> 0,
           draftLimit |-> cap, candidates |-> candidates] :
            boundary \in {None, "", "<tool_call>"}, cap \in {3, 40},
            candidates \in Bundles(format)} :
         format \in Formats}

MCJobs == PlanJobs \cup TextJobs \cup EngineJobs \cup OptionJobs \cup BundleJobs
=============================================================================
