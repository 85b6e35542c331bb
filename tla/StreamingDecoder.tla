--------------------------- MODULE StreamingDecoder ---------------------------
(***************************************************************************)
(* StreamingToolCallDecoder (decoding/registry.py): one forked stream is   *)
(* fed to it chunk by chunk, and it hands out the tool calls it can read   *)
(* so far. A chunk may carry text, which parsers look for calls in, and    *)
(* structured deltas, fragments of the calls of an OpenAI-style reply.     *)
(*                                                                         *)
(* The provider is the environment: it cuts its reply into chunks as it    *)
(* likes, may send of every argument string what is new or all there is so *)
(* far, may send a delta twice, and may stop early. Symbols stand for the  *)
(* characters, and a text for the JSON value it is read as.                *)
(***************************************************************************)
EXTENDS Integers, SequencesExt

CONSTANTS
  Arguments,     (* the argument text of each structured call, by index      *)
  Name, NoName,  (* a call's name, and the empty string                      *)
  Documents,     (* the texts json.loads reads as an object or an array      *)
  Scalars,       (* the texts it reads as anything else                      *)
  EmptyObject,   (* the text of {}                                           *)
  Text,          (* the generated text of the reply                          *)
  Parsers,       (* the parsers, in the order they are tried                 *)
  Ends,          (* the symbols each parser takes for the end of a call      *)
  InitialTexts,  (* what initial_text can be                                 *)
  MaxBuffer,     (* max_buffer_chars                                         *)
  Styles,        (* what providers send of an argument: "new" or "all"       *)
  LateIds        (* TRUE: a call's ID may come after its first delta         *)

NoParser == "none"

ASSUME ReplyAssumption ==
  /\ DOMAIN Arguments \subseteq Nat
  /\ \A text \in Range(Arguments) \cup InitialTexts \cup {Text, Parsers} :
       text \in Seq(Range(text))
  /\ Name # NoName
  /\ Documents \cap Scalars = {}
  /\ EmptyObject \in Documents
  /\ <<>> \notin Documents \cup Scalars
  /\ Range(Parsers) \subseteq DOMAIN Ends \ {NoParser, "structured"}
  /\ MaxBuffer \in Nat \ {0}
  /\ Styles \subseteq {"new", "all"}
  /\ LateIds \in BOOLEAN

VARIABLES
  style,        (* what this provider sends of an argument                  *)
  sent, last,   (* how much of each argument it has sent; the last fragment *)
  heard,        (* how much of the text it has sent                         *)
  ended,        (* it has sent its finish_reason                            *)
  buffer,       (* buffer                                                   *)
  locked,       (* _locked_parser                                           *)
  structured,   (* _structured                                              *)
  emitted,      (* _emitted: the fingerprints of the calls handed out       *)
  status        (* "open", "finished", or "failed" once feed has raised     *)

provider == <<style, sent, last, heard, ended>>
vars == <<provider, buffer, locked, structured, emitted, status>>

Indices == DOMAIN Arguments

\* _StructuredState, and what setdefault makes of an index not seen before.
Absent == [seen |-> FALSE, id |-> FALSE, name |-> NoName, arguments |-> <<>>]

Init ==
  /\ style \in Styles
  /\ sent = [i \in Indices |-> 0]
  /\ last = [i \in Indices |-> <<>>]
  /\ heard = 0
  /\ ended = FALSE
  /\ buffer \in InitialTexts
  /\ locked = NoParser
  /\ structured = [i \in Indices |-> Absent]
  /\ emitted = {}
  /\ status = "open"

-----------------------------------------------------------------------------
(***************************************************************************)
(* Structured deltas.                                                      *)
(***************************************************************************)
\* _merge_fragment.
MergeFragment(current, fragment) ==
  IF fragment = <<>> THEN current
  ELSE IF current = <<>> \/ IsPrefix(current, fragment) THEN fragment
  ELSE IF IsSuffix(fragment, current) THEN current
  ELSE current \o fragment

\* _apply_delta: the ID and the name when the delta has them, the arguments
\* merged.
ApplyDelta(state, delta) ==
  [seen      |-> TRUE,
   id        |-> state.id \/ delta.id,
   name      |-> IF delta.name = NoName THEN state.name ELSE delta.name,
   arguments |-> MergeFragment(state.arguments, delta.arguments)]

StructuredCall(i, state, arguments) ==
  [format |-> "structured", index |-> i, id |-> state.id,
   arguments |-> arguments]

\* Variant of StructuredCalls: a scalar is not waited for.
StructuredCallsEager(states, final) ==
  {StructuredCall(i, states[i], states[i].arguments) :
     i \in {i \in Indices :
              /\ states[i].name # NoName
              /\ states[i].arguments \in Documents \cup Scalars}}
    \cup
  {StructuredCall(i, states[i], EmptyObject) :
     i \in {i \in Indices :
              states[i].name # NoName /\ states[i].arguments = <<>> /\ final}}

\* _structured_calls: a call whose arguments can be read, or has none at the end
\* of the reply; anything but an object or an array may still grow before that.
StructuredCalls(states, final) ==
  {StructuredCall(i, states[i], states[i].arguments) :
     i \in {i \in Indices :
              /\ states[i].name # NoName
              /\ \/ states[i].arguments \in Documents
                 \/ final /\ states[i].arguments \in Scalars}}
    \cup
  {StructuredCall(i, states[i], EmptyObject) :
     i \in {i \in Indices :
              states[i].name # NoName /\ states[i].arguments = <<>> /\ final}}

-----------------------------------------------------------------------------
(***************************************************************************)
(* Text. A parser reads the whole buffer; a call it has found once it finds *)
(* again in every longer buffer.                                           *)
(***************************************************************************)
TextCalls(parser, text) ==
  {[format |-> parser, index |-> i] :
     i \in {i \in DOMAIN text : text[i] \in Ends[parser]}}

Finds(parser, text) == TextCalls(parser, text) # {}

\* Variant of Branch: the parser is chosen anew each time.
BranchUnlocked(text) ==
  IF \E i \in DOMAIN Parsers : Finds(Parsers[i], text)
  THEN Parsers[Min({i \in DOMAIN Parsers : Finds(Parsers[i], text)})]
  ELSE NoParser

\* The parser _text_calls locks on: the one it has, or the first to find a call.
Branch(text) ==
  IF locked # NoParser THEN locked
  ELSE IF \E i \in DOMAIN Parsers : Finds(Parsers[i], text)
  THEN Parsers[Min({i \in DOMAIN Parsers : Finds(Parsers[i], text)})]
  ELSE NoParser

-----------------------------------------------------------------------------
\* What the decoder hands out, once its buffer is text and its states are states.
\* (Structured deltas once seen, _text_calls finds nothing.)
Decode(text, states, final) ==
  LET structuredSeen == \E i \in Indices : states[i].seen
  IN IF structuredSeen
     THEN /\ emitted' = emitted \cup StructuredCalls(states, final)
          /\ UNCHANGED locked
     ELSE /\ locked' = Branch(text)
          /\ emitted' = emitted \cup
               (IF Branch(text) = NoParser THEN {}
                                           ELSE TextCalls(Branch(text), text))

\* feed: the chunk brings the buffer to `text` and a delta for some indices.
Feed(text, deltas, final) ==
  LET states == [i \in Indices |->
                   IF i \in DOMAIN deltas
                   THEN ApplyDelta(structured[i], deltas[i])
                   ELSE structured[i]]
  IN /\ status = "open"
     /\ buffer' = text
     /\ IF Len(text) > MaxBuffer
        THEN /\ status' = "failed"
             /\ UNCHANGED <<structured, locked, emitted>>
        ELSE /\ structured' = states
             /\ Decode(text, states, final)
             /\ UNCHANGED status

\* Variant of Finish: nothing is read again.
FinishUnread ==
  /\ status = "open"
  /\ status' = "finished"
  /\ Decode(buffer, structured, FALSE)
  /\ UNCHANGED <<provider, buffer, structured>>

\* finish: what can be read now that the stream is over.
Finish ==
  /\ status = "open"
  /\ status' = "finished"
  /\ Decode(buffer, structured, TRUE)
  /\ UNCHANGED <<provider, buffer, structured>>

-----------------------------------------------------------------------------
(***************************************************************************)
(* The provider.                                                           *)
(***************************************************************************)
\* What the provider sends of an argument to bring it to length n; the IDs and
\* names that may come with it.
Fragment(i, n) ==
  IF style = "all" THEN SubSeq(Arguments[i], 1, n)
                   ELSE SubSeq(Arguments[i], sent[i] + 1, n)

Ids(i) == IF structured[i].seen THEN {FALSE, LateIds} ELSE {TRUE, ~LateIds}

Names(i) == IF structured[i].seen THEN {NoName, Name} ELSE {Name}

\* The deltas by which the provider can go on with index i, and how much it has
\* sent after each.
Continuations(i) ==
  {[sent  |-> n,
    delta |-> [id |-> id, name |-> name, arguments |-> Fragment(i, n)]] :
     n \in sent[i]..Len(Arguments[i]), id \in Ids(i), name \in Names(i)}

\* A chunk: more text, or deltas for some of the calls, or both, or nothing but
\* the end of the reply.
Chunk ==
  /\ ~ended
  /\ ended' \in BOOLEAN
  /\ UNCHANGED style
  /\ \E n \in heard..Len(Text), I \in SUBSET Indices :
     \E more \in [I -> UNION {Continuations(i) : i \in I}] :
       /\ \A i \in I : more[i] \in Continuations(i)
       /\ Feed(buffer \o SubSeq(Text, heard + 1, n),
               [i \in I |-> more[i].delta], ended')
       /\ heard' = n
       /\ sent' = [i \in Indices |-> IF i \in I THEN more[i].sent ELSE sent[i]]
       /\ last' = [i \in Indices |->
                     IF i \in I THEN more[i].delta.arguments ELSE last[i]]

Resent(i) == [id |-> structured[i].id, name |-> NoName, arguments |-> last[i]]

\* The last delta of a call comes again.
Repeat ==
  /\ ~ended
  /\ \E i \in Indices :
       /\ structured[i].seen
       /\ Feed(buffer, [j \in {i} |-> Resent(j)], FALSE)
  /\ UNCHANGED provider

Next == Chunk \/ Repeat \/ Finish

Spec == Init /\ [][Next]_vars

-----------------------------------------------------------------------------
(***************************************************************************)
(* Properties                                                              *)
(***************************************************************************)
\* The calls handed out that came in structured deltas, and those from text.
FromDeltas == {call \in emitted : call.format = "structured"}

FromText == emitted \ FromDeltas

SentOf(i) == SubSeq(Arguments[i], 1, sent[i])

\* A structured call is handed out once, and whole: with all the provider sends
\* of its arguments.
CallsAreWhole ==
  /\ \A call, other \in FromDeltas : call.index = other.index => call = other
  /\ \A call \in FromDeltas :
       \/ call.arguments = SentOf(call.index)
       \/ call.arguments = EmptyObject /\ sent[call.index] = 0

\* When the stream is over, every call that had come whole has been handed out:
\* from the deltas, or, when there were none, every call that the first matching
\* branch has in the text, and none from another branch.
NothingIsMissed ==
  status = "finished" =>
    /\ \A i \in Indices :
         (structured[i].seen /\ SentOf(i) \in Documents \cup Scalars) =>
           \E call \in FromDeltas : call.index = i /\ call.id
    /\ (\A i \in Indices : ~structured[i].seen) =>
         \/ /\ locked # NoParser
            /\ emitted = TextCalls(locked, buffer)
         \/ \A parser \in Range(Parsers) : ~Finds(parser, buffer)

\* Text is read by one branch only, and by none once a structured delta has come.
OneBranch ==
  [][/\ \A call, other \in FromText' : call.format = other.format
     /\ (\E i \in Indices : structured[i].seen) => FromText' = FromText]_vars
=============================================================================
