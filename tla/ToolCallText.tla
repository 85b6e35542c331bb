----------------------------- MODULE ToolCallText -----------------------------
(***************************************************************************)
(* The text of tool calls: how each output format frames a call            *)
(* (drafts/formatters.py) and how the parser of that format finds calls in *)
(* what a model has written so far (decoding/). Both are pure.             *)
(*                                                                         *)
(* Text is a sequence of lexemes: the markers and the framing of a format  *)
(* are one lexeme each, a name or a value is any other lexeme. A JSON call *)
(* is {, name, value, } with the keys left out; the arguments of a call    *)
(* are one parameter, whose value is text in every format (the XML forms   *)
(* do not keep the type of a value). A call is a record of name and args,  *)
(* with its index once a parser has found it.                              *)
(***************************************************************************)
EXTENDS Integers, SequencesExt

NL == "\n"

JsonFormats == {"tagged_json", "mistral_json", "llama_json"}

Formats == JsonFormats \cup {"qwen_xml", "deepseek_dsml", "deepseek_v3",
                             "pythonic"}

-----------------------------------------------------------------------------
(***************************************************************************)
(* Framing (formatters.py).                                                *)
(***************************************************************************)
\* _TOOL_CALL_SYNTAXES: the marker that opens the calls of a format, what a probe
\* forces after it, and the marker that closes a tagged call (or None).
Syntax(format) ==
  CASE format = "tagged_json"   -> [boundary |-> "<tool_call>", probe |-> <<NL, "{">>]
    [] format = "qwen_xml"      -> [boundary |-> "<tool_call>", probe |-> <<NL, "<function=">>]
    [] format = "deepseek_dsml" -> [boundary |-> "<calls>", probe |-> <<NL, "<invoke=">>]
    [] format = "deepseek_v3"   -> [boundary |-> "<calls>",
                                    probe |-> <<"<call>", "function", "<sep>">>]
    [] format = "mistral_json"  -> [boundary |-> "[TOOL_CALLS]", probe |-> <<>>]
    [] OTHER                    -> [boundary |-> "<python_tag>", probe |-> <<>>]

ProbePrefix(format) == <<Syntax(format).boundary>> \o Syntax(format).probe

\* One call as its format frames it: _json_call, _qwen_function, _dsml_invoke,
\* _deepseek_v3_call and the raw text a Pythonic call was parsed from.
CallText(format, call) ==
  CASE format \in JsonFormats   -> <<"{">> \o call.name \o call.args \o <<"}">>
    [] format = "qwen_xml"      -> <<"<function=">> \o call.name \o
         <<">", NL, "<parameter>", NL>> \o call.args \o
         <<NL, "</parameter>", NL, "</function>">>
    [] format = "deepseek_dsml" -> <<"<invoke=">> \o call.name \o
         <<">", NL, "<parameter>">> \o call.args \o
         <<"</parameter>", NL, "</invoke>">>
    [] format = "deepseek_v3"   -> <<"<call>", "function", "<sep>">> \o call.name \o
         <<NL, "<json>", NL>> \o call.args \o <<NL, "</json>", "</call>">>
    [] OTHER                    -> call.name \o <<"(">> \o call.args \o <<")">>

\* separator.join(texts)
Join(texts, separator) ==
  LET joined[n \in 0..Len(texts)] ==
        IF n = 0 THEN <<>>
        ELSE IF n = 1 THEN texts[1] ELSE joined[n - 1] \o separator \o texts[n]
  IN joined[Len(texts)]

\* A list of calls as a JSON array or a Python list writes it; one call alone
\* stands for itself.
ListText(texts) ==
  IF Len(texts) = 1 THEN texts[1] ELSE <<"[">> \o Join(texts, <<",">>) \o <<"]">>

\* format_tool_call_draft: the calls as they follow their boundary.
DraftText(format, calls) ==
  LET texts == [i \in DOMAIN calls |-> CallText(format, calls[i])]
  IN CASE format = "qwen_xml" ->
            Join(texts, <<"</tool_call>", NL, "<tool_call>", NL>>)
       [] format \in {"deepseek_dsml", "deepseek_v3"} -> Join(texts, <<NL>>)
       [] format = "pythonic"     -> ListText(texts)
       [] OTHER                   -> <<NL>> \o ListText(texts)

-----------------------------------------------------------------------------
(***************************************************************************)
(* Searching text, as str.find and non-greedy patterns do. A literal gives *)
(* for each of its places the lexemes that match there; a pattern is the   *)
(* sequence of literals of "l1(.*?)l2(.*?)...ln".                          *)
(***************************************************************************)
\* text.find(literal, from), or 0.
Find(text, literal, from) ==
  LET found == {i \in from..(Len(text) - Len(literal) + 1) :
                  \A k \in DOMAIN literal : text[i + k - 1] \in literal[k]}
  IN IF found = {} THEN 0 ELSE Min(found)

\* Where the literals of a pattern match from position i on: the first l1, the
\* first l2 after it, and so on; 0 from the first that is missing.
Cuts(text, pattern, i) ==
  LET cut[k \in DOMAIN pattern] ==
        LET last == IF k = 1 THEN i ELSE cut[k - 1]
        IN IF last = 0 THEN 0
           ELSE Find(text, pattern[k], IF k = 1 THEN i ELSE last + Len(pattern[k - 1]))
  IN cut

\* Pattern.finditer: the cuts of each match, from the left and without overlap;
\* Fits is what the pattern asks of a match beyond its literals.
Matches(text, pattern, Fits(_)) ==
  LET last == Len(pattern)
      match[i \in 1..(Len(text) + 1)] ==
        LET cut == Cuts(text, pattern, i)
        IN IF cut[last] = 0 THEN <<>>
           ELSE IF ~Fits(cut) THEN match[cut[1] + 1]
           ELSE <<cut>> \o match[cut[last] + Len(pattern[last])]
  IN match[1]

\* Match.group(k)
Group(text, pattern, cut, k) ==
  SubSeq(text, cut[k] + Len(pattern[k]), cut[k + 1] - 1)

Count(text, lexeme) == Cardinality({i \in DOMAIN text : text[i] = lexeme})

\* str.strip, on the only white space there is.
Strip(text) ==
  LET solid == {i \in DOMAIN text : text[i] # NL}
  IN IF solid = {} THEN <<>> ELSE SubSeq(text, Min(solid), Max(solid))

\* Variant of TrimWrapping: all white space goes.
TrimAll(text) == Strip(text)

\* _trim_wrapping_newline
TrimWrapping(text) ==
  SubSeq(text, IF text # <<>> /\ text[1] = NL THEN 2 ELSE 1,
         IF Len(text) > 1 /\ text[Len(text)] = NL THEN Len(text) - 1
                                                  ELSE Len(text))

-----------------------------------------------------------------------------
(***************************************************************************)
(* Parsers. `batches` are the lists of calls that a JSON or Python value   *)
(* can denote.                                                             *)
(***************************************************************************)
\* The JSON value that raw_decode reads at the first opener of a segment; a value
\* that is not whole gives no calls.
Decoded(segment, batches) ==
  LET openers     == {i \in DOMAIN segment : segment[i] \in {"{", "["}}
      text(calls) == ListText([i \in DOMAIN calls |->
                                 CallText("tagged_json", calls[i])])
      rest        == SubSeq(segment, Min(openers), Len(segment))
      whole       == {calls \in batches : IsPrefix(text(calls), rest)}
  IN IF openers = {} \/ whole = {} THEN <<>> ELSE CHOOSE calls \in whole : TRUE

\* JsonToolCallParser: the calls after each marker, up to its closing marker when
\* it has one and the text has it already.
JsonCalls(text, marker, closing, batches) ==
  LET after[i \in 1..(Len(text) + 1)] ==
        LET at   == Find(text, <<{marker}>>, i)
            stop == Find(text, <<closing>>, at + 1)
        IN IF at = 0 THEN <<>>
           ELSE Decoded(SubSeq(text, at + 1,
                               IF stop = 0 THEN Len(text) ELSE stop - 1), batches)
                \o after[at + 1]
  IN after[1]

\* PythonicToolCallParser: all that follows the marker must be one expression, a
\* call or a list or tuple of calls.
PythonicCalls(text, batches) ==
  LET at           == Find(text, <<{"<python_tag>"}>>, 1)
      expression   == Strip(SubSeq(text, at + 1, Len(text)))
      texts(calls) == [i \in DOMAIN calls |-> CallText("pythonic", calls[i])]
      whole        == {calls \in batches :
                         expression \in {ListText(texts(calls)),
                                         Join(texts(calls), <<",">>)}}
  IN IF whole = {} THEN <<>> ELSE CHOOSE calls \in whole : TRUE

\* _PARAMETER_RE, and the value of the one parameter: the last of its name wins.
ParameterPattern == <<<<{"<parameter>"}>>, <<{"</parameter>"}>>>>

Parameters(body) == Matches(body, ParameterPattern, LAMBDA cut : TRUE)

Value(body) ==
  LET found == Parameters(body)
  IN IF found = <<>> THEN <<>>
     ELSE Group(body, ParameterPattern, found[Len(found)], 1)

\* The parameter list of a Qwen call is flat: every tag belongs to a pair, and no
\* pair holds another.
Flat(body) ==
  /\ Count(body, "<parameter>") = Len(Parameters(body))
  /\ Count(body, "</parameter>") = Len(Parameters(body))

\* The lexemes with a > in them, of which the first ends the name of a Qwen
\* function, and those with a quote, which must be the end of a DSML name.
Angled == {">", "<parameter>", "</parameter>", "</function>", "<tool_call>",
           "</tool_call>"}
Quoted == {">", "<parameter>", "<invoke="}

FunctionPattern == <<<<{"<function="}>>, <<Angled>>, <<{"</function>"}>>>>
InvokePattern   == <<<<{"<invoke="}>>, <<Quoted>>, <<{"</invoke>"}>>>>
V3Pattern       == <<<<{"<call>"}>>, <<{"<sep>"}>>, <<{NL}, {"<json>"}, {NL}>>,
                     <<{NL}, {"</json>"}, {"</call>"}>>>>

Named(cut) == cut[2] > cut[1] + 1

\* The calls of `found` that are kept, each with its place among all of them.
Kept(found, Keeps(_), call(_)) ==
  LET places == SelectSeq([i \in DOMAIN found |-> i], LAMBDA i : Keeps(found[i]))
  IN [k \in DOMAIN places |-> call(found[places[k]]) @@ [index |-> places[k] - 1]]

Indexed(found) == Kept(found, LAMBDA call : TRUE, LAMBDA call : call)

QwenCalls(text) ==
  LET part(cut, k) == Group(text, FunctionPattern, cut, k)
      end(cut)     == text[cut[2]]
      name(cut)    == Strip(IF end(cut) = ">" THEN part(cut, 1)
                                              ELSE Append(part(cut, 1), end(cut)))
  IN Kept(Matches(text, FunctionPattern, Named),
          LAMBDA cut : name(cut) # <<>> /\ Flat(part(cut, 2)),
          LAMBDA cut : [name |-> name(cut), args |-> TrimWrapping(Value(part(cut, 2)))])

DsmlCalls(text) ==
  LET part(cut, k) == Group(text, InvokePattern, cut, k)
  IN Kept(Matches(text, InvokePattern, LAMBDA cut : Named(cut) /\ text[cut[2]] = ">"),
          LAMBDA cut : TRUE,
          LAMBDA cut : [name |-> Strip(part(cut, 1)), args |-> Value(part(cut, 2))])

\* json.loads takes one value.
V3Calls(text) ==
  LET part(cut, k) == Strip(Group(text, V3Pattern, cut, k))
  IN Kept(Matches(text, V3Pattern, LAMBDA cut : TRUE),
          LAMBDA cut : /\ part(cut, 1) \in {<<>>, <<"function">>}
                       /\ part(cut, 2) # <<>>
                       /\ Len(part(cut, 3)) = 1,
          LAMBDA cut : [name |-> part(cut, 2), args |-> part(cut, 3)])

\* The calls in `text`, by the parser of a format.
Parse(format, text, batches) ==
  CASE format = "tagged_json"   -> Indexed(JsonCalls(text, "<tool_call>",
                                                     {"</tool_call>"}, batches))
    [] format = "mistral_json"  -> Indexed(JsonCalls(text, "[TOOL_CALLS]", {}, batches))
    [] format = "llama_json"    -> Indexed(JsonCalls(text, "<python_tag>", {}, batches))
    [] format = "qwen_xml"      -> QwenCalls(text)
    [] format = "deepseek_dsml" -> DsmlCalls(text)
    [] format = "deepseek_v3"   -> V3Calls(text)
    [] format = "pythonic"      -> Indexed(PythonicCalls(text, batches))
=============================================================================
