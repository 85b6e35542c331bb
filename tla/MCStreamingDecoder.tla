-------------------------- MODULE MCStreamingDecoder --------------------------
EXTENDS StreamingDecoder

\* A call with an object and one with a number; nothing comes twice in a row.
MCArguments == <<<<"{", "a", ":", "a", "}">>, <<"1", "2">>>>
MCDocuments == {<<"{", "a", ":", "a", "}">>, <<"{", "}">>}
MCScalars == {<<"1">>, <<"1", "2">>}

\* A nested object, which ends in two braces.
MCNestedArguments == <<<<"{", "a", "{", "}", "}">>>>
MCNestedDocuments == {<<"{", "a", "{", "}", "}">>, <<"{", "}">>}

\* The second symbol ends a call for both parsers, the first for one.
MCText == <<"x", "xj", "x">>
MCParsers == <<"json", "xml">>
MCEnds == [json |-> {"xj"}, xml |-> {"x", "xj"}]
MCEmptyObject == <<"{", "}">>
MCInitialTexts == {<<>>, <<"open">>}
MCNoTexts == {<<>>}
MCNoText == <<>>
=============================================================================
