---------------------------- MODULE MCSGLangWorker ----------------------------
\* Instances of SGLangWorker: two candidates, one of them with no prompt length.
EXTENDS SGLangWorker, TLC
MCTokens == {"open", "x"}
D(id, tokens, prompt) ==
  [identity |-> id, tokens |-> tokens, boundary |-> <<"open">>, prompt |-> prompt]
MCPrompts == {<<"open">>}
MCPayloads == {<<D("A", <<"x", "open">>, Unknown)>>, <<D("A", <<"x", "open">>, 1)>>,
               <<D("B", <<"x">>, 1), D("A", <<"x", "open">>, Unknown)>>}
MCDeferred == {<<D("A", <<"x", "open">>, Unknown)>>}
MCDrafts == {D("A", <<"x", "open">>, 1), D("B", <<"x">>, 1)}
MCBundles == {<<D("A", <<"x", "open">>, 1)>>,
              <<D("B", <<"x">>, 1), D("A", <<"x", "open">>, 1)>>}
RequestSymmetry == Permutations(Requests)
=============================================================================
