---------------------------- MODULE MCDraftStore ----------------------------
EXTENDS DraftStore, TLC
MCTokens == {"open", "x", "y"}
D(id, tokens, prompt) ==
  [identity |-> id, tokens |-> tokens, boundary |-> <<"open">>, prompt |-> prompt]
A == D("A", <<"x", "y", "x">>, 1)
B == D("B", <<"y">>, 1)
MCDrafts == {A, B}
MCBundles == {<<A>>, <<B, A, B>>}
MCPrompts == {<<"open">>}
RequestSymmetry == Permutations(Requests)
=============================================================================
