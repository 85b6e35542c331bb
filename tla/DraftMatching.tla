---------------------------- MODULE DraftMatching ----------------------------
(***************************************************************************)
(* The pure functions of drafts/store.py: how the store finds a boundary   *)
(* in the tokens a target model has generated, what it takes for the body  *)
(* that follows it, and what it decides about one registered candidate.    *)
(* Tokens are opaque; a sequence of tokens is a TLA+ sequence.             *)
(***************************************************************************)
EXTENDS Integers, Sequences, FiniteSetsExt

\* min(a, b), as the slices of the code use it.
Least(a, b) == IF a <= b THEN a ELSE b

\* s[:n]: the first n elements, or all of them when there are fewer.
Take(s, n) == SubSeq(s, 1, Least(n, Len(s)))

\* s is an initial part of t.
Begins(s, t) == /\ Len(s) <= Len(t)
                /\ \A i \in 1..Len(s) : s[i] = t[i]

-----------------------------------------------------------------------------
\* The 0-based positions of `sequence` at which `needle` occurs. The scan of
\* _last_subsequence walks them downwards and stops at the first, the largest.
Occurrences(sequence, needle) ==
  {i \in 0..(Len(sequence) - Len(needle)) :
     \A k \in 1..Len(needle) : sequence[i + k] = needle[k]}

\* _last_subsequence: where the last occurrence begins (there must be one).
LastSubsequence(sequence, needle) == Max(Occurrences(sequence, needle))

\* _common_prefix_length: how far two sequences agree from the start.
CommonPrefixLength(left, right) ==
  Max({n \in 0..Len(left) : Begins(Take(left, n), right)})

-----------------------------------------------------------------------------
\* The tokens a candidate looks at: those after its prompt, which the client
\* counted and which may be longer than the sequence the engine reports.
Generated(sequence, promptTokenCount) ==
  SubSeq(sequence, Least(promptTokenCount, Len(sequence)) + 1, Len(sequence))

\* The tokens generated after the last boundary.
GeneratedBody(generated, boundary) ==
  SubSeq(generated,
         LastSubsequence(generated, boundary) + Len(boundary) + 1,
         Len(generated))

\* What `offer` decides about a candidate that has not fired: it waits for its
\* boundary, is retired (the target is past the injection window, has left the
\* draft, or has written all of it), or can propose the rest of its tokens.
Verdict(sequence, candidate, injectWindow) ==
  LET generated == Generated(sequence, candidate.prompt)
      found     == Occurrences(generated, candidate.boundary) # {}
      body      == GeneratedBody(generated, candidate.boundary)
      inWindow  == Len(body) <= injectWindow
      follows   == Begins(body, candidate.tokens)
      whole     == Len(body) = Len(candidate.tokens)
  IN CASE ~found                                    -> "waiting"
       [] found /\ ~inWindow                        -> "stale"
       [] found /\ inWindow /\ ~follows             -> "divergent"
       [] found /\ inWindow /\ follows /\ whole     -> "exhausted"
       [] found /\ inWindow /\ follows /\ ~whole    -> "proposable"

\* Variant of Continuation: the body already generated is proposed again.
ContinuationFromStart(sequence, candidate, limit) ==
  Take(candidate.tokens, limit)

\* remaining[:limit]: what a proposable candidate proposes.
Continuation(sequence, candidate, limit) ==
  LET body == GeneratedBody(Generated(sequence, candidate.prompt),
                            candidate.boundary)
  IN Take(SubSeq(candidate.tokens, Len(body) + 1, Len(candidate.tokens)), limit)
=============================================================================
